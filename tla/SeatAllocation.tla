--------------------------- MODULE SeatAllocation ---------------------------
(***************************************************************************)
(* What the seats of an event promise, whatever the statuses, holds,       *)
(* offers and counters behind them: a claim of a fixed number of heads     *)
(* either holds its seats or does not, claims leave freely, and a claim is *)
(* admitted only when everyone admitted fits the capacity of that moment.  *)
(* The capacity itself may be changed at will, so the promise is about     *)
(* admissions, not about the number of seats held.                         *)
(***************************************************************************)
EXTENDS Naturals, FiniteSets

CONSTANTS
  Claims,       \* those who may ask for seats
  MaxSize,      \* the most heads a claim has
  MaxCapacity   \* the largest capacity an event may have

VARIABLES
  capacity,     \* seats of the event
  holders,      \* the claims that hold their seats
  size          \* the heads of each claim; of no meaning before it asks

vars == <<capacity, holders, size>>

SeatsTaken(H, sz) == Cardinality({s \in H \X (1..MaxSize) : s[2] <= sz[s[1]]})

Init ==
  /\ capacity \in 1..MaxCapacity
  /\ holders = {}
  /\ size \in [Claims -> 1..MaxSize]

\* A claim that holds nothing says how many heads it stands for.
Ask(c) ==
  /\ c \notin holders
  /\ \E n \in 1..MaxSize : size' = [size EXCEPT ![c] = n]
  /\ UNCHANGED <<capacity, holders>>

\* Some claims give their seats back.
Leave ==
  /\ holders' \in SUBSET holders
  /\ UNCHANGED <<capacity, size>>

\* One claim is let in, after any others have left: everyone must fit.
Admit(c) ==
  /\ \E gone \in SUBSET holders : holders' = (holders \ gone) \cup {c}
  /\ \E n \in 1..MaxSize : /\ c \in holders => n = size[c]
                           /\ size' = [size EXCEPT ![c] = n]
  /\ SeatsTaken(holders', size') <= capacity
  /\ UNCHANGED capacity

\* The organiser changes the capacity, even below what is held.
SetCapacity ==
  /\ capacity' \in 1..MaxCapacity
  /\ UNCHANGED <<holders, size>>

Next == (\E c \in Claims : Ask(c) \/ Admit(c)) \/ Leave \/ SetCapacity

Spec == Init /\ [][Next]_vars
=============================================================================
