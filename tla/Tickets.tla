------------------------------- MODULE Tickets -------------------------------
(***************************************************************************)
(* The ticket tiers of an event and the payments outside the platform that *)
(* are noted on its registrations. The organiser defines and edits tiers   *)
(* on several devices; a tier discloses its price and terms or is free.    *)
(* Which seat a registration gets is another part's matter: here it takes  *)
(* its place at once or waits for it, one head each.                       *)
(***************************************************************************)
EXTENDS Integers, FiniteSets

CONSTANTS
  Tiers,      \* ids of events.ticket_types
  Buyers,     \* the registrants of the event
  Devices,    \* those of the organiser
  Amounts,    \* positive prices
  Quotas,     \* headcount ceilings
  Limit       \* ticketing.max_types_per_event

VARIABLES
  tiers,      \* events.ticket_types: NoTier, or the row
  fee,        \* events.event_fees.is_free: "free" or "paid"
  creating,   \* the tier a device is creating, between its count and its insert
  place,      \* a buyer's registration: seat, tier and the payment noted on it
  reported,   \* payment_self_reported_at is set
  confirmed   \* payment_confirmed_at is set

vars == <<tiers, fee, creating, place, reported, confirmed>>

Terms == {"collector", "method", "policy"}
NoTier == [money |-> "none"]
Idle == [sort |-> 0, row |-> NoTier]
NoPlace == [seat |-> "none", tier |-> "none"]

\* What a request may carry: 0 and "keep" stand for a field that is not given. A term given
\* as a blank is refused or changes nothing, and is left out.
Inputs(moneys, actives) ==
  [money : moneys, amount : {0} \cup Amounts, terms : {{}, {"collector", "method"}, Terms},
   quota : {0} \cup Quotas, active : actives]

Rows == {t \in Tiers : tiers[t] # NoTier}
Active == {t \in Rows : tiers[t].active = "on"}
Holders(t) == {b \in Buyers : place[b].seat = "held" /\ place[b].tier = t}

\* sold_count, one head a holder.
SoldCount(t) == Cardinality(Holders(t))

Init ==
  /\ tiers = [t \in Tiers |-> NoTier] /\ fee \in {"free", "paid"}
  /\ creating = [d \in Devices |-> Idle]
  /\ place = [b \in Buyers |-> NoPlace]
  /\ reported = {} /\ confirmed = {}

-----------------------------------------------------------------------------
(* The organiser's tiers *)

\* normalize: a free tier has neither a price nor someone who collects it, a paid one all of it.
Accepted(row) ==
  IF row.money = "free" THEN row.amount = 0 /\ row.terms \cap {"collector", "method"} = {}
                        ELSE row.amount > 0 /\ row.terms = Terms

Disclosed(row) == IF row.money = "free" THEN [row EXCEPT !.amount = 0, !.terms = {}] ELSE row

\* create: the tiers are counted without a lock, and the new one goes after the last.
CountTiers(d) ==
  /\ creating[d] = Idle /\ Cardinality(Rows) < Limit
  /\ \E input \in Inputs({"free", "paid"}, {"on"}) :
       /\ Accepted(input)
       /\ creating' = [creating EXCEPT ![d] = [sort |-> Cardinality(Rows) + 1, row |-> Disclosed(input)]]
  /\ UNCHANGED <<tiers, fee, place, reported, confirmed>>

\* UNIQUE (event_id, sort_order): tiers are never deleted, so the place after the last of those
\* counted is free or another tier was created since.
SortIsFree(d) == Cardinality(Rows) < creating[d].sort

InsertTier(d) ==
  /\ creating[d] # Idle
  /\ creating' = [creating EXCEPT ![d] = Idle]
  /\ \/ \E t \in Tiers \ Rows : SortIsFree(d) /\ tiers' = [tiers EXCEPT ![t] = creating[d].row]
     \/ ~SortIsFree(d) /\ tiers' = tiers
  /\ UNCHANGED <<fee, place, reported, confirmed>>

\* What a request leaves out stays as the locked row has it.
Merged(row, input) ==
  [money |-> IF input.money = "keep" THEN row.money ELSE input.money,
   amount |-> IF input.amount = 0 THEN row.amount ELSE input.amount,
   terms |-> row.terms \cup input.terms,
   quota |-> IF input.quota = 0 THEN row.quota ELSE input.quota,
   active |-> IF input.active = "keep" THEN row.active ELSE input.active]

\* Mutant: a free tier loses the price and the terms it had, unseen.
Merged_Cleared(row, input) ==
  IF input.money = "free" THEN [Merged(row, input) EXCEPT !.amount = input.amount, !.terms = input.terms]
  ELSE Merged(row, input)
Patched(row, input) == Merged(row, input)

UpdateTier(t) ==
  /\ t \in Rows
  /\ \E input \in Inputs({"free", "paid", "keep"}, {"on", "off", "keep"}) :
       LET row == Patched(tiers[t], input) IN
         /\ Accepted(row)
         /\ row.quota # 0 => row.quota >= SoldCount(t)
         /\ tiers' = [tiers EXCEPT ![t] = Disclosed(row)]
  /\ tiers' # tiers
  /\ UNCHANGED <<fee, creating, place, reported, confirmed>>

\* The fee of the event itself is saved with the event.
ChangeFee ==
  /\ fee' = IF fee = "free" THEN "paid" ELSE "free"
  /\ UNCHANGED <<tiers, creating, place, reported, confirmed>>

-----------------------------------------------------------------------------
(* The registrants *)

HasRoom(t) == tiers[t].quota # 0 => SoldCount(t) < tiers[t].quota

\* toView: a tier that is shown offers itself while it has room.
SelectTicket(t) == t \in Active /\ HasRoom(t)

\* register, with a tier where there is an active one.
Register(b) ==
  /\ place[b] = NoPlace
  /\ \E seat \in {"held", "waiting"} :
       \/ \E t \in Tiers : SelectTicket(t) /\ place' = [place EXCEPT ![b] = [seat |-> seat, tier |-> t]]
       \/ Active = {} /\ place' = [place EXCEPT ![b].seat = seat]
  /\ UNCHANGED <<tiers, fee, creating, reported, confirmed>>

\* acceptWaitlist: the tier chosen then, whatever became of it but for its room.
TakeSeat(b) ==
  /\ place[b].seat = "waiting" /\ (place[b].tier # "none" => HasRoom(place[b].tier))
  /\ place' = [place EXCEPT ![b].seat = "held"]
  /\ UNCHANGED <<tiers, fee, creating, reported, confirmed>>

GiveUp(b) ==
  /\ place[b].seat \in {"held", "waiting"}
  /\ place' = [place EXCEPT ![b].seat = "gone"]
  /\ UNCHANGED <<tiers, fee, creating, reported, confirmed>>

\* Something is to be paid: by the tier where there is one, by the event's fee otherwise.
Owes(b) == IF place[b].tier # "none" THEN tiers[place[b].tier].money = "paid" ELSE fee = "paid"

ReportPayment(b) ==
  /\ place[b].seat = "held" /\ Owes(b) /\ b \notin reported
  /\ reported' = reported \cup {b}
  /\ UNCHANGED <<tiers, fee, creating, place, confirmed>>

\* confirmPayment asks neither for a report nor for a price.
ConfirmPayment(b) ==
  /\ place[b].seat = "held" /\ b \notin confirmed
  /\ confirmed' = confirmed \cup {b}
  /\ UNCHANGED <<tiers, fee, creating, place, reported>>

Next ==
  \/ ChangeFee
  \/ \E d \in Devices : CountTiers(d) \/ InsertTier(d)
  \/ \E t \in Tiers : UpdateTier(t)
  \/ \E b \in Buyers : Register(b) \/ TakeSeat(b) \/ GiveUp(b) \/ ReportPayment(b) \/ ConfirmPayment(b)

Spec == Init /\ [][Next]_vars

-----------------------------------------------------------------------------
(* Properties *)

\* A holder of a tier who reported a payment still finds the price, the collector, the method and
\* the refund policy it was made under: a tier that was ever paid cannot be turned into a free
\* one, because a request cannot take its price away (update, reportPayment). The event's own
\* fee can be, so a registration without a tier is excepted.
PaymentsHaveTerms ==
  \A b \in reported : place[b].tier # "none" =>
    LET row == tiers[place[b].tier] IN row.money = "paid" /\ row.amount > 0 /\ row.terms = Terms

\* Two devices that count at the same moment do not exceed the limit together, although the count
\* takes no lock: the unique place in the order refuses the second (create).
LimitHolds == Cardinality(Rows) <= Limit

=============================================================================
