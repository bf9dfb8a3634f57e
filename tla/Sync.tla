--------------------------------- MODULE Sync ---------------------------------
(***************************************************************************)
(* Incremental synchronisation: operations of a device reach the server at *)
(* least once and take effect once, every effect is a row of the change    *)
(* log, and the engine of a page pulls the rows after its cursor when a    *)
(* timer, a socket hint or the page itself wakes it up. The rows are the   *)
(* changes of one member; a row is its sequence number, which is drawn     *)
(* inside the transaction that commits it later. Queue and engine meet in  *)
(* the log only, so that a behaviour is about one of the two.              *)
(***************************************************************************)
EXTENDS Integers, Sequences, FiniteSets, FiniteSetsExt

CONSTANTS
  Ops,          \* the operations a device may queue: [id, kind, base]
  Others,       \* other requests that record a change of this member
  PullLimit,    \* rows of a page
  MaxRows,      \* rows of the log
  MaxFloor,     \* how far old rows are dropped from the log
  MaxFaults     \* how many requests fail

VARIABLES
  scope,        \* what a behaviour is about: the "queue" of a device or the "engine" of a page
  queue,        \* operations the device has not seen acknowledged
  arriving,     \* operations on their way to the server
  outcome,      \* sync.pending_operations: the stored outcome of an operation
  history,      \* the operations that took effect, in order
  favorite,     \* whether the event is a favorite
  version,      \* of the profile
  nextSeq,      \* sequence sync.change_log.seq
  open,         \* transactions that have drawn a number and not committed: [what, seq]
  log,          \* committed rows
  floor,        \* rows up to this one were dropped
  cursor,       \* the engine's cursor, in the browser's storage
  pull,         \* the pull in flight
  pending,      \* pendingPullReason
  page,         \* visibility, socket and poll timer of the page
  mail,         \* the newest row a hint on its way announces
  announced,    \* the newest row that a hint has announced to the engine
  seen,         \* rows the listeners were given
  faults

server == <<outcome, history, favorite, version, nextSeq, open, log, floor>>
device == <<queue, arriving>>
engine == <<cursor, pull, pending, page, announced, seen>>
vars == <<scope, device, server, engine, mail, faults>>

NoPull == [at |-> "none", cursor |-> 0, rows |-> {}, more |-> FALSE]

Init ==
  /\ scope \in {"queue", "engine"}
  /\ queue = {} /\ arriving = {} /\ outcome = {} /\ history = <<>>
  /\ favorite = FALSE /\ version = 1
  /\ nextSeq = 1 /\ open = {} /\ log = {} /\ floor = 0
  /\ cursor = 0 /\ pull = NoPull /\ pending = FALSE
  /\ page = [visible |-> FALSE, socket |-> FALSE, polling |-> FALSE]
  /\ mail = 0 /\ announced = 0 /\ seen = {} /\ faults = 0

-----------------------------------------------------------------------------
(* The device's queue *)

Enqueue(op) ==
  /\ \A o \in queue : o.id # op.id
  /\ \A r \in outcome : r.op.id # op.id
  /\ queue' = queue \cup {op}
  /\ UNCHANGED <<arriving, server, engine, mail, faults>>

\* Sent for as long as no answer was received.
Push(op) ==
  /\ op \in queue
  /\ arriving' = arriving \cup {op}
  /\ UNCHANGED <<queue, server, engine, mail, faults>>

-----------------------------------------------------------------------------
(* Applying an operation *)

Stored(op) == {r \in outcome : r.op.id = op.id}

InProgress(op) == \E t \in open : t.what = op.id

\* What the operation does: a profile patch needs the version it was written against.
Effect(op) ==
  IF op.kind = "patch"
  THEN /\ version' = IF op.base = version THEN version + 1 ELSE version
       /\ favorite' = favorite
  ELSE favorite' = (op.kind = "put") /\ version' = version

Conflicts(op) == op.kind = "patch" /\ op.base # version

\* The operation's row is inserted, it takes effect and draws the number of its change. A
\* batch is applied one operation after the other.
BeginOperation(op) ==
  /\ op \in arriving /\ ~InProgress(op)
  /\ Stored(op) = {} /\ ~Conflicts(op)
  /\ \A t \in open : t.what \in Others
  /\ open' = open \cup {[what |-> op.id, seq |-> nextSeq]} /\ nextSeq' = nextSeq + 1
  /\ Effect(op)
  /\ history' = Append(history, op)
  /\ UNCHANGED <<device, outcome, log, floor, engine, mail, faults>>

\* Hints go out for what is committed.
Commits(t) ==
  /\ open' = open \ {t} /\ log' = log \cup {t.seq}
  /\ mail' = IF page.socket THEN Max({mail, t.seq}) ELSE mail

\* The device keeps an operation until it hears that it was applied: a conflict is asked about
\* again with every batch.
Answer(op, state) ==
  /\ arriving' = arriving \ {op}
  /\ \/ queue' = (IF state = "applied" THEN queue \ {op} ELSE queue) /\ faults' = faults
     \/ queue' = queue /\ faults < MaxFaults /\ faults' = faults + 1

CommitOperation(op) ==
  /\ \E t \in open : t.what = op.id /\ Commits(t)
  /\ outcome' = outcome \cup {[op |-> op, state |-> "applied"]}
  /\ Answer(op, "applied")
  /\ UNCHANGED <<history, favorite, version, nextSeq, floor, engine>>

\* A conflict is an outcome too, and is kept without an effect.
Conflict(op) ==
  /\ op \in arriving /\ ~InProgress(op) /\ Stored(op) = {} /\ Conflicts(op)
  /\ outcome' = outcome \cup {[op |-> op, state |-> "conflict"]}
  /\ Answer(op, "conflict")
  /\ UNCHANGED <<history, favorite, version, nextSeq, open, log, floor, engine, mail>>

Replay(op) ==
  /\ op \in arriving /\ ~InProgress(op) /\ Stored(op) # {}
  /\ \E r \in Stored(op) : Answer(op, r.state)
  /\ UNCHANGED <<server, engine, mail>>

\* Any other request that records a change: a registration, a follow, a notice.
BeginOther(o) ==
  /\ \A t \in open : t.what # o
  /\ nextSeq <= MaxRows
  /\ open' = open \cup {[what |-> o, seq |-> nextSeq]} /\ nextSeq' = nextSeq + 1
  /\ UNCHANGED <<device, outcome, history, favorite, version, log, floor, engine, mail, faults>>

CommitOther(o) ==
  /\ \E t \in open : t.what = o /\ Commits(t)
  /\ UNCHANGED <<device, outcome, history, favorite, version, nextSeq, floor, engine, faults>>

\* Old rows are dropped outside of the code; it only answers cursors from before.
DropOldRows ==
  /\ floor < MaxFloor /\ floor + 1 \in log
  /\ floor' = floor + 1
  /\ UNCHANGED <<device, outcome, history, favorite, version, nextSeq, open, log, engine, mail, faults>>

-----------------------------------------------------------------------------
(* The engine of a page *)

\* readCursor and writeCursor: the cursor of a member survives the page.
ReadCursor == cursor
WriteCursor(row) == cursor' = row

StartPull == [NoPull EXCEPT !.at = "asked", !.cursor = ReadCursor]

WakeWithoutMemory ==
  IF pull.at = "none"
  THEN pull' = StartPull /\ pending' = pending
  ELSE UNCHANGED <<pull, pending>>

\* pull(): one at a time, a reason that arrives meanwhile is remembered.
Wake ==
  IF pull.at = "none"
  THEN pull' = StartPull /\ pending' = pending
  ELSE pull' = pull /\ pending' = TRUE

\* The page is shown: it polls until the socket is open, and catches up.
Activate ==
  /\ ~page.visible
  /\ page' = [visible |-> TRUE, socket |-> FALSE, polling |-> TRUE]
  /\ Wake
  /\ UNCHANGED <<device, server, cursor, announced, seen, mail, faults>>

Deactivate ==
  /\ page.visible
  /\ page' = [visible |-> FALSE, socket |-> FALSE, polling |-> FALSE]
  /\ mail' = 0
  /\ UNCHANGED <<device, server, cursor, pull, pending, announced, seen, faults>>

SocketOpens ==
  /\ page.visible /\ ~page.socket
  /\ page' = [page EXCEPT !.socket = TRUE, !.polling = FALSE]
  /\ Wake
  /\ UNCHANGED <<device, server, cursor, announced, seen, mail, faults>>

SocketDrops ==
  /\ page.socket /\ faults < MaxFaults
  /\ page' = [page EXCEPT !.socket = FALSE, !.polling = TRUE]
  /\ mail' = 0 /\ faults' = faults + 1
  /\ UNCHANGED <<device, server, cursor, pull, pending, announced, seen>>

Poll ==
  /\ page.polling /\ Wake
  /\ UNCHANGED <<device, server, cursor, page, announced, seen, mail, faults>>

\* A hint says that there is something new, and nothing else.
Hint ==
  /\ mail > 0
  /\ mail' = 0 /\ announced' = Max({announced, mail})
  /\ Wake
  /\ UNCHANGED <<device, server, cursor, page, seen, faults>>

-----------------------------------------------------------------------------
(* A pull *)

Kept == {s \in log : s > floor}
After(c) == {s \in Kept : s > c}

Expired(c) == c > 0 /\ Kept # {} /\ c < Min(Kept) - 1

\* The first PullLimit rows after the cursor.
PageOf(rows) == {s \in rows : Cardinality({r \in rows : r <= s}) <= PullLimit}

ServePull ==
  /\ pull.at = "asked"
  /\ pull' = IF Expired(pull.cursor)
             THEN [pull EXCEPT !.at = "expired", !.cursor = Min(Kept) - 1]
             ELSE [pull EXCEPT !.at = "served", !.rows = PageOf(After(pull.cursor)),
                     !.more = After(pull.cursor) # PageOf(After(pull.cursor))]
  /\ UNCHANGED <<device, server, cursor, pending, page, announced, seen, mail, faults>>

\* What finally() does: a wake-up that arrived during the pull starts the next one.
Finish(from) ==
  /\ pending' = FALSE
  /\ pull' = IF pending THEN [NoPull EXCEPT !.at = "asked", !.cursor = from] ELSE NoPull

\* The listeners are given the page, then the cursor moves.
TakePage ==
  LET next == IF pull.rows = {} THEN pull.cursor ELSE Max(pull.rows) IN
  /\ pull.at = "served"
  /\ seen' = seen \cup pull.rows
  /\ WriteCursor(next)
  /\ IF pull.more
     THEN pull' = [NoPull EXCEPT !.at = "asked", !.cursor = next] /\ pending' = pending
     ELSE Finish(next)
  /\ UNCHANGED <<device, server, page, announced, mail, faults>>

\* The cursor is behind what the server still has: it jumps to what there is.
TakeExpired ==
  /\ pull.at = "expired"
  /\ WriteCursor(pull.cursor)
  /\ pull' = [NoPull EXCEPT !.at = "asked", !.cursor = pull.cursor]
  /\ UNCHANGED <<device, server, pending, page, announced, seen, mail, faults>>

\* The request fails, or the session has changed meanwhile; what was announced is left to the
\* next wake-up.
FailPull ==
  /\ pull.at # "none" /\ faults < MaxFaults
  /\ faults' = faults + 1
  /\ Finish(ReadCursor)
  /\ announced' = IF pending THEN announced ELSE 0
  /\ UNCHANGED <<device, server, cursor, page, seen, mail>>

QueueStep ==
  \E op \in Ops :
    Enqueue(op) \/ Push(op) \/ BeginOperation(op) \/ CommitOperation(op) \/ Conflict(op) \/ Replay(op)

EngineStep ==
  \/ DropOldRows
  \/ Activate \/ Deactivate \/ SocketOpens \/ SocketDrops \/ Poll \/ Hint
  \/ ServePull \/ TakePage \/ TakeExpired \/ FailPull

Next ==
  /\ UNCHANGED scope
  /\ \/ scope = "queue" /\ QueueStep
     \/ scope = "engine" /\ EngineStep
     \/ \E o \in Others : BeginOther(o) \/ CommitOther(o)

Spec == Init /\ [][Next]_vars

-----------------------------------------------------------------------------
(* Properties *)

\* An operation that is sent until it is acknowledged takes effect once: the favorite is what
\* the last first-time operation made it, and every effect is a row of the log.
OperationsApplyOnce ==
  /\ \A i, j \in DOMAIN history : history[i].id = history[j].id => i = j
  /\ favorite = \E i \in DOMAIN history :
                  history[i].kind = "put" /\ \A j \in DOMAIN history : j > i => history[j].kind = "patch"
  /\ version = 1 + Cardinality({i \in DOMAIN history : history[i].kind = "patch"})

\* When the engine rests, its cursor has reached whatever a hint announced to it, also when
\* the hint arrived during a pull that was served before the row was committed, unless the row
\* is no longer kept.
AnnouncedIsCovered == pull.at = "none" => cursor >= announced \/ announced <= floor

=============================================================================
