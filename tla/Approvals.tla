------------------------------ MODULE Approvals ------------------------------
(***************************************************************************)
(* What an operator may only do with a colleague's consent: adjusting the  *)
(* points of a member, changing the configuration, exporting data. Each    *)
(* desk keeps a table of requested items; an operator asks through a       *)
(* dialog, whose idempotency key lasts as long as the dialog, and an       *)
(* answer can get lost on the way, so that the dialog is sent again, its   *)
(* fields perhaps edited. A behaviour works at one desk: the tables share  *)
(* nothing. MaxItems bounds the rows, MaxDialogs the dialogs, MaxLost the  *)
(* requests and answers that do not arrive in time.                        *)
(***************************************************************************)
EXTENDS Integers, Sequences, FiniteSets, FiniteSetsExt

CONSTANTS Operators, Amounts, LargeFrom, StartBalance, MaxDownloads, MaxItems, MaxDialogs,
  MaxLost

VARIABLES
  desk,         \* "points", "config" or "exports"
  items,        \* the rows of the desk's table, in the order they were asked for
  wallet,       \* the balance of the member whose points are adjusted
  keys,         \* how many dialogs an operator has opened: the key of the last one
  dialog,       \* the dialog an operator has open, if any
  sent,         \* requests on their way to the server
  claims,       \* sync.idempotency_keys: the requests that were carried out
  lost,         \* how many requests or answers got lost
  activation    \* an operator's activation that has not committed yet

vars == <<desk, items, wallet, keys, dialog, sent, claims, lost, activation>>

Closed == [op |-> "none"]
NoActivation == [item |-> 0]

Init ==
  /\ desk \in {"points", "config", "exports"}
  /\ items = <<>> /\ wallet = StartBalance
  /\ keys = [o \in Operators |-> 0] /\ dialog = [o \in Operators |-> Closed]
  /\ sent = {} /\ claims = {} /\ lost = 0
  /\ activation = [o \in Operators |-> NoActivation]

\* What the desk's page offers for a row. It also hides a requester's own rows, which the
\* server does not rely on.
Offered(item) ==
  CASE item.state = "pending" -> {"approve"} \cup (IF desk = "config" THEN {} ELSE {"reject"})
    [] item.state = "approved" -> {IF desk = "points" THEN "execute" ELSE "activate"}
    [] item.state \in {"active", "superseded"} -> {"rollback"}
    [] OTHER -> {}

-----------------------------------------------------------------------------
(* The browser *)

Fields(op) == IF op = "create" /\ desk = "points" THEN Amounts ELSE {0}

Request(o, d, amount) == [by |-> o, key |-> d.key, op |-> d.op, item |-> d.item, amount |-> amount]

\* A new dialog draws a new key and keeps it, whatever is filled in; it is sent once filled in.
OpenDialog(o) ==
  /\ dialog[o] = Closed
  /\ MapThenSumSet(LAMBDA p : keys[p], Operators) < MaxDialogs
  /\ \E i \in 0..Len(items) : \E op \in IF i = 0 THEN {"create"} ELSE Offered(items[i]) :
       LET d == [op |-> op, item |-> i, key |-> keys[o] + 1, waiting |-> TRUE] IN
       /\ dialog' = [dialog EXCEPT ![o] = d]
       /\ \E amount \in Fields(op) : sent' = sent \cup {Request(o, d, amount)}
  /\ keys' = [keys EXCEPT ![o] = @ + 1]
  /\ UNCHANGED <<desk, items, wallet, claims, lost, activation>>

\* The form is sent again with what it holds by now.
Resubmit(o) ==
  LET d == dialog[o] IN
  /\ d # Closed /\ ~d.waiting
  /\ \E amount \in Fields(d.op) : sent' = sent \cup {Request(o, d, amount)}
  /\ dialog' = [dialog EXCEPT ![o] = [d EXCEPT !.waiting = TRUE]]
  /\ UNCHANGED <<desk, items, wallet, keys, claims, lost, activation>>

\* The connection breaks: the dialog shows an error, the request may still arrive.
GiveUp(o) ==
  /\ dialog[o] # Closed /\ dialog[o].waiting /\ lost < MaxLost
  /\ lost' = lost + 1
  /\ \E q \in sent : q.by = o /\ q.key = dialog[o].key
  /\ dialog' = [dialog EXCEPT ![o].waiting = FALSE]
  /\ UNCHANGED <<desk, items, wallet, keys, sent, claims, activation>>

CloseDialog(o) ==
  /\ dialog[o] # Closed /\ ~dialog[o].waiting
  /\ dialog' = [dialog EXCEPT ![o] = Closed]
  /\ UNCHANGED <<desk, items, wallet, keys, sent, claims, lost, activation>>

\* A success closes the dialog it answers; an error, or an answer that is lost, leaves it open.
Answered(q, success) ==
  dialog' = IF dialog[q.by] # Closed /\ dialog[q.by].key = q.key
            THEN [dialog EXCEPT ![q.by] = IF success THEN Closed ELSE [@ EXCEPT !.waiting = FALSE]]
            ELSE dialog

Arrives(q) ==
  \/ Answered(q, TRUE) /\ lost' = lost
  \/ Answered(q, FALSE) /\ lost < MaxLost /\ lost' = lost + 1

-----------------------------------------------------------------------------
(* What the server does for a request it has not carried out before *)

Required(amount) ==
  IF amount >= LargeFrom \/ -amount >= LargeFrom THEN 2 ELSE 1

\* Rows an activation holds until it commits.
Locked(i) ==
  \E o \in Operators : activation[o] # NoActivation /\ i \in activation[o].old \cup {activation[o].item}

NewItem(q, amount) ==
  [by |-> q.by, amount |-> amount, state |-> "pending", approvers |-> {}, used |-> 0, window |-> "always"]

\* A configuration revision may have a window; an export expires.
Windows ==
  CASE desk = "config" -> {"early", "open"}
    [] desk = "exports" -> {"open"}
    [] OTHER -> {"always"}

Create(q) ==
  /\ q.op = "create" /\ Len(items) < MaxItems
  /\ \E w \in Windows : items' = Append(items, [NewItem(q, q.amount) EXCEPT !.window = w])
  /\ wallet' = wallet

MayDecideOwn(q, item) == item.state = "pending" /\ q.by \notin item.approvers

\* A colleague of the requester, once each.
MayDecide(q, item) ==
  /\ item.by # q.by
  /\ item.state = "pending"
  /\ q.by \notin item.approvers

\* approveExport: one colleague decides.
Released(q, item) == [item EXCEPT !.state = "ready", !.approvers = @ \cup {q.by}]

Decided(q, item) ==
  LET approvers == item.approvers \cup {q.by} IN
  CASE q.op = "reject" -> [item EXCEPT !.state = "rejected"]
    [] q.op = "approve" /\ desk = "exports" -> Released(q, item)
    [] OTHER -> [item EXCEPT !.approvers = approvers,
                   !.state = IF Cardinality(approvers) >= Required(item.amount) THEN "approved" ELSE @]

Decide(q) ==
  /\ q.op \in {"approve", "reject"}
  /\ MayDecide(q, items[q.item])
  /\ items' = [items EXCEPT ![q.item] = Decided(q, @)]
  /\ wallet' = wallet

\* The adjustment is posted to the ledger under a business key of its own.
Execute(q) ==
  /\ q.op = "execute"
  /\ items[q.item].state = "approved"
  /\ wallet + items[q.item].amount >= 0
  /\ wallet' = wallet + items[q.item].amount
  /\ items' = [items EXCEPT ![q.item].state = "executed", ![q.item].used = @ + 1]

Rollback(q) ==
  /\ q.op = "rollback" /\ Len(items) < MaxItems
  /\ items' = Append(items, NewItem(q, items[q.item].amount))
  /\ wallet' = wallet

Perform(q) ==
  \/ Create(q)
  \/ Decide(q)
  \/ Execute(q)
  \/ Rollback(q)

-----------------------------------------------------------------------------
(* One request, one transaction *)

Earlier(q) == {c \in claims : c.by = q.by /\ c.key = q.key}

\* The key was used: the same request is answered as before, another one is refused.
Replay(q) ==
  /\ q \in sent /\ Earlier(q) # {}
  /\ Answered(q, q \in Earlier(q))
  /\ sent' = sent \ {q}
  /\ UNCHANGED <<desk, items, wallet, keys, claims, lost, activation>>

Carry(q) ==
  /\ q \in sent /\ Earlier(q) = {} /\ ~Locked(q.item)
  /\ Perform(q)
  /\ claims' = claims \cup {q}
  /\ sent' = sent \ {q}
  /\ Arrives(q)
  /\ UNCHANGED <<desk, keys, activation>>

\* A refused request is rolled back with its claim of the key.
Refuse(q) ==
  /\ q \in sent /\ Earlier(q) = {} /\ ~Locked(q.item)
  /\ CASE q.op \in {"approve", "reject"} -> ~MayDecide(q, items[q.item])
       [] q.op = "execute" -> items[q.item].state # "approved" \/ wallet + items[q.item].amount < 0
       [] q.op = "activate" -> items[q.item].state # "approved"
       [] OTHER -> FALSE
  /\ Answered(q, FALSE)
  /\ sent' = sent \ {q}
  /\ UNCHANGED <<desk, items, wallet, keys, claims, lost, activation>>

-----------------------------------------------------------------------------
(* Activating a configuration revision takes several statements *)

Actives == {i \in 1..Len(items) : items[i].state = "active"}

\* The revision is locked and the active revisions that are committed by now are superseded.
ActivateBegin(q) ==
  /\ q \in sent /\ q.op = "activate" /\ Earlier(q) = {}
  /\ activation[q.by] = NoActivation
  /\ ~Locked(q.item) /\ \A i \in Actives : ~Locked(i)
  /\ items[q.item].state = "approved"
  /\ activation' = [activation EXCEPT ![q.by] = [item |-> q.item, old |-> Actives, request |-> q]]
  /\ sent' = sent \ {q}
  /\ UNCHANGED <<desk, items, wallet, keys, dialog, claims, lost>>

Superseded(olds, i) ==
  [j \in 1..Len(items) |->
     [items[j] EXCEPT !.state = IF j = i THEN "active" ELSE IF j \in olds THEN "superseded" ELSE @]]

ActivateCommit(o) ==
  LET a == activation[o] IN
  /\ a # NoActivation
  /\ items' = Superseded(a.old, a.item)
  /\ claims' = claims \cup {a.request}
  /\ activation' = [activation EXCEPT ![o] = NoActivation]
  /\ Arrives(a.request)
  /\ UNCHANGED <<desk, wallet, keys, sent>>

\* The worker activates the latest approved revision whose window is open, and retires the
\* active ones whose window is over.
WorkerActivates ==
  LET ready == {i \in 1..Len(items) :
                  items[i].state = "approved" /\ items[i].window \in {"open", "always"} /\ ~Locked(i)}
      olds == (Actives \cup ready) \ {Max(ready)}
  IN
  /\ desk = "config" /\ \A i \in Actives : ~Locked(i)
  /\ \/ ready # {} /\ items' = Superseded(olds, Max(ready))
     \/ /\ ready = {}
        /\ \E i \in Actives : items[i].window = "over"
        /\ items' = [i \in 1..Len(items) |->
             IF i \in Actives /\ items[i].window = "over"
             THEN [items[i] EXCEPT !.state = "superseded"] ELSE items[i]]
  /\ UNCHANGED <<desk, wallet, keys, dialog, sent, claims, lost, activation>>

\* The window of an item opens or closes.
WindowMoves(i) ==
  /\ items[i].window \in {"early", "open"} /\ ~Locked(i)
  /\ items' = [items EXCEPT ![i].window = IF @ = "early" THEN "open" ELSE "over"]
  /\ UNCHANGED <<desk, wallet, keys, dialog, sent, claims, lost, activation>>

-----------------------------------------------------------------------------
\* A download ticket has no key: every request for one counts.
Download(i) ==
  /\ desk = "exports" /\ items[i].state = "ready" /\ items[i].window = "open"
  /\ items[i].used < MaxDownloads
  /\ items' = [items EXCEPT ![i].used = @ + 1]
  /\ UNCHANGED <<desk, wallet, keys, dialog, sent, claims, lost, activation>>

Next ==
  \/ \E o \in Operators :
       OpenDialog(o) \/ Resubmit(o) \/ GiveUp(o) \/ CloseDialog(o) \/ ActivateCommit(o)
  \/ \E q \in sent : Replay(q) \/ Carry(q) \/ Refuse(q) \/ ActivateBegin(q)
  \/ WorkerActivates
  \/ \E i \in 1..Len(items) : WindowMoves(i) \/ Download(i)

Spec == Init /\ [][Next]_vars

-----------------------------------------------------------------------------
(* Properties *)

InUse == {"executed", "ready", "active", "superseded"}

\* Nothing takes effect on its requester's word: as many colleagues as its size requires
\* consented, and none of them asked for it.
TwoPersonRule ==
  \A i \in 1..Len(items) : items[i].state \in InUse =>
    /\ items[i].by \notin items[i].approvers
    /\ Cardinality(items[i].approvers) >= IF desk = "points" THEN Required(items[i].amount) ELSE 1

Moved == [i \in DOMAIN items |-> items[i].used * items[i].amount]

\* The wallet holds what was executed, every adjustment once, and never less than nothing.
WalletFollowsExecutions ==
  /\ wallet = StartBalance + MapThenSumSet(LAMBDA i : Moved[i], IF desk = "points" THEN DOMAIN items ELSE {})
  /\ wallet >= 0
  /\ desk = "points" => \A i \in DOMAIN items : items[i].used <= 1

\* A dialog asks for one thing, however often it is sent and whatever was edited in between.
OneItemPerDialog ==
  \A o \in Operators :
    Cardinality({i \in DOMAIN items : items[i].by = o})
      <= Cardinality({c.key : c \in {p \in claims : p.by = o /\ p.op \in {"create", "rollback"}}})

ControlsHold == TwoPersonRule /\ WalletFollowsExecutions /\ OneItemPerDialog

=============================================================================
