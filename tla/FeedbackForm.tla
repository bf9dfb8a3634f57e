----------------------------- MODULE FeedbackForm -----------------------------
(***************************************************************************)
(* The feedback panel of an event in the itinerary and the service it      *)
(* talks to. The panel reads what may be written, sends what was written   *)
(* under the key of its attempt, and reads again; calls get lost, another  *)
(* account signs in from a second tab, the author also writes on a phone.  *)
(* A text stands for everything the form holds. MaxTroubles bounds what    *)
(* disturbs the page, MaxKeys the keys of its attempts.                    *)
(***************************************************************************)
EXTENDS Integers, FiniteSets

CONSTANTS
  Author,        \* who was at the event
  Stranger,      \* another account, or nobody
  Texts,         \* what the form may hold
  Blank,         \* the text of a form nobody has filled in
  MaxKeys,       \* bound on the keys the page draws
  MaxTroubles

VARIABLES
  account,       \* whose session the browser holds
  owner,         \* ownerRef: whose the panel is
  panel,         \* what is shown, the text in the form, the receipt, the attempt
  running,       \* the operation of the newest generation
  sent,          \* submissions on their way
  keys,          \* keys drawn
  feedback,      \* the row of community.feedback
  claims,        \* sync.idempotency_keys with the stored receipts
  eligible,      \* checked in, after the event's end and within the 30 days
  history,       \* texts submitted; whether one replaced what was shown; whether a call was left behind
  troubles

vars == <<account, owner, panel, running, sent, keys, feedback, claims, eligible, history, troubles>>
server == <<feedback, claims, eligible>>

NoFeedback == [text |-> Blank, edits |-> -1, rewarded |-> FALSE]
NoAuthority == [known |-> FALSE, submit |-> FALSE, feedback |-> NoFeedback]
NoReceipt == [points |-> FALSE, edits |-> -1]
NoAttempt == [text |-> Blank, key |-> 0]
Fresh == [open |-> FALSE, phase |-> "idle", authority |-> NoAuthority, text |-> Blank,
          receipt |-> NoReceipt, attempt |-> NoAttempt]
Resting == [kind |-> "none"]

Init ==
  /\ account = Author /\ owner = Author /\ panel = Fresh /\ running = Resting
  /\ sent = {} /\ keys = 0
  /\ feedback = NoFeedback /\ claims = {} /\ eligible \in BOOLEAN
  /\ history = [texts |-> {}, replaced |-> FALSE, forgot |-> FALSE]
  /\ troubles = 0

Trouble == troubles < MaxTroubles /\ troubles' = troubles + 1

-----------------------------------------------------------------------------
(* The service *)

\* ownFeedback: the window is open and the one edit is left.
Authority ==
  [known |-> TRUE, submit |-> eligible /\ (feedback = NoFeedback \/ feedback.edits < 1),
   feedback |-> feedback]

\* The conditions of feedback(), for the author alone.
Writable(by) == by = Author /\ eligible /\ feedback.edits < 1

\* The reward is for the first writing, while the cap of the week leaves room.
Write(text, room) ==
  feedback' = [text |-> text, edits |-> feedback.edits + 1,
               rewarded |-> feedback.rewarded \/ (feedback.edits = -1 /\ room)]

ReceiptOf(f, g) == [points |-> g.rewarded /\ ~f.rewarded, edits |-> g.edits]

Earlier(q) == {c \in claims : c.by = q.by /\ c.key = q.key}

WindowCloses ==
  /\ eligible /\ Trouble /\ eligible' = FALSE
  /\ UNCHANGED <<account, owner, panel, running, sent, keys, feedback, claims, history>>

SubmitElsewhere ==
  /\ Writable(Author) /\ Trouble
  /\ \E text \in Texts, room \in BOOLEAN : Write(text, room)
  /\ history' = [history EXCEPT !.replaced = TRUE]
  /\ UNCHANGED <<account, owner, panel, running, sent, keys, claims, eligible>>

-----------------------------------------------------------------------------
(* The panel *)

SwitchAccount ==
  /\ Trouble
  /\ account' = IF account = Author THEN Stranger ELSE Author
  /\ UNCHANGED <<owner, panel, running, sent, keys, server, history>>

Forget == panel' = Fresh

\* subscribeSessionChanges, some time after the storage changed.
SessionEvent ==
  /\ account # owner
  /\ owner' = account /\ running' = Resting /\ Forget
  /\ history' = [history EXCEPT !.forgot = @ \/ sent # {}]
  /\ UNCHANGED <<account, sent, keys, server, troubles>>

\* loadAuthoritative. A load takes over from whatever ran before.
Load(p, mode) ==
  /\ owner' = account
  /\ running' = [kind |-> mode, user |-> account]
  /\ panel' = IF mode = "regular" THEN [p EXCEPT !.authority = NoAuthority, !.phase = "loading"] ELSE p
  /\ UNCHANGED <<account, sent, keys, server, history, troubles>>

Busy == running.kind \in {"submit", "refresh"}

Toggle ==
  /\ ~Busy
  /\ \/ ~panel.open /\ Load([panel EXCEPT !.open = TRUE], "regular")
     \/ /\ panel.open /\ panel' = [panel EXCEPT !.open = FALSE, !.phase = "idle"]
        /\ UNCHANGED <<account, owner, running, sent, keys, server, history, troubles>>

Retry ==
  /\ panel.open
  /\ \/ panel.phase = "load_error" /\ Load(panel, "regular")
     \/ panel.phase = "saved_refresh_failed" /\ Load(panel, "saved")

\* operationIsCurrent: the generation is the newest while it runs.
Current == running.user = account

\* What a load or the refresh after a submission makes of the panel.
Loaded(p) ==
  LET form == Authority.submit /\ feedback = NoFeedback /\ running.kind # "refresh" IN
    [p EXCEPT !.authority = Authority, !.text = feedback.text, !.phase = IF form THEN "form" ELSE "current"]
Failed(p) ==
  [p EXCEPT !.authority = NoAuthority,
            !.phase = IF running.kind = "regular" THEN "load_error" ELSE "saved_refresh_failed"]

\* The service tells only the author.
ServeLoad ==
  /\ running.kind \in {"regular", "saved", "refresh"}
  /\ panel' = IF ~Current THEN panel ELSE IF account = Author THEN Loaded(panel) ELSE Failed(panel)
  /\ running' = IF ~Current /\ Busy THEN running ELSE Resting
  /\ <<panel, running>>' # <<panel, running>>
  /\ UNCHANGED <<account, owner, sent, keys, server, history, troubles>>

LoseLoad ==
  /\ running.kind \in {"regular", "saved", "refresh"} /\ Current /\ Trouble
  /\ panel' = Failed(panel) /\ running' = Resting
  /\ UNCHANGED <<account, owner, sent, keys, server, history>>

FormShown == panel.open /\ panel.phase = "form" /\ panel.authority.submit /\ ~Busy

EditText ==
  /\ FormShown
  /\ \E text \in Texts \ {panel.text} : panel' = [panel EXCEPT !.text = text]
  /\ UNCHANGED <<account, owner, running, sent, keys, server, history, troubles>>

PressEdit ==
  /\ panel.open /\ panel.phase = "current" /\ panel.authority.submit
  /\ panel.authority.feedback # NoFeedback
  /\ panel' = [panel EXCEPT !.phase = "form"]
  /\ UNCHANGED <<account, owner, running, sent, keys, server, history, troubles>>

\* StableRequestAttempt.keyFor: a new key for a new text only.
SameText(text) == panel.attempt.key # 0 /\ panel.attempt.text = text
SameText_Never(text) == FALSE
Repeated(text) == SameText(text)

Submit ==
  /\ FormShown
  /\ LET key == IF Repeated(panel.text) THEN panel.attempt.key ELSE keys + 1 IN
       /\ key <= MaxKeys
       /\ keys' = IF key > keys THEN key ELSE keys
       /\ sent' = sent \cup {[by |-> account, key |-> key, text |-> panel.text]}
       /\ running' = [kind |-> "submit", user |-> account, key |-> key]
       /\ panel' = [panel EXCEPT !.phase = "submitting", !.attempt = [text |-> panel.text, key |-> key]]
  /\ history' = [history EXCEPT !.texts = @ \cup {panel.text},
                                !.replaced = @ \/ panel.authority.feedback # NoFeedback]
  /\ UNCHANGED <<account, owner, server, troubles>>

Awaited(q) == running.kind = "submit" /\ running.key = q.key /\ Current

\* The receipt ends the attempt and the panel reads again; after a refusal or without an answer
\* the form stays.
Saved(receipt) ==
  /\ panel' = [panel EXCEPT !.attempt = NoAttempt, !.authority = NoAuthority, !.receipt = receipt,
                            !.phase = "loading"]
  /\ running' = [kind |-> "refresh", user |-> running.user]
NotSaved == panel' = [panel EXCEPT !.phase = "form"] /\ running' = Resting

Answer(q, saved, receipt) ==
  \/ ~Awaited(q) /\ UNCHANGED <<panel, running, troubles>>
  \/ Awaited(q) /\ saved /\ Saved(receipt) /\ UNCHANGED troubles
  \/ Awaited(q) /\ ~saved /\ NotSaved /\ UNCHANGED troubles
  \/ Awaited(q) /\ saved /\ NotSaved /\ Trouble

\* feedback: the stored receipt, a refusal that leaves no claim, or a writing.
Receive(q) ==
  /\ q \in sent /\ sent' = sent \ {q}
  /\ \/ \E c \in Earlier(q) : c.text = q.text /\ Answer(q, TRUE, c.receipt) /\ UNCHANGED <<feedback, claims>>
     \/ /\ Earlier(q) = {} /\ ~Writable(q.by)
        /\ Answer(q, FALSE, NoReceipt) /\ UNCHANGED <<feedback, claims>>
     \/ /\ Earlier(q) = {} /\ Writable(q.by)
        /\ \E room \in BOOLEAN : Write(q.text, room)
        /\ LET receipt == ReceiptOf(feedback, feedback') IN
             /\ claims' = claims \cup {[by |-> q.by, key |-> q.key, text |-> q.text, receipt |-> receipt]}
             /\ Answer(q, TRUE, receipt)
  /\ UNCHANGED <<account, owner, keys, eligible, history>>

\* The connection breaks with the submission still on its way.
GiveUp ==
  /\ running.kind = "submit" /\ Current /\ Trouble /\ NotSaved
  /\ UNCHANGED <<account, owner, sent, keys, server, history>>

Next ==
  \/ WindowCloses \/ SubmitElsewhere \/ SwitchAccount \/ SessionEvent \/ Toggle \/ Retry
  \/ ServeLoad \/ LoseLoad \/ EditText \/ PressEdit \/ Submit \/ GiveUp
  \/ \E q \in sent : Receive(q)

Spec == Init /\ [][Next]_vars

-----------------------------------------------------------------------------
(* Properties *)

\* The only edit is used up by a text of its own: however often a submission is repeated after
\* lost answers, late arrivals and reloads of the panel, the same text counts once, unless the
\* author saw it saved and sent it over, or signed out with the call still under way. And the
\* points a receipt shows were credited (EventFeedback.submit, StableRequestAttempt, feedback).
FeedbackCountsOnce ==
  /\ feedback.edits = 1 =>
       Cardinality(history.texts) > 1 \/ history.replaced \/ history.forgot
  /\ panel.receipt.points => feedback.rewarded

\* What the author wrote is in the panel only while the panel is the author's, over session
\* changes that reach the storage before they reach the panel, between two loads as well.
FeedbackIsPrivate == panel.authority.known => owner = Author

=============================================================================
