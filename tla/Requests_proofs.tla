---------------------------- MODULE Requests_proofs ----------------------------
(***************************************************************************)
(* Theorems about the requests that are sent again, for every number of    *)
(* accounts, operators, keys, rows and faults.                             *)
(***************************************************************************)
EXTENDS Requests, Sequences, FiniteFacts

-----------------------------------------------------------------------------
(* The feedback form. *)

Written == Texts \cup {Blank}
Feedbacks == [text : Written, edits : {-1, 0, 1}, rewarded : BOOLEAN]
Receipts == [points : BOOLEAN, edits : {-1, 0, 1}]
Accounts == {Author, Stranger}

Authorities == [known : BOOLEAN, submit : BOOLEAN, feedback : Feedbacks]
Attempts == [text : Written, key : Nat]
Phases == {"idle", "loading", "load_error", "saved_refresh_failed", "form", "current", "submitting"}
Panels == [open : BOOLEAN, phase : Phases, authority : Authorities, text : Written,
           receipt : Receipts, attempt : Attempts]
Operations ==
  [kind : {"none"}] \cup [kind : {"regular", "saved", "refresh"}, user : Accounts]
    \cup [kind : {"submit"}, user : Accounts, key : Nat]
Calls == [by : Accounts, key : Nat, text : Written]
Postings == [by : {Author}, key : Nat, text : Written, receipt : Receipts]
Histories == [texts : SUBSET Written, replaced : BOOLEAN, forgot : BOOLEAN]

FeedbackTables ==
  /\ browsing \in Accounts /\ panelOwner \in Accounts /\ panel \in Panels /\ operation \in Operations
  /\ posted \subseteq Calls /\ drawn \in Nat
  /\ feedback \in Feedbacks /\ postings \subseteq Postings /\ eligible \in BOOLEAN
  /\ written \in Histories /\ IsFiniteSet(written.texts)

\* Whose the panel is: it holds an answer of the service only as its author's, and what runs on
\* the author's behalf was begun by a panel of the author's.
PanelIsOwned ==
  /\ panel.authority.known => panelOwner = Author
  /\ panel.authority.submit => panel.authority.known
  /\ panel.phase = "saved_refresh_failed" => ~panel.authority.known
  /\ operation.kind # "none" /\ operation.user = Author => panelOwner = Author

\* Points on a receipt, shown or stored, were credited.
ReceiptsAreTrue ==
  /\ panel.receipt.points => feedback.rewarded
  /\ \A c \in postings : c.receipt.points => feedback.rewarded

\* What was submitted until now: one text, not meant to replace another, by a page that waited
\* for its answer.
OneSubmission ==
  ~written.replaced /\ ~written.forgot /\ \A s, t \in written.texts : s = t

\* As long as there was one, every call of it carries one key: that of the attempt, or after the
\* attempt has ended that of a stored posting, and then the panel knows of the feedback.
OneKey ==
  OneSubmission =>
    /\ \A p, q \in posted \cup postings : p.key = q.key
    /\ panel.attempt.key # 0 => \A q \in posted \cup postings : q.key = panel.attempt.key
    /\ panel.attempt.key = 0 /\ posted # {} => postings # {}
    /\ panel.attempt.key = 0 /\ postings # {} /\ panel.authority.known
         => panel.authority.feedback.edits # -1

\* A writing of this page has a posting of its own.
WritingsArePosted ==
  /\ panel.attempt.key # 0 => panel.attempt.text \in written.texts
  /\ postings # {} => feedback.edits # -1
  /\ ~written.replaced /\ feedback.edits # -1 => postings # {}
  /\ ~written.replaced /\ feedback.edits = 1 => \E p, q \in postings : p.key # q.key

FeedbackInv ==
  FeedbackTables /\ PanelIsOwned /\ ReceiptsAreTrue /\ OneKey /\ WritingsArePosted

LEMMA FeedbackStarts == Reviewing!Init => FeedbackInv
<1> SUFFICES ASSUME Reviewing!Init PROVE FeedbackInv
  OBVIOUS
<1> USE DEF Reviewing!Init, Reviewing!Fresh, Reviewing!NoAuthority, Reviewing!NoReceipt,
            Reviewing!NoAttempt, Reviewing!NoFeedback, Reviewing!Resting
<1>1. FeedbackTables
  BY FS_EmptySet DEF FeedbackTables, Accounts, Written, Feedbacks, Receipts, Authorities, Attempts,
     Phases, Panels, Operations, Histories
<1> QED
  BY <1>1 DEF FeedbackInv, PanelIsOwned, ReceiptsAreTrue, OneKey, WritingsArePosted

\* What a step must say of the rows it writes when it leaves service, calls and history alone.
FeedbackPanelStep ==
  /\ UNCHANGED <<posted, feedback, postings, written>>
  /\ FeedbackTables'
  /\ PanelIsOwned'
  /\ panel'.receipt = panel.receipt
  /\ panel'.attempt = panel.attempt
  /\ panel'.authority.known =>
       \/ panel'.authority.feedback = feedback
       \/ panel.authority.known /\ panel'.authority.feedback = panel.authority.feedback

LEMMA PanelStepKeeps == FeedbackInv /\ FeedbackPanelStep => FeedbackInv'
<1> SUFFICES ASSUME FeedbackInv, FeedbackPanelStep PROVE FeedbackInv'
  OBVIOUS
<1>1. ReceiptsAreTrue'
  BY DEF FeedbackInv, FeedbackPanelStep, ReceiptsAreTrue
<1>2. OneSubmission' = OneSubmission
  BY DEF FeedbackPanelStep, OneSubmission
<1>3. OneKey'
  BY <1>2 DEF FeedbackInv, FeedbackPanelStep, OneKey, WritingsArePosted
<1>4. WritingsArePosted'
  BY DEF FeedbackInv, FeedbackPanelStep, WritingsArePosted
<1> QED
  BY <1>1, <1>3, <1>4 DEF FeedbackInv, FeedbackPanelStep

LEMMA NothingKnown ==
  /\ Reviewing!NoAuthority \in Authorities
  /\ ~Reviewing!NoAuthority.known /\ ~Reviewing!NoAuthority.submit
BY DEF Reviewing!NoAuthority, Reviewing!NoFeedback, Authorities, Feedbacks, Written

LEMMA AnswerKnown ==
  ASSUME FeedbackTables
  PROVE  /\ Reviewing!Authority \in Authorities
         /\ Reviewing!Authority.known /\ Reviewing!Authority.feedback = feedback
BY DEF FeedbackTables, Reviewing!Authority, Authorities, Feedbacks

\* What the new panel must say for such a step.
PanelMoved(next, op, who) ==
  /\ next \in Panels /\ op \in Operations /\ who \in Accounts
  /\ next.receipt = panel.receipt /\ next.attempt = panel.attempt
  /\ \/ next.authority = panel.authority /\ who = panelOwner
     \/ next.authority = Reviewing!NoAuthority
     \/ next.authority = Reviewing!Authority /\ who = Author
  /\ next.phase = "saved_refresh_failed" =>
       \/ panel.phase = "saved_refresh_failed" /\ next.authority = panel.authority
       \/ next.authority = Reviewing!NoAuthority
  /\ op.kind # "none" /\ op.user = Author =>
       \/ who = Author
       \/ op = operation /\ who = panelOwner

LEMMA PanelMovedStep ==
  ASSUME FeedbackInv, PanelMoved(panel', operation', panelOwner'),
         UNCHANGED <<posted, drawn, feedback, postings, written>>,
         browsing' \in Accounts, eligible' \in BOOLEAN
  PROVE  FeedbackPanelStep
<1>1. FeedbackTables'
  BY DEF FeedbackInv, FeedbackTables, PanelMoved
<1>2. PanelIsOwned'
  BY NothingKnown, AnswerKnown DEF FeedbackInv, PanelIsOwned, PanelMoved
<1>3. panel'.authority.known =>
        \/ panel'.authority.feedback = feedback
        \/ panel.authority.known /\ panel'.authority.feedback = panel.authority.feedback
  BY NothingKnown, AnswerKnown DEF FeedbackInv, PanelMoved
<1> QED
  BY <1>1, <1>2, <1>3 DEF PanelMoved, FeedbackPanelStep

LEMMA QuietMoves ==
  ASSUME FeedbackInv, Reviewing!WindowCloses \/ Reviewing!SwitchAccount
  PROVE  FeedbackPanelStep
<1>1. /\ UNCHANGED <<panel, operation, panelOwner, posted, drawn, feedback, postings, written>>
      /\ browsing' \in Accounts /\ eligible' \in BOOLEAN
  BY DEF FeedbackInv, FeedbackTables, Accounts, Reviewing!WindowCloses, Reviewing!SwitchAccount,
     Reviewing!server
<1>2. PanelMoved(panel, operation, panelOwner)
  BY DEF FeedbackInv, FeedbackTables, PanelIsOwned, PanelMoved
<1> QED
  BY <1>1, <1>2, PanelMovedStep

LEMMA LoadMoves ==
  ASSUME FeedbackInv, Reviewing!Toggle \/ Reviewing!Retry
  PROVE  FeedbackPanelStep
<1>0. panel \in Panels /\ panelOwner \in Accounts /\ browsing \in Accounts /\ eligible \in BOOLEAN
      /\ operation \in Operations
  BY DEF FeedbackInv, FeedbackTables
<1>1. CASE ~panel.open /\ Reviewing!Load([panel EXCEPT !.open = TRUE], "regular")
  <2> DEFINE p == [panel EXCEPT !.open = TRUE]
             q == [p EXCEPT !.authority = Reviewing!NoAuthority, !.phase = "loading"]
             op == [kind |-> "regular", user |-> browsing]
  <2>1. p \in Panels /\ p.receipt = panel.receipt /\ p.attempt = panel.attempt
    BY <1>0 DEF Panels
  <2> HIDE DEF p
  <2>2. q \in Panels /\ q.receipt = p.receipt /\ q.attempt = p.attempt
        /\ q.authority = Reviewing!NoAuthority
    BY <2>1, NothingKnown DEF Panels, Phases
  <2>3. panel' = q /\ operation' = op /\ panelOwner' = browsing
        /\ UNCHANGED <<browsing, posted, drawn, feedback, postings, eligible, written>>
    BY <1>1 DEF Reviewing!Load, Reviewing!server, p
  <2>4. PanelMoved(q, op, browsing)
    <3>1. op \in Operations /\ (op.user = Author => browsing = Author)
      BY <1>0 DEF Operations
    <3> QED
      BY <1>0, <2>1, <2>2, <3>1 DEF PanelMoved
  <2> HIDE DEF q, op
  <2> QED
    BY <1>0, <2>3, <2>4, PanelMovedStep
<1>2. CASE /\ panel.open /\ panel' = [panel EXCEPT !.open = FALSE, !.phase = "idle"]
           /\ UNCHANGED <<browsing, panelOwner, operation, posted, drawn, Reviewing!server, written>>
  <2>1. /\ panel' \in Panels /\ panel'.receipt = panel.receipt /\ panel'.attempt = panel.attempt
        /\ panel'.authority = panel.authority /\ panel'.phase = "idle"
    BY <1>0, <1>2 DEF Panels, Phases
  <2>2. PanelMoved(panel', operation', panelOwner')
    BY <1>0, <1>2, <2>1 DEF PanelMoved
  <2> QED
    BY <1>0, <1>2, <2>2, PanelMovedStep DEF Reviewing!server
<1>3. CASE panel.phase = "load_error" /\ Reviewing!Load(panel, "regular")
  <2> DEFINE q == [panel EXCEPT !.authority = Reviewing!NoAuthority, !.phase = "loading"]
             op == [kind |-> "regular", user |-> browsing]
  <2>1. q \in Panels /\ q.receipt = panel.receipt /\ q.attempt = panel.attempt
        /\ q.authority = Reviewing!NoAuthority
    BY <1>0, NothingKnown DEF Panels, Phases
  <2>2. panel' = q /\ operation' = op /\ panelOwner' = browsing
        /\ UNCHANGED <<browsing, posted, drawn, feedback, postings, eligible, written>>
    BY <1>3 DEF Reviewing!Load, Reviewing!server
  <2>3. PanelMoved(q, op, browsing)
    <3>1. op \in Operations /\ (op.user = Author => browsing = Author)
      BY <1>0 DEF Operations
    <3> QED
      BY <1>0, <2>1, <3>1 DEF PanelMoved
  <2> HIDE DEF q, op
  <2> QED
    BY <1>0, <2>2, <2>3, PanelMovedStep
<1>4. CASE panel.phase = "saved_refresh_failed" /\ Reviewing!Load(panel, "saved")
  <2> DEFINE op == [kind |-> "saved", user |-> browsing]
  <2>1. panel' = panel /\ operation' = op /\ panelOwner' = browsing
        /\ UNCHANGED <<browsing, posted, drawn, feedback, postings, eligible, written>>
    BY <1>4 DEF Reviewing!Load, Reviewing!server
  <2>2. ~panel.authority.known /\ ~panel.authority.submit
    BY <1>4 DEF FeedbackInv, PanelIsOwned
  <2>3. FeedbackTables'
    <3>1. op \in Operations
      BY <1>0 DEF Operations
    <3> HIDE DEF op
    <3> QED
      BY <1>0, <2>1, <3>1 DEF FeedbackInv, FeedbackTables
  <2>4. PanelIsOwned'
    BY <2>1, <2>2 DEF PanelIsOwned
  <2> QED
    BY <2>1, <2>2, <2>3, <2>4 DEF FeedbackPanelStep
<1> QED
  BY <1>1, <1>2, <1>3, <1>4 DEF Reviewing!Toggle, Reviewing!Retry

LEMMA ServeMoves ==
  ASSUME FeedbackInv, Reviewing!ServeLoad
  PROVE  FeedbackPanelStep
<1>0. panel \in Panels /\ panelOwner \in Accounts /\ browsing \in Accounts /\ eligible \in BOOLEAN
      /\ operation \in Operations /\ feedback \in Feedbacks /\ FeedbackTables
  BY DEF FeedbackInv, FeedbackTables
<1>1. operation' \in {operation, Reviewing!Resting} /\ Reviewing!Resting \in Operations
      /\ UNCHANGED <<browsing, panelOwner, posted, drawn, feedback, postings, eligible, written>>
  BY DEF Reviewing!ServeLoad, Reviewing!server, Operations, Reviewing!Resting
<1>2. operation' = operation \/ operation'.kind = "none"
  BY <1>1 DEF Reviewing!Resting
<1>3. CASE panel' = panel
  <2>1. PanelMoved(panel, operation', panelOwner)
    BY <1>0, <1>1, <1>2 DEF FeedbackInv, PanelIsOwned, PanelMoved
  <2> QED
    BY <1>0, <1>1, <1>3, <2>1, PanelMovedStep
<1>4. CASE panel' = Reviewing!Failed(panel)
  <2>1. panel' \in Panels /\ panel'.receipt = panel.receipt /\ panel'.attempt = panel.attempt
        /\ panel'.authority = Reviewing!NoAuthority
    BY <1>0, <1>4, NothingKnown DEF Reviewing!Failed, Panels, Phases
  <2>2. PanelMoved(panel', operation', panelOwner')
    BY <1>0, <1>1, <1>2, <2>1 DEF PanelMoved
  <2> QED
    BY <1>0, <1>1, <2>2, PanelMovedStep
<1>5. CASE panel' = Reviewing!Loaded(panel) /\ Reviewing!Current /\ browsing = Author
  <2>1. panel' \in Panels /\ panel'.receipt = panel.receipt /\ panel'.attempt = panel.attempt
        /\ panel'.authority = Reviewing!Authority /\ panel'.phase \in {"form", "current"}
    <3> DEFINE phase == IF /\ Reviewing!Authority.submit /\ feedback = Reviewing!NoFeedback
                           /\ operation.kind # "refresh" THEN "form" ELSE "current"
    <3>1. panel' = [panel EXCEPT !.authority = Reviewing!Authority, !.text = feedback.text, !.phase = phase]
      BY <1>5 DEF Reviewing!Loaded
    <3>2. phase \in {"form", "current"}
      OBVIOUS
    <3> HIDE DEF phase
    <3>3. Reviewing!Authority \in Authorities /\ feedback.text \in Written
      BY <1>0, AnswerKnown DEF Feedbacks
    <3> QED
      BY <1>0, <3>1, <3>2, <3>3 DEF Panels, Phases
  <2>2. panelOwner = Author
    BY <1>5 DEF FeedbackInv, PanelIsOwned, Reviewing!Current, Reviewing!ServeLoad
  <2>3. PanelMoved(panel', operation', panelOwner')
    BY <1>0, <1>1, <1>2, <2>1, <2>2 DEF PanelMoved
  <2> QED
    BY <1>0, <1>1, <2>3, PanelMovedStep
<1> QED
  BY <1>3, <1>4, <1>5 DEF Reviewing!ServeLoad

LEMMA EndMoves ==
  ASSUME FeedbackInv,
         Reviewing!LoseLoad \/ Reviewing!GiveUp \/ Reviewing!EditText \/ Reviewing!PressEdit
  PROVE  FeedbackPanelStep
<1>0. panel \in Panels /\ panelOwner \in Accounts /\ browsing \in Accounts /\ eligible \in BOOLEAN
      /\ operation \in Operations
  BY DEF FeedbackInv, FeedbackTables
<1>1. operation' \in {operation, Reviewing!Resting} /\ Reviewing!Resting \in Operations
      /\ UNCHANGED <<browsing, panelOwner, posted, drawn, feedback, postings, eligible, written>>
  BY DEF Reviewing!LoseLoad, Reviewing!GiveUp, Reviewing!EditText, Reviewing!PressEdit, Reviewing!NotSaved,
     Reviewing!server, Operations, Reviewing!Resting
<1>2. operation' = operation \/ operation'.kind = "none"
  BY <1>1 DEF Reviewing!Resting
<1>3. /\ panel' \in Panels /\ panel'.receipt = panel.receipt /\ panel'.attempt = panel.attempt
      /\ \/ panel'.authority = Reviewing!NoAuthority
         \/ panel'.authority = panel.authority /\ panel'.phase \in {"form", panel.phase}
  <2>1. CASE Reviewing!LoseLoad
    BY <1>0, <2>1, NothingKnown DEF Reviewing!LoseLoad, Reviewing!Failed, Panels, Phases
  <2>2. CASE Reviewing!GiveUp \/ Reviewing!PressEdit
    <3>1. panel' = [panel EXCEPT !.phase = "form"]
      BY <2>2 DEF Reviewing!GiveUp, Reviewing!NotSaved, Reviewing!PressEdit
    <3> QED
      BY <1>0, <3>1 DEF Panels, Phases
  <2>3. CASE Reviewing!EditText
    <3>1. PICK text \in Written : panel' = [panel EXCEPT !.text = text]
      BY <2>3 DEF Reviewing!EditText, Written
    <3> QED
      BY <1>0, <3>1 DEF Panels
  <2> QED
    BY <2>1, <2>2, <2>3
<1>4. PanelMoved(panel', operation', panelOwner')
  BY <1>0, <1>1, <1>2, <1>3 DEF FeedbackInv, PanelIsOwned, PanelMoved
<1> QED
  BY <1>0, <1>1, <1>4, PanelMovedStep

LEMMA SessionEventKeeps == FeedbackInv /\ Reviewing!SessionEvent => FeedbackInv'
<1> SUFFICES ASSUME FeedbackInv, Reviewing!SessionEvent PROVE FeedbackInv'
  OBVIOUS
<1>1. /\ panelOwner' = browsing /\ browsing' = browsing
      /\ operation' = [kind |-> "none"] /\ panel' = Reviewing!Fresh
      /\ written' = [written EXCEPT !.forgot = @ \/ posted # {}]
      /\ UNCHANGED <<posted, drawn, feedback, postings, eligible>>
  BY DEF Reviewing!SessionEvent, Reviewing!Resting, Reviewing!Forget, Reviewing!server
<1>2. FeedbackTables'
  <2>1. panel' \in Panels /\ operation' \in Operations
    BY <1>1 DEF Written, Feedbacks, Receipts, Authorities, Attempts, Phases, Panels, Operations,
       Reviewing!Fresh, Reviewing!NoAuthority, Reviewing!NoReceipt, Reviewing!NoAttempt, Reviewing!NoFeedback
  <2>2. written' \in Histories /\ written'.texts = written.texts
    BY <1>1 DEF FeedbackInv, FeedbackTables, Histories
  <2> QED
    BY <1>1, <2>1, <2>2 DEF FeedbackInv, FeedbackTables
<1>3. PanelIsOwned'
  BY <1>1 DEF PanelIsOwned, Reviewing!Fresh, Reviewing!NoAuthority
<1>4. ReceiptsAreTrue'
  BY <1>1 DEF FeedbackInv, ReceiptsAreTrue, Reviewing!Fresh, Reviewing!NoReceipt
<1>5. /\ written'.texts = written.texts /\ written'.replaced = written.replaced
      /\ written'.forgot = (written.forgot \/ posted # {})
  BY <1>1 DEF FeedbackInv, FeedbackTables, Histories
<1>6. panel'.attempt.key = 0 /\ ~panel'.authority.known
  BY <1>1 DEF Reviewing!Fresh, Reviewing!NoAttempt, Reviewing!NoAuthority
<1>7. OneKey'
  BY ZenonT(60), <1>1, <1>5, <1>6 DEF FeedbackInv, OneKey, OneSubmission
<1>8. WritingsArePosted'
  BY <1>1, <1>5, <1>6 DEF FeedbackInv, WritingsArePosted
<1> QED
  BY <1>2, <1>3, <1>4, <1>7, <1>8 DEF FeedbackInv

LEMMA SubmitElsewhereKeeps == FeedbackInv /\ Reviewing!SubmitElsewhere => FeedbackInv'
<1> SUFFICES ASSUME FeedbackInv, Reviewing!SubmitElsewhere PROVE FeedbackInv'
  OBVIOUS
<1>1. PICK text \in Texts, room \in BOOLEAN : Reviewing!Write(text, room)
  BY DEF Reviewing!SubmitElsewhere
<1>2. /\ feedback' = [text |-> text, edits |-> feedback.edits + 1,
                      rewarded |-> feedback.rewarded \/ (feedback.edits = -1 /\ room)]
      /\ feedback.edits < 1
      /\ written' = [written EXCEPT !.replaced = TRUE]
      /\ UNCHANGED <<browsing, panelOwner, panel, operation, posted, drawn, postings, eligible>>
  BY <1>1 DEF Reviewing!SubmitElsewhere, Reviewing!Write, Reviewing!Writable
<1>3. FeedbackTables'
  <2>1. feedback' \in Feedbacks
    BY <1>2 DEF FeedbackInv, FeedbackTables, Written, Feedbacks
  <2>2. written' \in Histories /\ written'.texts = written.texts
    BY <1>2 DEF FeedbackInv, FeedbackTables, Histories
  <2> QED
    BY <1>2, <2>1, <2>2 DEF FeedbackInv, FeedbackTables
<1>4. PanelIsOwned'
  BY <1>2 DEF FeedbackInv, PanelIsOwned
<1>5. ReceiptsAreTrue'
  BY <1>2 DEF FeedbackInv, FeedbackTables, Feedbacks, ReceiptsAreTrue
<1>6. written'.replaced /\ written'.texts = written.texts
  BY <1>2 DEF FeedbackInv, FeedbackTables, Histories
<1>7. OneKey' /\ WritingsArePosted'
  BY <1>2, <1>6 DEF FeedbackInv, FeedbackTables, Feedbacks, OneKey, OneSubmission, WritingsArePosted
<1> QED
  BY <1>3, <1>4, <1>5, <1>7 DEF FeedbackInv

LEMMA SubmitKeeps == FeedbackInv /\ Reviewing!Submit => FeedbackInv'
<1> SUFFICES ASSUME FeedbackInv, Reviewing!Submit PROVE FeedbackInv'
  OBVIOUS
<1> DEFINE key == IF Reviewing!Repeated(panel.text) THEN panel.attempt.key ELSE drawn + 1
           call == [by |-> browsing, key |-> key, text |-> panel.text]
<1>1. /\ panel.authority.submit
      /\ drawn' = (IF key > drawn THEN key ELSE drawn)
      /\ posted' = posted \cup {call}
      /\ operation' = [kind |-> "submit", user |-> browsing, key |-> key]
      /\ panel' = [panel EXCEPT !.phase = "submitting", !.attempt = [text |-> panel.text, key |-> key]]
      /\ written' = [written EXCEPT !.texts = @ \cup {panel.text},
                       !.replaced = @ \/ panel.authority.feedback # Reviewing!NoFeedback]
      /\ UNCHANGED <<browsing, panelOwner, feedback, postings, eligible>>
  BY DEF Reviewing!Submit, Reviewing!FormShown, Reviewing!server
<1>2. key \in Nat \ {0}
  BY DEF FeedbackInv, FeedbackTables, Panels, Attempts, Reviewing!Repeated, Reviewing!SameText
<1>3. /\ panel.attempt.key # 0 /\ panel.attempt.text = panel.text => key = panel.attempt.key
      /\ panel.authority.known /\ panelOwner = Author
  BY <1>1 DEF FeedbackInv, PanelIsOwned, Reviewing!Repeated, Reviewing!SameText
<1> HIDE DEF key
<1>4. /\ written'.texts = written.texts \cup {panel.text} /\ written'.forgot = written.forgot
      /\ written'.replaced = (written.replaced \/ panel.authority.feedback # Reviewing!NoFeedback)
      /\ panel'.attempt = [text |-> panel.text, key |-> key]
      /\ panel'.authority = panel.authority /\ panel'.receipt = panel.receipt
      /\ panel'.phase = "submitting"
  BY <1>1 DEF FeedbackInv, FeedbackTables, Histories, Panels
<1>5. FeedbackTables'
  <2>1. IsFiniteSet(written'.texts)
    BY <1>4, FS_AddElement DEF FeedbackInv, FeedbackTables
  <2>2. panel.text \in Written /\ browsing \in Accounts /\ key \in Nat
    BY <1>2 DEF FeedbackInv, FeedbackTables, Panels
  <2>3. panel' \in Panels
    BY <1>1, <2>2 DEF FeedbackInv, FeedbackTables, Panels, Phases, Attempts
  <2>4. operation' \in Operations /\ drawn' \in Nat
    BY <1>1, <2>2 DEF FeedbackInv, FeedbackTables, Operations
  <2>5. posted' \subseteq Calls
    BY <1>1, <2>2 DEF FeedbackInv, FeedbackTables, Calls
  <2>6. written' \in Histories
    BY <1>1, <2>2 DEF FeedbackInv, FeedbackTables, Histories
  <2> QED
    BY <1>1, <2>1, <2>2, <2>3, <2>4, <2>5, <2>6 DEF FeedbackInv, FeedbackTables
<1>6. PanelIsOwned'
  BY <1>1, <1>3, <1>4 DEF FeedbackInv, PanelIsOwned
<1>7. ReceiptsAreTrue'
  BY <1>1, <1>4 DEF FeedbackInv, ReceiptsAreTrue
<1>8. WritingsArePosted'
  <2>1. ~written'.replaced => ~written.replaced
    BY <1>4
  <2>2. panel'.attempt.text \in written'.texts
    BY <1>4
  <2> QED
    BY <1>1, <2>1, <2>2 DEF FeedbackInv, WritingsArePosted
<1>9. ASSUME OneSubmission'
      PROVE  /\ OneSubmission
             /\ \A q \in posted \cup postings : q.key = key
  <2>1. OneSubmission /\ panel.authority.feedback = Reviewing!NoFeedback
        /\ \A t \in written.texts : t = panel.text
    BY <1>4, <1>9 DEF OneSubmission
  <2>2. CASE panel.attempt.key # 0
    BY <1>3, <2>1, <2>2 DEF FeedbackInv, OneKey, WritingsArePosted
  <2>3. CASE panel.attempt.key = 0
    <3>1. postings = {}
      BY <1>3, <2>1, <2>3 DEF FeedbackInv, OneKey, Reviewing!NoFeedback
    <3>2. posted = {}
      BY <2>1, <2>3, <3>1 DEF FeedbackInv, OneKey
    <3> QED
      BY <2>1, <3>1, <3>2
  <2> QED
    BY <2>2, <2>3
<1>10. OneKey'
  BY <1>1, <1>2, <1>4, <1>9 DEF OneKey
<1> QED
  BY <1>5, <1>6, <1>7, <1>8, <1>10 DEF FeedbackInv

\* What an answer to call q makes of the panel: nothing, the form again, or another reading with
\* the receipt on show.
Answered(saved, receipt) ==
  \/ panel' = panel /\ operation' = operation
  \/ /\ panel'.attempt = panel.attempt /\ panel'.authority = panel.authority
     /\ panel'.receipt = panel.receipt /\ panel'.phase = "form" /\ operation'.kind = "none"
  \/ /\ saved /\ panel'.attempt.key = 0 /\ ~panel'.authority.known /\ ~panel'.authority.submit
     /\ panel'.receipt = receipt /\ panel'.phase = "loading"
     /\ operation.kind = "submit" /\ operation'.user = operation.user

LEMMA AnswerMoves ==
  ASSUME FeedbackInv, NEW q, NEW saved, NEW receipt \in Receipts, Reviewing!Answer(q, saved, receipt)
  PROVE  panel' \in Panels /\ operation' \in Operations /\ Answered(saved, receipt)
<1>0. panel \in Panels /\ operation \in Operations
  BY DEF FeedbackInv, FeedbackTables
<1>1. CASE panel' = panel /\ operation' = operation
  BY <1>0, <1>1 DEF Answered
<1>2. CASE Reviewing!NotSaved
  <2>1. panel' = [panel EXCEPT !.phase = "form"] /\ operation' = [kind |-> "none"]
    BY <1>2 DEF Reviewing!NotSaved, Reviewing!Resting
  <2>2. panel' \in Panels /\ operation' \in Operations
    BY <1>0, <2>1 DEF Panels, Phases, Operations
  <2>3. /\ panel'.attempt = panel.attempt /\ panel'.authority = panel.authority
        /\ panel'.receipt = panel.receipt /\ panel'.phase = "form" /\ operation'.kind = "none"
    BY <1>0, <2>1 DEF Panels
  <2> QED
    BY <2>2, <2>3 DEF Answered
<1>3. CASE saved /\ Reviewing!Awaited(q) /\ Reviewing!Saved(receipt)
  <2>1. /\ panel' = [panel EXCEPT !.attempt = Reviewing!NoAttempt, !.authority = Reviewing!NoAuthority,
                                  !.receipt = receipt, !.phase = "loading"]
        /\ operation' = [kind |-> "refresh", user |-> operation.user] /\ operation.kind = "submit"
    BY <1>3 DEF Reviewing!Saved, Reviewing!Awaited
  <2>2. Reviewing!NoAttempt \in Attempts /\ Reviewing!NoAttempt.key = 0
    BY DEF Reviewing!NoAttempt, Attempts, Written
  <2>3. panel' \in Panels
    BY <1>0, <2>1, <2>2, NothingKnown DEF Panels, Phases
  <2>4. operation' \in Operations
    <3>1. operation.user \in Accounts
      BY <1>0, <2>1 DEF Operations
    <3> QED
      BY <2>1, <3>1 DEF Operations
  <2>5. /\ panel'.attempt.key = 0 /\ panel'.authority = Reviewing!NoAuthority
        /\ panel'.receipt = receipt /\ panel'.phase = "loading"
    BY <1>0, <2>1, <2>2 DEF Panels
  <2> QED
    BY <1>3, <2>1, <2>3, <2>4, <2>5, NothingKnown DEF Answered
<1> QED
  BY <1>1, <1>2, <1>3 DEF Reviewing!Answer

\* The service's part of it: a stored posting stands for the call, it is refused, or it is a
\* writing with a posting of its own.
ServedOf(q, saved, receipt) ==
  \/ UNCHANGED <<feedback, postings>> /\ \E c \in postings : receipt = c.receipt
  \/ UNCHANGED <<feedback, postings>> /\ ~saved
  \/ /\ \A p \in postings : p.key # q.key
     /\ feedback.edits < 1 /\ feedback'.edits = feedback.edits + 1
     /\ feedback.rewarded => feedback'.rewarded
     /\ receipt.points => feedback'.rewarded
     /\ \E c : c.key = q.key /\ c.receipt = receipt /\ postings' = postings \cup {c}

LEMMA ReceiveServes ==
  ASSUME FeedbackInv, NEW q \in posted, Reviewing!Receive(q)
  PROVE  /\ feedback' \in Feedbacks /\ postings' \subseteq Postings
         /\ \E saved \in BOOLEAN, receipt \in Receipts :
              Reviewing!Answer(q, saved, receipt) /\ ServedOf(q, saved, receipt)
<1>0. feedback \in Feedbacks /\ postings \subseteq Postings /\ q \in Calls
      /\ feedback.edits \in {-1, 0, 1} /\ feedback.rewarded \in BOOLEAN
  BY DEF FeedbackInv, FeedbackTables, Feedbacks
<1> DEFINE Served == \E saved \in BOOLEAN, receipt \in Receipts :
                       Reviewing!Answer(q, saved, receipt) /\ ServedOf(q, saved, receipt)
<1>1. CASE /\ \E c \in Reviewing!Earlier(q) : c.text = q.text /\ Reviewing!Answer(q, TRUE, c.receipt)
           /\ UNCHANGED <<feedback, postings>>
  <2>1. PICK c \in postings : Reviewing!Answer(q, TRUE, c.receipt)
    BY <1>1 DEF Reviewing!Earlier
  <2>2. c.receipt \in Receipts
    BY <1>0 DEF Postings
  <2>3. ServedOf(q, TRUE, c.receipt)
    BY <1>1 DEF ServedOf
  <2>4. Served
    BY <2>1, <2>2, <2>3
  <2> QED
    BY <1>0, <1>1, <2>4
<1>2. CASE Reviewing!Answer(q, FALSE, Reviewing!NoReceipt) /\ UNCHANGED <<feedback, postings>>
  <2>1. Reviewing!NoReceipt \in Receipts
    BY DEF Reviewing!NoReceipt, Receipts
  <2>2. ServedOf(q, FALSE, Reviewing!NoReceipt)
    BY <1>2 DEF ServedOf
  <2>3. Served
    BY <1>2, <2>1, <2>2
  <2> QED
    BY <1>0, <1>2, <2>3
<1>3. CASE Reviewing!Earlier(q) = {} /\ Reviewing!Writable(q.by)
  <2> DEFINE receipt == Reviewing!ReceiptOf(feedback, feedback')
             c == [by |-> q.by, key |-> q.key, text |-> q.text, receipt |-> receipt]
  <2>1. PICK room \in BOOLEAN : Reviewing!Write(q.text, room)
    BY <1>3 DEF Reviewing!Receive
  <2>2. postings' = postings \cup {c} /\ Reviewing!Answer(q, TRUE, receipt)
    BY <1>3 DEF Reviewing!Receive
  <2>3. q.by = Author /\ feedback.edits < 1 /\ q.key \in Nat /\ q.text \in Written
    BY <1>0, <1>3 DEF Reviewing!Writable, Calls
  <2>4. /\ feedback'.edits = feedback.edits + 1 /\ feedback' \in Feedbacks
        /\ feedback.rewarded => feedback'.rewarded
    BY <1>0, <2>1, <2>3 DEF Reviewing!Write, Feedbacks
  <2>5. receipt \in Receipts /\ (receipt.points => feedback'.rewarded)
    BY <1>0, <2>4 DEF Reviewing!ReceiptOf, Receipts, Feedbacks
  <2> HIDE DEF receipt
  <2>6. c \in Postings /\ c.key = q.key /\ c.receipt = receipt
    BY <2>3, <2>5 DEF Postings
  <2> HIDE DEF c
  <2>7. \A p \in postings : p.key # q.key
    <3> SUFFICES ASSUME NEW p \in postings, p.key = q.key PROVE FALSE
      OBVIOUS
    <3>1. p.by = q.by
      BY <1>0, <2>3 DEF Postings
    <3> QED
      BY <1>3, <3>1 DEF Reviewing!Earlier
  <2>8. ServedOf(q, TRUE, receipt)
    BY <2>2, <2>3, <2>4, <2>5, <2>6, <2>7 DEF ServedOf
  <2>9. Served
    BY <2>2, <2>5, <2>8
  <2>10. postings' \subseteq Postings
    BY <1>0, <2>2, <2>6
  <2> QED
    BY <2>4, <2>9, <2>10
<1> QED
  BY <1>1, <1>2, <1>3 DEF Reviewing!Receive

LEMMA ReceiveKeeps ==
  ASSUME FeedbackInv, NEW q \in posted, Reviewing!Receive(q)
  PROVE  FeedbackInv'
<1>1. PICK saved \in BOOLEAN, receipt \in Receipts :
        Reviewing!Answer(q, saved, receipt) /\ ServedOf(q, saved, receipt)
  BY ReceiveServes
<1>2. panel' \in Panels /\ operation' \in Operations /\ Answered(saved, receipt)
  BY <1>1, AnswerMoves
<1>3. feedback' \in Feedbacks /\ postings' \subseteq Postings
  BY ReceiveServes
<1>4. posted' = posted \ {q} /\ UNCHANGED <<browsing, panelOwner, drawn, eligible, written>>
  BY DEF Reviewing!Receive
<1>5. FeedbackTables'
  BY <1>2, <1>3, <1>4 DEF FeedbackInv, FeedbackTables
<1>6. PanelIsOwned'
  <2>1. operation.kind = "submit" => operation.kind # "none"
    OBVIOUS
  <2> QED
    BY <1>2, <1>4, <2>1 DEF FeedbackInv, PanelIsOwned, Answered
<1>7. ReceiptsAreTrue'
  <2>1. feedback.rewarded => feedback'.rewarded
    BY <1>1 DEF ServedOf
  <2>2. \A c \in postings' : c.receipt.points => feedback'.rewarded
    BY <1>1, <2>1 DEF FeedbackInv, ReceiptsAreTrue, ServedOf
  <2>3. saved /\ receipt.points => feedback'.rewarded
    BY <1>1 DEF FeedbackInv, ReceiptsAreTrue, ServedOf
  <2>4. panel'.receipt = panel.receipt \/ (saved /\ panel'.receipt = receipt)
    BY <1>2 DEF Answered
  <2> QED
    BY <2>1, <2>2, <2>3, <2>4 DEF FeedbackInv, ReceiptsAreTrue
<1>8. /\ postings \subseteq postings'
      /\ \A p \in postings' : p \in postings \/ p.key = q.key
      /\ saved => postings' # {}
      /\ feedback.edits # -1 => feedback'.edits # -1
  BY <1>1 DEF ServedOf, FeedbackInv, FeedbackTables, Feedbacks
<1>9. \/ panel'.attempt = panel.attempt /\ panel'.authority = panel.authority
      \/ saved /\ panel'.attempt.key = 0 /\ ~panel'.authority.known
  BY <1>2 DEF Answered
<1>10. OneKey'
  <2> SUFFICES ASSUME OneSubmission'
               PROVE  /\ \A p, r \in posted' \cup postings' : p.key = r.key
                      /\ panel'.attempt.key # 0 =>
                           \A r \in posted' \cup postings' : r.key = panel'.attempt.key
                      /\ panel'.attempt.key = 0 /\ posted' # {} => postings' # {}
                      /\ panel'.attempt.key = 0 /\ postings' # {} /\ panel'.authority.known
                           => panel'.authority.feedback.edits # -1
    BY DEF OneKey
  <2>1. OneSubmission
    BY <1>4 DEF OneSubmission
  <2>2. \A r \in posted' \cup postings' : \E p \in posted \cup postings : r.key = p.key
    BY <1>4, <1>8
  <2>3. \A p, r \in posted' \cup postings' : p.key = r.key
    BY <2>1, <2>2 DEF FeedbackInv, OneKey
  <2>4. ASSUME panel'.attempt.key # 0
        PROVE  \A r \in posted' \cup postings' : r.key = panel'.attempt.key
    BY <1>9, <2>1, <2>2, <2>4 DEF FeedbackInv, OneKey
  <2>5. panel'.attempt.key = 0 => postings' # {}
    BY <1>8, <1>9, <2>1 DEF FeedbackInv, OneKey
  <2>6. ASSUME panel'.attempt.key = 0, panel'.authority.known
        PROVE  panel'.authority.feedback.edits # -1
    BY <1>9, <2>1, <2>6 DEF FeedbackInv, OneKey
  <2> QED
    BY <2>3, <2>4, <2>5, <2>6
<1>11. WritingsArePosted'
  <2>1. panel'.attempt.key # 0 => panel'.attempt.text \in written'.texts
    BY <1>4, <1>9 DEF FeedbackInv, WritingsArePosted
  <2>2. postings' # {} => feedback'.edits # -1
    BY <1>1 DEF ServedOf, FeedbackInv, WritingsArePosted, FeedbackTables, Feedbacks
  <2>3. ~written'.replaced /\ feedback'.edits # -1 => postings' # {}
    BY <1>1, <1>4 DEF ServedOf, FeedbackInv, WritingsArePosted
  <2>4. ~written'.replaced /\ feedback'.edits = 1 => \E p, r \in postings' : p.key # r.key
    <3>1. CASE UNCHANGED <<feedback, postings>>
      BY <1>4, <3>1 DEF FeedbackInv, WritingsArePosted
    <3>2. CASE /\ \A p \in postings : p.key # q.key
               /\ feedback'.edits = feedback.edits + 1
               /\ \E c : c.key = q.key /\ postings' = postings \cup {c}
      <4> SUFFICES ASSUME ~written.replaced, feedback'.edits = 1
                   PROVE  \E p, r \in postings' : p.key # r.key
        BY <1>4
      <4>1. feedback.edits # -1
        BY <3>2
      <4>2. postings # {}
        BY <4>1 DEF FeedbackInv, WritingsArePosted
      <4> QED
        BY <3>2, <4>2
    <3> QED
      BY <1>1, <3>1, <3>2 DEF ServedOf
  <2> QED
    BY <2>1, <2>2, <2>3, <2>4 DEF WritingsArePosted
<1> QED
  BY <1>5, <1>6, <1>7, <1>10, <1>11 DEF FeedbackInv


LEMMA FeedbackStep == FeedbackInv /\ [Next]_requestsVars => FeedbackInv'
<1> SUFFICES ASSUME FeedbackInv, [Next]_requestsVars PROVE FeedbackInv'
  OBVIOUS
<1>1. CASE UNCHANGED feedbackPart
  BY <1>1 DEF feedbackPart, FeedbackInv, FeedbackTables, PanelIsOwned, ReceiptsAreTrue, OneKey,
     OneSubmission, WritingsArePosted
<1>2. CASE Reviewing!Next
  <2>1. CASE \E q \in posted : Reviewing!Receive(q)
    BY <2>1, ReceiveKeeps
  <2>2. CASE Reviewing!WindowCloses \/ Reviewing!SwitchAccount
    BY <2>2, QuietMoves, PanelStepKeeps
  <2>3. CASE Reviewing!Toggle \/ Reviewing!Retry
    BY <2>3, LoadMoves, PanelStepKeeps
  <2>4. CASE Reviewing!ServeLoad
    BY <2>4, ServeMoves, PanelStepKeeps
  <2>5. CASE Reviewing!LoseLoad \/ Reviewing!GiveUp \/ Reviewing!EditText \/ Reviewing!PressEdit
    BY <2>5, EndMoves, PanelStepKeeps
  <2>6. CASE Reviewing!SubmitElsewhere
    BY <2>6, SubmitElsewhereKeeps
  <2>7. CASE Reviewing!SessionEvent
    BY <2>7, SessionEventKeeps
  <2>8. CASE Reviewing!Submit
    BY <2>8, SubmitKeeps
  <2> QED
    BY <1>2, <2>1, <2>2, <2>3, <2>4, <2>5, <2>6, <2>7, <2>8 DEF Reviewing!Next
<1> QED
  BY <1>1, <1>2 DEF Next, requestsVars

LEMMA SameFeedbackCardinality == \A S : Reviewing!Cardinality(S) = Cardinality(S)
BY Zenon DEF Reviewing!Cardinality, Cardinality

LEMMA FeedbackCounted == FeedbackInv => FeedbackCountsOnce
<1> SUFFICES ASSUME FeedbackInv
             PROVE  Reviewing!FeedbackCountsOnce /\ Reviewing!FeedbackIsPrivate
  BY DEF FeedbackCountsOnce
<1>1. ASSUME feedback.edits = 1, ~written.replaced, ~written.forgot
      PROVE  Cardinality(written.texts) > 1
  <2>1. ~OneSubmission
    BY <1>1 DEF FeedbackInv, OneKey, WritingsArePosted
  <2>2. PICK s, t \in written.texts : s # t
    BY <1>1, <2>1 DEF OneSubmission
  <2>3. IsFiniteSet({s}) /\ Cardinality({s}) = 1
    BY FS_Singleton
  <2>4. Cardinality({s} \cup {t}) = 2
    BY <2>2, <2>3, FS_AddElement
  <2>5. IsFiniteSet(written.texts) /\ {s} \cup {t} \subseteq written.texts
    BY <2>2 DEF FeedbackInv, FeedbackTables
  <2>6. Cardinality({s} \cup {t}) <= Cardinality(written.texts) /\ Cardinality(written.texts) \in Nat
    BY <2>5, FS_Subset, FS_CardinalityType
  <2> QED
    BY <2>4, <2>6
<1>2. panel.receipt.points => feedback.rewarded
  BY DEF FeedbackInv, ReceiptsAreTrue
<1>3. panel.authority.known => panelOwner = Author
  BY DEF FeedbackInv, PanelIsOwned
<1> QED
  BY <1>1, <1>2, <1>3, SameFeedbackCardinality DEF Reviewing!FeedbackCountsOnce, Reviewing!FeedbackIsPrivate

\* However often a feedback is sent again after lost answers, late arrivals, reloads and changes
\* of account, one text uses up no edit; the points of a receipt were credited, and the panel
\* shows what the author wrote only as the author's.
THEOREM FeedbackIsCounted == Spec => []FeedbackCountsOnce
<1>1. Init => FeedbackInv
  BY FeedbackStarts DEF Init
<1>2. FeedbackInv /\ [Next]_requestsVars => FeedbackInv'
  BY FeedbackStep
<1>3. FeedbackInv => FeedbackCountsOnce
  BY FeedbackCounted
<1> QED
  BY <1>1, <1>2, <1>3, PTL DEF Spec

-----------------------------------------------------------------------------
(* Sync: what was announced to the engine of a page *)

Pulls ==
  [at : {"none", "asked", "served", "expired"}, cursor : Nat, rows : SUBSET Nat, more : BOOLEAN]

RowTables ==
  /\ log \subseteq Nat /\ IsFiniteSet(log) /\ floor \in Nat /\ nextSeq \in Nat
  /\ \A t \in open : t.seq \in Nat
  /\ mail \in log \cup {0} /\ announced \in log \cup {0}
  /\ cursor \in Nat /\ pending \in BOOLEAN /\ pull \in Pulls /\ IsFiniteSet(pull.rows)

\* A cursor from which everything announced that is still kept has been given.
Reached(row, news, dropped) == row >= news \/ news <= dropped

NextCursor(p) == IF p.rows = {} THEN p.cursor ELSE Syncing!Max(p.rows)

\* The engine that rests has reached what was announced, and so will a pull that was served to
\* the end, unless a wake-up it does not know of yet follows it.
Covering ==
  /\ pull.at = "none" => Reached(cursor, announced, floor)
  /\ pull.at = "served" /\ ~pull.more /\ ~pending => Reached(NextCursor(pull), announced, floor)

CoverInv == RowTables /\ Covering

LEMMA RowsAreNumbers ==
  CoverInv => /\ mail \in Nat /\ announced \in Nat /\ cursor \in Nat /\ floor \in Nat
              /\ mail \in log \cup {0} /\ announced \in log \cup {0}
<1> SUFFICES ASSUME CoverInv
             PROVE  /\ mail \in Nat /\ announced \in Nat /\ cursor \in Nat /\ floor \in Nat
                    /\ mail \in log \cup {0} /\ announced \in log \cup {0}
  OBVIOUS
<1>1. /\ mail \in log \cup {0} /\ announced \in log \cup {0}
      /\ log \subseteq Nat /\ cursor \in Nat /\ floor \in Nat
  BY DEF CoverInv, RowTables
<1>2. log \cup {0} \subseteq Nat
  BY <1>1
<1> QED
  BY <1>1, <1>2

LEMMA GreatestRow ==
  ASSUME NEW some \in SUBSET Nat, IsFiniteSet(some), some # {}
  PROVE  Syncing!Max(some) \in some /\ \A r \in some : Syncing!Max(some) >= r
BY GreatestExists DEF Syncing!Max

LEMMA LeastRow ==
  ASSUME NEW some \in SUBSET Nat, some # {}
  PROVE  Syncing!Min(some) \in some /\ \A r \in some : Syncing!Min(some) <= r
BY LeastNumber DEF Syncing!Min

LEMMA GreaterOfTwo ==
  ASSUME NEW a \in Nat, NEW b \in Nat
  PROVE  Syncing!Max({a, b}) \in {a, b}
<1>1. IsFiniteSet({a} \cup {b})
  BY FS_Singleton, FS_AddElement
<1>2. {a, b} = {a} \cup {b}
  OBVIOUS
<1> QED
  BY <1>1, <1>2, GreatestRow

\* A wake-up starts a pull or is remembered; and new rows change nothing for the engine.
LEMMA WakeKeeps ==
  ASSUME CoverInv, Syncing!Wake, UNCHANGED <<log, floor, nextSeq, open, cursor>>,
         mail' \in log \cup {0}, announced' \in log \cup {0}
  PROVE  CoverInv'
<1>1. pull' \in Pulls /\ pull'.at # "none" /\ IsFiniteSet(pull'.rows) /\ pending' \in BOOLEAN
  BY FS_EmptySet DEF CoverInv, RowTables, Pulls, Syncing!Wake, Syncing!StartPull, Syncing!NoPull,
     Syncing!ReadCursor
<1>2. pull'.at = "served" => pending'
  BY DEF CoverInv, RowTables, Pulls, Syncing!Wake, Syncing!StartPull, Syncing!NoPull
<1> QED
  BY <1>1, <1>2 DEF CoverInv, RowTables, Covering

LEMMA RowsKeep ==
  ASSUME CoverInv, UNCHANGED <<floor, cursor, pull, pending, announced>>,
         log \subseteq log', log' \subseteq Nat, IsFiniteSet(log'), mail' \in log' \cup {0},
         nextSeq' \in Nat, \A t \in open' : t.seq \in Nat
  PROVE  CoverInv'
<1>1. RowTables'
  BY DEF CoverInv, RowTables
<1>2. Covering'
  BY DEF CoverInv, Covering
<1> QED
  BY <1>1, <1>2 DEF CoverInv

LEMMA BeginKeeps ==
  ASSUME CoverInv,
         \/ \E op \in Ops : Syncing!BeginOperation(op)
         \/ \E o \in Others : Syncing!BeginOther(o)
  PROVE  CoverInv'
<1>1. PICK who : open' = open \cup {[what |-> who, seq |-> nextSeq]} /\ nextSeq' = nextSeq + 1
  BY DEF Syncing!BeginOperation, Syncing!BeginOther
<1>2. UNCHANGED <<log, floor, cursor, pull, pending, announced, mail>>
  BY DEF Syncing!BeginOperation, Syncing!BeginOther, Syncing!engine
<1>3. nextSeq \in Nat /\ \A t \in open' : t.seq \in Nat
  BY <1>1 DEF CoverInv, RowTables
<1>4. nextSeq' \in Nat /\ log \subseteq Nat /\ IsFiniteSet(log) /\ mail \in log \cup {0}
  BY <1>1, <1>3 DEF CoverInv, RowTables
<1> QED
  BY <1>2, <1>3, <1>4, RowsKeep

LEMMA CommitKeeps ==
  ASSUME CoverInv,
         \/ \E op \in Ops : Syncing!CommitOperation(op)
         \/ \E o \in Others : Syncing!CommitOther(o)
  PROVE  CoverInv'
<1>1. PICK t \in open : Syncing!Commits(t)
  BY DEF Syncing!CommitOperation, Syncing!CommitOther
<1>2. UNCHANGED <<floor, nextSeq, cursor, pull, pending, announced>>
  BY DEF Syncing!CommitOperation, Syncing!CommitOther, Syncing!engine
<1>3. open' = open \ {t} /\ log' = log \cup {t.seq} /\ t.seq \in Nat
  BY <1>1 DEF Syncing!Commits, CoverInv, RowTables
<1>4. mail' \in {mail, t.seq}
  <2>1. mail \in Nat
    BY RowsAreNumbers
  <2>2. Syncing!Max({mail, t.seq}) \in {mail, t.seq}
    BY <1>3, <2>1, GreaterOfTwo
  <2>3. mail' = mail \/ mail' = Syncing!Max({mail, t.seq})
    BY <1>1 DEF Syncing!Commits
  <2> QED
    BY <2>2, <2>3
<1>5. IsFiniteSet(log')
  BY <1>3, FS_AddElement DEF CoverInv, RowTables
<1>6. /\ log \subseteq log' /\ log' \subseteq Nat /\ mail' \in log' \cup {0}
      /\ nextSeq' \in Nat /\ \A s \in open' : s.seq \in Nat
  BY <1>2, <1>3, <1>4 DEF CoverInv, RowTables
<1> QED
  BY <1>2, <1>5, <1>6, RowsKeep

LEMMA QueueKeeps ==
  ASSUME CoverInv,
         \E op \in Ops : Syncing!Enqueue(op) \/ Syncing!Push(op) \/ Syncing!Conflict(op) \/ Syncing!Replay(op)
  PROVE  CoverInv'
<1>1. UNCHANGED <<log, floor, nextSeq, open, cursor, pull, pending, announced, mail>>
  BY DEF Syncing!Enqueue, Syncing!Push, Syncing!Conflict, Syncing!Replay, Syncing!server, Syncing!engine
<1> QED
  BY <1>1 DEF CoverInv, RowTables, Covering

LEMMA PageKeeps ==
  ASSUME CoverInv,
         \/ Syncing!Activate \/ Syncing!Deactivate \/ Syncing!SocketOpens \/ Syncing!SocketDrops
         \/ Syncing!Poll \/ Syncing!Hint \/ Syncing!DropOldRows
  PROVE  CoverInv'
<1>1. CASE Syncing!Activate \/ Syncing!SocketOpens \/ Syncing!Poll
  <2>1. Syncing!Wake /\ UNCHANGED <<log, floor, nextSeq, open, cursor, mail, announced>>
    BY <1>1 DEF Syncing!Activate, Syncing!SocketOpens, Syncing!Poll, Syncing!server
  <2> QED
    BY <2>1, WakeKeeps DEF CoverInv, RowTables
<1>2. CASE Syncing!Hint
  <2>1. /\ Syncing!Wake /\ UNCHANGED <<log, floor, nextSeq, open, cursor>>
        /\ mail' = 0 /\ announced' = Syncing!Max({announced, mail})
    BY <1>2 DEF Syncing!Hint, Syncing!server
  <2>2. mail \in Nat /\ announced \in Nat /\ mail \in log \cup {0} /\ announced \in log \cup {0}
    BY RowsAreNumbers
  <2>3. announced' \in {announced, mail}
    BY <2>1, <2>2, GreaterOfTwo
  <2> QED
    BY <2>1, <2>2, <2>3, WakeKeeps
<1>3. CASE Syncing!Deactivate \/ Syncing!SocketDrops
  <2>1. UNCHANGED <<log, floor, nextSeq, open, cursor, pull, pending, announced>> /\ mail' = 0
    BY <1>3 DEF Syncing!Deactivate, Syncing!SocketDrops, Syncing!server
  <2> QED
    BY <2>1 DEF CoverInv, RowTables, Covering
<1>4. CASE Syncing!DropOldRows
  <2>1. floor' = floor + 1 /\ UNCHANGED <<log, nextSeq, open, cursor, pull, pending, announced, mail>>
    BY <1>4 DEF Syncing!DropOldRows, Syncing!engine
  <2>2. RowTables'
    BY <2>1 DEF CoverInv, RowTables
  <2>3. announced \in Nat /\ floor \in Nat
    BY RowsAreNumbers
  <2>4. \A row : Reached(row, announced, floor) => Reached(row, announced, floor + 1)
    BY <2>3 DEF Reached
  <2>5. Covering'
    BY <2>1, <2>4 DEF CoverInv, Covering
  <2> QED
    BY <2>2, <2>5 DEF CoverInv
<1> QED
  BY <1>1, <1>2, <1>3, <1>4

LEMMA ServeKeeps == CoverInv /\ Syncing!ServePull => CoverInv'
<1> SUFFICES ASSUME CoverInv, Syncing!ServePull PROVE CoverInv'
  OBVIOUS
<1> DEFINE after == Syncing!After(pull.cursor)
           given == Syncing!PageOf(after)
<1>1. UNCHANGED <<log, floor, nextSeq, open, cursor, pending, announced, mail>>
  BY DEF Syncing!ServePull, Syncing!server
<1>2. pull \in Pulls /\ pull.cursor \in Nat /\ log \subseteq Nat /\ IsFiniteSet(log)
  BY DEF CoverInv, RowTables, Pulls
<1>3. after \subseteq log /\ given \subseteq after /\ Syncing!Kept \subseteq log
  BY DEF Syncing!After, Syncing!Kept, Syncing!PageOf
<1>4. after = {s \in log : s > floor /\ s > pull.cursor}
  BY DEF Syncing!After, Syncing!Kept
<1>5. CASE Syncing!Expired(pull.cursor)
  <2>1. Syncing!Kept # {} /\ pull.cursor < Syncing!Min(Syncing!Kept) - 1
    BY <1>5 DEF Syncing!Expired
  <2>2. Syncing!Min(Syncing!Kept) \in Nat
    BY <1>2, <1>3, <2>1, LeastRow
  <2>3. Syncing!Min(Syncing!Kept) - 1 \in Nat
    BY <1>2, <2>1, <2>2
  <2>4. pull' = [pull EXCEPT !.at = "expired", !.cursor = Syncing!Min(Syncing!Kept) - 1]
    BY <1>5 DEF Syncing!ServePull
  <2>5. pull' \in Pulls /\ pull'.at = "expired" /\ pull'.rows = pull.rows
    BY <1>2, <2>3, <2>4 DEF Pulls
  <2> QED
    BY <1>1, <2>5 DEF CoverInv, RowTables, Covering
<1>6. CASE ~Syncing!Expired(pull.cursor)
  <2>1. pull' = [pull EXCEPT !.at = "served", !.rows = given, !.more = (after # given)]
    BY <1>6 DEF Syncing!ServePull
  <2>2. given \subseteq Nat /\ (after # given) \in BOOLEAN /\ IsFiniteSet(given)
    BY <1>2, <1>3, FS_Subset
  <2> HIDE DEF given, after
  <2>3. /\ pull' \in Pulls /\ pull'.at = "served" /\ pull'.rows = given
        /\ pull'.more = (after # given) /\ pull'.cursor = pull.cursor
    BY <1>2, <2>1, <2>2 DEF Pulls
  <2>4. RowTables'
    BY <1>1, <2>2, <2>3 DEF CoverInv, RowTables
  <2>5. ASSUME after = given
        PROVE  Reached(NextCursor(pull'), announced, floor)
    <3> SUFFICES ASSUME announced > floor PROVE NextCursor(pull') >= announced
      BY RowsAreNumbers DEF Reached
    <3>1. announced \in Nat /\ floor \in Nat /\ announced \in log
      BY RowsAreNumbers
    <3>2. CASE given = {}
      <4>1. NextCursor(pull') = pull.cursor
        BY <2>3, <3>2 DEF NextCursor
      <4>2. ~(announced > pull.cursor)
        BY <1>4, <2>5, <3>1, <3>2
      <4> QED
        BY <1>2, <3>1, <4>1, <4>2
    <3>3. CASE given # {}
      <4>1. NextCursor(pull') = Syncing!Max(given)
        BY <2>3, <3>3 DEF NextCursor
      <4>2. Syncing!Max(given) \in given /\ \A r \in given : Syncing!Max(given) >= r
        BY <2>2, <3>3, GreatestRow
      <4>3. Syncing!Max(given) > pull.cursor /\ Syncing!Max(given) \in Nat
        BY <1>4, <2>2, <2>5, <4>2
      <4>4. CASE announced > pull.cursor
        <5>1. announced \in given
          BY <1>4, <2>5, <3>1, <4>4
        <5> QED
          BY <4>1, <4>2, <5>1
      <4>5. CASE ~(announced > pull.cursor)
        BY <1>2, <3>1, <4>1, <4>3, <4>5
      <4> QED
        BY <4>4, <4>5
    <3> QED
      BY <3>2, <3>3
  <2>6. Covering'
    BY <1>1, <2>3, <2>5 DEF Covering
  <2> QED
    BY <2>4, <2>6 DEF CoverInv
<1> QED
  BY <1>5, <1>6

\* What finally() starts or not.
LEMMA FinishPulls ==
  ASSUME CoverInv, NEW from \in Nat, Syncing!Finish(from)
  PROVE  /\ pull' \in Pulls /\ IsFiniteSet(pull'.rows) /\ pending' \in BOOLEAN
         /\ pull'.at \in {"none", "asked"} /\ (pull'.at = "none" => ~pending)
<1>1. pull' \in {Syncing!NoPull, [Syncing!NoPull EXCEPT !.at = "asked", !.cursor = from]}
      /\ (pull' # [Syncing!NoPull EXCEPT !.at = "asked", !.cursor = from] => ~pending)
      /\ pending' \in BOOLEAN
  BY DEF Syncing!Finish
<1>2. /\ Syncing!NoPull \in Pulls /\ Syncing!NoPull.rows = {} /\ Syncing!NoPull.at = "none"
  BY DEF Syncing!NoPull, Pulls
<1> DEFINE next == [Syncing!NoPull EXCEPT !.at = "asked", !.cursor = from]
<1>3. next \in Pulls /\ next.rows = {} /\ next.at = "asked"
  BY <1>2 DEF Pulls
<1> QED
  BY <1>1, <1>2, <1>3, FS_EmptySet

LEMMA TakeKeeps ==
  ASSUME CoverInv, Syncing!TakePage \/ Syncing!TakeExpired \/ Syncing!FailPull
  PROVE  CoverInv'
<1>1. CASE Syncing!TakePage
  <2> DEFINE next == NextCursor(pull)
  <2>1. /\ pull.at = "served" /\ cursor' = next
        /\ UNCHANGED <<log, floor, nextSeq, open, announced, mail>>
    BY <1>1 DEF Syncing!TakePage, Syncing!WriteCursor, Syncing!server, NextCursor
  <2>2. pull.rows \subseteq Nat /\ IsFiniteSet(pull.rows) /\ pull.cursor \in Nat /\ pull.more \in BOOLEAN
    BY DEF CoverInv, RowTables, Pulls
  <2>3. next \in Nat
    BY <2>2, GreatestRow DEF NextCursor
  <2>4. CASE pull.more
    <3>1. pull' = [Syncing!NoPull EXCEPT !.at = "asked", !.cursor = next] /\ pending' = pending
      BY <1>1, <2>4 DEF Syncing!TakePage, NextCursor
    <3> HIDE DEF next
    <3>2. pull' \in Pulls /\ pull'.at = "asked" /\ pull'.rows = {}
      BY <2>3, <3>1 DEF Syncing!NoPull, Pulls
    <3> QED
      BY <2>1, <2>3, <3>1, <3>2, FS_EmptySet DEF CoverInv, RowTables, Covering
  <2>5. CASE ~pull.more
    <3>1. Syncing!Finish(next)
      BY <1>1, <2>5 DEF Syncing!TakePage, NextCursor
    <3> HIDE DEF next
    <3>2. /\ pull' \in Pulls /\ IsFiniteSet(pull'.rows) /\ pending' \in BOOLEAN
          /\ pull'.at \in {"none", "asked"} /\ (pull'.at = "none" => ~pending)
      BY <2>3, <3>1, FinishPulls
    <3>3. ~pending => Reached(next, announced, floor)
      BY <2>1, <2>5 DEF CoverInv, Covering, next
    <3> QED
      BY <2>1, <2>3, <3>2, <3>3 DEF CoverInv, RowTables, Covering
  <2> QED
    BY <2>4, <2>5
<1>2. CASE Syncing!TakeExpired
  <2>1. /\ cursor' = pull.cursor /\ pending' = pending
        /\ pull' = [Syncing!NoPull EXCEPT !.at = "asked", !.cursor = pull.cursor]
        /\ UNCHANGED <<log, floor, nextSeq, open, announced, mail>>
    BY <1>2 DEF Syncing!TakeExpired, Syncing!WriteCursor, Syncing!server
  <2>2. pull.cursor \in Nat
    BY DEF CoverInv, RowTables, Pulls
  <2>3. pull' \in Pulls /\ pull'.at = "asked" /\ pull'.rows = {}
    BY <2>1, <2>2 DEF Syncing!NoPull, Pulls
  <2> QED
    BY <2>1, <2>2, <2>3, FS_EmptySet DEF CoverInv, RowTables, Covering
<1>3. CASE Syncing!FailPull
  <2>1. /\ Syncing!Finish(cursor) /\ announced' = (IF pending THEN announced ELSE 0)
        /\ UNCHANGED <<log, floor, nextSeq, open, cursor, mail>>
    BY <1>3 DEF Syncing!FailPull, Syncing!ReadCursor, Syncing!server
  <2>2. cursor \in Nat /\ announced \in log \cup {0}
    BY RowsAreNumbers
  <2>3. /\ pull' \in Pulls /\ IsFiniteSet(pull'.rows) /\ pending' \in BOOLEAN
        /\ pull'.at \in {"none", "asked"} /\ (pull'.at = "none" => ~pending)
    BY <2>1, <2>2, FinishPulls
  <2>4. announced' \in log \cup {0} /\ (~pending => announced' = 0)
    BY <2>1, <2>2
  <2>5. \A row \in Nat : Reached(row, 0, floor)
    BY DEF Reached
  <2>6. pull'.at = "none" => Reached(cursor', announced', floor')
    BY <2>1, <2>2, <2>3, <2>4, <2>5
  <2> QED
    BY <2>1, <2>2, <2>3, <2>4, <2>6 DEF CoverInv, RowTables, Covering
<1> QED
  BY <1>1, <1>2, <1>3

LEMMA CoverStarts == Syncing!Init => CoverInv
<1> SUFFICES ASSUME Syncing!Init PROVE CoverInv
  OBVIOUS
<1>1. Syncing!NoPull \in Pulls /\ Syncing!NoPull.rows = {} /\ Syncing!NoPull.at = "none"
  BY DEF Syncing!NoPull, Pulls
<1>2. /\ log = {} /\ floor = 0 /\ nextSeq = 1 /\ open = {} /\ mail = 0 /\ announced = 0 /\ cursor = 0
      /\ pending = FALSE /\ pull = Syncing!NoPull
  BY DEF Syncing!Init
<1>3. RowTables
  BY <1>1, <1>2, FS_EmptySet DEF RowTables
<1>4. Covering
  BY <1>1, <1>2 DEF Covering, Reached
<1> QED
  BY <1>3, <1>4 DEF CoverInv

LEMMA CoverStep == CoverInv /\ Syncing!Next => CoverInv'
<1> SUFFICES ASSUME CoverInv, Syncing!Next PROVE CoverInv'
  OBVIOUS
<1>1. CASE \E op \in Ops : Syncing!Enqueue(op) \/ Syncing!Push(op) \/ Syncing!Conflict(op) \/ Syncing!Replay(op)
  BY <1>1, QueueKeeps
<1>2. CASE \/ \E op \in Ops : Syncing!BeginOperation(op)
           \/ \E o \in Others : Syncing!BeginOther(o)
  BY <1>2, BeginKeeps
<1>3. CASE \/ \E op \in Ops : Syncing!CommitOperation(op)
           \/ \E o \in Others : Syncing!CommitOther(o)
  BY <1>3, CommitKeeps
<1>4. CASE \/ Syncing!Activate \/ Syncing!Deactivate \/ Syncing!SocketOpens \/ Syncing!SocketDrops
           \/ Syncing!Poll \/ Syncing!Hint \/ Syncing!DropOldRows
  BY <1>4, PageKeeps
<1>5. CASE Syncing!ServePull
  BY <1>5, ServeKeeps
<1>6. CASE Syncing!TakePage \/ Syncing!TakeExpired \/ Syncing!FailPull
  BY <1>6, TakeKeeps
<1>7. CASE Syncing!QueueStep
  BY <1>1, <1>2, <1>3, <1>7 DEF Syncing!QueueStep
<1>8. CASE Syncing!EngineStep
  BY <1>4, <1>5, <1>6, <1>8 DEF Syncing!EngineStep
<1>9. CASE \E o \in Others : Syncing!BeginOther(o) \/ Syncing!CommitOther(o)
  BY <1>2, <1>3, <1>9
<1> QED
  BY <1>7, <1>8, <1>9 DEF Syncing!Next

-----------------------------------------------------------------------------
(* Sync: the operations of a device *)

\* The last operation on the favorite set it.
Marked(h) ==
  \E i \in DOMAIN h : h[i].kind = "put" /\ \A j \in DOMAIN h : j > i => h[j].kind = "patch"

Patched(h) == {i \in DOMAIN h : h[i].kind = "patch"}

\* Every operation that took effect is still under way or has its outcome stored.
Remembered(id) == (\E t \in open : t.what = id) \/ (\E r \in outcome : r.op.id = id)

HistoryInv ==
  /\ history \in Seq(Ops)
  /\ \A i \in DOMAIN history : Remembered(history[i].id)
  /\ \A i, j \in DOMAIN history : history[i].id = history[j].id => i = j
  /\ favorite = Marked(history)
  /\ version = 1 + Cardinality(Patched(history))

LEMMA OneMore ==
  ASSUME NEW h \in Seq(Ops), NEW op \in Ops
  PROVE  /\ Append(h, op) \in Seq(Ops) /\ Len(h) \in Nat
         /\ DOMAIN h = 1..Len(h) /\ DOMAIN Append(h, op) = 1..(Len(h) + 1)
         /\ \A i \in 1..Len(h) : Append(h, op)[i] = h[i]
         /\ Append(h, op)[Len(h) + 1] = op
OBVIOUS

LEMMA MarkedAfter ==
  ASSUME NEW h \in Seq(Ops), NEW op \in Ops
  PROVE  Marked(Append(h, op)) = IF op.kind = "patch" THEN Marked(h) ELSE op.kind = "put"
<1> DEFINE g == Append(h, op)
           n == Len(h)
<1>1. /\ n \in Nat /\ DOMAIN h = 1..n /\ DOMAIN g = 1..(n + 1)
      /\ (\A i \in 1..n : g[i] = h[i]) /\ g[n + 1] = op
  BY OneMore
<1> HIDE DEF g, n
<1>2. CASE op.kind = "patch"
  <2>1. ASSUME Marked(h) PROVE Marked(g)
    <3>1. PICK i \in 1..n : h[i].kind = "put" /\ \A j \in 1..n : j > i => h[j].kind = "patch"
      BY <1>1, <2>1 DEF Marked
    <3>2. i \in 1..(n + 1) /\ g[i].kind = "put"
      BY <1>1, <3>1
    <3>3. \A j \in 1..(n + 1) : j > i => g[j].kind = "patch"
      <4> SUFFICES ASSUME NEW j \in 1..(n + 1), j > i PROVE g[j].kind = "patch"
        OBVIOUS
      <4>1. CASE j = n + 1
        BY <1>1, <1>2, <4>1
      <4>2. CASE j \in 1..n
        BY <1>1, <3>1, <4>2
      <4> QED
        BY <1>1, <4>1, <4>2
    <3> QED
      BY <1>1, <3>2, <3>3 DEF Marked
  <2>2. ASSUME Marked(g) PROVE Marked(h)
    <3>1. PICK i \in 1..(n + 1) : g[i].kind = "put" /\ \A j \in 1..(n + 1) : j > i => g[j].kind = "patch"
      BY <1>1, <2>2 DEF Marked
    <3>2. i # n + 1
      BY <1>1, <1>2, <3>1
    <3>3. i \in 1..n
      BY <1>1, <3>2
    <3>4. \A j \in 1..n : j > i => h[j].kind = "patch"
      BY <1>1, <3>1
    <3>5. h[i].kind = "put"
      BY <1>1, <3>1, <3>3
    <3> QED
      BY <1>1, <3>3, <3>4, <3>5 DEF Marked
  <2>3. Marked(g) \in BOOLEAN /\ Marked(h) \in BOOLEAN
    BY DEF Marked
  <2> QED
    BY <1>2, <2>1, <2>2, <2>3 DEF g
<1>3. CASE op.kind # "patch"
  <2>1. ASSUME op.kind = "put" PROVE Marked(g)
    <3>1. n + 1 \in 1..(n + 1) /\ \A j \in 1..(n + 1) : ~(j > n + 1)
      BY <1>1
    <3> QED
      BY <1>1, <2>1, <3>1 DEF Marked
  <2>2. ASSUME Marked(g) PROVE op.kind = "put"
    <3>1. PICK i \in 1..(n + 1) : g[i].kind = "put" /\ \A j \in 1..(n + 1) : j > i => g[j].kind = "patch"
      BY <1>1, <2>2 DEF Marked
    <3>2. ~(n + 1 > i)
      BY <1>1, <1>3, <3>1
    <3>3. i = n + 1
      BY <1>1, <3>2
    <3> QED
      BY <1>1, <3>1, <3>3
  <2>3. Marked(g) \in BOOLEAN
    BY DEF Marked
  <2> QED
    BY <1>3, <2>1, <2>2, <2>3 DEF g
<1> QED
  BY <1>2, <1>3

LEMMA PatchedAfter ==
  ASSUME NEW h \in Seq(Ops), NEW op \in Ops
  PROVE  /\ Cardinality(Patched(h)) \in Nat
         /\ Cardinality(Patched(Append(h, op))) =
              IF op.kind = "patch" THEN Cardinality(Patched(h)) + 1 ELSE Cardinality(Patched(h))
<1> DEFINE g == Append(h, op)
           n == Len(h)
<1>1. /\ n \in Nat /\ DOMAIN h = 1..n /\ DOMAIN g = 1..(n + 1)
      /\ (\A i \in 1..n : g[i] = h[i]) /\ g[n + 1] = op
  BY OneMore
<1> HIDE DEF g, n
<1>2. IsFiniteSet(1..n)
  BY <1>1, FS_Interval
<1>3. Patched(h) \subseteq 1..n /\ n + 1 \notin Patched(h)
  BY <1>1 DEF Patched
<1>4. IsFiniteSet(Patched(h)) /\ Cardinality(Patched(h)) \in Nat
  BY <1>2, <1>3, FS_Subset, FS_CardinalityType
<1>5. CASE op.kind = "patch"
  <2>1. Patched(g) = Patched(h) \cup {n + 1}
    BY <1>1, <1>5 DEF Patched
  <2>2. Cardinality(Patched(h) \cup {n + 1}) = Cardinality(Patched(h)) + 1
    BY <1>3, <1>4, FS_AddElement
  <2> QED
    BY <1>4, <1>5, <2>1, <2>2 DEF g
<1>6. CASE op.kind # "patch"
  <2>1. Patched(g) = Patched(h)
    BY <1>1, <1>6 DEF Patched
  <2> QED
    BY <1>4, <1>6, <2>1 DEF g
<1> QED
  BY <1>5, <1>6

\* What leaves the history alone must keep the traces of its operations.
LEMMA TracesKeep ==
  ASSUME HistoryInv, UNCHANGED <<history, favorite, version>>,
         \A id : Remembered(id) /\ (\E op \in Ops : op.id = id) => Remembered(id)'
  PROVE  HistoryInv'
<1>1. \A i \in DOMAIN history : \E op \in Ops : op.id = history[i].id
  BY DEF HistoryInv
<1>2. \A i \in DOMAIN history : Remembered(history[i].id)'
  BY <1>1 DEF HistoryInv
<1>3. (\A i \in DOMAIN history : Remembered(history[i].id))'
  BY <1>2
<1>4. Marked(history)' = Marked(history) /\ Patched(history)' = Patched(history)
  BY DEF Marked, Patched
<1> QED
  BY <1>3, <1>4 DEF HistoryInv

LEMMA HistoryStarts == Syncing!Init => HistoryInv
<1> SUFFICES ASSUME Syncing!Init PROVE HistoryInv
  OBVIOUS
<1>1. history = <<>> /\ favorite = FALSE /\ version = 1
  BY DEF Syncing!Init
<1>2. DOMAIN history = {} /\ history \in Seq(Ops)
  BY <1>1
<1>3. Patched(history) = {} /\ Marked(history) = FALSE
  BY <1>2 DEF Patched, Marked
<1>4. Cardinality(Patched(history)) = 0
  BY <1>3, FS_EmptySet
<1>5. version = 1 + Cardinality(Patched(history))
  BY <1>1, <1>4
<1>6. favorite = Marked(history)
  BY <1>1, <1>3
<1> QED
  BY <1>2, <1>5, <1>6, Zenon DEF HistoryInv

LEMMA HistoryStep == HistoryInv /\ Syncing!Next => HistoryInv'
<1> SUFFICES ASSUME HistoryInv, Syncing!Next PROVE HistoryInv'
  OBVIOUS
<1>1. ASSUME NEW op \in Ops, Syncing!BeginOperation(op)
      PROVE  HistoryInv'
  <2>0. /\ history' = Append(history, op) /\ Syncing!Effect(op) /\ outcome' = outcome
        /\ open' = open \cup {[what |-> op.id, seq |-> nextSeq]}
        /\ ~Syncing!InProgress(op) /\ Syncing!Stored(op) = {} /\ ~Syncing!Conflicts(op)
    BY <1>1 DEF Syncing!BeginOperation
  <2>1. /\ history' = Append(history, op) /\ Syncing!Effect(op) /\ outcome' = outcome
        /\ open \subseteq open' /\ (\E t \in open' : t.what = op.id)
        /\ ~Syncing!InProgress(op) /\ Syncing!Stored(op) = {} /\ ~Syncing!Conflicts(op)
    <3>1. [what |-> op.id, seq |-> nextSeq] \in open' /\ open \subseteq open'
      BY <2>0
    <3> QED
      BY <2>0, <3>1
  <2>2. ~Remembered(op.id)
    BY <2>1 DEF Remembered, Syncing!InProgress, Syncing!Stored
  <2>3. \A id : (Remembered(id) \/ id = op.id) => Remembered(id)'
    BY <2>1 DEF Remembered
  <2> DEFINE n == Len(history)
             g == Append(history, op)
  <2>4. /\ n \in Nat /\ DOMAIN history = 1..n /\ DOMAIN g = 1..(n + 1)
        /\ (\A i \in 1..n : g[i] = history[i]) /\ g[n + 1] = op /\ g \in Seq(Ops)
    BY OneMore DEF HistoryInv
  <2>5. favorite' = Marked(g)
    <3>1. Marked(g) = IF op.kind = "patch" THEN Marked(history) ELSE op.kind = "put"
      BY MarkedAfter DEF HistoryInv
    <3> QED
      BY <2>1, <3>1 DEF Syncing!Effect, HistoryInv
  <2>6. version' = 1 + Cardinality(Patched(g))
    <3>1. /\ Cardinality(Patched(history)) \in Nat
          /\ Cardinality(Patched(g)) =
               IF op.kind = "patch" THEN Cardinality(Patched(history)) + 1 ELSE Cardinality(Patched(history))
      BY PatchedAfter DEF HistoryInv
    <3>2. version' = IF op.kind = "patch" THEN version + 1 ELSE version
      BY <2>1 DEF Syncing!Effect, Syncing!Conflicts
    <3> QED
      BY <3>1, <3>2 DEF HistoryInv
  <2> HIDE DEF n, g
  <2>7. \A i \in DOMAIN g : g[i].id = op.id \/ Remembered(g[i].id)
    <3> SUFFICES ASSUME NEW i \in 1..(n + 1) PROVE g[i].id = op.id \/ Remembered(g[i].id)
      BY <2>4
    <3>1. CASE i = n + 1
      BY <2>4, <3>1
    <3>2. CASE i \in 1..n
      BY <2>4, <3>2 DEF HistoryInv
    <3> QED
      BY <2>4, <3>1, <3>2
  <2>8. \A i, j \in DOMAIN g : g[i].id = g[j].id => i = j
    <3> SUFFICES ASSUME NEW i \in 1..(n + 1), NEW j \in 1..(n + 1), g[i].id = g[j].id PROVE i = j
      BY <2>4
    <3>1. CASE i \in 1..n /\ j \in 1..n
      BY <2>4, <3>1 DEF HistoryInv
    <3>2. CASE i = n + 1 /\ j \in 1..n
      BY <2>2, <2>4, <3>2 DEF HistoryInv
    <3>3. CASE i \in 1..n /\ j = n + 1
      BY <2>2, <2>4, <3>3 DEF HistoryInv
    <3> QED
      BY <2>4, <3>1, <3>2, <3>3
  <2>9. history' = g
    BY <2>1 DEF g
  <2>10. (\A i \in DOMAIN history : Remembered(history[i].id))'
    <3> SUFFICES ASSUME NEW i \in DOMAIN g PROVE Remembered(history[i].id)'
      BY <2>9
    <3>1. PICK id : id = g[i].id
      OBVIOUS
    <3>2. Remembered(id)'
      BY <2>3, <2>7, <3>1
    <3> QED
      BY <2>9, <3>1, <3>2
  <2> QED
    BY <2>4, <2>5, <2>6, <2>8, <2>9, <2>10 DEF HistoryInv, Marked, Patched
<1>2. ASSUME NEW op \in Ops, Syncing!CommitOperation(op)
      PROVE  HistoryInv'
  <2>1. /\ UNCHANGED <<history, favorite, version>>
        /\ \E t \in open : t.what = op.id /\ open' = open \ {t}
        /\ outcome' = outcome \cup {[op |-> op, state |-> "applied"]}
    BY <1>2 DEF Syncing!CommitOperation, Syncing!Commits
  <2>2. ASSUME NEW id, Remembered(id) PROVE Remembered(id)'
    <3>1. [op |-> op, state |-> "applied"].op.id = op.id
      OBVIOUS
    <3>2. CASE id = op.id
      BY <2>1, <3>1, <3>2 DEF Remembered
    <3>3. CASE id # op.id
      BY <2>1, <2>2, <3>3 DEF Remembered
    <3> QED
      BY <3>2, <3>3
  <2> QED
    BY <2>1, <2>2, TracesKeep
<1>3. ASSUME NEW o \in Others, Syncing!CommitOther(o)
      PROVE  HistoryInv'
  <2>1. /\ UNCHANGED <<history, favorite, version, outcome>>
        /\ \E t \in open : t.what = o /\ open' = open \ {t}
    BY <1>3 DEF Syncing!CommitOther, Syncing!Commits
  <2>2. \A op \in Ops : op.id # o
    BY SmallRequests DEF SmallRequests
  <2>3. \A id : Remembered(id) /\ (\E op \in Ops : op.id = id) => Remembered(id)'
    BY <2>1, <2>2 DEF Remembered
  <2> QED
    BY <2>1, <2>3, TracesKeep
<1>4. ASSUME UNCHANGED <<history, favorite, version>>, open \subseteq open', outcome \subseteq outcome'
      PROVE  HistoryInv'
  <2>1. \A id : Remembered(id) => Remembered(id)'
    BY <1>4 DEF Remembered
  <2> QED
    BY <1>4, <2>1, TracesKeep
<1>5. ASSUME NEW op \in Ops,
             Syncing!Enqueue(op) \/ Syncing!Push(op) \/ Syncing!Conflict(op) \/ Syncing!Replay(op)
      PROVE  HistoryInv'
  BY <1>4, <1>5 DEF Syncing!Enqueue, Syncing!Push, Syncing!Conflict, Syncing!Replay, Syncing!server
<1>6. ASSUME NEW o \in Others, Syncing!BeginOther(o)
      PROVE  HistoryInv'
  BY <1>4, <1>6 DEF Syncing!BeginOther
<1>7. CASE Syncing!EngineStep
  <2>1. UNCHANGED <<history, favorite, version, open, outcome>>
    BY <1>7 DEF Syncing!EngineStep, Syncing!Activate, Syncing!Deactivate, Syncing!SocketOpens,
       Syncing!SocketDrops, Syncing!Poll, Syncing!Hint, Syncing!DropOldRows, Syncing!ServePull,
       Syncing!TakePage, Syncing!TakeExpired, Syncing!FailPull, Syncing!server
  <2> QED
    BY <1>4, <2>1
<1> QED
  BY <1>1, <1>2, <1>3, <1>5, <1>6, <1>7 DEF Syncing!Next, Syncing!QueueStep

LEMMA SyncStep == HistoryInv /\ CoverInv /\ [Next]_requestsVars => HistoryInv' /\ CoverInv'
<1> SUFFICES ASSUME HistoryInv, CoverInv, [Next]_requestsVars PROVE HistoryInv' /\ CoverInv'
  OBVIOUS
<1>1. CASE UNCHANGED syncPart
  <2>1. CoverInv'
    BY <1>1 DEF syncPart, CoverInv, RowTables, Covering
  <2>2. UNCHANGED <<history, favorite, version, open, outcome>>
    BY <1>1 DEF syncPart
  <2>3. HistoryInv'
    <3>1. \A id : Remembered(id) => Remembered(id)'
      BY <2>2 DEF Remembered
    <3> QED
      BY <2>2, <3>1, TracesKeep
  <2> QED
    BY <2>1, <2>3
<1>2. CASE Syncing!Next
  BY <1>2, HistoryStep, CoverStep
<1> QED
  BY <1>1, <1>2 DEF Next, requestsVars

LEMMA SameSyncCardinality == \A S : Syncing!Cardinality(S) = Cardinality(S)
BY Zenon DEF Syncing!Cardinality, Cardinality

\* An operation that is sent until it is acknowledged takes effect once, in the profile's version
\* and in the favorite, and an engine at rest has reached what was announced to it: over lost
\* answers and hints, pulls served before a commit, and rows dropped from the log.
THEOREM SyncIsConverging == Spec => []SyncConverges
<1>1. Init => HistoryInv /\ CoverInv
  BY HistoryStarts, CoverStarts DEF Init
<1>2. HistoryInv /\ CoverInv /\ [Next]_requestsVars => HistoryInv' /\ CoverInv'
  BY SyncStep
<1>3. HistoryInv /\ CoverInv => SyncConverges
  <2> SUFFICES ASSUME HistoryInv, CoverInv
               PROVE  Syncing!OperationsApplyOnce /\ Syncing!AnnouncedIsCovered
    BY DEF SyncConverges
  <2>1. Syncing!AnnouncedIsCovered
    BY DEF CoverInv, Covering, Reached, Syncing!AnnouncedIsCovered
  <2>2. Syncing!OperationsApplyOnce
    BY SameSyncCardinality DEF HistoryInv, Marked, Patched, Syncing!OperationsApplyOnce
  <2> QED
    BY <2>1, <2>2
<1> QED
  BY <1>1, <1>2, <1>3, PTL DEF Spec

-----------------------------------------------------------------------------
(* Reports: the form *)

Bodies == [fill : Nat, evidence : {"none", "chosen", "uploaded"}]
ReportCalls == [by : Members, key : Nat, body : Bodies]
Statuses == {"open", "claimed", "decided", "appealed"}
Cases ==
  [by : Members, fill : Nat, status : Statuses, assignee : Reviewers \cup {"none"}, version : Nat,
   decisions : Nat, appeals : SUBSET Members, seen : SUBSET Members]
AllReports == reports \cup received

FormTables ==
  /\ reporter \in Members /\ form \in Bodies /\ attempt \in [print : Bodies, key : Nat]
  /\ running \in [step : {"idle", "uploading"}] \cup [step : {"sending"}, key : Nat]
  /\ AllReports \subseteq ReportCalls
  /\ counters \in [fills : Nat, keys : Nat, lost : Nat]

\* A text has the number of its edit, and what is sent has nothing left to upload.
TextsAreNumbered ==
  /\ form.fill <= counters.fills /\ (form.fill = 0 => form.evidence = "none")
  /\ running.step = "uploading" => form.evidence = "chosen"
  /\ \A q \in AllReports : q.body.fill \in 1..counters.fills /\ q.body.evidence # "chosen"

\* One text is sent as one request; that of the text still in the form is the attempt.
OneCallPerText ==
  /\ \A p, q \in AllReports : p.body.fill = q.body.fill => p = q
  /\ \A q \in AllReports : q.body.fill = form.fill =>
       /\ q.by = reporter /\ q.body = form
       /\ attempt.print = form /\ attempt.key = q.key /\ q.key # 0

FormInv == FormTables /\ TextsAreNumbered /\ OneCallPerText

(* Reports: the cases *)

\* A reviewer whose row is of the case's version has read its appeals.
RowsAreRead ==
  /\ rows \in [Reviewers -> [case : {0}] \cup [case : Nat \ {0}, version : Nat, appeals : SUBSET Members]]
  /\ \A r \in Reviewers : rows[r].case # 0 =>
       /\ rows[r].case \in 1..Len(cases) /\ rows[r].version <= cases[rows[r].case].version
       /\ rows[r].version = cases[rows[r].case].version => rows[r].appeals = cases[rows[r].case].appeals

\* A case is decided once more than it was appealed, by someone who had read every appeal.
CaseRule(k) ==
  /\ IsFiniteSet(k.appeals)
  /\ k.decisions = Cardinality(k.appeals) + (IF k.status = "decided" THEN 1 ELSE 0)
  /\ k.status = "decided" => k.seen = k.appeals

\* Every case the form opened belongs to a request that was carried out.
CasesInv ==
  /\ cases \in Seq(Cases) /\ side \in {"form", "desk"} /\ RowsAreRead
  /\ \A c \in 1..Len(cases) : CaseRule(cases[c])
  /\ \A c, d \in 1..Len(cases) : cases[c].fill = cases[d].fill => c = d
  /\ side = "form" => \A c \in 1..Len(cases) : \E q \in received : q.body.fill = cases[c].fill

-----------------------------------------------------------------------------
(* Approvals *)

Verbs == {"create", "approve", "reject", "execute", "activate", "rollback"}
States == {"pending", "approved", "rejected", "executed", "ready", "active", "superseded"}
Items ==
  [by : Operators, amount : Int, state : States, approvers : SUBSET Operators, used : Nat,
   window : {"always", "early", "open", "over"}]
Asks == [by : Operators, key : Nat, op : Verbs, item : Nat, amount : Int]
Dialogs == [op : {"none"}] \cup [op : Verbs, item : Nat, key : Nat, waiting : BOOLEAN]
Activations == [item : {0}] \cup [item : Nat \ {0}, old : SUBSET Nat, request : Asks]

DeskTables ==
  /\ desk \in {"points", "config", "exports"} /\ items \in Seq(Items) /\ wallet \in Int
  /\ dialogs \in [Operators -> Nat] /\ dialog \in [Operators -> Dialogs]
  /\ asked \subseteq Asks /\ carried \subseteq Asks /\ IsFiniteSet(carried)
  /\ activation \in [Operators -> Activations]

\* What an operator may ask of a row, at the desks that offer it.
Aimed(op, item) ==
  /\ item \in 0..Len(items) /\ (item = 0 => op = "create")
  /\ op = "execute" => desk = "points"
  /\ op = "activate" => desk # "points"

\* What carries a row into effect: colleagues enough, and at the desk of the points once.
Consented(d, item) ==
  Cardinality(item.approvers) >= IF d = "points" THEN Desks!Required(item.amount) ELSE 1

Supported(d, item) ==
  /\ IsFiniteSet(item.approvers) /\ item.by \notin item.approvers
  /\ item.state \in Desks!InUse \cup {"approved"} => Consented(d, item)
  /\ d = "points" => item.used \in {0, 1} /\ (item.used = 1 => item.state = "executed")

DesksAim ==
  /\ \A o \in Operators : dialog[o].op # "none" => Aimed(dialog[o].op, dialog[o].item)
  /\ \A q \in asked : Aimed(q.op, q.item)

\* The rows of an activation that has not committed had their consent when it began.
Activating ==
  \A o \in Operators : activation[o].item # 0 =>
    /\ desk # "points" /\ activation[o].item \in 1..Len(items) /\ activation[o].old \subseteq 1..Len(items)
    /\ \A i \in activation[o].old \cup {activation[o].item} : Consented(desk, items[i])

WalletRule ==
  /\ wallet >= 0
  /\ wallet = StartBalance + Sum(Desks!Moved, IF desk = "points" THEN 1..Len(items) ELSE {})

\* Rows an operator asked for, and dialogs of the operator's that asked for one.
Own(s, o) == {i \in 1..Len(s) : s[i].by = o}
Asking(c, o) == {p \in c : p.by = o /\ p.op \in {"create", "rollback"}}
KeysOf(c) == {p.key : p \in c}

DialogRule ==
  \A o \in Operators : Cardinality(Own(items, o)) <= Cardinality(KeysOf(Asking(carried, o)))

DesksInv ==
  /\ DeskTables /\ DesksAim /\ Activating
  /\ \A i \in 1..Len(items) : Supported(desk, items[i])
  /\ WalletRule /\ DialogRule

(* Reports: the form keeps its rules *)

LEMMA FormStarts == Reporting!Init => FormInv
<1> SUFFICES ASSUME Reporting!Init PROVE FormInv
  OBVIOUS
<1>1. /\ reporter \in Members /\ form = [fill |-> 0, evidence |-> "none"]
      /\ attempt = [print |-> form, key |-> 0] /\ running = [step |-> "idle"]
      /\ reports = {} /\ received = {} /\ counters = [fills |-> 0, keys |-> 0, lost |-> 0]
  BY DEF Reporting!Init, Reporting!EmptyForm, Reporting!NoAttempt, Reporting!NotRunning
<1>2. FormTables
  BY <1>1 DEF FormTables, Bodies, AllReports
<1>3. TextsAreNumbered /\ OneCallPerText
  BY <1>1 DEF TextsAreNumbered, OneCallPerText, AllReports
<1> QED
  BY <1>2, <1>3 DEF FormInv

LEMMA SendKeeps ==
  ASSUME FormInv, NEW body \in Bodies, body.fill = form.fill, form.fill # 0, body.evidence # "chosen",
         \A q \in AllReports : q.body.fill = form.fill => body = form,
         form' = body, Reporting!SendReport(body, Reporting!KeyFor(body)), UNCHANGED <<reporter, received>>
  PROVE  FormInv'
<1> DEFINE key == Reporting!KeyFor(body)
           call == [by |-> reporter, key |-> key, body |-> body]
<1>0. /\ reporter \in Members /\ form \in Bodies /\ attempt \in [print : Bodies, key : Nat]
      /\ AllReports \subseteq ReportCalls /\ counters \in [fills : Nat, keys : Nat, lost : Nat]
  BY DEF FormInv, FormTables
<1>1. key \in Nat \ {0} /\ (attempt.key # 0 /\ attempt.print = body => key = attempt.key)
  BY <1>0 DEF Reporting!KeyFor
<1>2. /\ attempt' = [print |-> body, key |-> key]
      /\ counters' = [counters EXCEPT !.keys = IF key > @ THEN key ELSE @]
      /\ running' = [step |-> "sending", key |-> key]
      /\ reports' = reports \cup {call}
  BY DEF Reporting!SendReport
<1> HIDE DEF key
<1>3. call \in ReportCalls /\ AllReports' = AllReports \cup {call}
  BY <1>0, <1>1, <1>2 DEF ReportCalls, AllReports
<1>4. counters' \in [fills : Nat, keys : Nat, lost : Nat] /\ counters'.fills = counters.fills
  BY <1>0, <1>1, <1>2
<1>5. FormTables'
  BY <1>0, <1>1, <1>2, <1>3, <1>4 DEF FormTables
<1>6. call.body = body /\ call.by = reporter /\ call.key = key
  OBVIOUS
<1>7. \A q \in AllReports : q.body.fill = form.fill => q = call
  <2> SUFFICES ASSUME NEW q \in AllReports, q.body.fill = form.fill PROVE q = call
    OBVIOUS
  <2>1. body = form
    OBVIOUS
  <2>2. q.by = reporter /\ q.body = body /\ q.key = key
    BY <1>1, <2>1 DEF FormInv, OneCallPerText
  <2> QED
    BY <1>0, <2>2 DEF ReportCalls
<1> HIDE DEF call
<1>8. TextsAreNumbered'
  <2>1. form.fill \in 1..counters.fills
    BY <1>0 DEF FormInv, TextsAreNumbered, Bodies
  <2>2. \A q \in AllReports' : q.body.fill \in 1..counters'.fills /\ q.body.evidence # "chosen"
    BY <1>3, <1>4, <1>6, <2>1 DEF FormInv, TextsAreNumbered
  <2>3. running'.step = "sending" /\ form'.fill = form.fill
    BY <1>2
  <2> QED
    BY <1>4, <2>1, <2>2, <2>3 DEF FormInv, TextsAreNumbered
<1>9. OneCallPerText'
  <2>1. \A p, q \in AllReports' : p.body.fill = q.body.fill => p = q
    BY <1>3, <1>6, <1>7 DEF FormInv, OneCallPerText
  <2>2. \A q \in AllReports' : q.body.fill = form'.fill => q = call
    BY <1>3, <1>7
  <2>3. attempt'.print = body /\ attempt'.key = key
    BY <1>2
  <2> QED
    BY <1>1, <1>6, <2>1, <2>2, <2>3 DEF OneCallPerText
<1> QED
  BY <1>5, <1>8, <1>9 DEF FormInv

\* What forgets the form, or leaves it for later.
LEMMA RestKeeps ==
  ASSUME FormInv, reporter' \in Members, AllReports' \subseteq AllReports,
         counters' \in [fills : Nat, keys : Nat, lost : Nat], counters'.fills = counters.fills,
         \/ Reporting!ClearPrivateState
         \/ UNCHANGED <<form, attempt, reporter>> /\ running' \in {running, [step |-> "idle"]}
         \/ UNCHANGED <<form, attempt, reporter>> /\ form.evidence = "chosen" /\ running' = [step |-> "uploading"]
  PROVE  FormInv'
<1>1. CASE Reporting!ClearPrivateState
  <2>1. /\ form' = [fill |-> 0, evidence |-> "none"] /\ attempt' = [print |-> form', key |-> 0]
        /\ running' = [step |-> "idle"]
    BY <1>1 DEF Reporting!ClearPrivateState, Reporting!EmptyForm, Reporting!NoAttempt, Reporting!NotRunning
  <2>2. form' \in Bodies /\ form'.fill = 0 /\ form'.evidence = "none" /\ running'.step = "idle"
    BY <2>1 DEF Bodies
  <2>3. FormTables'
    BY <2>1, <2>2 DEF FormInv, FormTables
  <2>4. TextsAreNumbered'
    BY <2>2 DEF FormInv, FormTables, TextsAreNumbered
  <2>5. \A q \in AllReports' : q.body.fill # 0
    BY DEF FormInv, TextsAreNumbered
  <2>6. OneCallPerText'
    BY <2>2, <2>5 DEF FormInv, OneCallPerText
  <2> QED
    BY <2>3, <2>4, <2>6 DEF FormInv
<1>2. CASE UNCHANGED <<form, attempt, reporter>>
  <2>1. running' \in [step : {"idle", "uploading"}] \cup [step : {"sending"}, key : Nat]
        /\ (running'.step = "uploading" => form.evidence = "chosen")
    <3>1. CASE running' = running
      BY <3>1 DEF FormInv, FormTables, TextsAreNumbered
    <3>2. CASE running' = [step |-> "idle"]
      BY <3>2
    <3>3. CASE form.evidence = "chosen" /\ running' = [step |-> "uploading"]
      BY <3>3
    <3>4. CASE Reporting!ClearPrivateState
      BY <3>4 DEF Reporting!ClearPrivateState, Reporting!NotRunning
    <3> QED
      BY <3>1, <3>2, <3>3, <3>4
  <2>2. FormTables'
    BY <1>2, <2>1 DEF FormInv, FormTables
  <2>3. TextsAreNumbered' /\ OneCallPerText'
    BY <1>2, <2>1 DEF FormInv, TextsAreNumbered, OneCallPerText
  <2> QED
    BY <2>2, <2>3 DEF FormInv
<1> QED
  BY <1>1, <1>2

LEMMA ReplyRests ==
  ASSUME FormInv, NEW q, NEW accepted, Reporting!Reply(q, accepted)
  PROVE  /\ counters' \in [fills : Nat, keys : Nat, lost : Nat] /\ counters'.fills = counters.fills
         /\ \/ Reporting!ClearPrivateState
            \/ UNCHANGED <<form, attempt>> /\ running' \in {running, [step |-> "idle"]}
<1>1. counters \in [fills : Nat, keys : Nat, lost : Nat]
  BY DEF FormInv, FormTables
<1>2. counters' = counters \/ counters' = [counters EXCEPT !.lost = @ + 1]
  BY DEF Reporting!Reply
<1>3. counters' \in [fills : Nat, keys : Nat, lost : Nat] /\ counters'.fills = counters.fills
  BY <1>1, <1>2
<1> QED
  BY <1>3 DEF Reporting!Reply, Reporting!TakeReceipt, Reporting!NotRunning

LEMMA FormStep == FormInv /\ Reporting!Next => FormInv'
<1> SUFFICES ASSUME FormInv, Reporting!Next PROVE FormInv'
  OBVIOUS
<1>0. /\ reporter \in Members /\ form \in Bodies /\ attempt \in [print : Bodies, key : Nat]
      /\ AllReports \subseteq ReportCalls /\ counters \in [fills : Nat, keys : Nat, lost : Nat]
      /\ counters.fills \in Nat /\ form.fill \in Nat
  BY DEF FormInv, FormTables, Bodies
<1>1. CASE Reporting!Edit
  <2>1. PICK evidence \in {"none", "chosen"} : form' = [fill |-> counters.fills + 1, evidence |-> evidence]
    BY <1>1 DEF Reporting!Edit
  <2>2. /\ counters' = [counters EXCEPT !.fills = @ + 1]
        /\ running = [step |-> "idle"] /\ UNCHANGED <<reporter, attempt, running, reports, received>>
    BY <1>1 DEF Reporting!Edit, Reporting!NotRunning
  <2>3. /\ counters' \in [fills : Nat, keys : Nat, lost : Nat] /\ counters'.fills = counters.fills + 1
        /\ AllReports' = AllReports /\ form' \in Bodies /\ form'.fill = counters.fills + 1
    BY <1>0, <2>1, <2>2 DEF Bodies, AllReports
  <2>4. FormTables'
    BY <2>2, <2>3 DEF FormInv, FormTables
  <2>5. \A q \in AllReports : q.body.fill \in 1..counters.fills /\ q.body.evidence # "chosen"
    BY DEF FormInv, TextsAreNumbered
  <2>6. \A q \in AllReports : q.body.fill \in 1..(counters.fills + 1) /\ q.body.fill # counters.fills + 1
    BY <1>0, <2>5
  <2>7. TextsAreNumbered'
    BY <1>0, <2>2, <2>3, <2>5, <2>6 DEF TextsAreNumbered
  <2>8. OneCallPerText'
    BY <2>3, <2>6 DEF FormInv, OneCallPerText
  <2> QED
    BY <2>4, <2>7, <2>8 DEF FormInv
<1>2. CASE Reporting!Submit
  <2>1. UNCHANGED <<reporter, form, received>> /\ form # [fill |-> 0, evidence |-> "none"]
    BY <1>2 DEF Reporting!Submit, Reporting!EmptyForm
  <2>2. CASE form.evidence = "chosen"
    <3>1. running' = [step |-> "uploading"] /\ UNCHANGED <<attempt, counters, reports>>
      BY <1>2, <2>2 DEF Reporting!Submit
    <3> QED
      BY <1>0, <2>1, <2>2, <3>1, RestKeeps DEF AllReports
  <2>3. CASE form.evidence # "chosen"
    <3>1. Reporting!SendReport(form, Reporting!KeyFor(form))
      BY <1>2, <2>3 DEF Reporting!Submit
    <3>2. form.fill # 0
      BY <1>0, <2>1 DEF FormInv, TextsAreNumbered, Bodies
    <3> QED
      BY <1>0, <2>1, <2>3, <3>1, <3>2, SendKeeps
  <2> QED
    BY <2>2, <2>3
<1>3. CASE Reporting!UploadEvidence
  <2>1. UNCHANGED <<reporter, received>> /\ form.evidence = "chosen"
    BY <1>3 DEF Reporting!UploadEvidence, FormInv, TextsAreNumbered
  <2>2. CASE running' = Reporting!NotRunning /\ UNCHANGED <<form, attempt, counters, reports>>
    BY <1>0, <2>1, <2>2, RestKeeps DEF AllReports, Reporting!NotRunning
  <2>3. CASE ~(running' = Reporting!NotRunning /\ UNCHANGED <<form, attempt, counters, reports>>)
    <3> DEFINE body == [form EXCEPT !.evidence = "uploaded"]
    <3>1. form' = body /\ Reporting!SendReport(body, Reporting!KeyFor(body))
      BY <1>3, <2>3 DEF Reporting!UploadEvidence
    <3>2. body \in Bodies /\ body.fill = form.fill /\ body.evidence = "uploaded"
      BY <1>0 DEF Bodies
    <3> HIDE DEF body
    <3>3. form.fill # 0
      BY <2>1 DEF FormInv, TextsAreNumbered
    <3>4. \A q \in AllReports : q.body.fill # form.fill
      BY <2>1 DEF FormInv, TextsAreNumbered, OneCallPerText
    <3> QED
      BY <2>1, <3>1, <3>2, <3>3, <3>4, SendKeeps
  <2> QED
    BY <2>2, <2>3
<1>4. CASE Reporting!ChangeTarget \/ \E m \in Members : Reporting!SwitchAccount(m)
  BY <1>0, <1>4, RestKeeps DEF Reporting!ChangeTarget, Reporting!SwitchAccount, AllReports
<1>5. CASE Reporting!GiveUp
  <2>1. /\ counters' = [counters EXCEPT !.lost = @ + 1] /\ running' = [step |-> "idle"]
        /\ UNCHANGED <<reporter, form, attempt, reports, received>>
    BY <1>5 DEF Reporting!GiveUp, Reporting!NotRunning
  <2>2. counters' \in [fills : Nat, keys : Nat, lost : Nat] /\ counters'.fills = counters.fills
    BY <1>0, <2>1
  <2> QED
    BY <1>0, <2>1, <2>2, RestKeeps DEF AllReports
<1>6. CASE UNCHANGED <<reporter, form, attempt, running, reports, received, counters>>
  BY <1>6 DEF FormInv, FormTables, TextsAreNumbered, OneCallPerText, AllReports
<1>7. ASSUME NEW q \in reports, Reporting!Report(q)
      PROVE  FormInv'
  <2>1. reports' = reports \ {q} /\ received' \subseteq received \cup {q} /\ reporter' = reporter
    BY <1>7 DEF Reporting!Report
  <2>2. AllReports' \subseteq AllReports
    BY <2>1 DEF AllReports
  <2>3. PICK accepted : Reporting!Reply(q, accepted)
    BY ZenonT(60), <1>7 DEF Reporting!Report
  <2> QED
    BY <1>0, <2>1, <2>2, <2>3, ReplyRests, RestKeeps
<1>8. CASE Reporting!DeskStep
  BY ZenonT(60), <1>6, <1>8 DEF Reporting!DeskStep, Reporting!Appeal, Reporting!ClaimCase, Reporting!Decide,
     Reporting!LoadRow, Reporting!formPart
<1>9. CASE \E fill \in 1..counters.fills : Reporting!EvidenceReady(fill)
  BY <1>6, <1>9 DEF Reporting!EvidenceReady
<1> QED
  BY <1>1, <1>2, <1>3, <1>4, <1>5, <1>7, <1>8, <1>9 DEF Reporting!Next, Reporting!FormStep

(* Reports: the cases keep theirs *)

LEMMA SameCaseCardinality == \A S : Reporting!Cardinality(S) = Cardinality(S)
BY Zenon DEF Reporting!Cardinality, Cardinality

LEMMA CasesHold == CasesInv => Reporting!ReportsHold
<1> SUFFICES ASSUME CasesInv PROVE Reporting!ReportsHold
  OBVIOUS
<1>1. DOMAIN cases = 1..Len(cases)
  BY DEF CasesInv
<1>2. Reporting!OneCasePerReport
  BY <1>1 DEF CasesInv, Reporting!OneCasePerReport
<1>3. Reporting!DecisionsFollowAppeals
  BY <1>1, SameCaseCardinality DEF CasesInv, CaseRule, Reporting!DecisionsFollowAppeals
<1> QED
  BY <1>2, <1>3 DEF Reporting!ReportsHold

\* A case that was appealed, claimed or decided.
LEMMA CaseAppealed ==
  ASSUME NEW k \in Cases, NEW m \in Members
  PROVE  [k EXCEPT !.appeals = k.appeals \cup {m}, !.status = "appealed", !.version = k.version + 1] \in Cases
<1>1. k.version + 1 \in Nat /\ k.appeals \cup {m} \in SUBSET Members /\ "appealed" \in Statuses
  BY DEF Cases, Statuses
<1> QED
  BY <1>1 DEF Cases

LEMMA CaseClaimed ==
  ASSUME NEW k \in Cases, NEW r \in Reviewers, NEW status \in Statuses
  PROVE  [k EXCEPT !.assignee = r, !.version = k.version + 1, !.status = status] \in Cases
<1>1. k.version + 1 \in Nat /\ r \in Reviewers \cup {"none"}
  BY DEF Cases
<1> QED
  BY <1>1 DEF Cases

LEMMA CaseDecided ==
  ASSUME NEW k \in Cases, NEW readers \in SUBSET Members
  PROVE  [k EXCEPT !.status = "decided", !.decisions = k.decisions + 1, !.version = k.version + 1,
                   !.seen = readers] \in Cases
<1>1. k.version + 1 \in Nat /\ k.decisions + 1 \in Nat /\ "decided" \in Statuses
  BY DEF Cases, Statuses
<1> QED
  BY <1>1 DEF Cases

LEMMA CaseChanges ==
  ASSUME CasesInv, NEW c \in 1..Len(cases), NEW new \in Cases, cases' = [cases EXCEPT ![c] = new],
         new.version = cases[c].version + 1, new.fill = cases[c].fill, CaseRule(new),
         UNCHANGED <<rows, side, received>>
  PROVE  CasesInv'
<1>1. /\ cases \in Seq(Cases) /\ side \in {"form", "desk"} /\ RowsAreRead
      /\ \A d \in 1..Len(cases) : CaseRule(cases[d])
      /\ \A d, e \in 1..Len(cases) : cases[d].fill = cases[e].fill => d = e
      /\ side = "form" => \A d \in 1..Len(cases) : \E q \in received : q.body.fill = cases[d].fill
  BY DEF CasesInv
<1>2. /\ cases' \in Seq(Cases) /\ Len(cases') = Len(cases)
      /\ \A d \in 1..Len(cases) : cases'[d] = IF d = c THEN new ELSE cases[d]
  BY <1>1
<1>3. \A d \in 1..Len(cases) : cases[d].version \in Nat
  <2>1. \A d \in 1..Len(cases) : cases[d] \in Cases
    BY <1>1
  <2> QED
    BY <2>1 DEF Cases
<1>4. RowsAreRead'
  <2>1. ASSUME NEW r \in Reviewers, rows[r].case # 0
        PROVE  /\ rows[r].case \in 1..Len(cases')
               /\ rows[r].version <= cases'[rows[r].case].version
               /\ rows[r].version = cases'[rows[r].case].version => rows[r].appeals = cases'[rows[r].case].appeals
    <3>1. /\ rows[r].case \in 1..Len(cases) /\ rows[r].version <= cases[rows[r].case].version
          /\ rows[r].version = cases[rows[r].case].version => rows[r].appeals = cases[rows[r].case].appeals
      BY <1>1, <2>1 DEF RowsAreRead
    <3>2. rows[r].version \in Nat
      BY <1>1, <2>1 DEF RowsAreRead
    <3>3. CASE rows[r].case = c
      BY <1>2, <1>3, <3>1, <3>2, <3>3
    <3>4. CASE rows[r].case # c
      BY <1>2, <3>1, <3>4
    <3> QED
      BY <3>3, <3>4
  <2> QED
    BY <1>1, <2>1 DEF RowsAreRead
<1>5. \A d \in 1..Len(cases') : CaseRule(cases'[d]) /\ cases'[d].fill = cases[d].fill
  BY <1>1, <1>2
<1>6. (\A d \in 1..Len(cases) : CaseRule(cases[d]))'
  BY <1>5 DEF CaseRule
<1>7. /\ \A d, e \in 1..Len(cases') : cases'[d].fill = cases'[e].fill => d = e
      /\ side' = "form" => \A d \in 1..Len(cases') : \E q \in received' : q.body.fill = cases'[d].fill
  BY <1>1, <1>2, <1>5
<1>8. side' \in {"form", "desk"}
  BY <1>1
<1> QED
  BY <1>2, <1>4, <1>6, <1>7, <1>8 DEF CasesInv

LEMMA CaseOpens ==
  ASSUME FormInv, CasesInv, NEW q \in reports, Reporting!Earlier(q) = {},
         cases' = Append(cases, Reporting!OpenCase(q)), received' = received \cup {q},
         UNCHANGED <<rows, side>>, side = "form"
  PROVE  CasesInv'
<1> DEFINE new == Reporting!OpenCase(q)
           n == Len(cases)
<1>1. /\ cases \in Seq(Cases) /\ side \in {"form", "desk"} /\ RowsAreRead
      /\ \A d \in 1..n : CaseRule(cases[d])
      /\ \A d, e \in 1..n : cases[d].fill = cases[e].fill => d = e
      /\ side = "form" => \A d \in 1..n : \E p \in received : p.body.fill = cases[d].fill
  BY DEF CasesInv
<1>2. q \in ReportCalls
  BY DEF FormInv, FormTables, AllReports
<1>3. new \in Cases /\ new.fill = q.body.fill /\ CaseRule(new)
  <2>1. q.by \in Members /\ q.body.fill \in Nat
    BY <1>2 DEF ReportCalls, Bodies
  <2>2. new \in Cases /\ new.fill = q.body.fill
    BY <2>1 DEF Reporting!OpenCase, Cases, Statuses
  <2>3. new.appeals = {} /\ new.decisions = 0 /\ new.status = "open"
    BY DEF Reporting!OpenCase
  <2> HIDE DEF new
  <2>4. CaseRule(new)
    BY <2>3, FS_EmptySet DEF CaseRule
  <2> QED
    BY <2>2, <2>4
<1> HIDE DEF new
<1>4. /\ cases' \in Seq(Cases) /\ Len(cases') = n + 1 /\ n \in Nat
      /\ (\A d \in 1..n : cases'[d] = cases[d]) /\ cases'[n + 1] = new
  BY <1>1, <1>3 DEF new
<1> HIDE DEF n
<1>5. RowsAreRead'
  <2>1. ASSUME NEW r \in Reviewers, rows[r].case # 0
        PROVE  rows[r].case \in 1..n
    BY <1>1, <2>1 DEF RowsAreRead, n
  <2> QED
    BY <1>1, <1>4, <2>1 DEF RowsAreRead, n
<1>6. (\A d \in 1..Len(cases) : CaseRule(cases[d]))'
  <2>1. \A d \in 1..(n + 1) : CaseRule(cases'[d])
    <3> SUFFICES ASSUME NEW d \in 1..(n + 1) PROVE CaseRule(cases'[d])
      OBVIOUS
    <3>1. CASE d = n + 1
      BY <1>3, <1>4, <3>1
    <3>2. CASE d \in 1..n
      BY <1>1, <1>4, <3>2
    <3> QED
      BY <1>4, <3>1, <3>2
  <2> QED
    BY <1>4, <2>1 DEF CaseRule
<1>7. \A d \in 1..n : cases[d].fill # q.body.fill
  <2> SUFFICES ASSUME NEW d \in 1..n, cases[d].fill = q.body.fill PROVE FALSE
    OBVIOUS
  <2>1. PICK p \in received : p.body.fill = q.body.fill
    BY <1>1
  <2>2. p = q
    BY <2>1 DEF FormInv, OneCallPerText, AllReports
  <2> QED
    BY <2>1, <2>2 DEF Reporting!Earlier
<1>8. \A d, e \in 1..(n + 1) : cases'[d].fill = cases'[e].fill => d = e
  <2> SUFFICES ASSUME NEW d \in 1..(n + 1), NEW e \in 1..(n + 1), cases'[d].fill = cases'[e].fill
               PROVE  d = e
    OBVIOUS
  <2>1. CASE d \in 1..n /\ e \in 1..n
    BY <1>1, <1>4, <2>1
  <2>2. CASE d = n + 1 /\ e \in 1..n
    BY <1>3, <1>4, <1>7, <2>2
  <2>3. CASE d \in 1..n /\ e = n + 1
    BY <1>3, <1>4, <1>7, <2>3
  <2> QED
    BY <1>4, <2>1, <2>2, <2>3
<1>9. \A d \in 1..(n + 1) : \E p \in received' : p.body.fill = cases'[d].fill
  <2> SUFFICES ASSUME NEW d \in 1..(n + 1) PROVE \E p \in received' : p.body.fill = cases'[d].fill
    OBVIOUS
  <2>1. CASE d = n + 1
    BY <1>3, <1>4, <2>1
  <2>2. CASE d \in 1..n
    BY <1>1, <1>4, <2>2
  <2> QED
    BY <1>4, <2>1, <2>2
<1> QED
  BY <1>1, <1>4, <1>5, <1>6, <1>8, <1>9 DEF CasesInv

LEMMA CasesStart == Reporting!Init => CasesInv
<1> SUFFICES ASSUME Reporting!Init PROVE CasesInv
  OBVIOUS
<1> DEFINE first == Reporting!OpenCase([by |-> reporter, body |-> Reporting!EmptyForm])
<1>1. /\ side \in {"form", "desk"} /\ reporter \in Members
      /\ cases = (IF side = "desk" THEN <<first>> ELSE <<>>)
      /\ rows = [r \in Reviewers |-> [case |-> 0]]
  BY DEF Reporting!Init, Reporting!NoRow
<1>2. first \in Cases /\ first.appeals = {} /\ first.decisions = 0 /\ first.status = "open"
  BY <1>1 DEF Reporting!OpenCase, Reporting!EmptyForm, Cases, Statuses
<1> HIDE DEF first
<1>3. CaseRule(first)
  BY <1>2, FS_EmptySet DEF CaseRule
<1>4. RowsAreRead
  BY <1>1 DEF RowsAreRead
<1>5. CASE side = "desk"
  <2>1. cases \in Seq(Cases) /\ Len(cases) = 1 /\ cases[1] = first
    BY <1>1, <1>2, <1>5
  <2>2. \A c \in 1..Len(cases) : c = 1
    BY <2>1
  <2> QED
    BY <1>3, <1>4, <1>5, <2>1, <2>2 DEF CasesInv
<1>6. CASE side = "form"
  <2>1. cases \in Seq(Cases) /\ 1..Len(cases) = {}
    BY <1>1, <1>6
  <2> QED
    BY <1>4, <1>6, <2>1 DEF CasesInv
<1> QED
  BY <1>1, <1>5, <1>6

LEMMA CasesQuiet ==
  ASSUME CasesInv, UNCHANGED <<cases, rows, side>>, received \subseteq received'
  PROVE  CasesInv'
<1>1. /\ cases \in Seq(Cases) /\ side \in {"form", "desk"} /\ RowsAreRead
      /\ \A c \in 1..Len(cases) : CaseRule(cases[c])
      /\ \A c, d \in 1..Len(cases) : cases[c].fill = cases[d].fill => c = d
      /\ side = "form" => \A c \in 1..Len(cases) : \E q \in received : q.body.fill = cases[c].fill
  BY DEF CasesInv
<1>2. RowsAreRead' /\ (\A c \in 1..Len(cases) : CaseRule(cases[c]))'
  BY <1>1 DEF RowsAreRead, CaseRule
<1>3. side' = "form" => \A c \in 1..Len(cases') : \E q \in received' : q.body.fill = cases'[c].fill
  BY <1>1
<1> QED
  BY <1>1, <1>2, <1>3 DEF CasesInv

LEMMA CasesStep == FormInv /\ CasesInv /\ Reporting!Next => CasesInv'
<1> SUFFICES ASSUME FormInv, CasesInv, Reporting!Next PROVE CasesInv'
  OBVIOUS
<1>0. /\ cases \in Seq(Cases) /\ RowsAreRead /\ side' = side /\ DOMAIN cases = 1..Len(cases)
      /\ \A c \in 1..Len(cases) : CaseRule(cases[c]) /\ cases[c] \in Cases
  BY DEF CasesInv, Reporting!Next
<1>1. ASSUME NEW c \in DOMAIN cases, NEW m \in Members, Reporting!Appeal(c, m)
      PROVE  CasesInv'
  <2> DEFINE old == cases[c]
             new == [old EXCEPT !.appeals = @ \cup {m}, !.status = "appealed", !.version = @ + 1]
  <2>1. old.status = "decided" /\ m \notin old.appeals /\ UNCHANGED <<received, rows>>
    BY <1>1 DEF Reporting!Appeal, Reporting!formPart
  <2>2. cases' = [cases EXCEPT ![c] = new]
    BY <1>0, <1>1 DEF Reporting!Appeal
  <2>3. /\ new \in Cases /\ new.version = old.version + 1 /\ new.fill = old.fill
        /\ new.appeals = old.appeals \cup {m} /\ new.status = "appealed" /\ new.decisions = old.decisions
    <3>1. old \in Cases
      BY <1>0
    <3> HIDE DEF old
    <3>2. new \in Cases
      BY <3>1, CaseAppealed
    <3> QED
      BY <3>1, <3>2 DEF Cases
  <2>4. IsFiniteSet(old.appeals) /\ old.decisions = Cardinality(old.appeals) + 1
    BY <1>0, <2>1 DEF CaseRule
  <2> HIDE DEF new
  <2>5. CaseRule(new)
    <3>1. /\ IsFiniteSet(new.appeals) /\ Cardinality(new.appeals) = Cardinality(old.appeals) + 1
          /\ Cardinality(old.appeals) \in Nat
      BY <2>1, <2>3, <2>4, FS_AddElement, FS_CardinalityType
    <3> QED
      BY <2>3, <2>4, <3>1 DEF CaseRule
  <2> QED
    BY <1>0, <2>1, <2>2, <2>3, <2>5, CaseChanges
<1>2. ASSUME NEW r \in Reviewers, Reporting!ClaimCase(r) \/ Reporting!Decide(r)
      PROVE  CasesInv'
  <2> DEFINE c == rows[r].case
             old == cases[c]
  <2>1. /\ rows[r] # [case |-> 0] /\ old.version = rows[r].version /\ UNCHANGED <<received, rows>>
    BY ZenonT(60), <1>2 DEF Reporting!ClaimCase, Reporting!Decide, Reporting!Decidable, Reporting!SameVersion,
       Reporting!NoRow, Reporting!formPart
  <2>2. c # 0
    <3>1. \/ rows[r] \in [case : {0}]
          \/ rows[r] \in [case : Nat \ {0}, version : Nat, appeals : SUBSET Members]
      BY <1>0 DEF RowsAreRead
    <3>2. CASE rows[r] \in [case : {0}]
      BY <2>1, <3>2
    <3>3. CASE rows[r] \in [case : Nat \ {0}, version : Nat, appeals : SUBSET Members]
      BY <3>3
    <3> QED
      BY <3>1, <3>2, <3>3
  <2>3. /\ c \in 1..Len(cases) /\ old \in Cases /\ CaseRule(old)
        /\ rows[r].appeals = old.appeals
    BY <1>0, <2>1, <2>2 DEF RowsAreRead
  <2>4. CASE Reporting!ClaimCase(r)
    <3> DEFINE new == [old EXCEPT !.assignee = r, !.version = @ + 1,
                         !.status = IF @ = "open" THEN "claimed" ELSE @]
    <3>1. cases' = [cases EXCEPT ![c] = new]
      BY <1>0, <2>3, <2>4 DEF Reporting!ClaimCase
    <3>2. /\ new \in Cases /\ new.version = old.version + 1 /\ new.fill = old.fill
          /\ new.appeals = old.appeals /\ new.decisions = old.decisions /\ new.seen = old.seen
          /\ (new.status = "decided" <=> old.status = "decided")
      <4> HIDE DEF old
      <4>1. (IF old.status = "open" THEN "claimed" ELSE old.status) \in Statuses
        BY <2>3 DEF Cases, Statuses
      <4>2. new \in Cases
        BY <2>3, <4>1, CaseClaimed
      <4> QED
        BY <2>3, <4>2 DEF Cases
    <3> HIDE DEF new
    <3>3. CaseRule(new)
      BY <2>3, <3>2 DEF CaseRule
    <3> QED
      BY <1>0, <2>1, <2>3, <3>1, <3>2, <3>3, CaseChanges
  <2>5. CASE Reporting!Decide(r)
    <3> DEFINE new == [old EXCEPT !.status = "decided", !.decisions = @ + 1, !.version = @ + 1,
                         !.seen = rows[r].appeals]
    <3>1. cases' = [cases EXCEPT ![c] = new] /\ old.status # "decided"
      BY ZenonT(30), <1>0, <2>3, <2>5 DEF Reporting!Decide, Reporting!Decidable
    <3>2. /\ new \in Cases /\ new.version = old.version + 1 /\ new.fill = old.fill
          /\ new.appeals = old.appeals /\ new.decisions = old.decisions + 1
          /\ new.seen = old.appeals /\ new.status = "decided"
      <4> HIDE DEF old
      <4>1. old.appeals \in SUBSET Members /\ rows[r].appeals = old.appeals
        BY <2>3 DEF Cases
      <4>2. new \in Cases
        BY <2>3, <4>1, CaseDecided
      <4> QED
        BY <2>3, <4>1, <4>2 DEF Cases
    <3> HIDE DEF new
    <3>3. CaseRule(new)
      <4>1. Cardinality(old.appeals) \in Nat
        BY <2>3, FS_CardinalityType DEF CaseRule
      <4> QED
        BY <2>3, <3>1, <3>2, <4>1 DEF CaseRule
    <3> QED
      BY ZenonT(30), <1>0, <2>1, <2>3, <3>1, <3>2, <3>3, CaseChanges
  <2> QED
    BY ZenonT(30), <1>2, <2>4, <2>5
<1>3. ASSUME NEW r \in Reviewers, NEW c \in DOMAIN cases, Reporting!LoadRow(r, c)
      PROVE  CasesInv'
  <2> DEFINE row == [case |-> c, version |-> cases[c].version, appeals |-> cases[c].appeals]
  <2>1. rows' = [rows EXCEPT ![r] = row] /\ UNCHANGED <<received, cases>>
    BY <1>3 DEF Reporting!LoadRow, Reporting!formPart
  <2>2. /\ row \in [case : Nat \ {0}, version : Nat, appeals : SUBSET Members]
        /\ row.case = c /\ row.version = cases[c].version /\ row.appeals = cases[c].appeals
        /\ cases[c].version \in Nat
    BY <1>0 DEF Cases
  <2> HIDE DEF row
  <2>3. RowsAreRead'
    BY <1>0, <2>1, <2>2 DEF RowsAreRead
  <2> QED
    BY <1>0, <2>1, <2>3 DEF CasesInv, CaseRule
<1>4. ASSUME NEW q \in reports, Reporting!Report(q), side = "form"
      PROVE  CasesInv'
  <2>1. CASE cases' = cases /\ received' = received
    BY ZenonT(30), <1>0, <1>4, <2>1, CasesQuiet DEF Reporting!Report
  <2>2. CASE ~(cases' = cases /\ received' = received)
    BY <1>0, <1>4, <2>2, CaseOpens DEF Reporting!Report
  <2> QED
    BY ZenonT(30), <2>1, <2>2
<1>5. CASE UNCHANGED <<cases, rows, received>>
  BY <1>0, <1>5, CasesQuiet
<1>6. CASE Reporting!FormStep /\ side = "form"
  <2>1. CASE \E q \in reports : Reporting!Report(q)
    BY <1>4, <1>6, <2>1
  <2>2. CASE ~\E q \in reports : Reporting!Report(q)
    BY <1>5, <1>6, <2>2 DEF Reporting!FormStep, Reporting!Edit, Reporting!Submit, Reporting!UploadEvidence,
       Reporting!ChangeTarget, Reporting!SwitchAccount, Reporting!GiveUp, Reporting!EvidenceReady
  <2> QED
    BY <2>1, <2>2
<1> QED
  BY <1>1, <1>2, <1>3, <1>6 DEF Reporting!Next, Reporting!DeskStep

-----------------------------------------------------------------------------
(* Approvals: the dialogs *)

LEMMA DialogsKeep ==
  ASSUME DesksInv, UNCHANGED <<desk, items, wallet, carried, activation>>,
         dialogs' \in [Operators -> Nat], dialog' \in [Operators -> Dialogs], asked' \subseteq Asks,
         DesksAim'
  PROVE  DesksInv'
<1>1. DeskTables'
  BY DEF DesksInv, DeskTables
<1>2. Activating'
  BY DEF DesksInv, Activating
<1>3. Desks!Moved' = Desks!Moved
  BY DEF Desks!Moved
<1>4. WalletRule' /\ DialogRule'
  BY <1>3 DEF DesksInv, WalletRule, DialogRule
<1>5. \A i \in 1..Len(items') : Supported(desk', items'[i])
  BY DEF DesksInv
<1> QED
  BY <1>1, <1>2, <1>4, <1>5 DEF DesksInv

\* A dialog that is asked about goes on, or is closed.
DialogsGoOn ==
  /\ dialog' \in [Operators -> Dialogs]
  /\ \A o \in Operators : \/ dialog'[o].op = "none"
                          \/ dialog'[o].op = dialog[o].op /\ dialog'[o].item = dialog[o].item

LEMMA WaitingDialogs ==
  ASSUME dialog \in [Operators -> Dialogs], NEW o \in Operators, NEW d \in Dialogs,
         dialog' = [dialog EXCEPT ![o] = d],
         d.op = "none" \/ (d.op = dialog[o].op /\ d.item = dialog[o].item)
  PROVE  DialogsGoOn
BY DEF DialogsGoOn

LEMMA OpenDialogs ==
  ASSUME dialog \in [Operators -> Dialogs], NEW o \in Operators, dialog[o] # Desks!Closed, NEW w \in BOOLEAN
  PROVE  /\ dialog[o].op \in Verbs /\ dialog[o].item \in Nat /\ dialog[o].key \in Nat
         /\ dialog[o].op # "none"
         /\ [dialog[o] EXCEPT !.waiting = w] \in Dialogs
         /\ [dialog[o] EXCEPT !.waiting = w].op = dialog[o].op
         /\ [dialog[o] EXCEPT !.waiting = w].item = dialog[o].item
<1>1. dialog[o] \in [op : {"none"}] \/ dialog[o] \in [op : Verbs, item : Nat, key : Nat, waiting : BOOLEAN]
  BY DEF Dialogs
<1>2. dialog[o] \notin [op : {"none"}]
  BY DEF Desks!Closed
<1>3. dialog[o] \in [op : Verbs, item : Nat, key : Nat, waiting : BOOLEAN]
  BY <1>1, <1>2
<1> QED
  BY <1>3 DEF Dialogs, Verbs

LEMMA AnsweredDialogs ==
  ASSUME dialog \in [Operators -> Dialogs], NEW q \in Asks, NEW success, Desks!Answered(q, success)
  PROVE  DialogsGoOn
<1>1. q.by \in Operators
  BY DEF Asks
<1>2. CASE dialog' = dialog
  BY <1>2 DEF DialogsGoOn
<1>3. CASE dialog[q.by] # Desks!Closed /\ dialog' = [dialog EXCEPT ![q.by] = Desks!Closed]
  <2>1. Desks!Closed \in Dialogs /\ Desks!Closed.op = "none"
    BY DEF Desks!Closed, Dialogs
  <2> QED
    BY <1>1, <1>3, <2>1, WaitingDialogs
<1>4. CASE /\ dialog[q.by] # Desks!Closed
           /\ dialog' = [dialog EXCEPT ![q.by] = [dialog[q.by] EXCEPT !.waiting = FALSE]]
  BY <1>1, <1>4, OpenDialogs, WaitingDialogs
<1> QED
  BY <1>2, <1>3, <1>4 DEF Desks!Answered

LEMMA AimsGoOn ==
  ASSUME DesksAim, DialogsGoOn, desk' = desk, Len(items) \in Nat, Len(items') \in Nat,
         Len(items) <= Len(items'), asked' \subseteq asked
  PROVE  DesksAim'
<1>1. \A op, i : Aimed(op, i) => Aimed(op, i)'
  BY DEF Aimed
<1>2. ASSUME NEW o \in Operators, dialog'[o].op # "none"
      PROVE  Aimed(dialog[o].op, dialog[o].item)'
  <2>1. dialog'[o].op = dialog[o].op /\ dialog'[o].item = dialog[o].item
    BY <1>2 DEF DialogsGoOn
  <2>2. Aimed(dialog[o].op, dialog[o].item)
    BY <1>2, <2>1 DEF DesksAim
  <2> QED
    BY <2>1, <2>2 DEF Aimed
<1>3. ASSUME NEW q \in asked'
      PROVE  Aimed(q.op, q.item)'
  BY <1>1, <1>3 DEF DesksAim
<1> QED
  BY <1>2, <1>3 DEF DesksAim

LEMMA OfferedAims ==
  ASSUME DeskTables, NEW i \in 0..Len(items),
         NEW op \in IF i = 0 THEN {"create"} ELSE Desks!Offered(items[i])
  PROVE  Aimed(op, i) /\ op \in Verbs /\ Desks!Fields(op) \subseteq Int
<1>1. ASSUME i # 0
      PROVE  items[i].state \in States
  <2>1. i \in 1..Len(items) /\ items[i] \in Items
    BY <1>1 DEF DeskTables
  <2> QED
    BY <2>1 DEF Items
<1>2. i # 0 => /\ op \in {"approve", "reject", "execute", "activate", "rollback"}
               /\ op = "execute" => desk = "points"
               /\ op = "activate" => desk # "points"
  BY <1>1 DEF Desks!Offered, States
<1>3. Desks!Fields(op) \subseteq Int
  BY SmallRequests DEF SmallRequests, Desks!Fields
<1> QED
  BY <1>2, <1>3 DEF Aimed, Verbs

\* A request is about what its dialog is about.
LEMMA RequestAims ==
  ASSUME NEW o \in Operators, NEW d, d.op \in Verbs, d.item \in Nat, d.key \in Nat, NEW amount \in Int
  PROVE  /\ Desks!Request(o, d, amount) \in Asks
         /\ Desks!Request(o, d, amount).op = d.op /\ Desks!Request(o, d, amount).item = d.item
BY DEF Desks!Request, Asks

LEMMA OpenDialogKeeps ==
  ASSUME DesksInv, NEW o \in Operators, Desks!OpenDialog(o)
  PROVE  DesksInv'
<1>0. DeskTables /\ DesksAim /\ Len(items) \in Nat
  BY DEF DesksInv, DeskTables
<1>1. PICK i \in 0..Len(items) : \E op \in IF i = 0 THEN {"create"} ELSE Desks!Offered(items[i]) :
        LET d == [op |-> op, item |-> i, key |-> dialogs[o] + 1, waiting |-> TRUE] IN
        /\ dialog' = [dialog EXCEPT ![o] = d]
        /\ \E amount \in Desks!Fields(op) : asked' = asked \cup {Desks!Request(o, d, amount)}
  BY DEF Desks!OpenDialog
<1>2. PICK op \in IF i = 0 THEN {"create"} ELSE Desks!Offered(items[i]) :
        LET d == [op |-> op, item |-> i, key |-> dialogs[o] + 1, waiting |-> TRUE] IN
        /\ dialog' = [dialog EXCEPT ![o] = d]
        /\ \E amount \in Desks!Fields(op) : asked' = asked \cup {Desks!Request(o, d, amount)}
  BY <1>1
<1> DEFINE d == [op |-> op, item |-> i, key |-> dialogs[o] + 1, waiting |-> TRUE]
<1>3. Aimed(op, i) /\ op \in Verbs /\ Desks!Fields(op) \subseteq Int
  BY <1>0, OfferedAims
<1>4. PICK amount \in Int : asked' = asked \cup {Desks!Request(o, d, amount)}
  BY <1>2, <1>3
<1>5. dialog' = [dialog EXCEPT ![o] = d] /\ dialogs' = [dialogs EXCEPT ![o] = @ + 1]
      /\ UNCHANGED <<desk, items, wallet, carried, activation>>
  BY <1>2 DEF Desks!OpenDialog
<1>6. dialogs[o] + 1 \in Nat /\ dialogs' \in [Operators -> Nat]
  BY <1>0, <1>5 DEF DeskTables
<1>7. /\ d \in Dialogs /\ d.op = op /\ d.item = i /\ d.key \in Nat
  BY <1>0, <1>3, <1>6 DEF Dialogs
<1> HIDE DEF d
<1> DEFINE q == Desks!Request(o, d, amount)
<1>8. q \in Asks /\ q.op = op /\ q.item = i
  BY <1>0, <1>3, <1>7, RequestAims
<1> HIDE DEF q
<1>9. dialog' \in [Operators -> Dialogs] /\ asked' \subseteq Asks
  BY <1>0, <1>4, <1>5, <1>7, <1>8 DEF DeskTables, q
<1>10. DesksAim'
  <2>1. \A v, j : Aimed(v, j) => Aimed(v, j)'
    BY <1>5 DEF Aimed
  <2>2. \A p \in Operators : (dialog'[p].op = op /\ dialog'[p].item = i) \/ dialog'[p] = dialog[p]
    BY <1>0, <1>5, <1>7 DEF DeskTables
  <2>3. ASSUME NEW p \in Operators, dialog'[p].op # "none"
        PROVE  Aimed(dialog[p].op, dialog[p].item)'
    <3>1. CASE dialog'[p].op = op /\ dialog'[p].item = i
      BY <1>3, <1>5, <3>1 DEF Aimed
    <3>2. CASE dialog'[p] = dialog[p]
      BY <1>0, <1>5, <2>3, <3>2 DEF Aimed, DesksAim
    <3> QED
      BY <2>2, <3>1, <3>2
  <2>4. ASSUME NEW r \in asked'
        PROVE  Aimed(r.op, r.item)'
    <3>1. CASE r = q
      BY <1>3, <1>8, <2>1, <3>1
    <3>2. CASE r \in asked
      BY <1>0, <2>1, <3>2 DEF DesksAim
    <3> QED
      BY <1>4, <3>1, <3>2 DEF q
  <2> QED
    BY <2>3, <2>4 DEF DesksAim
<1> QED
  BY <1>5, <1>6, <1>9, <1>10, DialogsKeep

LEMMA ResubmitKeeps ==
  ASSUME DesksInv, NEW o \in Operators, Desks!Resubmit(o)
  PROVE  DesksInv'
<1>0. DeskTables /\ DesksAim /\ Len(items) \in Nat
  BY DEF DesksInv, DeskTables
<1>1. /\ dialog[o] # Desks!Closed /\ dialog' = [dialog EXCEPT ![o] = [dialog[o] EXCEPT !.waiting = TRUE]]
      /\ UNCHANGED <<desk, items, wallet, dialogs, carried, activation>>
  BY DEF Desks!Resubmit
<1>2. PICK amount \in Desks!Fields(dialog[o].op) : asked' = asked \cup {Desks!Request(o, dialog[o], amount)}
  BY DEF Desks!Resubmit
<1>3. amount \in Int
  BY SmallRequests DEF SmallRequests, Desks!Fields
<1> DEFINE q == Desks!Request(o, dialog[o], amount)
<1>4. /\ dialog[o].op \in Verbs /\ dialog[o].item \in Nat /\ dialog[o].key \in Nat /\ dialog[o].op # "none"
      /\ DialogsGoOn
  BY <1>0, <1>1, OpenDialogs, WaitingDialogs DEF DeskTables
<1>5. q \in Asks /\ q.op = dialog[o].op /\ q.item = dialog[o].item
  BY <1>3, <1>4, RequestAims
<1> HIDE DEF q
<1>6. asked' \subseteq Asks /\ dialog' \in [Operators -> Dialogs]
  BY <1>0, <1>2, <1>4, <1>5 DEF DeskTables, DialogsGoOn, q
<1>7. DesksAim'
  <2>1. \A v, j : Aimed(v, j) => Aimed(v, j)'
    BY <1>1 DEF Aimed
  <2>2. ASSUME NEW p \in Operators, dialog'[p].op # "none"
        PROVE  Aimed(dialog[p].op, dialog[p].item)'
    BY <1>0, <1>1, <1>4, <2>2 DEF Aimed, DesksAim, DialogsGoOn
  <2>3. ASSUME NEW r \in asked'
        PROVE  Aimed(r.op, r.item)'
    <3>1. CASE r = q
      BY <1>0, <1>4, <1>5, <2>1, <3>1 DEF DesksAim
    <3>2. CASE r \in asked
      BY <1>0, <2>1, <3>2 DEF DesksAim
    <3> QED
      BY <1>2, <3>1, <3>2 DEF q
  <2> QED
    BY <2>2, <2>3 DEF DesksAim
<1> QED
  BY <1>0, <1>1, <1>6, <1>7, DialogsKeep DEF DeskTables

\* What only goes on with dialogs, or drops requests.
LEMMA AnswersKeep ==
  ASSUME DesksInv, UNCHANGED <<desk, items, wallet, dialogs, carried, activation>>,
         asked' \subseteq asked, DialogsGoOn
  PROVE  DesksInv'
<1>1. DesksAim /\ Len(items) \in Nat /\ items' = items
  BY DEF DesksInv, DeskTables
<1>2. DesksAim'
  BY <1>1, AimsGoOn
<1> QED
  BY <1>2, DialogsKeep DEF DesksInv, DeskTables, DialogsGoOn

LEMMA DialogStepKeeps ==
  ASSUME DesksInv,
         \/ \E o \in Operators : Desks!GiveUp(o) \/ Desks!CloseDialog(o)
         \/ \E q \in asked : Desks!Replay(q) \/ Desks!Refuse(q)
  PROVE  DesksInv'
<1>0. dialog \in [Operators -> Dialogs] /\ asked \subseteq Asks
  BY DEF DesksInv, DeskTables
<1>1. ASSUME NEW o \in Operators, Desks!GiveUp(o)
      PROVE  DesksInv'
  <2>1. dialog[o] # Desks!Closed /\ dialog' = [dialog EXCEPT ![o] = [dialog[o] EXCEPT !.waiting = FALSE]]
    BY <1>0, <1>1 DEF Desks!GiveUp
  <2>2. DialogsGoOn
    BY <1>0, <2>1, OpenDialogs, WaitingDialogs
  <2> QED
    BY <1>1, <2>2, AnswersKeep DEF Desks!GiveUp
<1>2. ASSUME NEW o \in Operators, Desks!CloseDialog(o)
      PROVE  DesksInv'
  <2>1. Desks!Closed \in Dialogs /\ Desks!Closed.op = "none"
    BY DEF Desks!Closed, Dialogs
  <2>2. DialogsGoOn
    BY <1>0, <1>2, <2>1, WaitingDialogs DEF Desks!CloseDialog
  <2> QED
    BY <1>2, <2>2, AnswersKeep DEF Desks!CloseDialog
<1>3. ASSUME NEW q \in asked, Desks!Replay(q) \/ Desks!Refuse(q)
      PROVE  DesksInv'
  <2>1. PICK success : Desks!Answered(q, success)
    BY <1>3 DEF Desks!Replay, Desks!Refuse
  <2>2. DialogsGoOn
    BY <1>0, <2>1, AnsweredDialogs
  <2>3. UNCHANGED <<desk, items, wallet, dialogs, carried, activation>> /\ asked' \subseteq asked
    BY <1>3 DEF Desks!Replay, Desks!Refuse
  <2> QED
    BY <2>2, <2>3, AnswersKeep
<1> QED
  BY <1>1, <1>2, <1>3

-----------------------------------------------------------------------------
(* Approvals: what the server does *)

\* Rows stay whose they are and of what amount, and an approval is never taken back.
Grown(old, new) ==
  /\ Len(old) <= Len(new)
  /\ \A i \in 1..Len(old) : /\ new[i].by = old[i].by /\ new[i].amount = old[i].amount
                            /\ old[i].approvers \subseteq new[i].approvers

\* What a step of the server must say of what it writes, the rows aside and with them.
AroundRows ==
  /\ UNCHANGED <<desk, dialogs>> /\ asked' \subseteq asked /\ DialogsGoOn
  /\ activation' \in [Operators -> Activations]
  /\ \A o \in Operators : activation'[o].item # 0 => activation'[o] = activation[o]
  /\ carried \subseteq carried' /\ carried' \subseteq Asks /\ IsFiniteSet(carried')

ServerStep ==
  /\ AroundRows /\ items' \in Seq(Items) /\ Grown(items, items')
  /\ \A i \in 1..Len(items') : Supported(desk, items'[i])
  /\ wallet' \in Int /\ WalletRule' /\ DialogRule'

LEMMA ConsentGrows ==
  ASSUME NEW d, NEW old, NEW new, new.amount = old.amount, old.approvers \subseteq new.approvers,
         IsFiniteSet(new.approvers), new.amount \in Int, Consented(d, old)
  PROVE  Consented(d, new)
<1>1. Cardinality(old.approvers) <= Cardinality(new.approvers)
  BY FS_Subset
<1>2. Cardinality(old.approvers) \in Nat /\ Cardinality(new.approvers) \in Nat
  BY FS_Subset, FS_CardinalityType
<1>3. Desks!Required(old.amount) = Desks!Required(new.amount) /\ Desks!Required(new.amount) \in Nat
  BY DEF Desks!Required
<1> QED
  BY <1>1, <1>2, <1>3 DEF Consented

LEMMA ServerKeeps ==
  ASSUME DesksInv, ServerStep
  PROVE  DesksInv'
<1>0. /\ DeskTables /\ DesksAim /\ Activating /\ Len(items) \in Nat /\ Len(items') \in Nat
      /\ desk' = desk /\ Grown(items, items')
  BY DEF DesksInv, DeskTables, ServerStep, AroundRows
<1>1. DeskTables'
  BY <1>0 DEF DeskTables, ServerStep, AroundRows, DialogsGoOn
<1>2. DesksAim'
  BY <1>0, AimsGoOn DEF ServerStep, AroundRows, Grown
<1>3. \A i \in 1..Len(items') : Supported(desk', items'[i])
  BY <1>0 DEF ServerStep
<1>4. ASSUME NEW i \in 1..Len(items), Consented(desk, items[i])
      PROVE  i \in 1..Len(items') /\ Consented(desk', items'[i])
  <2>1. i \in 1..Len(items')
    BY <1>0 DEF Grown
  <2>2. items'[i].amount \in Int /\ IsFiniteSet(items'[i].approvers)
    <3>1. items'[i] \in Items
      BY <2>1 DEF ServerStep
    <3> QED
      BY <1>3, <2>1, <3>1 DEF Items, Supported
  <2> QED
    BY <1>0, <1>4, <2>1, <2>2, ConsentGrows DEF Grown
<1>5. Activating'
  <2> SUFFICES ASSUME NEW o \in Operators, activation'[o].item # 0
               PROVE  /\ desk' # "points" /\ activation'[o].item \in 1..Len(items')
                      /\ activation'[o].old \subseteq 1..Len(items')
                      /\ \A i \in activation'[o].old \cup {activation'[o].item} :
                           Consented(desk', items'[i])
    BY DEF Activating
  <2>1. activation'[o] = activation[o]
    BY DEF ServerStep, AroundRows
  <2> QED
    BY <1>0, <1>4, <2>1 DEF Activating
<1> QED
  BY <1>1, <1>2, <1>3, <1>5 DEF DesksInv, ServerStep

LEMMA KeysFinite ==
  ASSUME NEW c, IsFiniteSet(c)
  PROVE  IsFiniteSet(KeysOf(c))
<1> DEFINE A == {T \in SUBSET c : IsFiniteSet(KeysOf(T))}
<1>1. {} \in A
  <2>1. KeysOf({}) = {}
    BY DEF KeysOf
  <2> QED
    BY <2>1, FS_EmptySet
<1>2. ASSUME NEW T \in SUBSET c, T \in A, NEW x \in c \ T
      PROVE  T \cup {x} \in A
  <2>1. KeysOf(T \cup {x}) = KeysOf(T) \cup {x.key}
    BY DEF KeysOf
  <2>2. IsFiniteSet(KeysOf(T) \cup {x.key})
    BY <1>2, FS_AddElement
  <2> QED
    BY <2>1, <2>2
<1>3. c \in A
  <2> HIDE DEF A
  <2> QED
    BY <1>1, <1>2, SetInduction
<1> QED
  BY <1>3

LEMMA MoreKeys ==
  ASSUME carried \subseteq carried', IsFiniteSet(carried'), NEW o
  PROVE  /\ KeysOf(Asking(carried, o)) \subseteq KeysOf(Asking(carried', o))
         /\ IsFiniteSet(KeysOf(Asking(carried', o))) /\ IsFiniteSet(KeysOf(Asking(carried, o)))
         /\ Cardinality(KeysOf(Asking(carried, o))) \in Nat
         /\ Cardinality(KeysOf(Asking(carried', o))) \in Nat
         /\ Cardinality(KeysOf(Asking(carried, o))) <= Cardinality(KeysOf(Asking(carried', o)))
<1>1. IsFiniteSet(Asking(carried', o)) /\ Asking(carried, o) \subseteq Asking(carried', o)
  BY FS_Subset DEF Asking
<1>2. /\ IsFiniteSet(KeysOf(Asking(carried', o)))
      /\ KeysOf(Asking(carried, o)) \subseteq KeysOf(Asking(carried', o))
  BY <1>1, KeysFinite DEF KeysOf
<1> QED
  BY <1>2, FS_Subset, FS_CardinalityType

LEMMA OwnFinite ==
  ASSUME NEW s, Len(s) \in Nat, NEW o
  PROVE  IsFiniteSet(Own(s, o)) /\ Cardinality(Own(s, o)) \in Nat
<1>1. IsFiniteSet(1..Len(s))
  BY FS_Interval
<1>2. Own(s, o) \subseteq 1..Len(s)
  BY DEF Own
<1> QED
  BY <1>1, <1>2, FS_Subset, FS_CardinalityType

\* Whose the rows are decides how many dialogs were needed.
LEMMA DialogRuleKeeps ==
  ASSUME DialogRule, Len(items') = Len(items), Len(items) \in Nat, Grown(items, items'),
         carried \subseteq carried', IsFiniteSet(carried')
  PROVE  DialogRule'
<1> SUFFICES ASSUME NEW o \in Operators
             PROVE  Cardinality(Own(items', o)) <= Cardinality(KeysOf(Asking(carried', o)))
  BY DEF DialogRule
<1>1. Own(items', o) = Own(items, o)
  BY DEF Own, Grown
<1>2. Cardinality(Own(items, o)) \in Nat
  BY OwnFinite
<1> QED
  BY <1>1, <1>2, MoreKeys DEF DialogRule

LEMMA OneElementMore ==
  ASSUME NEW S, IsFiniteSet(S), NEW x, x \notin S, NEW T, T = S \cup {x}
  PROVE  Cardinality(T) = Cardinality(S) + 1
BY FS_AddElement

\* A row of one's own takes a key of one's own.
LEMMA DialogRuleAdds ==
  ASSUME DialogRule, NEW n, Len(items) = n, n \in Nat, Len(items') = n + 1,
         Grown(items, items'), IsFiniteSet(carried), NEW q, carried' = carried \cup {q},
         items'[n + 1].by = q.by, q.op \in {"create", "rollback"}, Desks!Earlier(q) = {}
  PROVE  DialogRule'
<1> SUFFICES ASSUME NEW o \in Operators
             PROVE  Cardinality(Own(items', o)) <= Cardinality(KeysOf(Asking(carried', o)))
  BY DEF DialogRule
<1>0. carried \subseteq carried' /\ IsFiniteSet(carried')
  BY FS_AddElement
<1>1. Cardinality(Own(items, o)) <= Cardinality(KeysOf(Asking(carried, o)))
  BY DEF DialogRule
<1>2. /\ IsFiniteSet(KeysOf(Asking(carried, o)))
      /\ Cardinality(KeysOf(Asking(carried, o))) \in Nat
      /\ Cardinality(KeysOf(Asking(carried', o))) \in Nat
      /\ Cardinality(KeysOf(Asking(carried, o))) <= Cardinality(KeysOf(Asking(carried', o)))
  BY <1>0, MoreKeys
<1>3. IsFiniteSet(Own(items, o)) /\ Cardinality(Own(items, o)) \in Nat
  BY OwnFinite
<1>4. \A i \in 1..n : items'[i].by = items[i].by
  BY DEF Grown
<1>5. CASE o = q.by
  <2>1. Own(items', o) = Own(items, o) \cup {n + 1} /\ n + 1 \notin Own(items, o)
    BY <1>4, <1>5 DEF Own
  <2>2. Cardinality(Own(items', o)) = Cardinality(Own(items, o)) + 1
    BY <1>3, <2>1, OneElementMore
  <2>3. Asking(carried', o) = Asking(carried, o) \cup {q}
    BY <1>5 DEF Asking
  <2>4. KeysOf(Asking(carried', o)) = KeysOf(Asking(carried, o)) \cup {q.key}
    BY <2>3 DEF KeysOf
  <2>5. q.key \notin KeysOf(Asking(carried, o))
    BY <1>5 DEF KeysOf, Asking, Desks!Earlier
  <2>6. Cardinality(KeysOf(Asking(carried', o))) = Cardinality(KeysOf(Asking(carried, o))) + 1
    BY ZenonT(60), <1>2, <2>4, <2>5, FS_AddElement
  <2> QED
    BY <1>1, <1>2, <1>3, <2>2, <2>6
<1>6. CASE o # q.by
  <2>1. Own(items', o) = Own(items, o)
    BY <1>4, <1>6 DEF Own
  <2> QED
    BY <1>1, <1>2, <1>3, <2>1
<1> QED
  BY <1>5, <1>6

LEMMA Product ==
  ASSUME NEW item \in Items
  PROVE  /\ item.used * item.amount \in Int /\ item.used \in Nat /\ item.amount \in Int
         /\ item.used = 0 => item.used * item.amount = 0
         /\ item.used = 1 => item.used * item.amount = item.amount
<1>1. item.used \in Nat /\ item.amount \in Int
  BY DEF Items
<1> QED
  BY <1>1

LEMMA OneSummandMore ==
  ASSUME NEW f, NEW S, IsFiniteSet(S), NEW x, x \notin S, NEW T, T = S \cup {x}, \A i \in T : f[i] \in Int
  PROVE  Sum(f, T) = Sum(f, S) + f[x]
BY SumAdd

LEMMA OneNumberMore ==
  ASSUME NEW n \in Nat, NEW m, m = n + 1
  PROVE  1..m = (1..n) \cup {m} /\ m \notin 1..n
OBVIOUS

LEMMA NothingMore ==
  ASSUME NEW f, NEW e, NEW n \in Nat, \A i \in 1..n : f[i] = e[i],
         NEW m, m = n + 1, \A i \in 1..m : e[i] \in Int, e[m] = 0
  PROVE  Sum(e, 1..m) = Sum(f, 1..n)
<1> DEFINE S == 1..n
           T == 1..m
<1>1. T = S \cup {m} /\ m \notin S /\ IsFiniteSet(S)
  <2>1. IsFiniteSet(S)
    BY FS_Interval
  <2> QED
    BY <2>1, OneNumberMore
<1>2. /\ \A i \in S : e[i] \in Int /\ f[i] = e[i]
      /\ \A i \in T : e[i] \in Int
  BY <1>1
<1> HIDE DEF S, T
<1>3. Sum(e, T) = Sum(e, S) + e[m]
  BY <1>1, <1>2, OneSummandMore
<1>4. Sum(e, S) \in Int
  BY <1>1, <1>2, SumInt
<1>5. Sum(f, S) = Sum(e, S)
  BY <1>1, <1>2, SumSame
<1>6. Sum(e, T) = Sum(f, S)
  BY <1>3, <1>4, <1>5
<1> QED
  BY <1>6 DEF S, T

\* The wallet stays, and so does what the rows moved.
LEMMA WalletKeeps ==
  ASSUME WalletRule, items \in Seq(Items), items' \in Seq(Items), UNCHANGED <<desk, wallet>>,
         NEW n, n = Len(items), Len(items') \in {n, n + 1},
         \A i \in 1..n : desk = "points" => items'[i].used * items'[i].amount = items[i].used * items[i].amount,
         Len(items') = n + 1 => items'[n + 1].used = 0
  PROVE  WalletRule'
<1> DEFINE f == Desks!Moved
           e == Desks!Moved'
<1>1. n \in Nat /\ IsFiniteSet(1..n)
  BY FS_Interval
<1>2. CASE desk # "points"
  BY <1>2, SumNone DEF WalletRule
<1>3. CASE desk = "points"
  <2>1. \A i \in 1..n : items[i] \in Items /\ items'[i] \in Items
    OBVIOUS
  <2>2. \A i \in 1..n : f[i] = e[i]
    BY <1>3, <2>1 DEF Desks!Moved
  <2>3. Sum(f, 1..n) = Sum(e, 1..n)
    <3> HIDE DEF f, e
    <3> QED
      BY <1>1, <2>2, SumSame
  <2>4. CASE Len(items') = n
    BY <1>3, <2>3, <2>4 DEF WalletRule
  <2>5. CASE Len(items') = n + 1
    <3>1. \A i \in 1..(n + 1) : items'[i] \in Items /\ e[i] = items'[i].used * items'[i].amount
      BY <2>5 DEF Desks!Moved
    <3>2. \A i \in 1..(n + 1) : e[i] \in Int
      <4> HIDE DEF e
      <4> QED
        BY <3>1, Product
    <3>3. e[n + 1] = 0
      <4> HIDE DEF e
      <4> QED
        BY <1>1, <2>5, <3>1, Product
    <3>7. Sum(e, 1..(n + 1)) = Sum(f, 1..n)
      <4> HIDE DEF e, f
      <4> QED
        BY <1>1, <2>2, <3>2, <3>3, NothingMore
    <3> QED
      BY <1>3, <2>5, <3>7 DEF WalletRule
  <2> QED
    BY <2>4, <2>5
<1> QED
  BY <1>2, <1>3

LEMMA WalletStays ==
  ASSUME WalletRule, items \in Seq(Items), items' \in Seq(Items), UNCHANGED <<desk, wallet>>,
         Len(items') = Len(items),
         \A i \in 1..Len(items) :
           desk = "points" => items'[i].used * items'[i].amount = items[i].used * items[i].amount
  PROVE  WalletRule'
<1>1. PICK n \in Nat : n = Len(items)
  OBVIOUS
<1>2. Len(items') \in {n, n + 1} /\ Len(items') # n + 1
  BY <1>1
<1> QED
  BY <1>1, <1>2, WalletKeeps

LEMMA AddedToBoth ==
  ASSUME NEW a \in Int, NEW b \in Int, NEW c \in Int, NEW w, w = a + b, NEW v, v = w + c,
         NEW d, d = b + c
  PROVE  v = a + d /\ v \in Int
OBVIOUS

LEMMA WalletExecutes ==
  ASSUME WalletRule, items \in Seq(Items), desk' = desk, desk = "points", StartBalance \in Nat,
         NEW i \in 1..Len(items), items[i].used = 0, NEW new \in Items,
         new.used = 1, new.amount = items[i].amount, items' = [items EXCEPT ![i] = new],
         wallet' = wallet + items[i].amount, wallet' >= 0
  PROVE  WalletRule' /\ wallet' \in Int
<1> DEFINE f == Desks!Moved
           e == Desks!Moved'
           n == Len(items)
<1>1. n \in Nat /\ IsFiniteSet(1..n) /\ Len(items') = n
  BY FS_Interval
<1>2. \A j \in 1..n : items[j] \in Items
  OBVIOUS
<1>3. f = [j \in 1..n |-> items[j].used * items[j].amount]
  BY DEF Desks!Moved
<1>4. e = [j \in 1..n |-> items'[j].used * items'[j].amount]
  BY <1>1 DEF Desks!Moved
<1>5. f \in [1..n -> Int] /\ f[i] = 0 /\ items[i].amount \in Int
  <2>1. \A j \in 1..n : items[j].used * items[j].amount \in Int
    BY <1>2, Product
  <2> HIDE DEF f
  <2>2. f \in [1..n -> Int]
    BY <1>3, <2>1
  <2>3. f[i] = 0 /\ items[i].amount \in Int
    BY <1>2, <1>3, Product
  <2> QED
    BY <2>2, <2>3
<1>6. e = [f EXCEPT ![i] = items[i].amount]
  <2>1. new.used * new.amount = items[i].amount
    BY Product
  <2>2. \A j \in 1..n : items'[j] = IF j = i THEN new ELSE items[j]
    OBVIOUS
  <2>3. \A j \in 1..n : e[j] = IF j = i THEN items[i].amount ELSE f[j]
    <3> HIDE DEF e, f
    <3> QED
      BY <1>3, <1>4, <2>1, <2>2
  <2> HIDE DEF e, f
  <2> QED
    BY <1>3, <1>4, <2>3
<1> HIDE DEF e, f
<1>7. Sum(e, 1..n) = Sum(f, 1..n) - f[i] + items[i].amount
  <2>1. Updated(e, f, 1..n, i, items[i].amount)
    BY <1>5, <1>6 DEF Updated
  <2> QED
    BY <1>1, <2>1, SumUpdate
<1>8. Sum(f, 1..n) \in Int
  BY <1>1, <1>5, SumInt
<1>9. wallet = StartBalance + Sum(f, 1..n)
  BY DEF WalletRule, f
<1>10. wallet' = StartBalance + Sum(e, 1..n) /\ wallet' \in Int
  <2>1. f[i] = 0 /\ items[i].amount \in Int
    BY <1>5
  <2>2. Sum(e, 1..n) = Sum(f, 1..n) + items[i].amount
    BY <1>7, <1>8, <2>1
  <2> DEFINE se == Sum(e, 1..n)
             sf == Sum(f, 1..n)
             a == items[i].amount
  <2>3. /\ StartBalance \in Int /\ sf \in Int /\ a \in Int
        /\ wallet = StartBalance + sf /\ wallet' = wallet + a /\ se = sf + a
    BY <1>8, <1>9, <2>1, <2>2
  <2> HIDE DEF se, sf, a
  <2>4. wallet' = StartBalance + se /\ wallet' \in Int
    BY <2>3, AddedToBoth
  <2> QED
    BY <2>4 DEF se
<1>11. WalletRule'
  BY <1>1, <1>10 DEF WalletRule, e
<1> QED
  BY <1>10, <1>11

\* A row that keeps its name, its amount and its approvals, and deserves its state.
RowKept(d, old, new) ==
  /\ new.by = old.by /\ new.amount = old.amount /\ old.approvers \subseteq new.approvers
  /\ Supported(d, new)

LEMMA RowsStay ==
  ASSUME DesksInv, AroundRows, items' \in Seq(Items), Len(items') = Len(items),
         \A i \in 1..Len(items) : RowKept(desk, items[i], items'[i]),
         wallet' \in Int, WalletRule'
  PROVE  DesksInv'
<1>1. Len(items) \in Nat /\ DialogRule
  BY DEF DesksInv, DeskTables
<1>2. Grown(items, items')
  BY <1>1 DEF Grown, RowKept
<1>3. DialogRule'
  BY <1>1, <1>2, DialogRuleKeeps DEF AroundRows
<1>4. \A i \in 1..Len(items') : Supported(desk, items'[i])
  BY DEF RowKept
<1> QED
  BY <1>2, <1>3, <1>4, ServerKeeps DEF ServerStep

LEMMA RowAdded ==
  ASSUME DesksInv, AroundRows, NEW q, Desks!Earlier(q) = {}, q.op \in {"create", "rollback"},
         carried' = carried \cup {q}, NEW new \in Items, items' = Append(items, new),
         new.by = q.by, new.state = "pending", new.approvers = {}, new.used = 0, wallet' = wallet
  PROVE  DesksInv'
<1> DEFINE n == Len(items)
<1>1. n \in Nat /\ DialogRule /\ items \in Seq(Items) /\ IsFiniteSet(carried) /\ WalletRule
      /\ wallet \in Int /\ \A i \in 1..n : Supported(desk, items[i])
  BY DEF DesksInv, DeskTables
<1>2. /\ items' \in Seq(Items) /\ Len(items') = n + 1 /\ items'[n + 1] = new
      /\ \A i \in 1..n : items'[i] = items[i]
  BY <1>1
<1>3. Grown(items, items')
  BY <1>1, <1>2 DEF Grown
<1>4. DialogRule'
  BY <1>1, <1>2, <1>3, DialogRuleAdds
<1>5. Supported(desk, new)
  BY FS_EmptySet DEF Supported, Desks!InUse
<1>6. \A i \in 1..Len(items') : Supported(desk, items'[i])
  <2>1. \A i \in 1..(n + 1) : i \in 1..n \/ i = n + 1
    BY <1>1
  <2> QED
    BY <1>1, <1>2, <1>5, <2>1
<1>7. WalletRule'
  BY <1>1, <1>2, WalletKeeps DEF AroundRows
<1> QED
  BY <1>1, <1>2, <1>3, <1>4, <1>6, <1>7, ServerKeeps DEF ServerStep

LEMMA RestGoesOn ==
  ASSUME DesksInv, UNCHANGED <<desk, dialogs, dialog, carried, activation>>, asked' \subseteq asked
  PROVE  AroundRows
BY DEF AroundRows, DialogsGoOn, DesksInv, DeskTables

LEMMA OneRowChanges ==
  ASSUME DesksInv, AroundRows, NEW i \in 1..Len(items), NEW new \in Items,
         items' = [items EXCEPT ![i] = new], RowKept(desk, items[i], new),
         \/ wallet' \in Int /\ WalletRule'
         \/ wallet' = wallet /\ (desk = "points" => new.used = items[i].used)
  PROVE  DesksInv'
<1>1. /\ items \in Seq(Items) /\ Len(items) \in Nat /\ wallet \in Int /\ WalletRule /\ desk' = desk
      /\ \A j \in 1..Len(items) : Supported(desk, items[j])
  BY DEF DesksInv, DeskTables, AroundRows
<1>2. items' \in Seq(Items) /\ Len(items') = Len(items)
  BY <1>1
<1>3. \A j \in 1..Len(items) : items'[j] = IF j = i THEN new ELSE items[j]
  BY <1>1
<1>4. \A j \in 1..Len(items) : RowKept(desk, items[j], items[j])
  BY <1>1 DEF RowKept
<1>5. \A j \in 1..Len(items) : RowKept(desk, items[j], items'[j])
  BY <1>3, <1>4
<1>6. wallet' \in Int /\ WalletRule'
  <2>1. CASE wallet' = wallet /\ (desk = "points" => new.used = items[i].used)
    <3>1. ASSUME NEW j \in 1..Len(items), desk = "points"
          PROVE  items'[j].used * items'[j].amount = items[j].used * items[j].amount
      <4>1. items'[j].used = items[j].used /\ items'[j].amount = items[j].amount
        BY <1>3, <2>1, <3>1 DEF RowKept
      <4> QED
        BY <4>1
    <3> QED
      BY <1>1, <1>2, <2>1, <3>1, WalletStays
  <2> QED
    BY <2>1
<1> QED
  BY <1>2, <1>5, <1>6, RowsStay

LEMMA ItemMoved ==
  ASSUME NEW item \in Items, NEW w \in {"always", "early", "open", "over"}
  PROVE  /\ [item EXCEPT !.window = w] \in Items
         /\ \A d : Supported(d, item) => RowKept(d, item, [item EXCEPT !.window = w])
         /\ [item EXCEPT !.window = w].used = item.used
<1> DEFINE new == [item EXCEPT !.window = w]
<1>1. /\ new \in Items /\ new.by = item.by /\ new.amount = item.amount /\ new.used = item.used
      /\ new.approvers = item.approvers /\ new.state = item.state
  BY DEF Items
<1> HIDE DEF new
<1>2. \A d : Supported(d, item) => RowKept(d, item, new)
  BY <1>1 DEF RowKept, Supported, Consented
<1> QED
  BY <1>1, <1>2 DEF new

LEMMA ItemDownloaded ==
  ASSUME NEW item \in Items
  PROVE  /\ [item EXCEPT !.used = @ + 1] \in Items
         /\ Supported("exports", item) => RowKept("exports", item, [item EXCEPT !.used = @ + 1])
<1> DEFINE new == [item EXCEPT !.used = @ + 1]
<1>1. /\ new \in Items /\ new.by = item.by /\ new.amount = item.amount
      /\ new.approvers = item.approvers /\ new.state = item.state
  BY DEF Items
<1> HIDE DEF new
<1>2. Supported("exports", item) => RowKept("exports", item, new)
  BY <1>1 DEF RowKept, Supported, Consented
<1> QED
  BY <1>1, <1>2 DEF new

LEMMA WindowMovesKeeps ==
  ASSUME DesksInv, NEW i \in 1..Len(items), Desks!WindowMoves(i) \/ Desks!Download(i)
  PROVE  DesksInv'
<1>1. items[i] \in Items /\ Supported(desk, items[i]) /\ items \in Seq(Items)
  BY DEF DesksInv, DeskTables
<1>2. AroundRows /\ wallet' = wallet
  BY RestGoesOn DEF Desks!WindowMoves, Desks!Download
<1>3. CASE Desks!WindowMoves(i)
  <2> DEFINE w == IF items[i].window = "early" THEN "open" ELSE "over"
             new == [items[i] EXCEPT !.window = w]
  <2>1. items' = [items EXCEPT ![i] = new]
    BY <1>1, <1>3 DEF Desks!WindowMoves
  <2>2. w \in {"always", "early", "open", "over"}
    OBVIOUS
  <2> HIDE DEF w
  <2>3. new \in Items /\ RowKept(desk, items[i], new) /\ new.used = items[i].used
    BY <1>1, <2>2, ItemMoved
  <2> HIDE DEF new
  <2> QED
    BY <1>2, <2>1, <2>3, OneRowChanges
<1>4. CASE Desks!Download(i)
  <2> DEFINE new == [items[i] EXCEPT !.used = @ + 1]
  <2>1. items' = [items EXCEPT ![i] = new] /\ desk = "exports"
    BY <1>1, <1>4 DEF Desks!Download
  <2>2. new \in Items /\ RowKept(desk, items[i], new)
    BY <1>1, <2>1, ItemDownloaded
  <2> HIDE DEF new
  <2> QED
    BY <1>2, <2>1, <2>2, OneRowChanges
<1> QED
  BY <1>3, <1>4

\* Rows that had their consent come into effect, or are superseded.
LEMMA ItemRestated ==
  ASSUME NEW d, NEW item \in Items, NEW state \in {"active", "superseded"}, d # "points",
         Supported(d, item), Consented(d, item)
  PROVE  /\ [item EXCEPT !.state = state] \in Items
         /\ RowKept(d, item, [item EXCEPT !.state = state])
<1> DEFINE new == [item EXCEPT !.state = state]
<1>1. /\ new \in Items /\ new.by = item.by /\ new.amount = item.amount /\ new.used = item.used
      /\ new.approvers = item.approvers
  BY DEF Items, States
<1> HIDE DEF new
<1>2. RowKept(d, item, new)
  BY <1>1 DEF RowKept, Supported, Consented
<1> QED
  BY <1>1, <1>2 DEF new

Restated(old, new) ==
  \/ new = old
  \/ /\ Consented(desk, old)
     /\ \E state \in {"active", "superseded"} : new = [old EXCEPT !.state = state]

LEMMA RowsRestated ==
  ASSUME DesksInv, AroundRows, desk # "points", wallet' = wallet, Len(items') = Len(items),
         DOMAIN items' = 1..Len(items), items' = [j \in 1..Len(items) |-> items'[j]],
         \A j \in 1..Len(items) : Restated(items[j], items'[j])
  PROVE  DesksInv'
<1>1. /\ items \in Seq(Items) /\ Len(items) \in Nat /\ wallet \in Int /\ WalletRule /\ desk' = desk
      /\ \A j \in 1..Len(items) : Supported(desk, items[j]) /\ items[j] \in Items
  BY DEF DesksInv, DeskTables, AroundRows
<1>2. ASSUME NEW j \in 1..Len(items)
      PROVE  items'[j] \in Items /\ RowKept(desk, items[j], items'[j])
  <2>1. CASE items'[j] = items[j]
    BY <1>1, <2>1 DEF RowKept
  <2>2. CASE items'[j] # items[j]
    <3>1. Consented(desk, items[j])
      BY <2>2 DEF Restated
    <3>2. PICK state \in {"active", "superseded"} : items'[j] = [items[j] EXCEPT !.state = state]
      BY <2>2 DEF Restated
    <3>3. PICK old \in Items : old = items[j] /\ Supported(desk, old)
      BY <1>1
    <3>4. [old EXCEPT !.state = state] \in Items /\ RowKept(desk, old, [old EXCEPT !.state = state])
      BY <3>1, <3>3, ItemRestated
    <3> QED
      BY <3>2, <3>3, <3>4
  <2> QED
    BY <2>1, <2>2
<1>3. items' \in Seq(Items)
  BY <1>1, <1>2
<1>4. WalletRule' /\ wallet' \in Int
  BY <1>1, SumNone DEF WalletRule
<1> QED
  BY <1>2, <1>3, <1>4, RowsStay

LEMMA SameDeskCardinality == \A S : Desks!Cardinality(S) = Cardinality(S)
BY Zenon DEF Desks!Cardinality, Cardinality

LEMMA SupersededStays ==
  ASSUME DesksInv, AroundRows, desk # "points", wallet' = wallet, NEW olds, NEW m,
         items' = Desks!Superseded(olds, m),
         \A j \in 1..Len(items) : j \in olds \cup {m} => Consented(desk, items[j])
  PROVE  DesksInv'
<1>1. items \in Seq(Items) /\ Len(items) \in Nat
  BY DEF DesksInv, DeskTables
<1>2. items' = [j \in 1..Len(items) |->
                  [items[j] EXCEPT !.state = IF j = m THEN "active"
                                             ELSE IF j \in olds THEN "superseded" ELSE @]]
  BY DEF Desks!Superseded
<1>3. /\ DOMAIN items' = 1..Len(items) /\ items' = [j \in 1..Len(items) |-> items'[j]]
      /\ Len(items') = Len(items)
  BY <1>1, <1>2
<1>4. ASSUME NEW j \in 1..Len(items)
      PROVE  Restated(items[j], items'[j])
  <2>1. CASE j = m
    <3>1. items'[j] = [items[j] EXCEPT !.state = "active"]
      BY <1>2, <2>1
    <3>2. Consented(desk, items[j])
      BY <2>1
    <3> QED
      BY <3>1, <3>2 DEF Restated
  <2>2. CASE j # m /\ j \in olds
    <3>1. items'[j] = [items[j] EXCEPT !.state = "superseded"] /\ Consented(desk, items[j])
      BY <1>2, <2>2
    <3> QED
      BY <3>1 DEF Restated
  <2>3. CASE j # m /\ j \notin olds
    <3>1. items'[j] = [items[j] EXCEPT !.state = items[j].state]
      BY <1>2, <2>3
    <3>2. PICK old \in Items : old = items[j]
      BY <1>1
    <3>3. [old EXCEPT !.state = old.state] = old
      BY DEF Items
    <3> QED
      BY <3>1, <3>2, <3>3 DEF Restated
  <2> QED
    BY <2>1, <2>2, <2>3
<1> QED
  BY <1>3, <1>4, RowsRestated

LEMMA GreatestItem ==
  ASSUME NEW due \in SUBSET Nat, IsFiniteSet(due), due # {}
  PROVE  Desks!Max(due) \in due
BY GreatestExists DEF Desks!Max

LEMMA WorkerKeeps ==
  ASSUME DesksInv, Desks!WorkerActivates
  PROVE  DesksInv'
<1> DEFINE due == {i \in 1..Len(items) : /\ items[i].state = "approved"
                                         /\ items[i].window \in {"open", "always"} /\ ~Desks!Locked(i)}
           olds == (Desks!Actives \cup due) \ {Desks!Max(due)}
<1>1. /\ Len(items) \in Nat /\ items \in Seq(Items) /\ desk # "points" /\ wallet' = wallet /\ AroundRows
      /\ \A i \in 1..Len(items) : Supported(desk, items[i])
  BY RestGoesOn DEF DesksInv, DeskTables, Desks!WorkerActivates
<1>2. \A i \in 1..Len(items) : i \in Desks!Actives \cup due => Consented(desk, items[i])
  BY <1>1 DEF Supported, Desks!InUse, Desks!Actives
<1>3. CASE due # {} /\ items' = Desks!Superseded(olds, Desks!Max(due))
  <2>1. due \in SUBSET Nat /\ IsFiniteSet(due)
    <3>1. IsFiniteSet(1..Len(items)) /\ due \subseteq 1..Len(items)
      BY <1>1, FS_Interval
    <3> QED
      BY <3>1, FS_Subset
  <2>2. Desks!Max(due) \in due
    <3> HIDE DEF due
    <3> QED
      BY <1>3, <2>1, GreatestItem
  <2>3. \A j \in 1..Len(items) : j \in olds \cup {Desks!Max(due)} => Consented(desk, items[j])
    <3> HIDE DEF due
    <3> QED
      BY <1>2, <2>2
  <2> HIDE DEF olds, due
  <2> QED
    BY <1>1, <1>3, <2>3, SupersededStays
<1>4. CASE items' = [i \in 1..Len(items) |->
                       IF i \in Desks!Actives /\ items[i].window = "over"
                       THEN [items[i] EXCEPT !.state = "superseded"] ELSE items[i]]
  <2>1. /\ DOMAIN items' = 1..Len(items) /\ items' = [j \in 1..Len(items) |-> items'[j]]
        /\ Len(items') = Len(items)
    BY <1>1, <1>4
  <2>2. ASSUME NEW j \in 1..Len(items)
        PROVE  Restated(items[j], items'[j])
    <3>1. CASE items'[j] = items[j]
      BY <3>1 DEF Restated
    <3>2. CASE j \in Desks!Actives /\ items'[j] = [items[j] EXCEPT !.state = "superseded"]
      BY <1>2, <3>2 DEF Restated
    <3> QED
      BY <1>4, <3>1, <3>2
  <2> QED
    BY <1>1, <2>1, <2>2, RowsRestated
<1> QED
  BY <1>3, <1>4 DEF Desks!WorkerActivates

LEMMA CommitStays ==
  ASSUME DesksInv, NEW o \in Operators, Desks!ActivateCommit(o)
  PROVE  DesksInv'
<1> DEFINE a == activation[o]
<1>0. /\ DeskTables /\ Activating /\ carried \subseteq Asks /\ IsFiniteSet(carried)
      /\ activation \in [Operators -> Activations]
  BY DEF DesksInv, DeskTables
<1>1. /\ a # [item |-> 0] /\ items' = Desks!Superseded(a.old, a.item)
      /\ carried' = carried \cup {a.request} /\ activation' = [activation EXCEPT ![o] = [item |-> 0]]
      /\ UNCHANGED <<desk, wallet, dialogs, asked>>
  BY DEF Desks!ActivateCommit, Desks!NoActivation
<1>2. PICK success : Desks!Answered(a.request, success)
  BY DEF Desks!ActivateCommit, Desks!Arrives
<1>3. a.item \in Nat \ {0} /\ a.request \in Asks
  <2>1. a \in [item : {0}] \/ a \in [item : Nat \ {0}, old : SUBSET Nat, request : Asks]
    BY <1>0 DEF Activations
  <2>2. a \notin [item : {0}]
    <3> HIDE DEF a
    <3> QED
      BY <1>1
  <2> QED
    BY <2>1, <2>2
<1>4. desk # "points" /\ \A j \in a.old \cup {a.item} : Consented(desk, items[j])
  BY <1>0, <1>3 DEF Activating
<1>5. AroundRows
  <2>1. DialogsGoOn
    BY <1>0, <1>2, <1>3, AnsweredDialogs DEF DeskTables
  <2>2. /\ activation' \in [Operators -> Activations]
        /\ \A p \in Operators : activation'[p].item # 0 => activation'[p] = activation[p]
    <3>1. [item |-> 0] \in Activations
      BY DEF Activations
    <3> QED
      BY <1>0, <1>1, <3>1
  <2>3. carried \subseteq carried' /\ carried' \subseteq Asks /\ IsFiniteSet(carried')
    BY <1>0, <1>1, <1>3, FS_AddElement
  <2> QED
    BY <1>1, <2>1, <2>2, <2>3 DEF AroundRows
<1> HIDE DEF a
<1> QED
  BY <1>1, <1>4, <1>5, SupersededStays

LEMMA BeginStays ==
  ASSUME DesksInv, NEW q \in asked, Desks!ActivateBegin(q)
  PROVE  DesksInv'
<1> DEFINE a == [item |-> q.item, old |-> Desks!Actives, request |-> q]
<1>0. /\ DeskTables /\ DesksAim /\ Activating /\ WalletRule /\ DialogRule /\ Len(items) \in Nat
      /\ items \in Seq(Items) /\ activation \in [Operators -> Activations] /\ q \in Asks
      /\ \A i \in 1..Len(items) : Supported(desk, items[i])
  BY DEF DesksInv, DeskTables
<1>1. /\ UNCHANGED <<desk, items, wallet, dialogs, dialog, carried>> /\ asked' = asked \ {q}
      /\ activation' = [activation EXCEPT ![q.by] = a] /\ q.op = "activate"
      /\ items[q.item].state = "approved"
  BY DEF Desks!ActivateBegin
<1>2. desk # "points" /\ q.item \in 1..Len(items) /\ q.by \in Operators
  <2>1. Aimed(q.op, q.item)
    BY <1>0 DEF DesksAim
  <2> QED
    BY <1>0, <1>1, <2>1 DEF Aimed, Asks
<1>3. Desks!Actives \subseteq 1..Len(items)
  BY DEF Desks!Actives
<1>4. \A i \in Desks!Actives \cup {q.item} : i \in 1..Len(items) /\ Consented(desk, items[i])
  BY <1>0, <1>1, <1>2 DEF Supported, Desks!InUse, Desks!Actives
<1>5. /\ a \in Activations /\ a.item = q.item /\ a.old = Desks!Actives
  BY <1>0, <1>2, <1>3 DEF Activations
<1> HIDE DEF a
<1>6. activation' \in [Operators -> Activations]
  BY <1>0, <1>1, <1>5
<1>7. Activating'
  <2> SUFFICES ASSUME NEW o \in Operators, activation'[o].item # 0
               PROVE  /\ desk' # "points" /\ activation'[o].item \in 1..Len(items')
                      /\ activation'[o].old \subseteq 1..Len(items')
                      /\ \A i \in activation'[o].old \cup {activation'[o].item} :
                           Consented(desk', items'[i])
    BY DEF Activating
  <2>1. CASE activation'[o] = a
    BY <1>1, <1>2, <1>3, <1>4, <1>5, <2>1
  <2>2. CASE activation'[o] = activation[o]
    BY <1>0, <1>1, <2>2 DEF Activating
  <2> QED
    BY <1>0, <1>1, <2>1, <2>2
<1>8. DesksAim'
  <2>1. \A v, j : Aimed(v, j) => Aimed(v, j)'
    BY <1>1 DEF Aimed
  <2> QED
    BY <1>0, <1>1, <2>1 DEF DesksAim
<1>9. WalletRule' /\ DialogRule'
  <2>1. Desks!Moved' = Desks!Moved
    BY <1>1 DEF Desks!Moved
  <2> QED
    BY <1>0, <1>1, <2>1 DEF WalletRule, DialogRule
<1>10. DeskTables'
  BY <1>0, <1>1, <1>6 DEF DeskTables
<1>11. \A i \in 1..Len(items') : Supported(desk', items'[i])
  BY <1>0, <1>1
<1> QED
  BY <1>7, <1>8, <1>9, <1>10, <1>11 DEF DesksInv

\* A colleague's decision.
LEMMA ItemDecided ==
  ASSUME NEW q \in Asks, NEW item \in Items, Supported(desk, item), Desks!MayDecide(q, item),
         q.op \in {"approve", "reject"}
  PROVE  /\ Desks!Decided(q, item) \in Items /\ RowKept(desk, item, Desks!Decided(q, item))
         /\ Desks!Decided(q, item).used = item.used
<1> DEFINE new == Desks!Decided(q, item)
           approvers == item.approvers \cup {q.by}
<1>1. /\ q.by \in Operators /\ item.by # q.by /\ item.state = "pending" /\ q.by \notin item.approvers
      /\ IsFiniteSet(item.approvers) /\ item.by \notin item.approvers /\ item.amount \in Int
  BY DEF Asks, Desks!MayDecide, Supported, Items
<1>2. /\ IsFiniteSet(approvers) /\ Cardinality(approvers) \in Nat /\ item.by \notin approvers
      /\ Cardinality(approvers) >= 1
  <2>1. Cardinality(item.approvers) \in Nat
    BY <1>1, FS_CardinalityType
  <2>2. Cardinality(approvers) = Cardinality(item.approvers) + 1 /\ IsFiniteSet(approvers)
    BY <1>1, FS_AddElement
  <2> QED
    BY <1>1, <2>1, <2>2
<1>3. CASE q.op = "reject"
  <2>1. new = [item EXCEPT !.state = "rejected"]
    BY <1>3 DEF Desks!Decided
  <2> HIDE DEF new
  <2>2. /\ new \in Items /\ new.by = item.by /\ new.amount = item.amount /\ new.used = item.used
        /\ new.approvers = item.approvers /\ new.state = "rejected"
    BY <2>1 DEF Items, States
  <2>3. RowKept(desk, item, new)
    BY <1>1, <2>2 DEF RowKept, Supported, Desks!InUse
  <2> QED
    BY <2>2, <2>3 DEF new
<1>4. CASE q.op # "reject" /\ desk = "exports"
  <2>1. new = [item EXCEPT !.state = "ready", !.approvers = approvers]
    BY <1>4 DEF Desks!Decided, Desks!Released
  <2> HIDE DEF new
  <2>2. /\ new \in Items /\ new.by = item.by /\ new.amount = item.amount /\ new.used = item.used
        /\ new.approvers = approvers /\ new.state = "ready"
    BY <1>1, <2>1 DEF Items, States
  <2>3. Supported(desk, new)
    <3> HIDE DEF approvers
    <3> QED
      BY <1>2, <1>4, <2>2 DEF Supported, Consented
  <2>4. RowKept(desk, item, new)
    BY <2>2, <2>3 DEF RowKept
  <2> QED
    BY <2>2, <2>4 DEF new
<1>5. CASE q.op # "reject" /\ desk # "exports"
  <2> DEFINE enough == Cardinality(approvers) >= Desks!Required(item.amount)
             state == IF enough THEN "approved" ELSE "pending"
  <2>1. new = [item EXCEPT !.approvers = approvers, !.state = state]
    BY <1>1, <1>5, SameDeskCardinality DEF Desks!Decided
  <2>2. state \in States
    BY DEF States
  <2> HIDE DEF new, state
  <2>3. /\ new \in Items /\ new.by = item.by /\ new.amount = item.amount /\ new.used = item.used
        /\ new.approvers = approvers /\ new.state = state
    BY <1>1, <2>1, <2>2 DEF Items
  <2>4. Supported(desk, new)
    <3>1. new.state \in Desks!InUse \cup {"approved"} => enough
      BY <2>3 DEF state, Desks!InUse
    <3>2. new.state \in Desks!InUse \cup {"approved"} => Consented(desk, new)
      <4> HIDE DEF approvers
      <4> QED
        BY <1>2, <2>3, <3>1 DEF Consented
    <3>3. desk = "points" => new.used \in {0, 1} /\ new.used # 1
      BY <1>1, <2>3 DEF Supported
    <3> HIDE DEF approvers
    <3> QED
      BY <1>2, <2>3, <3>2, <3>3 DEF Supported
  <2>5. RowKept(desk, item, new)
    BY <2>3, <2>4 DEF RowKept
  <2> QED
    BY <2>3, <2>5 DEF new
<1> QED
  BY <1>3, <1>4, <1>5

\* An adjustment that is approved was not posted yet.
Executed(item) == [item EXCEPT !.state = "executed", !.used = @ + 1]

LEMMA ItemExecuted ==
  ASSUME NEW item \in Items, Supported("points", item), item.state = "approved"
  PROVE  /\ Executed(item) \in Items /\ RowKept("points", item, Executed(item)) /\ item.used = 0
         /\ Executed(item).used = 1 /\ Executed(item).amount = item.amount
<1> DEFINE first == [item EXCEPT !.state = "executed"]
           new == Executed(item)
<1>1. item.used = 0 /\ Consented("points", item) /\ IsFiniteSet(item.approvers)
      /\ item.by \notin item.approvers
  BY DEF Supported
<1>2. /\ first \in Items /\ first.by = item.by /\ first.amount = item.amount /\ first.used = item.used
      /\ first.approvers = item.approvers /\ first.state = "executed"
  BY DEF Items, States
<1>3. new = [first EXCEPT !.used = item.used + 1]
  BY DEF Executed
<1> HIDE DEF first, new
<1>4. /\ new \in Items /\ new.by = first.by /\ new.amount = first.amount /\ new.used = 1
      /\ new.approvers = first.approvers /\ new.state = first.state
  BY <1>1, <1>2, <1>3 DEF Items
<1>5. RowKept("points", item, new)
  BY <1>1, <1>2, <1>4 DEF RowKept, Supported, Consented
<1> QED
  BY <1>1, <1>2, <1>4, <1>5 DEF new

AskedFor(q, amount, w) == [Desks!NewItem(q, amount) EXCEPT !.window = w]

LEMMA ItemAsked ==
  ASSUME NEW q \in Asks, NEW amount \in Int, NEW w \in {"always", "early", "open", "over"}
  PROVE  /\ AskedFor(q, amount, w) \in Items /\ AskedFor(q, amount, w).by = q.by
         /\ AskedFor(q, amount, w).state = "pending" /\ AskedFor(q, amount, w).approvers = {}
         /\ AskedFor(q, amount, w).used = 0
BY DEF AskedFor, Desks!NewItem, Items, Asks, States

LEMMA ItemAskedBack ==
  ASSUME NEW q \in Asks, NEW amount \in Int
  PROVE  LET new == Desks!NewItem(q, amount)
         IN  /\ new \in Items /\ new.by = q.by /\ new.state = "pending" /\ new.approvers = {}
             /\ new.used = 0
BY DEF Desks!NewItem, Items, Asks, States

LEMMA CarryKeeps ==
  ASSUME DesksInv, StartBalance \in Nat, NEW q \in asked, Desks!Carry(q)
  PROVE  DesksInv'
<1>0. /\ DeskTables /\ DesksAim /\ items \in Seq(Items) /\ Len(items) \in Nat /\ q \in Asks
      /\ carried \subseteq Asks /\ IsFiniteSet(carried) /\ WalletRule /\ wallet \in Int
      /\ \A i \in 1..Len(items) : Supported(desk, items[i]) /\ items[i] \in Items
  BY DEF DesksInv, DeskTables
<1>1. /\ Desks!Earlier(q) = {} /\ carried' = carried \cup {q} /\ asked' = asked \ {q}
      /\ UNCHANGED <<desk, dialogs, activation>>
  BY DEF Desks!Carry
<1>2. AroundRows
  <2>1. PICK success : Desks!Answered(q, success)
    BY DEF Desks!Carry, Desks!Arrives
  <2>2. DialogsGoOn
    BY <1>0, <2>1, AnsweredDialogs DEF DeskTables
  <2>3. carried \subseteq carried' /\ carried' \subseteq Asks /\ IsFiniteSet(carried')
    BY <1>0, <1>1, FS_AddElement
  <2> QED
    BY <1>0, <1>1, <2>2, <2>3 DEF AroundRows, DeskTables
<1>3. Aimed(q.op, q.item)
  BY <1>0 DEF DesksAim
<1>4. CASE Desks!Create(q)
  <2>1. q.op = "create" /\ wallet' = wallet
    BY <1>4 DEF Desks!Create
  <2>2. PICK w \in Desks!Windows : items' = Append(items, [Desks!NewItem(q, q.amount) EXCEPT !.window = w])
    BY <1>4 DEF Desks!Create
  <2>3. w \in {"always", "early", "open", "over"} /\ q.amount \in Int
    BY <1>0 DEF Desks!Windows, Asks
  <2> DEFINE new == AskedFor(q, q.amount, w)
  <2>4. new \in Items /\ new.by = q.by /\ new.state = "pending" /\ new.approvers = {} /\ new.used = 0
    BY <1>0, <2>3, ItemAsked
  <2>5. items' = Append(items, new)
    BY <2>2 DEF AskedFor
  <2> HIDE DEF new
  <2> QED
    BY <1>1, <1>2, <2>1, <2>4, <2>5, RowAdded
<1>5. CASE Desks!Rollback(q)
  <2>1. q.op = "rollback" /\ wallet' = wallet
        /\ items' = Append(items, Desks!NewItem(q, items[q.item].amount))
    BY <1>5 DEF Desks!Rollback
  <2>2. items[q.item].amount \in Int
    <3>1. q.item \in 1..Len(items)
      BY <1>0, <1>3, <2>1 DEF Aimed
    <3> QED
      BY <1>0, <3>1 DEF Items
  <2> DEFINE new == Desks!NewItem(q, items[q.item].amount)
  <2>3. new \in Items /\ new.by = q.by /\ new.state = "pending" /\ new.approvers = {} /\ new.used = 0
    BY <1>0, <2>2, ItemAskedBack
  <2> HIDE DEF new
  <2> QED
    BY <1>1, <1>2, <2>1, <2>3, RowAdded DEF new
<1>6. CASE Desks!Decide(q)
  <2>1. q.op \in {"approve", "reject"} /\ Desks!MayDecide(q, items[q.item]) /\ wallet' = wallet
    BY <1>6 DEF Desks!Decide
  <2>2. q.item \in 1..Len(items)
    BY <1>0, <1>3, <2>1 DEF Aimed
  <2> DEFINE new == Desks!Decided(q, items[q.item])
  <2>3. items' = [items EXCEPT ![q.item] = new]
    BY <1>0, <1>6, <2>2 DEF Desks!Decide
  <2>4. new \in Items /\ RowKept(desk, items[q.item], new) /\ new.used = items[q.item].used
    BY <1>0, <2>1, <2>2, ItemDecided
  <2> HIDE DEF new
  <2> QED
    BY <1>2, <2>1, <2>2, <2>3, <2>4, OneRowChanges
<1>7. CASE Desks!Execute(q)
  <2>1. /\ q.op = "execute" /\ items[q.item].state = "approved"
        /\ wallet' = wallet + items[q.item].amount /\ wallet + items[q.item].amount >= 0
    BY <1>7 DEF Desks!Execute
  <2>2. q.item \in 1..Len(items) /\ desk = "points"
    BY <1>0, <1>3, <2>1 DEF Aimed
  <2> DEFINE new == Executed(items[q.item])
  <2>3. items' = [items EXCEPT ![q.item] = new]
    BY <1>0, <1>7, <2>2 DEF Desks!Execute, Executed
  <2>4. /\ new \in Items /\ RowKept(desk, items[q.item], new) /\ items[q.item].used = 0
        /\ new.used = 1 /\ new.amount = items[q.item].amount
    BY <1>0, <2>1, <2>2, ItemExecuted
  <2> HIDE DEF new
  <2>5. WalletRule' /\ wallet' \in Int
    BY <1>0, <1>1, <2>1, <2>2, <2>3, <2>4, WalletExecutes
  <2> QED
    BY <1>2, <2>2, <2>3, <2>4, <2>5, OneRowChanges
<1> QED
  BY <1>4, <1>5, <1>6, <1>7 DEF Desks!Carry, Desks!Perform

LEMMA DesksStart ==
  ASSUME Desks!Init, StartBalance \in Nat
  PROVE  DesksInv
<1>1. /\ desk \in {"points", "config", "exports"} /\ items = <<>> /\ wallet = StartBalance
      /\ dialogs = [o \in Operators |-> 0] /\ dialog = [o \in Operators |-> [op |-> "none"]]
      /\ asked = {} /\ carried = {} /\ activation = [o \in Operators |-> [item |-> 0]]
  BY DEF Desks!Init, Desks!Closed, Desks!NoActivation
<1>2. items \in Seq(Items) /\ Len(items) = 0 /\ 1..Len(items) = {}
  BY <1>1
<1>3. DeskTables
  BY <1>1, <1>2, FS_EmptySet DEF DeskTables, Dialogs, Activations
<1>4. DesksAim /\ Activating
  BY <1>1 DEF DesksAim, Activating
<1>5. WalletRule
  <2>1. (IF desk = "points" THEN 1..Len(items) ELSE {}) = {}
    BY <1>2
  <2>2. Sum(Desks!Moved, {}) = 0
    BY SumNone
  <2> QED
    BY <1>1, <2>1, <2>2 DEF WalletRule
<1>6. DialogRule
  <2>1. \A o \in Operators : Own(items, o) = {} /\ KeysOf(Asking(carried, o)) = {}
    BY <1>1, <1>2 DEF Own, KeysOf, Asking
  <2>2. Cardinality({}) = 0
    BY FS_EmptySet
  <2> QED
    BY <2>1, <2>2 DEF DialogRule
<1> QED
  BY <1>2, <1>3, <1>4, <1>5, <1>6 DEF DesksInv

LEMMA DesksStep == DesksInv /\ Desks!Next => DesksInv'
<1> SUFFICES ASSUME DesksInv, Desks!Next PROVE DesksInv'
  OBVIOUS
<1>0. StartBalance \in Nat
  BY SmallRequests DEF SmallRequests
<1>1. ASSUME NEW o \in Operators,
             Desks!OpenDialog(o) \/ Desks!Resubmit(o) \/ Desks!GiveUp(o) \/ Desks!CloseDialog(o)
               \/ Desks!ActivateCommit(o)
      PROVE  DesksInv'
  BY <1>1, OpenDialogKeeps, ResubmitKeeps, DialogStepKeeps, CommitStays
<1>2. ASSUME NEW q \in asked,
             Desks!Replay(q) \/ Desks!Carry(q) \/ Desks!Refuse(q) \/ Desks!ActivateBegin(q)
      PROVE  DesksInv'
  BY <1>0, <1>2, DialogStepKeeps, CarryKeeps, BeginStays
<1>3. CASE Desks!WorkerActivates
  BY <1>3, WorkerKeeps
<1>4. ASSUME NEW i \in 1..Len(items), Desks!WindowMoves(i) \/ Desks!Download(i)
      PROVE  DesksInv'
  BY <1>4, WindowMovesKeeps
<1> QED
  BY <1>1, <1>2, <1>3, <1>4 DEF Desks!Next

LEMMA WalletSums ==
  Desks!WalletFollowsExecutions <=>
    (/\ wallet = StartBalance + Sum(Desks!Moved, IF desk = "points" THEN DOMAIN items ELSE {})
     /\ wallet >= 0
     /\ desk = "points" => \A i \in DOMAIN items : items[i].used <= 1)
BY Zenon DEF Desks!WalletFollowsExecutions, Desks!MapThenSumSet, Desks!MapThenFoldSet,
             Sum, MapThenSumSet, MapThenFoldSet

LEMMA DesksHold == DesksInv => Desks!ControlsHold
<1> SUFFICES ASSUME DesksInv PROVE Desks!ControlsHold
  OBVIOUS
<1>1. /\ DOMAIN items = 1..Len(items) /\ WalletRule /\ DialogRule
      /\ \A i \in 1..Len(items) : Supported(desk, items[i])
  BY DEF DesksInv, DeskTables
<1>2. Desks!TwoPersonRule
  BY <1>1, SameDeskCardinality DEF Supported, Consented, Desks!TwoPersonRule
<1>3. Desks!WalletFollowsExecutions
  BY <1>1, WalletSums DEF WalletRule, Supported
<1>4. Desks!OneItemPerDialog
  <2> SUFFICES ASSUME NEW o \in Operators
               PROVE  Desks!Cardinality({i \in DOMAIN items : items[i].by = o})
                        <= Desks!Cardinality({c.key : c \in {p \in carried : p.by = o /\ p.op \in {"create", "rollback"}}})
    BY DEF Desks!OneItemPerDialog
  <2>1. Own(items, o) = {i \in DOMAIN items : items[i].by = o}
    BY <1>1 DEF Own
  <2>2. KeysOf(Asking(carried, o)) = {c.key : c \in {p \in carried : p.by = o /\ p.op \in {"create", "rollback"}}}
    BY DEF KeysOf, Asking
  <2> QED
    BY <1>1, <2>1, <2>2, SameDeskCardinality DEF DialogRule
<1> QED
  BY <1>2, <1>3, <1>4 DEF Desks!ControlsHold

LEMMA ControlsStep ==
  ASSUME DesksInv, FormInv, CasesInv, [Next]_requestsVars
  PROVE  DesksInv' /\ FormInv' /\ CasesInv'
<1>1. CASE UNCHANGED desksPart
  <2>1. UNCHANGED <<desk, items, wallet, dialogs, dialog, asked, carried, activation>>
    BY <1>1 DEF desksPart
  <2>2. DesksAim'
    BY <2>1 DEF DesksInv, DesksAim, Aimed
  <2> QED
    <3>1. DesksInv'
      BY <2>1, <2>2, DialogsKeep DEF DesksInv, DeskTables
    <3>2. FormInv' /\ CasesInv'
      <4>1. CASE UNCHANGED reportPart
        BY <4>1 DEF reportPart, FormInv, FormTables, TextsAreNumbered, OneCallPerText, AllReports,
           CasesInv, RowsAreRead, CaseRule
      <4>2. CASE Reporting!Next
        BY <4>2, FormStep, CasesStep
      <4> QED
        BY <4>1, <4>2 DEF Next, requestsVars
    <3> QED
      BY <3>1, <3>2
<1>2. CASE Desks!Next /\ UNCHANGED reportPart
  <2>1. FormInv' /\ CasesInv'
    BY <1>2 DEF reportPart, FormInv, FormTables, TextsAreNumbered, OneCallPerText, AllReports,
       CasesInv, RowsAreRead, CaseRule
  <2> QED
    BY <1>2, <2>1, DesksStep
<1> QED
  BY <1>1, <1>2 DEF Next, requestsVars

\* Nothing an operator asks for takes effect without as many colleagues as it needs, the wallet
\* follows the adjustments that were executed, each once, and a dialog that is sent again asks for
\* one item; and a report that is sent again opens one case, decided once more than it was
\* appealed, by reviewers who had read every appeal: over lost requests and lost answers, edited
\* forms, activations that overlap with the worker's, and windows that open and close.
THEOREM ControlsAreHeld == Spec => []ControlsHold
<1>1. Init => DesksInv /\ FormInv /\ CasesInv
  <2>1. StartBalance \in Nat
    BY SmallRequests DEF SmallRequests
  <2> QED
    BY <2>1, DesksStart, FormStarts, CasesStart DEF Init
<1>2. DesksInv /\ FormInv /\ CasesInv /\ [Next]_requestsVars => DesksInv' /\ FormInv' /\ CasesInv'
  BY ControlsStep
<1>3. DesksInv /\ FormInv /\ CasesInv => ControlsHold
  BY DesksHold, CasesHold DEF ControlsHold
<1> QED
  BY <1>1, <1>2, <1>3, PTL DEF Spec

=============================================================================
