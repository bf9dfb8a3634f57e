------------------------------- MODULE Reports -------------------------------
(***************************************************************************)
(* A report from the form a member fills in to the decision a reviewer     *)
(* takes: the form uploads its evidence, sends itself again after a lost   *)
(* answer and forgets everything when the account changes; the reviewers   *)
(* work on lists they loaded a while ago; a member concerned may appeal.   *)
(* A text is the number of the edit that produced it. MaxFills bounds the  *)
(* edits, MaxLost the answers that do not arrive, MaxDecisions the         *)
(* decisions of a case. The case is all that form and desk share, so that  *)
(* a behaviour is about one of the two.                                    *)
(***************************************************************************)
EXTENDS Integers, Sequences, FiniteSets

CONSTANTS Members, Reviewers, MaxFills, MaxLost, MaxDecisions

VARIABLES
  side,         \* what a behaviour is about: the "form", or the "desk" with one case to decide
  account,      \* the member signed in on the form's page
  form,         \* what is filled in, and what of it was uploaded
  attempt,      \* the form's StableRequestAttempt
  running,      \* the submission under way, if the page still waits for it
  sent,         \* reports on their way to the server
  claims,       \* sync.idempotency_keys
  ready,        \* evidence that passed its processing
  cases,        \* safety.reports with its moderation case, in order
  page,         \* the row of a case as a reviewer loaded it
  counters      \* edits made, keys drawn, answers lost

formPart == <<account, form, attempt, running, sent, claims, ready, counters>>
vars == <<side, formPart, cases, page>>

EmptyForm == [fill |-> 0, evidence |-> "none"]
NoAttempt == [print |-> EmptyForm, key |-> 0]
NotRunning == [step |-> "idle"]
NoRow == [case |-> 0]

OpenCase(q) ==
  [by |-> q.by, fill |-> q.body.fill, status |-> "open", assignee |-> "none",
   version |-> 1, decisions |-> 0, appeals |-> {}, seen |-> {}]

Init ==
  /\ side \in {"form", "desk"}
  /\ account \in Members
  /\ form = EmptyForm /\ attempt = NoAttempt /\ running = NotRunning
  /\ sent = {} /\ claims = {} /\ ready = {}
  /\ cases = IF side = "desk" THEN <<OpenCase([by |-> account, body |-> EmptyForm])>> ELSE <<>>
  /\ page = [r \in Reviewers |-> NoRow]
  /\ counters = [fills |-> 0, keys |-> 0, lost |-> 0]

-----------------------------------------------------------------------------
(* The form *)

Edit ==
  /\ running = NotRunning /\ counters.fills < MaxFills
  /\ \E evidence \in {"none", "chosen"} :
       form' = [fill |-> counters.fills + 1, evidence |-> evidence]
  /\ counters' = [counters EXCEPT !.fills = @ + 1]
  /\ UNCHANGED <<account, attempt, running, sent, claims, ready, cases, page>>

\* The key of the last attempt for as long as the body is the same.
KeyFor(body) == IF attempt.key # 0 /\ attempt.print = body THEN attempt.key ELSE counters.keys + 1

\* What the page does when the account or the target changes: a submission under way is no
\* longer current, whatever it comes back with.
ClearPrivateState ==
  form' = EmptyForm /\ attempt' = NoAttempt /\ running' = NotRunning

SendReport(body, key) ==
  /\ attempt' = [print |-> body, key |-> key]
  /\ counters' = [counters EXCEPT !.keys = IF key > @ THEN key ELSE @]
  /\ running' = [step |-> "sending", key |-> key]
  /\ sent' = sent \cup {[by |-> account, key |-> key, body |-> body]}

Submit ==
  /\ running = NotRunning /\ form # EmptyForm
  /\ IF form.evidence = "chosen"
     THEN running' = [step |-> "uploading"] /\ UNCHANGED <<attempt, counters, sent>>
     ELSE SendReport(form, KeyFor(form))
  /\ UNCHANGED <<account, form, claims, ready, cases, page>>

\* Every file is registered, sent and completed; what is uploaded is not uploaded again.
UploadEvidence ==
  /\ running.step = "uploading"
  /\ \/ LET body == [form EXCEPT !.evidence = "uploaded"] IN
        form' = body /\ SendReport(body, KeyFor(body))
     \/ running' = NotRunning /\ UNCHANGED <<form, attempt, counters, sent>>
  /\ UNCHANGED <<account, claims, ready, cases, page>>

\* The worker finishes the evidence that belongs to a text.
EvidenceReady(fill) ==
  /\ fill \notin ready
  /\ form = [fill |-> fill, evidence |-> "uploaded"] \/ \E q \in sent : q.body = [fill |-> fill, evidence |-> "uploaded"]
  /\ ready' = ready \cup {fill}
  /\ UNCHANGED <<account, form, attempt, running, sent, claims, cases, page, counters>>

SwitchAccount(m) ==
  /\ m # account
  /\ account' = m /\ ClearPrivateState
  /\ UNCHANGED <<sent, claims, ready, cases, page, counters>>

\* Another target is opened in the page.
ChangeTarget ==
  /\ form # EmptyForm
  /\ ClearPrivateState
  /\ UNCHANGED <<account, sent, claims, ready, cases, page, counters>>

\* The answer is taken by the submission that waits for it, if it is still current.
TakeReceipt(q, accepted) ==
  IF running.step = "sending" /\ running.key = q.key
  THEN IF accepted THEN ClearPrivateState ELSE running' = NotRunning /\ UNCHANGED <<form, attempt>>
  ELSE UNCHANGED <<form, attempt, running>>

Reply(q, accepted) ==
  \/ TakeReceipt(q, accepted) /\ counters' = counters
  \/ TakeReceipt(q, FALSE) /\ counters.lost < MaxLost /\ counters' = [counters EXCEPT !.lost = @ + 1]

\* The connection breaks before the server has answered.
GiveUp ==
  /\ running.step = "sending" /\ counters.lost < MaxLost
  /\ running' = NotRunning
  /\ counters' = [counters EXCEPT !.lost = @ + 1]
  /\ UNCHANGED <<account, form, attempt, sent, claims, ready, cases, page>>

-----------------------------------------------------------------------------
(* The server *)

Earlier(q) == {c \in claims : c.by = q.by /\ c.key = q.key}

EvidenceUsable(q) == q.body.evidence = "none" \/ q.body.fill \in ready

Report(q) ==
  /\ q \in sent
  /\ sent' = sent \ {q}
  /\ IF Earlier(q) # {} THEN Reply(q, q \in Earlier(q)) /\ UNCHANGED <<cases, claims>>
     ELSE IF ~EvidenceUsable(q) THEN Reply(q, FALSE) /\ UNCHANGED <<cases, claims>>
     ELSE /\ cases' = Append(cases, OpenCase(q)) /\ claims' = claims \cup {q}
          /\ Reply(q, TRUE)
  /\ UNCHANGED <<account, ready, page>>

\* The reporter, or the member the report is about, appeals against what was decided; a
\* second appeal of the same member is answered with the first.
Appeal(c, m) ==
  /\ cases[c].status = "decided" /\ m \notin cases[c].appeals
  /\ cases' = [cases EXCEPT ![c].appeals = @ \cup {m}, ![c].status = "appealed", ![c].version = @ + 1]
  /\ UNCHANGED <<formPart, page>>

-----------------------------------------------------------------------------
(* The reviewers *)

LoadRow(r, c) ==
  /\ page' = [page EXCEPT ![r] = [case |-> c, version |-> cases[c].version, appeals |-> cases[c].appeals]]
  /\ page' # page
  /\ UNCHANGED <<formPart, cases>>

SameVersion(r) == cases[page[r].case].version = page[r].version

ClaimCase(r) ==
  LET c == page[r].case IN
  /\ page[r] # NoRow /\ SameVersion(r)
  /\ cases[c].assignee = "none"
  /\ cases' = [cases EXCEPT ![c].assignee = r, ![c].version = @ + 1,
                 ![c].status = IF @ = "open" THEN "claimed" ELSE @]
  /\ UNCHANGED <<formPart, page>>

Decidable(r) == SameVersion(r) /\ cases[page[r].case].status # "decided"

\* Whoever reads the case may decide it: the assignee is not looked at. A decision sent again
\* is stopped by its key or by the version it carries.
Decide(r) ==
  LET c == page[r].case IN
  /\ page[r] # NoRow /\ Decidable(r)
  /\ cases[c].decisions < MaxDecisions
  /\ cases' = [cases EXCEPT ![c].status = "decided", ![c].decisions = @ + 1, ![c].version = @ + 1,
                 ![c].seen = page[r].appeals]
  /\ UNCHANGED <<formPart, page>>

FormStep ==
  \/ Edit \/ Submit \/ UploadEvidence \/ ChangeTarget \/ GiveUp
  \/ \E m \in Members : SwitchAccount(m)
  \/ \E fill \in 1..counters.fills : EvidenceReady(fill)
  \/ \E q \in sent : Report(q)

DeskStep ==
  \/ \E c \in DOMAIN cases, m \in Members : Appeal(c, m)
  \/ \E r \in Reviewers : ClaimCase(r) \/ Decide(r) \/ \E c \in DOMAIN cases : LoadRow(r, c)

Next ==
  /\ UNCHANGED side
  /\ \/ side = "form" /\ FormStep
     \/ side = "desk" /\ DeskStep

Spec == Init /\ [][Next]_vars

-----------------------------------------------------------------------------
(* Properties *)

\* A text that is sent until it is received makes one case, of the member who wrote it.
OneCasePerReport ==
  \A c, d \in DOMAIN cases : cases[c].fill = cases[d].fill => c = d

\* A case is decided once more than it was appealed, and by someone who had read every appeal.
DecisionsFollowAppeals ==
  \A c \in DOMAIN cases :
    /\ cases[c].decisions = Cardinality(cases[c].appeals) + (IF cases[c].status = "decided" THEN 1 ELSE 0)
    /\ cases[c].status = "decided" => cases[c].seen = cases[c].appeals

ReportsHold == OneCasePerReport /\ DecisionsFollowAppeals

=============================================================================
