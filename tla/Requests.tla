------------------------------- MODULE Requests -------------------------------
(***************************************************************************)
(* Requests that are sent again and have to count once: what operations    *)
(* desks ask of each other, the report form and the case it opens, the     *)
(* operations and changes of incremental sync, and the feedback form of an *)
(* event. The parts share no state that one of them changes, and a         *)
(* behaviour is about one part: the others stay as they began.             *)
(***************************************************************************)
EXTENDS Integers, FiniteSets

CONSTANTS
  Operators, Amounts, LargeFrom, StartBalance, MaxDownloads, MaxItems, MaxDialogs, MaxLost,  \* Approvals
  Members, Reviewers, MaxFills, MaxLostReports, MaxDecisions,                            \* Reports
  Ops, Others, PullLimit, MaxRows, MaxFloor, MaxFaults,                                  \* Sync
  Author, Stranger, Texts, Blank, MaxKeys, MaxTroubles                                   \* FeedbackForm

ASSUME SmallRequests ==
  /\ {PullLimit, LargeFrom} \subseteq Nat \ {0} /\ StartBalance \in Nat /\ Amounts \subseteq Int
  /\ \A op \in Ops : op.id \notin Others

VARIABLES
  part,
  desk, items, wallet, dialogs, dialog, asked, carried, lost, activation,
  side, reporter, form, attempt, running, reports, received, ready, cases, rows, counters,
  scope, queue, arriving, outcome, history, favorite, version, nextSeq, open, log, floor,
  cursor, pull, pending, page, mail, announced, seen, faults,
  browsing, panelOwner, panel, operation, posted, drawn, feedback, postings, eligible, written, troubles

Desks == INSTANCE Approvals WITH keys <- dialogs, sent <- asked, claims <- carried
Reporting == INSTANCE Reports WITH account <- reporter, sent <- reports, claims <- received, page <- rows,
                                   MaxLost <- MaxLostReports
Syncing == INSTANCE Sync
Reviewing == INSTANCE FeedbackForm WITH account <- browsing, owner <- panelOwner, running <- operation,
                                        sent <- posted, keys <- drawn, claims <- postings, history <- written

desksPart == <<desk, items, wallet, dialogs, dialog, asked, carried, lost, activation>>
reportPart == <<side, reporter, form, attempt, running, reports, received, ready, cases, rows, counters>>
syncPart == <<scope, queue, arriving, outcome, history, favorite, version, nextSeq, open, log, floor,
              cursor, pull, pending, page, mail, announced, seen, faults>>
feedbackPart == <<browsing, panelOwner, panel, operation, posted, drawn, feedback, postings, eligible,
                  written, troubles>>
requestsVars == <<part, desksPart, reportPart, syncPart, feedbackPart>>

\* A part a behaviour is not about begins in one of its states only.
Init ==
  /\ part \in {"desks", "reporting", "syncing", "reviewing"}
  /\ Desks!Init /\ (part # "desks" => desk = "points")
  /\ Reporting!Init /\ (part # "reporting" => side = "form" /\ reporter = CHOOSE m \in Members : TRUE)
  /\ Syncing!Init /\ (part # "syncing" => scope = "queue")
  /\ Reviewing!Init /\ (part # "reviewing" => eligible)

Next ==
  /\ UNCHANGED part
  /\ \/ part = "desks" /\ Desks!Next /\ UNCHANGED <<reportPart, syncPart, feedbackPart>>
     \/ part = "reporting" /\ Reporting!Next /\ UNCHANGED <<desksPart, syncPart, feedbackPart>>
     \/ part = "syncing" /\ Syncing!Next /\ UNCHANGED <<desksPart, reportPart, feedbackPart>>
     \/ part = "reviewing" /\ Reviewing!Next /\ UNCHANGED <<desksPart, reportPart, syncPart>>

Spec == Init /\ [][Next]_requestsVars

-----------------------------------------------------------------------------
(* Properties: those of the part a behaviour is about *)

\* Nothing an operator asked for takes effect without the colleagues it needs, points follow
\* the executed adjustments, and a dialog sent again asks once; a report sent again makes one
\* case, which is decided by those who read every appeal.
ControlsHold ==
  /\ part = "desks" => Desks!ControlsHold
  /\ part = "reporting" => Reporting!ReportsHold

\* A queued operation takes effect once, and a resting engine has reached what was announced.
SyncConverges ==
  part = "syncing" => Syncing!OperationsApplyOnce /\ Syncing!AnnouncedIsCovered

\* The only edit of a feedback is used up by a text of its own, the points a receipt shows were
\* credited, and the panel shows what the author wrote to nobody else.
FeedbackCountsOnce ==
  part = "reviewing" => Reviewing!FeedbackCountsOnce /\ Reviewing!FeedbackIsPrivate

=============================================================================
