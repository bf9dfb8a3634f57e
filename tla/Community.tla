------------------------------ MODULE Community ------------------------------
(***************************************************************************)
(* The community side of the system put together: groups, what is written  *)
(* in them, attendance and achievements. The four keep disjoint tables and *)
(* every request runs in a transaction of its own, so that a step of one   *)
(* leaves the others as they are. A behaviour exercises one of them, the   *)
(* part: interleaving parts that share nothing would only multiply states. *)
(***************************************************************************)
EXTENDS Integers, FiniteSets

CONSTANTS
  Users, InitialCapacity, Step, MaxCapacity, Modes, MaxTransfers,           \* Groups
  Writers, Host, Requests, MaxComments, MaxVersion, MaxNotices,
  MaxOtherVersion, HourlyLimit,                                          \* Conversations
  Regs, DailyCap, WeeklyCap, MaxDay, MaxCorrections,                      \* Attendance
  Versions, Gate, MaxMetric, Evaluators                                   \* Achievements

ASSUME CommunityAssumption ==
  /\ InitialCapacity \in Nat \ {0} /\ Step \in Nat \ {0} /\ MaxTransfers \in Nat
  /\ MaxCapacity \in Nat /\ MaxCapacity >= InitialCapacity
  /\ Host \in Writers /\ {MaxComments, MaxNotices, MaxVersion, MaxOtherVersion, HourlyLimit} \subseteq Nat
  /\ {DailyCap, WeeklyCap, MaxDay, MaxCorrections} \subseteq Nat
  /\ Versions \subseteq Nat /\ IsFiniteSet(Versions) /\ Gate \in [Versions -> Nat] /\ MaxMetric \in Nat

VARIABLES
  part,
  group, member, invites, transfer, dissolution, known,
  surface, active, comments, notices, today, recent, editor, request, blocks, follows,
  phase, day, code, status, checkin, correction, rewards, feedback, job,
  metric, live, award, evaluation

Groups == INSTANCE Groups
Talk == INSTANCE Conversations
Attendance == INSTANCE Attendance
Badges == INSTANCE Achievements

groupPart == <<group, member, invites, transfer, dissolution, known>>
talkPart == <<surface, active, comments, notices, today, recent, editor, request, blocks, follows>>
attendancePart == <<phase, day, code, status, checkin, correction, rewards, feedback, job>>
badgePart == <<metric, live, award, evaluation>>
communityVars == <<part, groupPart, talkPart, attendancePart, badgePart>>

Init ==
  /\ part \in {"groups", "talk", "attendance", "badges"}
  /\ Groups!Init /\ Talk!Init /\ Attendance!Init /\ Badges!Init
  /\ part # "talk" => surface = "group"

Next ==
  /\ UNCHANGED part
  /\ \/ part = "groups" /\ Groups!Next /\ UNCHANGED <<talkPart, attendancePart, badgePart>>
     \/ part = "talk" /\ Talk!Next /\ UNCHANGED <<groupPart, attendancePart, badgePart>>
     \/ part = "attendance" /\ Attendance!Next /\ UNCHANGED <<groupPart, talkPart, badgePart>>
     \/ part = "badges" /\ Badges!Next /\ UNCHANGED <<groupPart, talkPart, attendancePart>>

Spec == Init /\ [][Next]_communityVars

-----------------------------------------------------------------------------
(* Properties: those of the parts *)

\* The owner of a group is its one member with that role, and active, over transfers to members
\* who were muted or removed in between; an open transfer is the owner's; and a closing group
\* has a notice that can be cancelled or finished.
OwnershipIsSettled == Groups!OwnershipIsSettled /\ Groups!ClosingHasNotice

\* An edit of a comment or an announcement replaces exactly what its author was shown.
EditsReplaceWhatWasRead == Talk!EditsReplaceWhatWasRead

\* A registration is paid for attendance once, check-ins at several events do not exceed the
\* daily cap together, and a registration waits for at most one correction.
RewardsStayBounded == Attendance!RewardsStayBounded /\ Attendance!OneCorrectionAtATime

\* An evaluation that nothing overtakes leaves exactly the award the current rule gives.
EvaluationSettles == Badges!EvaluationSettles

=============================================================================
