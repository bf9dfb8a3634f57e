----------------------------- MODULE Attendance -----------------------------
(***************************************************************************)
(* What follows a confirmed place: checking in by code, by the host or by  *)
(* an approved correction, the reward for it with its daily cap, and the   *)
(* feedback with its weekly one. All registrations belong to one user, of  *)
(* events that run at the same time. A transaction holds the row lock of   *)
(* its registration and, for the reward, an advisory lock named after the  *)
(* day that the API's own clock shows.                                     *)
(***************************************************************************)
EXTENDS Integers, FiniteSets, Sequences

CONSTANTS
  Regs,             \* the registrations
  DailyCap,         \* points.limit.attendance.daily
  WeeklyCap,        \* points.limit.feedback.weekly
  MaxDay,           \* bound on the days that pass
  MaxCorrections    \* bound on the corrections of all registrations

VARIABLES
  phase,        \* where the clock stands between the check-in windows
  day,          \* the day of the database's clock
  code,         \* whether a check-in code of the last 30 seconds is known
  status,       \* registrations.status
  checkin,      \* the registrations with a row of events.checkins
  correction,   \* attendance_corrections of a registration, by number
  rewards,      \* the posted attendance rewards: [reg, locked, posted]
  feedback,     \* the row of community.feedback and its reward
  job           \* the transaction under way about a registration

attendanceVars == <<phase, day, code, status, checkin, correction, rewards, feedback, job>>

\* Check-ins before the end; after the end while their window lasts; the rest of the 48 hours of
\* corrections; the rest of the 30 days of feedback.
Phases == <<"open", "ended", "late", "feedback", "closed">>
Days == 0..MaxDay
Numbers == 1..MaxCorrections
NoJob == [kind |-> "none", date |-> 0, locked |-> FALSE, room |-> FALSE, number |-> 0]
NoFeedback == [given |-> FALSE, edits |-> 0, rewarded |-> FALSE]

TypeOK ==
  /\ phase \in 1..Len(Phases) /\ day \in Days /\ code \in BOOLEAN
  /\ status \in [Regs -> {"confirmed", "checked_in", "no_show", "correction_pending"}]
  /\ checkin \subseteq Regs
  /\ correction \in [Regs -> [Numbers -> {"none", "pending", "approved", "rejected"}]]
  /\ rewards \subseteq [reg : Regs, locked : Days, posted : Days]
  /\ feedback \in [Regs -> [given : BOOLEAN, edits : 0..1, rewarded : BOOLEAN]]
  /\ job \in [Regs -> [kind : {"none", "code", "manual", "approve", "feedback"}, date : Days,
                       locked : BOOLEAN, room : BOOLEAN, number : 0..MaxCorrections]]

Init ==
  /\ phase = 1 /\ day = 0 /\ code = FALSE
  /\ status = [r \in Regs |-> "confirmed"]
  /\ checkin = {}
  /\ correction = [r \in Regs |-> [n \in Numbers |-> "none"]]
  /\ rewards = {}
  /\ feedback = [r \in Regs |-> NoFeedback]
  /\ job = [r \in Regs |-> NoJob]

-----------------------------------------------------------------------------
(* Clocks and codes *)

In(names) == Phases[phase] \in names

TimePasses ==
  /\ phase < Len(Phases) /\ phase' = phase + 1 /\ code' = FALSE
  /\ UNCHANGED <<day, status, checkin, correction, rewards, feedback, job>>

Midnight ==
  /\ day < MaxDay /\ day' = day + 1
  /\ UNCHANGED <<phase, code, status, checkin, correction, rewards, feedback, job>>

\* assertCheckinWindow.
Window(allowCorrection, correctionOnly) ==
  \/ ~correctionOnly /\ In({"open", "ended"})
  \/ allowCorrection /\ In({"ended", "late"})

\* createCheckinCode, for the host.
CreateCheckinCode ==
  /\ In({"open", "ended"}) /\ ~code /\ code' = TRUE
  /\ UNCHANGED <<phase, day, status, checkin, correction, rewards, feedback, job>>

CodeExpires ==
  /\ code /\ code' = FALSE
  /\ UNCHANGED <<phase, day, status, checkin, correction, rewards, feedback, job>>

-----------------------------------------------------------------------------
(* Check-ins. A transaction begins with its checks, then takes the advisory lock and counts   *)
(* the rewards of today, then pays and commits.                                               *)

\* The transaction of r begins; awardAttendance will read the day from the API's clock.
Begin(r, kind, number) ==
  job' = [job EXCEPT ![r] = [NoJob EXCEPT !.kind = kind, !.date = day, !.number = number]]

\* Feedback does not lock the registration.
RowLocked(r) == job[r].kind \in {"code", "manual", "approve"}

\* checkIn, by the registrant with a valid code.
CheckIn(r) ==
  /\ job[r].kind = "none" /\ status[r] = "confirmed" /\ Window(FALSE, FALSE) /\ code
  /\ r \notin checkin
  /\ Begin(r, "code", 0)
  /\ UNCHANGED <<phase, day, code, status, checkin, correction, rewards, feedback>>

\* manualCheckIn, by the host. Where a row of checkins is left over from before a rejection the
\* swallowed unique violation has aborted the transaction: nothing is done.
ManualCheckIn(r) ==
  /\ job[r].kind = "none" /\ status[r] \in {"confirmed", "no_show", "correction_pending"}
  /\ Window(TRUE, FALSE) /\ r \notin checkin
  /\ Begin(r, "manual", 0)
  /\ UNCHANGED <<phase, day, code, status, checkin, correction, rewards, feedback>>

\* decideCorrection, approving: whatever the registration is by now, at any time.
Approve(r, n) ==
  /\ job[r].kind = "none" /\ correction[r][n] = "pending"
  /\ Begin(r, "approve", n)
  /\ UNCHANGED <<phase, day, code, status, checkin, correction, rewards, feedback>>

RewardsOn(d) == {w \in rewards : w.posted = d}

\* pg_advisory_xact_lock on the user and the day the API read.
LockFree(r) == \A s \in Regs : ~(job[s].locked /\ job[s].date = job[r].date)
LockFree_NoLock(r) == TRUE
RewardLock(r) == LockFree(r)

\* awardAttendance: the lock, and the count against the cap by the database's day.
CountRewards(r) ==
  /\ RowLocked(r) /\ ~job[r].locked /\ RewardLock(r)
  /\ job' = [job EXCEPT ![r].locked = TRUE, ![r].room = Cardinality(RewardsOn(day)) < DailyCap]
  /\ UNCHANGED <<phase, day, code, status, checkin, correction, rewards, feedback>>

\* The business key attendance:<registration> has not been paid.
Unpaid(r) == \A w \in rewards : w.reg # r
NotPaidYet(r) == Unpaid(r)

CommitCheckIn(r) ==
  /\ job[r].locked
  /\ status' = [status EXCEPT ![r] = "checked_in"]
  /\ checkin' = checkin \cup {r}
  /\ correction' = IF job[r].kind = "approve" THEN [correction EXCEPT ![r][job[r].number] = "approved"]
                                              ELSE correction
  /\ rewards' = IF job[r].room /\ NotPaidYet(r)
                THEN rewards \cup {[reg |-> r, locked |-> job[r].date, posted |-> day]} ELSE rewards
  /\ job' = [job EXCEPT ![r] = NoJob]
  /\ UNCHANGED <<phase, day, code, feedback>>

-----------------------------------------------------------------------------
(* Corrections *)

\* A correction may be asked for in these states.
Correctable(r) == status[r] \in {"confirmed", "no_show"}

RequestCorrection(r, n) ==
  /\ ~RowLocked(r) /\ Correctable(r) /\ Window(TRUE, TRUE)
  /\ correction[r][n] = "none" /\ \A m \in 1..(n - 1) : correction[r][m] # "none"
  /\ Cardinality({p \in Regs \X Numbers : correction[p[1]][p[2]] # "none"}) < MaxCorrections
  /\ correction' = [correction EXCEPT ![r][n] = "pending"]
  /\ status' = [status EXCEPT ![r] = "correction_pending"]
  /\ UNCHANGED <<phase, day, code, checkin, rewards, feedback, job>>

\* decideCorrection, rejecting: also after the host has checked the registrant in.
Reject(r, n) ==
  /\ ~RowLocked(r) /\ correction[r][n] = "pending"
  /\ correction' = [correction EXCEPT ![r][n] = "rejected"]
  /\ status' = [status EXCEPT ![r] = "no_show"]
  /\ UNCHANGED <<phase, day, code, checkin, rewards, feedback, job>>

-----------------------------------------------------------------------------
(* Feedback *)

FeedbackRewards == Cardinality({r \in Regs : feedback[r].rewarded})

\* feedback: the row is written, then the rewards of the week are counted without a lock. The
\* registration is not locked either: its status is what it was when the request came.
SubmitFeedback(r) ==
  /\ job[r].kind = "none" /\ status[r] = "checked_in" /\ In({"ended", "late", "feedback"})
  /\ feedback[r].edits < 1
  /\ job' = [job EXCEPT ![r] = [NoJob EXCEPT !.kind = "feedback", !.room = FeedbackRewards < WeeklyCap]]
  /\ UNCHANGED <<phase, day, code, status, checkin, correction, rewards, feedback>>

CommitFeedback(r) ==
  /\ job[r].kind = "feedback"
  /\ feedback' = [feedback EXCEPT ![r] =
       IF feedback[r].given THEN [feedback[r] EXCEPT !.edits = feedback[r].edits + 1]
                            ELSE [given |-> TRUE, edits |-> 0, rewarded |-> job[r].room]]
  /\ job' = [job EXCEPT ![r] = NoJob]
  /\ UNCHANGED <<phase, day, code, status, checkin, correction, rewards>>

Next ==
  \/ TimePasses \/ Midnight \/ CreateCheckinCode \/ CodeExpires
  \/ \E r \in Regs : \/ CheckIn(r) \/ ManualCheckIn(r) \/ CountRewards(r) \/ CommitCheckIn(r)
                     \/ SubmitFeedback(r) \/ CommitFeedback(r)
                     \/ \E n \in Numbers : Approve(r, n) \/ RequestCorrection(r, n) \/ Reject(r, n)

Spec == Init /\ [][Next]_attendanceVars

-----------------------------------------------------------------------------
(* Properties *)

\* A registration is paid once however often it is checked in: by code, by the host, and again
\* by a correction after a rejection made it a no-show. And check-ins at several events at a
\* time do not exceed the daily cap together: the advisory lock of awardAttendance. Only a
\* transaction that read the API's clock before midnight and paid after it is outside the lock
\* of the new day.
RewardsStayBounded ==
  /\ \A r \in Regs : Cardinality({w \in rewards : w.reg = r}) <= 1
  /\ \A d \in Days : Cardinality({w \in RewardsOn(d) : w.locked = d}) <= DailyCap

\* A registration waits for at most one correction, over rejections, new requests and check-ins
\* by the host in between; one that is correction_pending has it (requestCorrection, decideCorrection).
OneCorrectionAtATime ==
  \A r \in Regs : LET pending == {n \in Numbers : correction[r][n] = "pending"} IN
    /\ Cardinality(pending) <= 1
    /\ status[r] = "correction_pending" => pending # {}

=============================================================================
