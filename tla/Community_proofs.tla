-------------------------- MODULE Community_proofs --------------------------
(***************************************************************************)
(* Theorems about the groups, the conversations, attendance and the        *)
(* achievements composed in Community, and about the way a notice takes to *)
(* a member (Delivery), for every value of their constants.                *)
(***************************************************************************)
EXTENDS Community, Delivery, FiniteFacts

-----------------------------------------------------------------------------
(* Achievements: an evaluation that nothing overtakes *)

LEMMA GreatestVersion ==
  ASSUME NEW defs \in SUBSET Versions, defs # {}
  PROVE  Badges!Max(defs) \in defs
<1>1. defs \in SUBSET Nat /\ IsFiniteSet(defs)
  BY CommunityAssumption, FS_Subset
<1>2. \E x \in defs : \A y \in defs : x >= y
  BY <1>1, GreatestExists
<1> QED
  BY <1>2 DEF Badges!Max

BadgeTables ==
  /\ live \subseteq Versions
  /\ award = [v \in Versions |-> award[v]]
  /\ evaluation = [e \in Evaluators |-> evaluation[e]]

LEMMA BadgesStep == BadgeTables /\ Badges!Next => BadgeTables'
<1> SUFFICES ASSUME BadgeTables, Badges!Next PROVE BadgeTables'
  OBVIOUS
<1>1. live' \subseteq Versions
  BY DEF BadgeTables, Badges!Next, Badges!MetricChanges, Badges!DefinitionsChange, Badges!Evaluate,
         Badges!CommitEvaluation, Badges!RevokeAchievement, Badges!SetHidden
<1>2. award' = [v \in Versions |-> award'[v]]
  BY DEF BadgeTables, Badges!Next, Badges!MetricChanges, Badges!DefinitionsChange, Badges!Evaluate,
         Badges!CommitEvaluation, Badges!RevokeAchievement, Badges!SetHidden
<1>3. evaluation' = [e \in Evaluators |-> evaluation'[e]]
  BY DEF BadgeTables, Badges!Next, Badges!MetricChanges, Badges!DefinitionsChange, Badges!Evaluate,
         Badges!CommitEvaluation, Badges!RevokeAchievement, Badges!SetHidden
<1> QED
  BY <1>1, <1>2, <1>3 DEF BadgeTables

\* An evaluation ends only by its own commit.
LEMMA EvaluationEnds ==
  ASSUME BadgeTables, Badges!Next, NEW i \in Evaluators,
         evaluation[i].running, ~evaluation'[i].running
  PROVE  Badges!CommitEvaluation(i)
<1>1. \/ evaluation' = evaluation
      \/ \E j \in Evaluators : Badges!Evaluate(j) \/ Badges!CommitEvaluation(j)
  BY DEF Badges!Next, Badges!MetricChanges, Badges!DefinitionsChange, Badges!RevokeAchievement,
         Badges!SetHidden
<1>2. PICK j \in Evaluators : Badges!Evaluate(j) \/ Badges!CommitEvaluation(j)
  BY <1>1
<1>3. CASE Badges!Evaluate(j)
  <2>1. ~evaluation[j].running
    BY <1>3 DEF Badges!Evaluate
  <2>2. evaluation'[i] = evaluation[i]
    BY <1>3, <2>1 DEF BadgeTables, Badges!Evaluate
  <2> QED
    BY <2>2
<1>4. CASE Badges!CommitEvaluation(j)
  <2>1. i # j => evaluation'[i] = evaluation[i]
    BY <1>4 DEF BadgeTables, Badges!CommitEvaluation
  <2> QED
    BY <1>4, <2>1
<1> QED
  BY <1>2, <1>3, <1>4

LEMMA EvaluationHolds ==
  ASSUME BadgeTables, Badges!Next, NEW i \in Evaluators,
         evaluation[i].running, ~evaluation'[i].running,
         evaluation[i].metric = metric, evaluation[i].live = live, evaluation[i].held = Badges!Held
  PROVE  Badges!Held' = {v \in Badges!Canonical(live) : Badges!RuleMet(v, metric)}
<1> DEFINE e == evaluation[i]
           top == Badges!Canonical(live)
<1>1. award' = [v \in Versions |->
        IF v \in Badges!Lost(e) THEN "none"
        ELSE IF v \in Badges!ToAward(e) /\ award[v] = "none" THEN "shown" ELSE award[v]]
  BY EvaluationEnds DEF Badges!CommitEvaluation
<1>2. top \subseteq Versions
  BY GreatestVersion DEF BadgeTables, Badges!Canonical
<1>3. \A v \in Versions :
        /\ v \in Badges!Lost(e) <=>
             award[v] # "none" /\ (v \notin top \/ ~Badges!RuleMet(v, metric))
        /\ v \in Badges!ToAward(e) <=> v \in top /\ award[v] = "none" /\ Badges!RuleMet(v, metric)
  BY DEF Badges!Lost, Badges!ToRevoke, Badges!Outdated, Badges!Unmet, Badges!ToAward, Badges!Held
<1> HIDE DEF top, e
<1>4. \A v \in Versions : award'[v] # "none" <=> v \in top /\ Badges!RuleMet(v, metric)
  BY <1>1, <1>3
<1>5. Badges!Held' = {v \in top : Badges!RuleMet(v, metric)}
  BY <1>2, <1>4 DEF Badges!Held
<1> QED
  BY <1>5 DEF top

-----------------------------------------------------------------------------
(* Attendance: rewards and corrections *)

LEMMA SameAttendanceCardinality == \A S : Attendance!Cardinality(S) = Cardinality(S)
BY Zenon DEF Attendance!Cardinality, Cardinality

JobRow ==
  [kind : {"none", "code", "manual", "approve", "feedback"}, date : Nat,
   locked : BOOLEAN, room : BOOLEAN, number : Nat]

\* The rewards a day paid under its own lock.
Same(paid, d) == {w \in paid : w.posted = d /\ w.locked = d}

RewardTables ==
  /\ day \in Nat
  /\ IsFiniteSet(rewards)
  /\ job \in [Regs -> JobRow] /\ \A r \in Regs : job[r].date <= day

\* One reward of a registration; and the room a transaction found is still there as long as the
\* day lasts whose lock it holds, for no other transaction holds that lock.
RewardRules ==
  /\ \A r, s \in Regs : r # s /\ job[r].locked /\ job[s].locked => job[r].date # job[s].date
  /\ \A v, w \in rewards : v.reg = w.reg => v = w
  /\ \A r \in Regs : job[r].locked /\ job[r].room /\ job[r].date = day => Cardinality(Same(rewards, day)) < DailyCap
  /\ \A d \in Nat : Cardinality(Same(rewards, d)) <= DailyCap

RewardInv == RewardTables /\ RewardRules

LEMMA RewardFrame ==
  ASSUME RewardInv, job' = job, rewards' = rewards, day' = day
  PROVE  RewardInv'
BY DEF RewardInv, RewardTables, RewardRules, Same

LEMMA NextDay ==
  ASSUME RewardInv, Attendance!Midnight
  PROVE  RewardInv'
<1>1. job' = job /\ rewards' = rewards /\ day' = day + 1
  BY DEF Attendance!Midnight
<1>2. \A r \in Regs : job[r].date \in Nat /\ job[r].date <= day
  BY DEF RewardInv, RewardTables, JobRow
<1>3. \A r \in Regs : job[r].date <= day' /\ job[r].date # day'
  BY <1>1, <1>2 DEF RewardInv, RewardTables
<1>4. RewardTables'
  BY <1>1, <1>3 DEF RewardInv, RewardTables
<1>5. \A d \in Nat : Same(rewards', d) = Same(rewards, d)
  BY <1>1 DEF Same
<1>6. RewardRules'
  BY <1>1, <1>3, <1>5 DEF RewardInv, RewardTables, RewardRules
<1> QED
  BY <1>4, <1>6 DEF RewardInv

\* A transaction that begins, or ends without a reward.
LEMMA JobIdle ==
  ASSUME RewardInv, NEW r \in Regs, NEW row \in JobRow, ~row.locked, row.date <= day,
         job' = [job EXCEPT ![r] = row], rewards' = rewards, day' = day
  PROVE  RewardInv'
<1>1. job'[r] = row /\ \A s \in Regs : s # r => job'[s] = job[s]
  BY DEF RewardInv, RewardTables
<1>2. RewardTables'
  BY <1>1 DEF RewardInv, RewardTables
<1>3. \A d \in Nat : Same(rewards', d) = Same(rewards, d)
  BY DEF Same
<1>4. RewardRules'
  BY <1>1, <1>3 DEF RewardInv, RewardTables, RewardRules
<1> QED
  BY <1>2, <1>4 DEF RewardInv

LEMMA BeginIdle ==
  ASSUME RewardInv, NEW r \in Regs,
         NEW kind \in {"none", "code", "manual", "approve", "feedback"}, NEW n \in Nat,
         NEW date \in {0, day}, NEW room \in BOOLEAN,
         job' = [job EXCEPT ![r] = [kind |-> kind, date |-> date, locked |-> FALSE,
                                    room |-> room, number |-> n]],
         rewards' = rewards, day' = day
  PROVE  RewardInv'
<1> DEFINE row == [kind |-> kind, date |-> date, locked |-> FALSE, room |-> room, number |-> n]
<1>1. row \in JobRow /\ ~row.locked /\ row.date <= day
  BY DEF JobRow, RewardInv, RewardTables
<1>2. job' = [job EXCEPT ![r] = row]
  OBVIOUS
<1> HIDE DEF row
<1> QED
  BY <1>1, <1>2, JobIdle

LEMMA CountRewardsInv ==
  ASSUME RewardInv, NEW r \in Regs, Attendance!CountRewards(r)
  PROVE  RewardInv'
<1> DEFINE found == Cardinality(Attendance!RewardsOn(day)) < DailyCap
<1>1. PICK room \in BOOLEAN :
        /\ room => found
        /\ ~job[r].locked
        /\ \A s \in Regs : ~(job[s].locked /\ job[s].date = job[r].date)
        /\ job' = [job EXCEPT ![r] = [job[r] EXCEPT !.locked = TRUE, !.room = room]]
        /\ rewards' = rewards /\ day' = day
  <2>1. Attendance!Cardinality(Attendance!RewardsOn(day)) = Cardinality(Attendance!RewardsOn(day))
    BY SameAttendanceCardinality
  <2>2. /\ ~job[r].locked
        /\ \A s \in Regs : ~(job[s].locked /\ job[s].date = job[r].date)
        /\ job' = [job EXCEPT ![r].locked = TRUE, ![r].room = found]
        /\ rewards' = rewards /\ day' = day
    BY <2>1 DEF Attendance!CountRewards, Attendance!RewardLock, Attendance!LockFree
  <2>3. job' = [job EXCEPT ![r] = [job[r] EXCEPT !.locked = TRUE, !.room = found]]
    BY <2>2 DEF RewardInv, RewardTables
  <2>4. found \in BOOLEAN
    OBVIOUS
  <2> HIDE DEF found
  <2> QED
    BY <2>2, <2>3, <2>4
<1>2. room => Cardinality(Same(rewards, day)) < DailyCap
  <2>1. /\ Same(rewards, day) \in SUBSET Attendance!RewardsOn(day)
        /\ Attendance!RewardsOn(day) \in SUBSET rewards
    BY DEF Same, Attendance!RewardsOn
  <2>2. IsFiniteSet(Attendance!RewardsOn(day))
    BY <2>1, FS_Subset DEF RewardInv, RewardTables
  <2>3. /\ Cardinality(Same(rewards, day)) <= Cardinality(Attendance!RewardsOn(day))
        /\ IsFiniteSet(Same(rewards, day))
    BY <2>1, <2>2, FS_Subset
  <2>4. Cardinality(Same(rewards, day)) \in Nat /\ Cardinality(Attendance!RewardsOn(day)) \in Nat
    BY <2>2, <2>3, FS_CardinalityType
  <2> QED
    BY <1>1, <2>3, <2>4, CommunityAssumption
<1> HIDE DEF found
<1>4. /\ job'[r] = [job[r] EXCEPT !.locked = TRUE, !.room = room]
      /\ \A s \in Regs : s # r => job'[s] = job[s]
      /\ job' = [s \in Regs |-> job'[s]]
  BY <1>1 DEF RewardInv, RewardTables
<1>5. job'[r] \in JobRow /\ job'[r].locked /\ job'[r].room = room /\ job'[r].date = job[r].date
  <2>1. job[r] \in JobRow
    BY DEF RewardInv, RewardTables
  <2> QED
    BY <1>4, <2>1 DEF JobRow
<1>6. RewardTables'
  BY <1>1, <1>4, <1>5 DEF RewardInv, RewardTables
<1>7. \A d \in Nat : Same(rewards', d) = Same(rewards, d)
  BY <1>1 DEF Same
<1>8. RewardRules'
  BY <1>1, <1>2, <1>4, <1>5, <1>7 DEF RewardInv, RewardTables, RewardRules
<1> QED
  BY <1>6, <1>8 DEF RewardInv

LEMMA CommitCheckInInv ==
  ASSUME RewardInv, NEW r \in Regs, Attendance!CommitCheckIn(r)
  PROVE  RewardInv'
<1> DEFINE w == [reg |-> r, locked |-> job[r].date, posted |-> day]
<1>1. CASE rewards' = rewards
  <2>1. /\ day' = day
        /\ job' = [job EXCEPT ![r] = [kind |-> "none", date |-> 0, locked |-> FALSE,
                                     room |-> FALSE, number |-> 0]]
    BY DEF Attendance!CommitCheckIn, Attendance!NoJob
  <2> QED
    BY <1>1, <2>1, BeginIdle
<1>2. CASE rewards' # rewards
  <2>1. /\ job[r].locked /\ job[r].room /\ day' = day
        /\ \A v \in rewards : v.reg # r
        /\ rewards' = rewards \cup {w}
        /\ job' = [job EXCEPT ![r] = Attendance!NoJob]
    BY <1>2 DEF Attendance!CommitCheckIn, Attendance!NotPaidYet, Attendance!Unpaid
  <2>2. Attendance!NoJob \in JobRow /\ ~Attendance!NoJob.locked /\ Attendance!NoJob.date = 0
    BY DEF Attendance!NoJob, JobRow
  <2>3. job'[r] = Attendance!NoJob /\ \A s \in Regs : s # r => job'[s] = job[s]
    BY <2>1 DEF RewardInv, RewardTables
  <2>4. RewardTables'
    <3>1. IsFiniteSet(rewards')
      BY <2>1, FS_AddElement DEF RewardInv, RewardTables
    <3> QED
      BY <2>1, <2>2, <2>3, <3>1 DEF RewardInv, RewardTables
  <2>5. w.reg = r /\ w.locked = job[r].date /\ w.posted = day /\ w \notin rewards
    BY <2>1
  <2> HIDE DEF w
  <2>6. \A u, v \in rewards' : u.reg = v.reg => u = v
    BY <2>1, <2>5 DEF RewardInv, RewardRules
  <2>7. CASE job[r].date = day
    <3>1. Cardinality(Same(rewards, day)) < DailyCap /\ Same(rewards', day) = Same(rewards, day) \cup {w}
      BY <2>1, <2>5, <2>7 DEF RewardInv, RewardRules, Same
    <3>2. \A d \in Nat : d # day => Same(rewards', d) = Same(rewards, d)
      BY <2>1, <2>5 DEF Same
    <3>3. IsFiniteSet(Same(rewards, day))
      BY FS_Subset DEF RewardInv, RewardTables, Same
    <3>4. Cardinality(Same(rewards, day)) \in Nat
      BY <3>3, FS_CardinalityType
    <3>5. Cardinality(Same(rewards, day) \cup {w}) <= DailyCap
      <4>1. w \notin Same(rewards, day)
        BY <2>5 DEF Same
      <4>2. Cardinality(Same(rewards, day) \cup {w}) = Cardinality(Same(rewards, day)) + 1
        BY <3>3, <4>1, FS_AddElement
      <4> QED
        BY <3>1, <3>4, <4>2, CommunityAssumption
    <3>6. \A d \in Nat : Cardinality(Same(rewards', d)) <= DailyCap
      BY <3>1, <3>2, <3>5 DEF RewardInv, RewardRules
    <3>7. \A s \in Regs : ~(job'[s].locked /\ job'[s].date = day)
      BY <2>1, <2>2, <2>3, <2>7 DEF RewardInv, RewardRules
    <3> QED
      BY <2>1, <2>2, <2>3, <2>4, <2>6, <3>6, <3>7 DEF RewardInv, RewardTables, RewardRules
  <2>8. CASE job[r].date # day
    <3>1. \A d \in Nat : Same(rewards', d) = Same(rewards, d)
      BY <2>1, <2>5, <2>8 DEF Same
    <3> QED
      BY ZenonT(60), <2>1, <2>2, <2>3, <2>4, <2>6, <3>1 DEF RewardInv, RewardTables, RewardRules
  <2> QED
    BY <2>7, <2>8
<1> QED
  BY <1>1, <1>2

LEMMA RewardStep == RewardInv /\ Attendance!Next => RewardInv'
<1> SUFFICES ASSUME RewardInv, Attendance!Next PROVE RewardInv'
  OBVIOUS
<1>1. ASSUME NEW r \in Regs, Attendance!CheckIn(r) \/ Attendance!ManualCheckIn(r)
      PROVE  RewardInv'
  <2>1. PICK kind \in {"code", "manual"} :
          /\ job' = [job EXCEPT ![r] = [kind |-> kind, date |-> day, locked |-> FALSE,
                                       room |-> FALSE, number |-> 0]]
          /\ rewards' = rewards /\ day' = day
    BY <1>1 DEF Attendance!CheckIn, Attendance!ManualCheckIn, Attendance!Begin, Attendance!NoJob
  <2> QED
    BY <2>1, BeginIdle
<1>2. ASSUME NEW r \in Regs, NEW n \in Attendance!Numbers, Attendance!Approve(r, n)
      PROVE  RewardInv'
  <2> DEFINE row == [Attendance!NoJob EXCEPT !.kind = "approve", !.date = day, !.number = n]
  <2>1. n \in Nat
    BY CommunityAssumption DEF Attendance!Numbers
  <2>2. row \in JobRow /\ ~row.locked /\ row.date = day
    BY <2>1 DEF Attendance!NoJob, JobRow, RewardInv, RewardTables
  <2>3. job' = [job EXCEPT ![r] = row] /\ rewards' = rewards /\ day' = day
    BY <1>2 DEF Attendance!Approve, Attendance!Begin
  <2>4. row.date <= day
    BY <2>2 DEF RewardInv, RewardTables
  <2> HIDE DEF row
  <2> QED
    BY <2>2, <2>3, <2>4, JobIdle
<1>3. ASSUME NEW r \in Regs, Attendance!SubmitFeedback(r)
      PROVE  RewardInv'
  <2> DEFINE room == Attendance!FeedbackRewards < WeeklyCap
             row == [Attendance!NoJob EXCEPT !.kind = "feedback", !.room = room]
  <2>1. room \in BOOLEAN
    OBVIOUS
  <2>2. job' = [job EXCEPT ![r] = row] /\ rewards' = rewards /\ day' = day
    BY <1>3 DEF Attendance!SubmitFeedback
  <2> HIDE DEF room
  <2>3. row \in JobRow /\ ~row.locked /\ row.date = 0
    BY <2>1 DEF Attendance!NoJob, JobRow
  <2>4. row.date <= day
    BY <2>3 DEF RewardInv, RewardTables
  <2> HIDE DEF row
  <2> QED
    BY <2>2, <2>3, <2>4, JobIdle
<1>4. ASSUME NEW r \in Regs, Attendance!CommitFeedback(r)
      PROVE  RewardInv'
  <2>1. /\ job' = [job EXCEPT ![r] = [kind |-> "none", date |-> 0, locked |-> FALSE,
                                     room |-> FALSE, number |-> 0]]
        /\ rewards' = rewards /\ day' = day
    BY <1>4 DEF Attendance!CommitFeedback, Attendance!NoJob
  <2> QED
    BY <2>1, BeginIdle
<1>5. CASE \/ Attendance!TimePasses \/ Attendance!CreateCheckinCode \/ Attendance!CodeExpires
           \/ \E r \in Regs, n \in Attendance!Numbers :
                Attendance!RequestCorrection(r, n) \/ Attendance!Reject(r, n)
  <2>1. job' = job /\ rewards' = rewards /\ day' = day
    BY <1>5 DEF Attendance!TimePasses, Attendance!CreateCheckinCode, Attendance!CodeExpires,
                Attendance!RequestCorrection, Attendance!Reject
  <2> QED
    BY <2>1, RewardFrame
<1> QED
  BY <1>1, <1>2, <1>3, <1>4, <1>5, NextDay, CountRewardsInv, CommitCheckInInv DEF Attendance!Next

LEMMA RewardInit == Attendance!Init => RewardInv
<1> SUFFICES ASSUME Attendance!Init PROVE RewardInv
  OBVIOUS
<1>1. RewardTables
  BY FS_EmptySet DEF Attendance!Init, Attendance!NoJob, RewardTables, JobRow
<1>2. \A d : Same(rewards, d) = {}
  BY DEF Attendance!Init, Same
<1>3. RewardRules
  <2>1. \A d \in Nat : Cardinality(Same(rewards, d)) <= DailyCap
    BY <1>2, FS_EmptySet, CommunityAssumption
  <2>2. \A r \in Regs : ~job[r].locked
    BY DEF Attendance!Init, Attendance!NoJob
  <2> QED
    BY <2>1, <2>2 DEF Attendance!Init, RewardRules
<1> QED
  BY <1>1, <1>3 DEF RewardInv

\* A set whose elements are all the same has one at most.
LEMMA AtMostOne ==
  ASSUME NEW S, \A x, y \in S : x = y
  PROVE  Cardinality(S) <= 1
<1>1. CASE S = {}
  BY <1>1, FS_EmptySet
<1>2. CASE S # {}
  <2>1. PICK x \in S : TRUE
    BY <1>2
  <2>2. S = {x}
    BY <2>1
  <2> QED
    BY <2>2, FS_Singleton
<1> QED
  BY <1>1, <1>2

LEMMA RewardShown == RewardInv => Attendance!RewardsStayBounded
<1> SUFFICES ASSUME RewardInv PROVE Attendance!RewardsStayBounded
  OBVIOUS
<1>1. ASSUME NEW r \in Regs
      PROVE  Attendance!Cardinality({w \in rewards : w.reg = r}) <= 1
  <2>1. \A v, w \in {x \in rewards : x.reg = r} : v = w
    BY DEF RewardInv, RewardRules
  <2> QED
    BY <2>1, AtMostOne, SameAttendanceCardinality
<1>2. ASSUME NEW d \in Attendance!Days
      PROVE  Attendance!Cardinality({w \in Attendance!RewardsOn(d) : w.locked = d}) <= DailyCap
  <2>1. d \in Nat
    BY CommunityAssumption DEF Attendance!Days
  <2>2. {w \in Attendance!RewardsOn(d) : w.locked = d} = Same(rewards, d)
    BY DEF Attendance!RewardsOn, Same
  <2> QED
    BY <2>1, <2>2, SameAttendanceCardinality DEF RewardInv, RewardRules
<1> QED
  BY <1>1, <1>2 DEF Attendance!RewardsStayBounded

CorrectionTables ==
  /\ correction \in [Regs -> [Attendance!Numbers -> {"none", "pending", "approved", "rejected"}]]
  /\ status = [r \in Regs |-> status[r]]

\* A registration with an open correction waits for it, or has been checked in since.
CorrectionRules ==
  /\ \A r \in Regs, n, m \in Attendance!Numbers :
       correction[r][n] = "pending" /\ correction[r][m] = "pending" => n = m
  /\ \A r \in Regs, n \in Attendance!Numbers :
       correction[r][n] = "pending" => status[r] \in {"correction_pending", "checked_in"}
  /\ \A r \in Regs : status[r] = "correction_pending" =>
       \E n \in Attendance!Numbers : correction[r][n] = "pending"

CorrectionInv == CorrectionTables /\ CorrectionRules

LEMMA RequestCorrectionInv ==
  ASSUME CorrectionInv, NEW r \in Regs, NEW n \in Attendance!Numbers,
         Attendance!RequestCorrection(r, n)
  PROVE  CorrectionInv'
<1>1. /\ status[r] \in {"confirmed", "no_show"}
      /\ correction' = [correction EXCEPT ![r][n] = "pending"]
      /\ status' = [status EXCEPT ![r] = "correction_pending"]
  BY DEF Attendance!RequestCorrection, Attendance!Correctable
<1>2. CorrectionTables'
  BY <1>1 DEF CorrectionInv, CorrectionTables
<1>3. /\ status'[r] = "correction_pending" /\ correction'[r][n] = "pending"
      /\ \A m \in Attendance!Numbers : m # n => correction'[r][m] = correction[r][m]
      /\ \A s \in Regs : s # r => correction'[s] = correction[s] /\ status'[s] = status[s]
  BY <1>1 DEF CorrectionInv, CorrectionTables
<1>4. \A m \in Attendance!Numbers : correction[r][m] # "pending"
  BY <1>1 DEF CorrectionInv, CorrectionRules
<1> QED
  BY <1>2, <1>3, <1>4 DEF CorrectionInv, CorrectionRules

LEMMA RejectInv ==
  ASSUME CorrectionInv, NEW r \in Regs, NEW n \in Attendance!Numbers, Attendance!Reject(r, n)
  PROVE  CorrectionInv'
<1>1. /\ correction[r][n] = "pending"
      /\ correction' = [correction EXCEPT ![r][n] = "rejected"]
      /\ status' = [status EXCEPT ![r] = "no_show"]
  BY DEF Attendance!Reject
<1>2. CorrectionTables'
  BY <1>1 DEF CorrectionInv, CorrectionTables
<1>3. /\ status'[r] = "no_show" /\ correction'[r][n] = "rejected"
      /\ \A m \in Attendance!Numbers : m # n => correction'[r][m] = correction[r][m]
      /\ \A s \in Regs : s # r => correction'[s] = correction[s] /\ status'[s] = status[s]
  BY <1>1 DEF CorrectionInv, CorrectionTables
<1>4. \A m \in Attendance!Numbers : correction'[r][m] # "pending"
  BY <1>1, <1>3 DEF CorrectionInv, CorrectionRules
<1> QED
  BY <1>2, <1>3, <1>4 DEF CorrectionInv, CorrectionRules

LEMMA CommitCheckInCorrections ==
  ASSUME CorrectionInv, NEW r \in Regs, Attendance!CommitCheckIn(r)
  PROVE  CorrectionInv'
<1>1. /\ status' = [status EXCEPT ![r] = "checked_in"]
      /\ \/ correction' = correction
         \/ correction' = [correction EXCEPT ![r][job[r].number] = "approved"]
  BY DEF Attendance!CommitCheckIn
<1>2. CorrectionTables'
  <2>1. status' = [s \in Regs |-> status'[s]]
    BY <1>1 DEF CorrectionInv, CorrectionTables
  <2>2. correction' \in [Regs -> [Attendance!Numbers -> {"none", "pending", "approved", "rejected"}]]
    <3> DEFINE k == job[r].number
               row == [correction[r] EXCEPT ![k] = "approved"]
    <3>1. correction' = correction \/ correction' = [correction EXCEPT ![r] = row]
      BY <1>1
    <3>2. row \in [Attendance!Numbers -> {"none", "pending", "approved", "rejected"}]
      <4> HIDE DEF k
      <4> QED
        BY DEF CorrectionInv, CorrectionTables
    <3> HIDE DEF row
    <3> QED
      BY <3>1, <3>2 DEF CorrectionInv, CorrectionTables
  <2> QED
    BY <2>1, <2>2 DEF CorrectionTables
<1>3. /\ status'[r] = "checked_in"
      /\ \A m \in Attendance!Numbers : correction'[r][m] = "pending" => correction[r][m] = "pending"
      /\ \A s \in Regs : s # r => correction'[s] = correction[s] /\ status'[s] = status[s]
  BY <1>1 DEF CorrectionInv, CorrectionTables
<1> QED
  BY <1>2, <1>3 DEF CorrectionInv, CorrectionRules

LEMMA CorrectionStep == CorrectionInv /\ Attendance!Next => CorrectionInv'
<1> SUFFICES ASSUME CorrectionInv, Attendance!Next PROVE CorrectionInv'
  OBVIOUS
<1>1. ASSUME correction' = correction, status' = status
      PROVE  CorrectionInv'
  BY <1>1 DEF CorrectionInv, CorrectionTables, CorrectionRules
<1>2. CASE \/ Attendance!TimePasses \/ Attendance!Midnight
           \/ Attendance!CreateCheckinCode \/ Attendance!CodeExpires
           \/ \E r \in Regs :
                \/ Attendance!CheckIn(r) \/ Attendance!ManualCheckIn(r) \/ Attendance!CountRewards(r)
                \/ Attendance!SubmitFeedback(r) \/ Attendance!CommitFeedback(r)
                \/ \E n \in Attendance!Numbers : Attendance!Approve(r, n)
  <2>1. correction' = correction /\ status' = status
    BY <1>2 DEF Attendance!TimePasses, Attendance!Midnight, Attendance!CreateCheckinCode,
         Attendance!CodeExpires, Attendance!CheckIn, Attendance!ManualCheckIn,
         Attendance!CountRewards, Attendance!SubmitFeedback, Attendance!CommitFeedback,
         Attendance!Approve
  <2> QED
    BY <1>1, <2>1
<1> QED
  BY <1>2, RequestCorrectionInv, RejectInv, CommitCheckInCorrections DEF Attendance!Next

LEMMA CorrectionShown == CorrectionInv => Attendance!OneCorrectionAtATime
<1> SUFFICES ASSUME CorrectionInv, NEW r \in Regs
             PROVE  LET pending == {n \in Attendance!Numbers : correction[r][n] = "pending"} IN
                      /\ Attendance!Cardinality(pending) <= 1
                      /\ status[r] = "correction_pending" => pending # {}
  BY DEF Attendance!OneCorrectionAtATime
<1> DEFINE pending == {n \in Attendance!Numbers : correction[r][n] = "pending"}
<1>1. Attendance!Cardinality(pending) <= 1
  <2>1. \A x, y \in pending : x = y
    BY DEF CorrectionInv, CorrectionRules
  <2> QED
    BY <2>1, AtMostOne, SameAttendanceCardinality
<1>2. status[r] = "correction_pending" => pending # {}
  BY DEF CorrectionInv, CorrectionRules
<1> QED
  BY <1>1, <1>2

-----------------------------------------------------------------------------
(* Groups: one owner, and a notice for a group that closes *)

\* The tables of Groups, as far as the theorems need their types.
GroupTables ==
  /\ {"status", "owner", "capacity", "deleted", "mode"} \subseteq DOMAIN group
  /\ member \in [Users -> [role : {"none", "member", "admin", "owner"},
                           status : {"none", "pending", "active", "muted", "removed"}, old : BOOLEAN]]
  /\ transfer \in [Groups!Transfers ->
                     [state : {"none", "awaiting_target", "cooling_off", "completed", "cancelled"},
                      from : Users \cup {Groups!Nobody}, to : Users \cup {Groups!Nobody},
                      expired : BOOLEAN, cooled : BOOLEAN]]
  /\ known \in [Users -> 0..MaxTransfers]

\* Before a group is created there is nothing; from then on its owner is the one member with
\* that role, and active; an open transfer, one at most, is the owner's, to a user.
GroupRules ==
  /\ group.status = "none" =>
       /\ \A u \in Users : member[u].role # "owner"
       /\ \A t \in Groups!Transfers : transfer[t].state = "none"
  /\ group.status # "none" =>
       /\ group.owner \in Users /\ member[group.owner].status = "active"
       /\ \A u \in Users : member[u].role = "owner" <=> u = group.owner
  /\ \A t \in Groups!Transfers : transfer[t].state \in Groups!OpenStates =>
       /\ transfer[t].from = group.owner /\ transfer[t].to \in Users
       /\ \A s \in Groups!Transfers \ {t} : transfer[s].state \notin Groups!OpenStates
  /\ Groups!ClosingHasNotice

GroupInv == GroupTables /\ GroupRules

MemberRow ==
  [role : {"none", "member", "admin", "owner"},
   status : {"none", "pending", "active", "muted", "removed"}, old : BOOLEAN]

\* Another member than the owner changes, and does not become an owner.
LEMMA OtherMember ==
  ASSUME GroupInv, group.status # "none", NEW u \in Users, NEW row \in MemberRow,
         u # group.owner, row.role # "owner",
         member' = [member EXCEPT ![u] = row],
         group' = group, transfer' = transfer, known' = known, dissolution' = dissolution
  PROVE  GroupInv'
<1>1. member'[u] = row /\ \A v \in Users : v # u => member'[v] = member[v]
  BY DEF GroupInv, GroupTables
<1>2. GroupTables'
  BY DEF GroupInv, GroupTables, MemberRow
<1>3. GroupRules'
  BY <1>1 DEF GroupInv, GroupRules, Groups!OpenStates, Groups!ClosingHasNotice
<1> QED
  BY <1>2, <1>3 DEF GroupInv

\* The row of the group or its notice changes, the owner does not.
LEMMA OnlyStatus ==
  ASSUME GroupInv, group.status # "none", group'.status # "none", group'.owner = group.owner,
         DOMAIN group' = DOMAIN group, member' = member, transfer' = transfer,
         known' \in [Users -> 0..MaxTransfers], Groups!ClosingHasNotice'
  PROVE  GroupInv'
<1>1. GroupTables'
  BY DEF GroupInv, GroupTables
<1>2. GroupRules'
  BY DEF GroupInv, GroupRules, Groups!OpenStates
<1> QED
  BY <1>1, <1>2 DEF GroupInv

LEMMA CreateGroup ==
  ASSUME GroupInv, NEW u \in Users, NEW mode \in Modes, Groups!Create(u, mode)
  PROVE  GroupInv'
<1>1. /\ group.status = "none"
      /\ group' = [group EXCEPT !.status = "active", !.owner = u, !.mode = mode]
      /\ member' = [member EXCEPT ![u] = [role |-> "owner", status |-> "active", old |-> FALSE]]
      /\ transfer' = transfer /\ known' = known
  BY DEF Groups!Create
<1>2. group'.status = "active" /\ group'.owner = u /\ DOMAIN group' = DOMAIN group
  BY <1>1 DEF GroupInv, GroupTables
<1>3. /\ member'[u].role = "owner" /\ member'[u].status = "active"
      /\ \A v \in Users : v # u => member'[v] = member[v]
  BY <1>1 DEF GroupInv, GroupTables
<1>4. GroupTables'
  <2>1. member' \in [Users -> [role : {"none", "member", "admin", "owner"},
                               status : {"none", "pending", "active", "muted", "removed"}, old : BOOLEAN]]
    BY <1>1 DEF GroupInv, GroupTables
  <2> QED
    BY <1>1, <1>2, <2>1 DEF GroupInv, GroupTables
<1>5. GroupRules'
  BY <1>1, <1>2, <1>3 DEF GroupInv, GroupRules, Groups!OpenStates, Groups!ClosingHasNotice
<1> QED
  BY <1>4, <1>5 DEF GroupInv

LEMMA JoinGroup ==
  ASSUME GroupInv, NEW u \in Users, Groups!Join(u)
  PROVE  GroupInv'
<1> DEFINE row == [role |-> "member", status |-> IF group.mode = "approval" THEN "pending" ELSE "active",
                   old |-> FALSE]
<1>1. /\ group.status \in {"active", "transfer_pending"} /\ member[u].status \in {"none", "removed"}
      /\ member' = [member EXCEPT ![u] = row]
      /\ group' = group /\ transfer' = transfer /\ known' = known /\ dissolution' = dissolution
  BY DEF Groups!Join
<1>2. row \in MemberRow /\ row.role # "owner"
  BY DEF MemberRow
<1>3. u # group.owner
  BY <1>1 DEF GroupInv, GroupRules
<1> HIDE DEF row
<1> QED
  BY <1>1, <1>2, <1>3, OtherMember

LEMMA UpdateGroupMember ==
  ASSUME GroupInv, NEW a \in Users, NEW u \in Users, NEW role \in {"keep", "admin", "member"},
         NEW status0 \in {"keep", "active", "muted", "removed"}, Groups!UpdateMember(a, u, role, status0)
  PROVE  GroupInv'
<1> DEFINE ro == IF role = "keep" THEN member[u].role ELSE role
           st == IF status0 = "keep" THEN member[u].status ELSE status0
           row == [member[u] EXCEPT !.role = ro, !.status = st]
<1>1. /\ group.status # "none" /\ member[u].role # "owner"
      /\ member' = [member EXCEPT ![u] = row]
      /\ group' = group /\ transfer' = transfer /\ known' = known /\ dissolution' = dissolution
  BY DEF Groups!UpdateMember, Groups!Visible, GroupInv, GroupTables
<1>2. member[u] \in MemberRow
  BY DEF GroupInv, GroupTables, MemberRow
<1>3. /\ ro \in {"none", "member", "admin", "owner"} /\ ro # "owner"
      /\ st \in {"none", "pending", "active", "muted", "removed"}
  BY <1>1, <1>2 DEF MemberRow
<1> HIDE DEF ro, st
<1>4. row \in MemberRow /\ row.role # "owner"
  BY <1>2, <1>3 DEF MemberRow
<1>5. u # group.owner
  BY <1>1 DEF GroupInv, GroupRules
<1> HIDE DEF row
<1> QED
  BY <1>1, <1>4, <1>5, OtherMember

LEMMA MemberSettlesGroup ==
  ASSUME GroupInv, NEW u \in Users, Groups!MemberSettles(u)
  PROVE  GroupInv'
<1>1. /\ member' = [member EXCEPT ![u].old = TRUE]
      /\ group' = group /\ transfer' = transfer /\ known' = known /\ dissolution' = dissolution
  BY DEF Groups!MemberSettles
<1>2. \A v \in Users : member'[v].role = member[v].role /\ member'[v].status = member[v].status
  BY <1>1 DEF GroupInv, GroupTables
<1>3. GroupTables'
  BY ZenonT(60), <1>1 DEF GroupInv, GroupTables
<1>4. GroupRules'
  BY <1>1, <1>2 DEF GroupInv, GroupRules, Groups!OpenStates, Groups!ClosingHasNotice
<1> QED
  BY <1>3, <1>4 DEF GroupInv

TransferRow ==
  [state : {"none", "awaiting_target", "cooling_off", "completed", "cancelled"},
   from : Users \cup {Groups!Nobody}, to : Users \cup {Groups!Nobody},
   expired : BOOLEAN, cooled : BOOLEAN]

\* One transfer changes, without becoming an open one.
LEMMA OneTransfer ==
  ASSUME GroupInv, group.status # "none", NEW t \in Groups!Transfers, NEW row,
         row \in [state : {"none", "awaiting_target", "cooling_off", "completed", "cancelled"},
                  from : Users \cup {Groups!Nobody}, to : Users \cup {Groups!Nobody},
                  expired : BOOLEAN, cooled : BOOLEAN],
         row.state \in Groups!OpenStates =>
           transfer[t].state \in Groups!OpenStates /\ row.from = transfer[t].from /\ row.to = transfer[t].to,
         transfer' = [transfer EXCEPT ![t] = row],
         group'.status # "none", group'.owner = group.owner, DOMAIN group' = DOMAIN group,
         member' = member, known' \in [Users -> 0..MaxTransfers], Groups!ClosingHasNotice'
  PROVE  GroupInv'
<1>1. transfer'[t] = row /\ \A s \in Groups!Transfers : s # t => transfer'[s] = transfer[s]
  BY DEF GroupInv, GroupTables
<1>2. GroupTables'
  BY DEF GroupInv, GroupTables
<1>3. GroupRules'
  BY <1>1 DEF GroupInv, GroupRules
<1> QED
  BY <1>2, <1>3 DEF GroupInv

LEMMA StartGroupTransfer ==
  ASSUME GroupInv, NEW a \in Users, NEW u \in Users, NEW t \in Groups!Transfers,
         Groups!StartTransfer(a, u, t)
  PROVE  GroupInv'
<1> DEFINE row == [Groups!NoTransfer EXCEPT !.state = "awaiting_target", !.from = a, !.to = u]
<1>1. /\ group.status # "none" /\ group.owner = a
      /\ \A s \in Groups!Transfers : transfer[s].state \notin Groups!OpenStates
      /\ transfer' = [transfer EXCEPT ![t] = row]
      /\ known' = [known EXCEPT ![a] = t]
      /\ group' = group /\ member' = member /\ dissolution' = dissolution
  BY DEF Groups!StartTransfer, Groups!Owner, Groups!Visible, Groups!Open, Groups!Indexed
<1>2. /\ row \in [state : {"none", "awaiting_target", "cooling_off", "completed", "cancelled"},
                  from : Users \cup {Groups!Nobody}, to : Users \cup {Groups!Nobody},
                  expired : BOOLEAN, cooled : BOOLEAN]
      /\ row.from = a /\ row.to = u
  BY DEF Groups!NoTransfer
<1> HIDE DEF row
<1>3. transfer'[t] = row /\ \A s \in Groups!Transfers : s # t => transfer'[s] = transfer[s]
  BY <1>1 DEF GroupInv, GroupTables
<1>4. GroupTables'
  <2>1. t \in 0..MaxTransfers
    BY CommunityAssumption DEF Groups!Transfers
  <2> QED
    BY <1>1, <1>2, <2>1 DEF GroupInv, GroupTables
<1>5. GroupRules'
  BY <1>1, <1>2, <1>3 DEF GroupInv, GroupRules, Groups!ClosingHasNotice
<1> QED
  BY <1>4, <1>5 DEF GroupInv

\* Time passes for a transfer.
LEMMA AgingTransfer ==
  ASSUME GroupInv, NEW t \in Groups!Transfers, Groups!TransferExpires(t) \/ Groups!CooldownEnds(t)
  PROVE  GroupInv'
<1>1. PICK row :
        /\ row \in {[transfer[t] EXCEPT !.expired = TRUE], [transfer[t] EXCEPT !.cooled = TRUE]}
        /\ transfer' = [transfer EXCEPT ![t] = row]
        /\ group' = group /\ member' = member /\ dissolution' = dissolution /\ known' = known
  BY DEF Groups!TransferExpires, Groups!CooldownEnds
<1>2. transfer[t].state # "none"
  BY DEF Groups!TransferExpires, Groups!CooldownEnds, Groups!Open, Groups!Indexed, Groups!OpenStates
<1>3. group.status # "none"
  BY <1>2 DEF GroupInv, GroupRules
<1>4. /\ row \in [state : {"none", "awaiting_target", "cooling_off", "completed", "cancelled"},
                  from : Users \cup {Groups!Nobody}, to : Users \cup {Groups!Nobody},
                  expired : BOOLEAN, cooled : BOOLEAN]
      /\ row.state = transfer[t].state /\ row.from = transfer[t].from /\ row.to = transfer[t].to
  <2>1. transfer[t] \in TransferRow
    BY DEF GroupInv, GroupTables, TransferRow
  <2>2. CASE row = [transfer[t] EXCEPT !.expired = TRUE]
    BY <2>1, <2>2 DEF TransferRow
  <2>3. CASE row = [transfer[t] EXCEPT !.cooled = TRUE]
    BY <2>1, <2>3 DEF TransferRow
  <2> QED
    BY <1>1, <2>2, <2>3
<1>5. known' \in [Users -> 0..MaxTransfers] /\ Groups!ClosingHasNotice'
  BY <1>1 DEF GroupInv, GroupTables, GroupRules, Groups!ClosingHasNotice
<1> QED
  BY <1>1, <1>3, <1>4, <1>5, OneTransfer

LEMMA AcceptGroupTransfer ==
  ASSUME GroupInv, NEW u \in Users, Groups!AcceptTransfer(u)
  PROVE  GroupInv'
<1> DEFINE t == known[u]
           row == [transfer[t] EXCEPT !.state = "cooling_off"]
<1>1. /\ group.status # "none" /\ t # 0 /\ known' = known
      /\ transfer[t].state = "awaiting_target"
      /\ transfer' = [transfer EXCEPT ![t].state = "cooling_off"]
      /\ group' = [group EXCEPT !.status = "transfer_pending"]
      /\ member' = member
  BY DEF Groups!AcceptTransfer, Groups!TransferAction, Groups!Visible
<1>2. t \in Groups!Transfers
  BY SMTT(30), <1>1, CommunityAssumption DEF GroupInv, GroupTables, Groups!Transfers
<1>3. transfer' = [transfer EXCEPT ![t] = row]
  BY <1>1
<1> HIDE DEF t
<1>4. /\ row \in [state : {"none", "awaiting_target", "cooling_off", "completed", "cancelled"},
                  from : Users \cup {Groups!Nobody}, to : Users \cup {Groups!Nobody},
                  expired : BOOLEAN, cooled : BOOLEAN]
      /\ row.from = transfer[t].from /\ row.to = transfer[t].to
  BY <1>2 DEF GroupInv, GroupTables
<1>5. group'.status = "transfer_pending" /\ group'.owner = group.owner /\ DOMAIN group' = DOMAIN group
  BY <1>1 DEF GroupInv, GroupTables
<1>6. known' \in [Users -> 0..MaxTransfers] /\ Groups!ClosingHasNotice'
  BY <1>1, <1>5 DEF GroupInv, GroupTables, Groups!ClosingHasNotice
<1>7. transfer[t].state \in Groups!OpenStates
  BY <1>1 DEF Groups!OpenStates
<1> HIDE DEF row
<1> QED
  BY <1>1, <1>2, <1>3, <1>4, <1>5, <1>6, <1>7, OneTransfer

LEMMA EndedTransfer ==
  ASSUME NEW state \in {"completed", "cancelled"}
  PROVE  /\ Groups!Ended(state) \in
              [state : {"none", "awaiting_target", "cooling_off", "completed", "cancelled"},
               from : Users \cup {Groups!Nobody}, to : Users \cup {Groups!Nobody},
               expired : BOOLEAN, cooled : BOOLEAN]
         /\ Groups!Ended(state).state \notin Groups!OpenStates
BY DEF Groups!Ended, Groups!NoTransfer, Groups!OpenStates

LEMMA CancelGroupTransfer ==
  ASSUME GroupInv, NEW u \in Users, Groups!CancelTransfer(u)
  PROVE  GroupInv'
<1> DEFINE t == known[u]
<1>1. /\ group.status # "none" /\ t # 0 /\ known' = [known EXCEPT ![u] = 0]
      /\ transfer' = [transfer EXCEPT ![t] = Groups!Ended("cancelled")]
      /\ group' = [group EXCEPT !.status = "active"]
      /\ member' = member
  BY DEF Groups!CancelTransfer, Groups!TransferAction, Groups!Visible
<1>2. t \in Groups!Transfers
  BY SMTT(30), <1>1, CommunityAssumption DEF GroupInv, GroupTables, Groups!Transfers
<1>3. group'.status = "active" /\ group'.owner = group.owner /\ DOMAIN group' = DOMAIN group
  BY <1>1 DEF GroupInv, GroupTables
<1>4. known' \in [Users -> 0..MaxTransfers] /\ Groups!ClosingHasNotice'
  BY <1>1, <1>3, CommunityAssumption DEF GroupInv, GroupTables, Groups!ClosingHasNotice
<1> HIDE DEF t
<1> QED
  BY <1>1, <1>2, <1>3, <1>4, EndedTransfer, OneTransfer

LEMMA CompleteGroupTransfer ==
  ASSUME GroupInv, NEW u \in Users, Groups!CompleteTransfer(u)
  PROVE  GroupInv'
<1> DEFINE t == known[u]
           to == transfer[t].to
           row == Groups!Ended("completed")
<1>1. /\ group.status # "none" /\ t # 0 /\ known' = [known EXCEPT ![u] = 0]
      /\ transfer[t].state = "cooling_off"
      /\ member' = [member EXCEPT ![transfer[t].from].role = "member",
                                  ![to].role = "owner", ![to].status = "active"]
      /\ group' = [group EXCEPT !.owner = to, !.status = "active"]
      /\ transfer' = [transfer EXCEPT ![t] = row]
  BY ZenonT(60) DEF Groups!CompleteTransfer, Groups!TransferAction, Groups!Visible,
         Groups!MembersAfter, Groups!HandedOver
<1>2. t \in Groups!Transfers
  <2>1. t \in 0..MaxTransfers
    BY SMTT(30) DEF GroupInv, GroupTables
  <2> HIDE DEF t
  <2> QED
    BY <1>1, <2>1, CommunityAssumption DEF Groups!Transfers
<1>3. transfer[t].state \in Groups!OpenStates
  BY ZenonT(60), <1>1 DEF Groups!OpenStates
<1>4. /\ transfer[t].from = group.owner /\ to \in Users /\ group.owner \in Users
      /\ \A s \in Groups!Transfers \ {t} : transfer[s].state \notin Groups!OpenStates
  BY ZenonT(60), <1>1, <1>2, <1>3 DEF GroupInv, GroupRules
<1>5. row.state \notin Groups!OpenStates
  BY EndedTransfer
<1> HIDE DEF t, to, row
<1>6. transfer'[t] = row /\ \A s \in Groups!Transfers : s # t => transfer'[s] = transfer[s]
  BY SMTT(30), <1>1, <1>2 DEF GroupInv, GroupTables
<1>7. group'.status = "active" /\ group'.owner = to /\ DOMAIN group' = DOMAIN group
  BY <1>1 DEF GroupInv, GroupTables
<1>8. /\ member'[to].role = "owner" /\ member'[to].status = "active"
      /\ \A v \in Users : v # to => member'[v].role # "owner"
  <2>1. \A v \in Users : member[v].role = "owner" <=> v = group.owner
    BY <1>1 DEF GroupInv, GroupRules
  <2> QED
    BY SMTT(30), <1>1, <1>4, <2>1 DEF GroupInv, GroupTables
<1>9. GroupTables'
  <2>1. member' \in [Users -> [role : {"none", "member", "admin", "owner"},
                               status : {"none", "pending", "active", "muted", "removed"}, old : BOOLEAN]]
    <3> DEFINE first == [member EXCEPT ![transfer[t].from].role = "member"]
               second == [first EXCEPT ![to].role = "owner"]
    <3>1. first \in [Users -> MemberRow]
      BY ZenonT(60), <1>4 DEF GroupInv, GroupTables, MemberRow
    <3> HIDE DEF first
    <3>2. second \in [Users -> MemberRow]
      BY <1>4, <3>1 DEF MemberRow
    <3>3. member' = [second EXCEPT ![to].status = "active"]
      BY <1>1 DEF first
    <3> HIDE DEF second
    <3> QED
      BY <1>4, <3>2, <3>3 DEF MemberRow
  <2>2. known' \in [Users -> 0..MaxTransfers]
    BY <1>1, CommunityAssumption DEF GroupInv, GroupTables
  <2>3. transfer' \in [Groups!Transfers ->
                     [state : {"none", "awaiting_target", "cooling_off", "completed", "cancelled"},
                      from : Users \cup {Groups!Nobody}, to : Users \cup {Groups!Nobody},
                      expired : BOOLEAN, cooled : BOOLEAN]]
    BY <1>1, <1>2, EndedTransfer DEF GroupInv, GroupTables, row
  <2> QED
    BY <1>7, <2>1, <2>2, <2>3 DEF GroupInv, GroupTables
<1>10. GroupRules'
  BY <1>4, <1>5, <1>6, <1>7, <1>8 DEF GroupRules, Groups!ClosingHasNotice
<1> QED
  BY <1>9, <1>10 DEF GroupInv

\* The notice of the closing, and what an operator decides.
LEMMA GroupCloses ==
  ASSUME GroupInv,
         \/ \E a \in Users : Groups!RequestDissolution(a) \/ Groups!CancelDissolution(a)
         \/ Groups!NoticeEnds \/ Groups!FinalizeDissolution
         \/ \E d \in {"remove", "start_closing", "restore", "cancel_closing"} : Groups!LifecycleDecision(d)
  PROVE  GroupInv'
<1>1. CASE \E a \in Users : Groups!RequestDissolution(a)
  <2>1. /\ group.status # "none" /\ member' = member /\ transfer' = transfer /\ known' = known
        /\ dissolution'.state = "scheduled"
        /\ group' = [group EXCEPT !.status = "closing"]
    BY <1>1 DEF Groups!RequestDissolution, Groups!Owner, Groups!Visible
  <2>2. group'.status = "closing" /\ group'.owner = group.owner /\ DOMAIN group' = DOMAIN group
    BY <2>1 DEF GroupInv, GroupTables
  <2>3. known' \in [Users -> 0..MaxTransfers]
    BY <2>1 DEF GroupInv, GroupTables
  <2> QED
    BY <2>1, <2>2, <2>3, OnlyStatus DEF Groups!ClosingHasNotice
<1>2. CASE \E a \in Users : Groups!CancelDissolution(a)
  <2>1. /\ group.status # "none" /\ member' = member /\ transfer' = transfer /\ known' = known
        /\ group' = [group EXCEPT !.status = "active"]
    BY <1>2 DEF Groups!CancelDissolution, Groups!Owner, Groups!Visible
  <2>2. group'.status = "active" /\ group'.owner = group.owner /\ DOMAIN group' = DOMAIN group
    BY <2>1 DEF GroupInv, GroupTables
  <2>3. known' \in [Users -> 0..MaxTransfers]
    BY <2>1 DEF GroupInv, GroupTables
  <2> QED
    BY <2>1, <2>2, <2>3, OnlyStatus DEF Groups!ClosingHasNotice
<1>3. CASE Groups!NoticeEnds
  <2>1. /\ group' = group /\ member' = member /\ transfer' = transfer /\ known' = known
        /\ dissolution.state = "scheduled" /\ dissolution' = [dissolution EXCEPT !.due = TRUE]
    BY <1>3 DEF Groups!NoticeEnds
  <2>2. dissolution'.state = "scheduled"
    BY <2>1
  <2>3. GroupTables'
    BY <2>1 DEF GroupInv, GroupTables
  <2>4. GroupRules'
    BY <2>1, <2>2 DEF GroupInv, GroupRules, Groups!OpenStates, Groups!ClosingHasNotice
  <2> QED
    BY <2>3, <2>4 DEF GroupInv
<1>4. CASE Groups!FinalizeDissolution
  <2>1. /\ group.status # "none" /\ member' = member /\ transfer' = transfer /\ known' = known
        /\ group' = [group EXCEPT !.status = "dissolved", !.deleted = TRUE]
    BY <1>4 DEF Groups!FinalizeDissolution, Groups!Visible
  <2>2. group'.status = "dissolved" /\ group'.owner = group.owner /\ DOMAIN group' = DOMAIN group
    BY <2>1 DEF GroupInv, GroupTables
  <2>3. known' \in [Users -> 0..MaxTransfers]
    BY <2>1 DEF GroupInv, GroupTables
  <2> QED
    BY <2>1, <2>2, <2>3, OnlyStatus DEF Groups!ClosingHasNotice
<1>5. ASSUME NEW d \in {"remove", "start_closing", "restore", "cancel_closing"},
             Groups!LifecycleDecision(d)
      PROVE  GroupInv'
  <2> DEFINE after == Groups!StatusAfter(d)
  <2>1. /\ group.status # "none" /\ member' = member /\ transfer' = transfer /\ known' = known
        /\ group' = [group EXCEPT !.status = after]
        /\ d = "start_closing" => dissolution'.state = "scheduled"
    BY <1>5 DEF Groups!LifecycleDecision
  <2>2. after # "none" /\ (after = "closing" => d = "start_closing")
    BY DEF Groups!StatusAfter
  <2> HIDE DEF after
  <2>3. group'.status = after /\ group'.owner = group.owner /\ DOMAIN group' = DOMAIN group
    BY <2>1 DEF GroupInv, GroupTables
  <2>4. known' \in [Users -> 0..MaxTransfers]
    BY <2>1 DEF GroupInv, GroupTables
  <2> QED
    BY <2>1, <2>2, <2>3, <2>4, OnlyStatus DEF Groups!ClosingHasNotice
<1> QED
  BY <1>1, <1>2, <1>3, <1>4, <1>5

\* What the groups keep beside their owner: invitations, places, what a page remembers.
LEMMA GroupElsewhere ==
  ASSUME GroupInv,
         \/ \E u \in Users : Groups!CreateInvite(u) \/ Groups!LoadManager(u)
         \/ Groups!InviteExpires \/ Groups!PurchaseCapacity
         \/ UNCHANGED Groups!groupVars
  PROVE  GroupInv'
<1>1. CASE \/ \E u \in Users : Groups!CreateInvite(u)
           \/ Groups!InviteExpires \/ UNCHANGED Groups!groupVars
  <2>1. /\ group' = group /\ member' = member /\ transfer' = transfer /\ known' = known
        /\ dissolution' = dissolution
    BY <1>1 DEF Groups!CreateInvite, Groups!InviteExpires, Groups!groupVars
  <2>2. GroupTables'
    BY <2>1 DEF GroupInv, GroupTables
  <2>3. GroupRules'
    BY <2>1 DEF GroupInv, GroupRules, Groups!OpenStates, Groups!ClosingHasNotice
  <2> QED
    BY <2>2, <2>3 DEF GroupInv
<1>2. CASE Groups!PurchaseCapacity
  <2> DEFINE size == group.capacity + Step
  <2>1. /\ group.status # "none" /\ member' = member /\ transfer' = transfer /\ known' = known
        /\ dissolution' = dissolution
        /\ group' = [group EXCEPT !.capacity = size]
    BY <1>2 DEF Groups!PurchaseCapacity, Groups!Visible
  <2> HIDE DEF size
  <2>2. /\ group'.status = group.status /\ group'.owner = group.owner
        /\ group'.deleted = group.deleted /\ DOMAIN group' = DOMAIN group
    BY <2>1 DEF GroupInv, GroupTables
  <2>3. known' \in [Users -> 0..MaxTransfers] /\ Groups!ClosingHasNotice'
    BY <2>1, <2>2 DEF GroupInv, GroupTables, GroupRules, Groups!ClosingHasNotice
  <2> QED
    BY <2>1, <2>2, <2>3, OnlyStatus
<1>3. ASSUME NEW u \in Users, Groups!LoadManager(u)
      PROVE  GroupInv'
  <2>1. /\ group.status # "none" /\ group' = group /\ member' = member /\ transfer' = transfer
        /\ dissolution' = dissolution
    BY <1>3 DEF Groups!LoadManager, Groups!Visible
  <2>2. PICK t \in {0} \cup Groups!Transfers : known' = [known EXCEPT ![u] = t]
    BY <1>3 DEF Groups!LoadManager, Groups!Active
  <2>3. t \in 0..MaxTransfers
    BY <2>2, CommunityAssumption DEF Groups!Transfers
  <2>4. known' \in [Users -> 0..MaxTransfers]
    BY <2>2, <2>3 DEF GroupInv, GroupTables
  <2>5. Groups!ClosingHasNotice'
    BY <2>1 DEF GroupInv, GroupRules, Groups!ClosingHasNotice
  <2> QED
    BY <2>1, <2>4, <2>5, OnlyStatus
<1> QED
  BY <1>1, <1>2, <1>3

LEMMA GroupStep ==
  ASSUME GroupInv, Groups!Next \/ UNCHANGED Groups!groupVars
  PROVE  GroupInv'
<1>1. CASE \/ \E u \in Users, mode \in Modes : Groups!Create(u, mode)
           \/ \E u \in Users : Groups!Join(u) \/ Groups!MemberSettles(u)
           \/ \E a, u \in Users, role \in {"keep", "admin", "member"},
                status0 \in {"keep", "active", "muted", "removed"} :
                Groups!UpdateMember(a, u, role, status0)
  BY <1>1, CreateGroup, JoinGroup, MemberSettlesGroup, UpdateGroupMember
<1>2. CASE \/ \E a, u \in Users, t \in Groups!Transfers : Groups!StartTransfer(a, u, t)
           \/ \E t \in Groups!Transfers : Groups!TransferExpires(t) \/ Groups!CooldownEnds(t)
           \/ \E u \in Users : \/ Groups!AcceptTransfer(u) \/ Groups!CompleteTransfer(u)
                               \/ Groups!CancelTransfer(u)
  BY <1>2, StartGroupTransfer, AgingTransfer, AcceptGroupTransfer, CompleteGroupTransfer,
     CancelGroupTransfer
<1>3. CASE \/ \E a \in Users : Groups!RequestDissolution(a) \/ Groups!CancelDissolution(a)
           \/ Groups!NoticeEnds \/ Groups!FinalizeDissolution
           \/ \E d \in {"remove", "start_closing", "restore", "cancel_closing"} : Groups!LifecycleDecision(d)
  BY <1>3, GroupCloses
<1>4. CASE \/ \E u \in Users : Groups!CreateInvite(u) \/ Groups!LoadManager(u)
           \/ Groups!InviteExpires \/ Groups!PurchaseCapacity
           \/ UNCHANGED Groups!groupVars
  BY <1>4, GroupElsewhere
<1> QED
  BY <1>1, <1>2, <1>3, <1>4 DEF Groups!Next

LEMMA GroupInit ==
  ASSUME Groups!Init
  PROVE  GroupInv
<1>1. GroupTables
  BY CommunityAssumption DEF Groups!Init, GroupTables, Groups!NoMember, Groups!NoTransfer
<1>2. GroupRules
  BY DEF Groups!Init, GroupRules, Groups!NoMember, Groups!NoTransfer, Groups!OpenStates,
         Groups!ClosingHasNotice
<1> QED
  BY <1>1, <1>2 DEF GroupInv

LEMMA GroupShown ==
  ASSUME GroupInv
  PROVE  Groups!OwnershipIsSettled /\ Groups!ClosingHasNotice
BY DEF GroupInv, GroupRules, Groups!OwnershipIsSettled

-----------------------------------------------------------------------------
(* Conversations: an edit replaces what its author was shown *)

RequestRow ==
  [stage : {"idle", "write", "follow", "unfollow"}, user : Writers,
   parent : 0..MaxComments, text : {"clean", "foul"}, target : Writers]

TalkTables ==
  /\ comments \in [Talk!Comments -> Talk!Row] /\ notices \in [Talk!Notices -> Talk!Row]
  /\ editor \in [Writers -> [row : Nat, copy : Talk!Row]]
  /\ request \in [Requests -> RequestRow]

\* A row that is open in an editor exists and is not older than the copy; with the version of
\* the copy it is the copy.
Follows(e, row) ==
  /\ row.state # "none" /\ e.copy.version <= row.version
  /\ e.copy.version = row.version => e.copy = row

TalkRules ==
  \A u \in Writers : editor[u].row # 0 =>
    editor[u].row \in DOMAIN Talk!Rows /\ Follows(editor[u], Talk!Rows[editor[u].row])

TalkInv == TalkTables /\ TalkRules

LEMMA RowsTable ==
  ASSUME TalkTables
  PROVE  /\ Talk!Rows \in [DOMAIN Talk!Rows -> Talk!Row]
         /\ DOMAIN Talk!Rows = IF surface = "notices" THEN Talk!Notices ELSE Talk!Comments
         /\ 0 \notin DOMAIN Talk!Rows /\ DOMAIN Talk!Rows \subseteq Nat
BY CommunityAssumption DEF TalkTables, Talk!Rows, Talk!Notices, Talk!Comments

\* The versions of the new rows: every change counts one on, whatever else it changes.
LEMMA NewRows ==
  ASSUME NEW row \in Talk!Row
  PROVE  /\ Talk!Touched(row) \in Talk!Row
         /\ Talk!Touched(row).version = row.version + 1
         /\ \A state \in {"visible", "hidden", "removed"} :
              LET new == [Talk!Touched(row) EXCEPT !.state = state] IN
              new \in Talk!Row /\ new.version = row.version + 1 /\ new.state = state
         /\ Talk!Rewritten(row) \in Talk!Row
         /\ Talk!Rewritten(row).version = row.version + 1
         /\ Talk!Rewritten(row).state = row.state
<1> DEFINE n == row.version + 1
           touched == Talk!Touched(row)
<1>1. n \in Nat
  BY DEF Talk!Row
<1>2. touched = [row EXCEPT !.version = n]
  BY DEF Talk!Touched
<1> HIDE DEF n
<1>3. touched \in Talk!Row /\ touched.version = n /\ touched.state = row.state
  BY <1>1, <1>2 DEF Talk!Row
<1>4. Talk!Rewritten(row) = [touched EXCEPT !.text = "foul"]
  BY DEF Talk!Rewritten
<1> HIDE DEF touched
<1>5. \A state \in {"visible", "hidden", "removed"} :
        LET new == [touched EXCEPT !.state = state] IN
        new \in Talk!Row /\ new.version = n /\ new.state = state
  BY <1>3 DEF Talk!Row
<1>6. /\ Talk!Rewritten(row) \in Talk!Row /\ Talk!Rewritten(row).version = n
      /\ Talk!Rewritten(row).state = row.state
  BY <1>3, <1>4 DEF Talk!Row
<1> QED
  BY <1>3, <1>5, <1>6 DEF n, touched

\* One row changes: to a later version of itself, or it comes into being. Editors may close.
LEMMA OneRow ==
  ASSUME TalkInv, NEW i \in DOMAIN Talk!Rows, NEW row \in Talk!Row,
         row.state # "none",
         row.version > Talk!Rows[i].version \/ Talk!Rows[i].state = "none",
         Talk!WriteRow(i, row), surface' = surface,
         \A u \in Writers : editor'[u] = editor[u] \/ editor'[u].row = 0,
         editor' \in [Writers -> [row : Nat, copy : Talk!Row]],
         request' \in [Requests -> RequestRow]
  PROVE  TalkInv'
<1>1. /\ Talk!Rows \in [DOMAIN Talk!Rows -> Talk!Row]
      /\ DOMAIN Talk!Rows = IF surface = "notices" THEN Talk!Notices ELSE Talk!Comments
  BY RowsTable DEF TalkInv
<1>2. Talk!Rows' = [Talk!Rows EXCEPT ![i] = row]
  BY DEF Talk!WriteRow, Talk!Rows
<1>3. /\ DOMAIN Talk!Rows' = DOMAIN Talk!Rows /\ Talk!Rows'[i] = row
      /\ \A j \in DOMAIN Talk!Rows : j # i => Talk!Rows'[j] = Talk!Rows[j]
  BY <1>1, <1>2
<1>4. TalkTables'
  BY <1>1 DEF TalkInv, TalkTables, Talk!WriteRow
<1>5. ASSUME NEW u \in Writers, editor'[u].row # 0
      PROVE  editor'[u].row \in DOMAIN Talk!Rows' /\ Follows(editor'[u], Talk!Rows'[editor'[u].row])
  <2>1. editor'[u] = editor[u]
    BY <1>5
  <2>2. editor[u].row \in DOMAIN Talk!Rows /\ Follows(editor[u], Talk!Rows[editor[u].row])
    BY <1>5, <2>1 DEF TalkInv, TalkRules
  <2>3. editor[u].copy.version \in Nat /\ row.version \in Nat /\ Talk!Rows[i].version \in Nat
    BY <1>1 DEF TalkInv, TalkTables, Talk!Row
  <2>4. CASE editor[u].row = i
    BY <1>3, <2>1, <2>2, <2>3, <2>4 DEF Follows
  <2>5. CASE editor[u].row # i
    BY <1>3, <2>1, <2>2, <2>5
  <2> QED
    BY <2>4, <2>5
<1>6. TalkRules'
  BY <1>5 DEF TalkRules
<1> QED
  BY <1>4, <1>6 DEF TalkInv

\* The rows stay; editors may close and transactions go on.
LEMMA SameRows ==
  ASSUME TalkInv, comments' \in [Talk!Comments -> Talk!Row], notices' = notices, surface' = surface,
         comments' = comments \/ surface = "notices",
         \A u \in Writers : editor'[u] = editor[u] \/ editor'[u].row = 0,
         editor' \in [Writers -> [row : Nat, copy : Talk!Row]],
         request' \in [Requests -> RequestRow]
  PROVE  TalkInv'
<1>1. Talk!Rows' = Talk!Rows
  BY DEF Talk!Rows
<1>2. TalkTables'
  BY DEF TalkInv, TalkTables
<1>3. TalkRules'
  BY <1>1 DEF TalkInv, TalkRules
<1> QED
  BY <1>2, <1>3 DEF TalkInv

LEMMA NoEditorType == Talk!NoEditor \in [row : Nat, copy : Talk!Row] /\ Talk!NoEditor.row = 0
BY CommunityAssumption DEF Talk!NoEditor, Talk!NoRow, Talk!Row

LEMMA OpenEditorInv ==
  ASSUME TalkInv, NEW u \in Writers, NEW i \in DOMAIN Talk!Rows, Talk!OpenEditor(u, i)
  PROVE  TalkInv'
<1> DEFINE new == [row |-> i, copy |-> Talk!Rows[i]]
<1>1. /\ Talk!Rows[i].state = "visible" /\ editor' = [editor EXCEPT ![u] = new]
      /\ surface' = surface /\ comments' = comments /\ notices' = notices /\ request' = request
  BY DEF Talk!OpenEditor
<1>2. Talk!Rows[i] \in Talk!Row /\ i \in Nat
  BY RowsTable DEF TalkInv
<1>3. new \in [row : Nat, copy : Talk!Row] /\ new.row = i /\ new.copy = Talk!Rows[i]
  BY <1>2
<1>4. Follows(new, Talk!Rows[i])
  BY <1>1, <1>2 DEF Follows, Talk!Row
<1> HIDE DEF new
<1>5. editor'[u] = new /\ \A v \in Writers : v # u => editor'[v] = editor[v]
  BY <1>1 DEF TalkInv, TalkTables
<1>6. Talk!Rows' = Talk!Rows
  BY <1>1 DEF Talk!Rows
<1>7. TalkTables'
  BY <1>1, <1>3 DEF TalkInv, TalkTables
<1>8. TalkRules'
  BY <1>3, <1>4, <1>5, <1>6 DEF TalkInv, TalkRules
<1> QED
  BY <1>7, <1>8 DEF TalkInv

LEMMA EditorCloses ==
  ASSUME TalkInv, NEW u \in Writers, Talk!CloseEditor(u) \/ Talk!SaveEdit(u)
  PROVE  TalkInv'
<1>1. /\ editor' = [editor EXCEPT ![u] = Talk!NoEditor] /\ surface' = surface /\ request' = request
  BY DEF Talk!CloseEditor, Talk!SaveEdit
<1>2. /\ \A v \in Writers : editor'[v] = editor[v] \/ editor'[v].row = 0
      /\ editor' \in [Writers -> [row : Nat, copy : Talk!Row]]
      /\ request' \in [Requests -> RequestRow]
  BY <1>1, NoEditorType DEF TalkInv, TalkTables
<1>3. CASE Talk!CloseEditor(u)
  <2>1. comments' = comments /\ notices' = notices
    BY <1>3 DEF Talk!CloseEditor
  <2>2. comments' \in [Talk!Comments -> Talk!Row]
    BY <2>1 DEF TalkInv, TalkTables
  <2> QED
    BY <1>1, <1>2, <2>1, <2>2, SameRows
<1>4. CASE Talk!SaveEdit(u)
  <2> DEFINE i == editor[u].row
             row == Talk!Rewritten(Talk!Rows[i])
  <2>1. i # 0 /\ Talk!Rows[i].state = "visible" /\ Talk!WriteRow(i, row)
    BY <1>4 DEF Talk!SaveEdit
  <2>2. i \in DOMAIN Talk!Rows
    BY <2>1 DEF TalkInv, TalkRules
  <2>3. Talk!Rows[i] \in Talk!Row
    BY <2>2, RowsTable DEF TalkInv
  <2> HIDE DEF i
  <2>4. row \in Talk!Row /\ row.version = Talk!Rows[i].version + 1 /\ row.state = "visible"
    BY <2>1, <2>3, NewRows
  <2>5. row.version > Talk!Rows[i].version
    BY <2>3, <2>4 DEF Talk!Row
  <2> HIDE DEF row
  <2> QED
    BY <1>1, <1>2, <2>1, <2>2, <2>4, <2>5, OneRow
<1> QED
  BY <1>3, <1>4

LEMMA RowMoves ==
  ASSUME TalkInv,
         \/ \E i \in DOMAIN Talk!Rows : Talk!Delete(i)
         \/ \E c \in Talk!Comments, s \in {"visible", "hidden", "removed"} : Talk!Moderate(c, s)
  PROVE  TalkInv'
<1>1. PICK i \in DOMAIN Talk!Rows, s \in {"visible", "hidden", "removed"} :
        /\ Talk!WriteRow(i, [Talk!Touched(Talk!Rows[i]) EXCEPT !.state = s])
        /\ editor' = editor /\ surface' = surface /\ request' = request
  <2>1. CASE \E i \in DOMAIN Talk!Rows : Talk!Delete(i)
    BY <2>1 DEF Talk!Delete, Talk!Withdrawn
  <2>2. ASSUME NEW c \in Talk!Comments, NEW s \in {"visible", "hidden", "removed"}, Talk!Moderate(c, s)
        PROVE  /\ c \in DOMAIN Talk!Rows
               /\ Talk!WriteRow(c, [Talk!Touched(Talk!Rows[c]) EXCEPT !.state = s])
               /\ editor' = editor /\ surface' = surface /\ request' = request
    <3>1. surface # "notices"
      BY <2>2 DEF Talk!Moderate
    <3>2. DOMAIN Talk!Rows = Talk!Comments
      BY <3>1, RowsTable DEF TalkInv
    <3> QED
      BY <2>2, <3>1, <3>2 DEF Talk!Moderate, Talk!WriteRow, Talk!Rows
  <2> QED
    BY <2>1, <2>2
<1> DEFINE row == [Talk!Touched(Talk!Rows[i]) EXCEPT !.state = s]
<1>2. Talk!Rows[i] \in Talk!Row
  BY RowsTable DEF TalkInv
<1>3. row \in Talk!Row /\ row.version = Talk!Rows[i].version + 1 /\ row.state = s
  BY ZenonT(60), <1>2, NewRows
<1>4. row.version > Talk!Rows[i].version /\ row.state # "none"
  BY <1>2, <1>3 DEF Talk!Row
<1>5. /\ editor' \in [Writers -> [row : Nat, copy : Talk!Row]]
      /\ request' \in [Requests -> RequestRow]
  BY <1>1 DEF TalkInv, TalkTables
<1>6. Talk!WriteRow(i, row)
  BY <1>1
<1> HIDE DEF row
<1> QED
  BY <1>1, <1>3, <1>4, <1>5, <1>6, OneRow

LEMMA RowAppears ==
  ASSUME TalkInv,
         \/ \E r \in Requests, c \in Talk!Comments : Talk!InsertComment(r, c)
         \/ \E u \in Writers, n \in Talk!Notices : Talk!CreateAnnouncement(u, n)
  PROVE  TalkInv'
<1>1. ASSUME NEW r \in Requests, NEW c \in Talk!Comments, Talk!InsertComment(r, c)
      PROVE  TalkInv'
  <2> DEFINE row == Talk!NewComment(request[r])
  <2>1. /\ comments[c].state = "none" /\ comments' = [comments EXCEPT ![c] = row]
        /\ request' = [request EXCEPT ![r] = Talk!NoRequest]
        /\ surface' = surface /\ notices' = notices /\ editor' = editor
    BY <1>1 DEF Talk!InsertComment
  <2>2. row \in Talk!Row /\ row.state = "visible"
    BY DEF TalkInv, TalkTables, RequestRow, Talk!NewComment, Talk!Row
  <2> HIDE DEF row
  <2>3. /\ comments' \in [Talk!Comments -> Talk!Row]
        /\ editor' \in [Writers -> [row : Nat, copy : Talk!Row]]
    BY <2>1, <2>2 DEF TalkInv, TalkTables
  <2>4. request' \in [Requests -> RequestRow]
    BY <2>1, CommunityAssumption DEF TalkInv, TalkTables, RequestRow, Talk!NoRequest
  <2>5. CASE surface = "notices"
    BY <2>1, <2>3, <2>4, <2>5, SameRows
  <2>6. CASE surface # "notices"
    <3>1. c \in DOMAIN Talk!Rows /\ Talk!Rows[c].state = "none"
      BY <2>1, <2>6, RowsTable DEF TalkInv, Talk!Rows
    <3>2. Talk!WriteRow(c, row)
      BY <2>1, <2>6 DEF Talk!WriteRow
    <3> QED
      BY <2>1, <2>2, <2>3, <2>4, <3>1, <3>2, OneRow
  <2> QED
    BY <2>5, <2>6
<1>2. ASSUME NEW u \in Writers, NEW n \in Talk!Notices, Talk!CreateAnnouncement(u, n)
      PROVE  TalkInv'
  <2> DEFINE row == [Talk!NoRow EXCEPT !.state = "visible", !.author = u, !.version = 1]
  <2>1. /\ surface = "notices" /\ notices[n].state = "none"
        /\ notices' = [notices EXCEPT ![n] = row]
        /\ surface' = surface /\ comments' = comments /\ editor' = editor /\ request' = request
    BY <1>2, Zenon DEF Talk!CreateAnnouncement
  <2>2. row \in Talk!Row /\ row.state = "visible"
    <3>1. Talk!NoRow \in Talk!Row
      BY CommunityAssumption DEF Talk!NoRow, Talk!Row
    <3> QED
      BY <3>1 DEF Talk!Row
  <2> HIDE DEF row
  <2>3. /\ editor' \in [Writers -> [row : Nat, copy : Talk!Row]]
        /\ request' \in [Requests -> RequestRow]
    BY <2>1 DEF TalkInv, TalkTables
  <2>4. n \in DOMAIN Talk!Rows /\ Talk!Rows[n].state = "none"
    BY <2>1, RowsTable DEF TalkInv, Talk!Rows
  <2>5. Talk!WriteRow(n, row)
    BY <2>1 DEF Talk!WriteRow
  <2> QED
    BY <2>1, <2>2, <2>3, <2>4, <2>5, OneRow
<1> QED
  BY <1>1, <1>2

\* Standing, rates, days, follows and blocks leave rows and editors alone.
LEMMA TalkElsewhere ==
  ASSUME TalkInv,
         \/ \E u \in Writers : Talk!StandingChanges(u) \/ Talk!HourPasses(u)
         \/ \E r \in Requests, u \in Writers, c \in 0..MaxComments, t \in {"clean", "foul"} :
              Talk!CheckComment(r, u, c, t)
         \/ \E r \in Requests : Talk!WriteFollow(r)
         \/ Talk!DayPasses
         \/ \E r \in Requests, u, v \in Writers, stage \in {"follow", "unfollow"} :
              Talk!CheckFollow(r, u, v, stage)
         \/ \E u, v \in Writers : Talk!SetBlock(u, v) \/ Talk!Unblock(u, v)
         \/ UNCHANGED Talk!talkVars
  PROVE  TalkInv'
<1>1. /\ surface' = surface /\ comments' = comments /\ notices' = notices /\ editor' = editor
      /\ \/ request' = request
         \/ \E r \in Requests, row \in RequestRow : request' = [request EXCEPT ![r] = row]
  <2>1. CASE \/ \E u \in Writers : Talk!StandingChanges(u) \/ Talk!HourPasses(u)
             \/ Talk!DayPasses
             \/ \E u, v \in Writers : Talk!SetBlock(u, v) \/ Talk!Unblock(u, v)
             \/ UNCHANGED Talk!talkVars
    BY <2>1 DEF Talk!StandingChanges, Talk!HourPasses, Talk!DayPasses, Talk!SetBlock, Talk!Unblock,
                Talk!talkVars
  <2>2. Talk!NoRequest \in RequestRow
    BY CommunityAssumption DEF RequestRow, Talk!NoRequest
  <2>3. ASSUME NEW r \in Requests, NEW u \in Writers, NEW c \in 0..MaxComments,
               NEW t \in {"clean", "foul"}, Talk!CheckComment(r, u, c, t)
        PROVE  /\ surface' = surface /\ comments' = comments /\ notices' = notices /\ editor' = editor
               /\ \E row \in RequestRow : request' = [request EXCEPT ![r] = row]
    <3> DEFINE row == [stage |-> "write", user |-> u, parent |-> c, text |-> t, target |-> Host]
    <3>1. row \in RequestRow
      BY CommunityAssumption DEF RequestRow
    <3> QED
      BY <2>3, <3>1 DEF Talk!CheckComment
  <2>4. ASSUME NEW r \in Requests, Talk!WriteFollow(r)
        PROVE  /\ surface' = surface /\ comments' = comments /\ notices' = notices /\ editor' = editor
               /\ request' = [request EXCEPT ![r] = Talk!NoRequest]
    BY <2>4 DEF Talk!WriteFollow
  <2>5. ASSUME NEW r \in Requests, NEW u \in Writers, NEW v \in Writers,
               NEW stage \in {"follow", "unfollow"}, Talk!CheckFollow(r, u, v, stage)
        PROVE  /\ surface' = surface /\ comments' = comments /\ notices' = notices /\ editor' = editor
               /\ \E row \in RequestRow : request' = [request EXCEPT ![r] = row]
    <3> DEFINE row == [Talk!NoRequest EXCEPT !.stage = stage, !.user = u, !.target = v]
    <3>1. row \in RequestRow
      BY <2>2 DEF RequestRow
    <3> QED
      BY <2>5, <3>1, Zenon DEF Talk!CheckFollow
  <2> QED
    BY <2>1, <2>2, <2>3, <2>4, <2>5
<1>2. request' \in [Requests -> RequestRow]
  BY <1>1 DEF TalkInv, TalkTables
<1>3. /\ comments' \in [Talk!Comments -> Talk!Row]
      /\ editor' \in [Writers -> [row : Nat, copy : Talk!Row]]
  BY <1>1 DEF TalkInv, TalkTables
<1> QED
  BY <1>1, <1>2, <1>3, SameRows

LEMMA TalkStep ==
  ASSUME TalkInv, Talk!Next \/ UNCHANGED Talk!talkVars
  PROVE  TalkInv'
BY OpenEditorInv, EditorCloses, RowMoves, RowAppears, TalkElsewhere DEF Talk!Next

LEMMA TalkInit ==
  ASSUME Talk!Init
  PROVE  TalkInv
<1>1. Talk!NoRow \in Talk!Row
  BY CommunityAssumption DEF Talk!NoRow, Talk!Row
<1>2. Talk!NoRequest \in RequestRow
  BY CommunityAssumption DEF Talk!NoRequest, RequestRow
<1>3. TalkTables
  BY <1>1, <1>2, NoEditorType DEF Talk!Init, TalkTables
<1>4. TalkRules
  BY NoEditorType DEF Talk!Init, TalkRules
<1> QED
  BY <1>3, <1>4 DEF TalkInv

\* A step that closes an editor and changes a row is the save of that editor's user.
LEMMA EditReplaces ==
  ASSUME TalkInv, Talk!Next, NEW u \in Writers,
         editor[u].row # 0, editor'[u].row = 0, Talk!Rows' # Talk!Rows
  PROVE  editor[u].copy = Talk!Rows[editor[u].row]
<1>1. editor' # editor /\ ~(comments' = comments /\ notices' = notices /\ surface' = surface)
  BY DEF Talk!Rows
<1>2. PICK v \in Writers : Talk!SaveEdit(v)
  <2>1. CASE \/ \E v \in Writers : Talk!StandingChanges(v) \/ Talk!HourPasses(v) \/ Talk!CloseEditor(v)
             \/ \E r \in Requests, v \in Writers, c \in 0..MaxComments, t \in {"clean", "foul"} :
                  Talk!CheckComment(r, v, c, t)
             \/ \E v \in Writers, i \in DOMAIN Talk!Rows : Talk!OpenEditor(v, i)
    BY <1>1, <2>1 DEF Talk!StandingChanges, Talk!HourPasses, Talk!CloseEditor, Talk!CheckComment,
       Talk!OpenEditor
  <2>2. CASE \E r \in Requests : Talk!WriteFollow(r) \/ \E c \in Talk!Comments : Talk!InsertComment(r, c)
    BY <1>1, <2>2 DEF Talk!WriteFollow, Talk!InsertComment
  <2>3. CASE \/ \E i \in DOMAIN Talk!Rows : Talk!Delete(i)
             \/ \E c \in Talk!Comments, s \in {"visible", "hidden", "removed"} : Talk!Moderate(c, s)
             \/ \E v \in Writers, n \in Talk!Notices : Talk!CreateAnnouncement(v, n)
    <3>1. editor' = editor
      BY <2>3, Zenon DEF Talk!Delete, Talk!Moderate, Talk!CreateAnnouncement
    <3> QED
      BY <1>1, <3>1
  <2>4. CASE \/ Talk!DayPasses
             \/ \E r \in Requests, v, w \in Writers, stage \in {"follow", "unfollow"} :
                  Talk!CheckFollow(r, v, w, stage)
             \/ \E v, w \in Writers : Talk!SetBlock(v, w) \/ Talk!Unblock(v, w)
    <3>1. editor' = editor
      BY <2>4, Zenon DEF Talk!DayPasses, Talk!CheckFollow, Talk!SetBlock, Talk!Unblock
    <3> QED
      BY <1>1, <3>1
  <2> QED
    BY <2>1, <2>2, <2>3, <2>4 DEF Talk!Next
<1>3. v = u
  BY <1>2 DEF Talk!SaveEdit, TalkInv, TalkTables
<1>4. Talk!Rows[editor[u].row].version = editor[u].copy.version
  BY <1>2, <1>3 DEF Talk!SaveEdit, Talk!BaseVersionHolds, Talk!Current
<1> QED
  BY <1>4 DEF TalkInv, TalkRules, Follows

-----------------------------------------------------------------------------
(* The community: the parts side by side *)

LEMMA BadgesInit == Badges!Init => BadgeTables
BY DEF Badges!Init, BadgeTables

LEMMA CorrectionInit == Attendance!Init => CorrectionInv
<1> SUFFICES ASSUME Attendance!Init PROVE CorrectionInv
  OBVIOUS
<1>1. CorrectionTables
  BY DEF Attendance!Init, CorrectionTables
<1>2. CorrectionRules
  BY DEF Attendance!Init, CorrectionRules
<1> QED
  BY <1>1, <1>2 DEF CorrectionInv

\* The inductive invariant of the whole.
CommunityInv == GroupInv /\ TalkInv /\ RewardInv /\ CorrectionInv /\ BadgeTables

LEMMA CommunityInit == Init => CommunityInv
BY GroupInit, TalkInit, RewardInit, CorrectionInit, BadgesInit DEF Init, CommunityInv

\* A step belongs to one part, and every other part stutters.
LEMMA StepOfAPart ==
  ASSUME [Next]_communityVars
  PROVE  /\ Groups!Next \/ UNCHANGED Groups!groupVars
         /\ Talk!Next \/ UNCHANGED Talk!talkVars
         /\ Attendance!Next \/ UNCHANGED Attendance!attendanceVars
         /\ Badges!Next \/ UNCHANGED Badges!achievementVars
BY DEF Next, communityVars, groupPart, talkPart, attendancePart, badgePart,
       Groups!groupVars, Talk!talkVars, Attendance!attendanceVars, Badges!achievementVars

LEMMA CommunityStep == CommunityInv /\ [Next]_communityVars => CommunityInv'
<1> SUFFICES ASSUME CommunityInv, [Next]_communityVars PROVE CommunityInv'
  OBVIOUS
<1>1. GroupInv' /\ TalkInv'
  BY StepOfAPart, GroupStep, TalkStep DEF CommunityInv
<1>2. RewardInv'
  <2>1. UNCHANGED Attendance!attendanceVars => RewardInv'
    BY RewardFrame DEF CommunityInv, Attendance!attendanceVars
  <2> QED
    BY <2>1, StepOfAPart, RewardStep DEF CommunityInv
<1>3. CorrectionInv'
  <2>1. UNCHANGED Attendance!attendanceVars => CorrectionInv'
    BY DEF CommunityInv, CorrectionInv, CorrectionTables, CorrectionRules, Attendance!attendanceVars
  <2> QED
    BY <2>1, StepOfAPart, CorrectionStep DEF CommunityInv
<1>4. BadgeTables'
  <2>1. UNCHANGED Badges!achievementVars => BadgeTables'
    BY DEF CommunityInv, BadgeTables, Badges!achievementVars
  <2> QED
    BY <2>1, StepOfAPart, BadgesStep DEF CommunityInv
<1> QED
  BY <1>1, <1>2, <1>3, <1>4 DEF CommunityInv

\* The inductive invariant holds in every state of every behaviour.
LEMMA CommunityAlways == Spec => []CommunityInv
BY CommunityInit, CommunityStep, PTL DEF Spec

\* Whatever transfers, removals, notices and decisions of operators come together, the owner of
\* a group is its one member with that role, and active, an open transfer is the owner's own,
\* and a closing group has a notice that can still be cancelled or finished.
THEOREM OwnershipAlwaysSettled == Spec => []OwnershipIsSettled
<1>1. CommunityInv => OwnershipIsSettled
  BY GroupShown DEF CommunityInv, OwnershipIsSettled
<1> QED
  BY <1>1, CommunityAlways, PTL

\* However check-ins, corrections and feedback of several registrations overlap, a registration
\* is paid once, a day pays no more than its cap under its lock, and a registration waits for at
\* most one correction.
THEOREM RewardsAlwaysBounded == Spec => []RewardsStayBounded
<1>1. CommunityInv => RewardsStayBounded
  BY RewardShown, CorrectionShown DEF CommunityInv, RewardsStayBounded
<1> QED
  BY <1>1, CommunityAlways, PTL

\* The save of a comment or an announcement that goes through replaces exactly the row its
\* author was shown, over any saves, removals and restorations in between.
THEOREM EditsAlwaysReplace == Spec => EditsReplaceWhatWasRead
<1>1. CommunityInv /\ [Next]_communityVars
        => [\A u \in Writers : editor[u].row # 0 /\ editor'[u].row = 0 /\ Talk!Rows' # Talk!Rows
              => editor[u].copy = Talk!Rows[editor[u].row]]_(Talk!talkVars)
  BY StepOfAPart, EditReplaces DEF CommunityInv
<1> QED
  BY <1>1, CommunityAlways, PTL DEF Spec, EditsReplaceWhatWasRead, Talk!EditsReplaceWhatWasRead

\* An evaluation that nothing overtook leaves exactly the award that the current rule and metric
\* give, whatever overlapping evaluations, revocations and changes of the rules left before it.
THEOREM EvaluationsAlwaysSettle == Spec => EvaluationSettles
<1>1. CommunityInv /\ [Next]_communityVars
        => [\A i \in Evaluators : LET e == evaluation[i] IN
              e.running /\ ~evaluation'[i].running
                /\ e.metric = metric /\ e.live = live /\ e.held = Badges!Held
              => Badges!Held' = {v \in Badges!Canonical(live) : Badges!RuleMet(v, metric)}
           ]_(Badges!achievementVars)
  BY StepOfAPart, EvaluationHolds DEF CommunityInv
<1> QED
  BY <1>1, CommunityAlways, PTL DEF Spec, EvaluationSettles, Badges!EvaluationSettles

-----------------------------------------------------------------------------
(* From an announcement, a cancellation or a reminder to the notice of a member *)

\* What is on the clock: the hour of the day is one of its hours.
LEMMA Clock ==
  ASSUME now \in Nat
  PROVE  Today \in Nat /\ Hour \in 0 .. DayLength - 1
BY DeliveryAssumption DEF Today, Hour

\* The hours from one hour of a day to another.
LEMMA HoursBetween ==
  ASSUME NEW D \in Nat \ {0}, NEW a \in 0 .. D - 1, NEW b \in 0 .. D - 1
  PROVE  (a - b) % D = IF a >= b THEN a - b ELSE a - b + D
<1>1. CASE a >= b
  BY <1>1
<1>2. CASE a < b
  BY <1>2
<1> QED
  BY <1>1, <1>2

LEMMA OutsideQuietHours ==
  ASSUME NEW D \in Nat \ {0}, NEW h \in 0 .. D - 1, NEW from \in 0 .. D - 1, NEW to \in 0 .. D - 1,
         ~InQuietWindow(h, from, to)
  PROVE  (h - from) % D >= (to - from) % D
<1>1. /\ (h - from) % D = IF h >= from THEN h - from ELSE h - from + D
      /\ (to - from) % D = IF to >= from THEN to - from ELSE to - from + D
  BY HoursBetween
<1>2. from = to \/ from < to \/ to < from
  OBVIOUS
<1> QED
  BY <1>1, <1>2 DEF InQuietWindow

-----------------------------------------------------------------------------
\* The lines of the tables of the worker.
Told == [state : {"none", "new", "planned"}, day : Int, planned : Int]
States == {"none", "queued", "sending", "failed", "delivered", "suppressed"}
Lines == [attempts : Nat, due : BOOLEAN, state : States]
Work == [of : Sources, by : Channels]

DeliveryTables ==
  /\ now \in Nat
  /\ notice \in [Sources -> Told]
  /\ delivery \in [Sources -> [Channels -> Lines]]
  /\ holding \in [Workers -> {Nothing} \cup Work]

\* A delivery that is on its way, or was: an attempt is counted before it is sent.
Underway(d) == d.state \notin {"none", "suppressed"} \/ d.attempts >= 1

\* The announcements of a day that were planned on it and whose push is or was on its way.
Pushed(d) ==
  {s \in Announcements : notice[s].day = d /\ notice[s].planned = d /\ Underway(delivery[s]["push"])}

\* What is not planned has no deliveries.
Unplanned ==
  \A s \in Sources :
    notice[s].state # "planned" =>
      /\ notice[s].planned = -1
      /\ \A c \in Channels : delivery[s][c].state = "none" /\ delivery[s][c].attempts = 0

\* What a worker holds was counted as an attempt.
HeldCounted ==
  \A w \in Workers : holding[w] # Nothing => delivery[holding[w].of][holding[w].by].attempts >= 1

PushesCounted == \A d \in Nat : Cardinality(Pushed(d)) <= Cap

SparingInv == DeliveryTables /\ Unplanned /\ HeldCounted /\ PushesCounted

LEMMA AnnouncementsFinite ==
  ASSUME NEW S \in SUBSET Announcements
  PROVE  IsFiniteSet(S) /\ Cardinality(S) \in Nat
<1>1. IsFiniteSet(Announcements)
  BY DeliveryAssumption
<1> QED
  BY <1>1, FS_Subset, FS_CardinalityType

LEMMA SparingBegins ==
  ASSUME DeliveryInit
  PROVE  SparingInv
<1>1. DeliveryTables
  BY DEF DeliveryInit, DeliveryTables, Lines, States, Told
<1>2. Unplanned /\ HeldCounted
  BY DEF DeliveryInit, Unplanned, HeldCounted
<1>3. ASSUME NEW d \in Nat
      PROVE  Cardinality(Pushed(d)) <= Cap
  <2>1. Pushed(d) = {}
    BY DEF DeliveryInit, Pushed, Sources
  <2> QED
    BY DeliveryAssumption, <2>1, FS_EmptySet
<1> QED
  BY <1>1, <1>2, <1>3 DEF SparingInv, PushesCounted

\* Fewer pushes stay within the cap.
LEMMA FewerPushed ==
  ASSUME PushesCounted, \A d \in Nat : Pushed(d)' \subseteq Pushed(d)
  PROVE  PushesCounted'
<1> SUFFICES ASSUME NEW d \in Nat
             PROVE  Cardinality(Pushed(d)') <= Cap
  BY DEF PushesCounted
<1>1. Pushed(d) \in SUBSET Announcements /\ Pushed(d)' \in SUBSET Announcements
  BY DEF Pushed
<1>2. Cardinality(Pushed(d)') <= Cardinality(Pushed(d))
  BY <1>1, AnnouncementsFinite, FS_Subset
<1>3. Cardinality(Pushed(d)) <= Cap
  BY DEF PushesCounted
<1> QED
  BY DeliveryAssumption, <1>1, <1>2, <1>3, AnnouncementsFinite

\* Steps that leave the notices and the deliveries alone.
LEMMA TablesStand ==
  ASSUME SparingInv, UNCHANGED <<notice, delivery>>, now' \in Nat,
         holding' \in [Workers -> {Nothing} \cup Work],
         \A w \in Workers : holding'[w] \in {holding[w], Nothing}
  PROVE  SparingInv'
<1>1. DeliveryTables' /\ Unplanned'
  BY DEF SparingInv, DeliveryTables, Unplanned
<1>2. HeldCounted'
  BY DEF SparingInv, HeldCounted
<1>3. \A d \in Nat : Pushed(d)' = Pushed(d)
  BY DEF Pushed
<1> QED
  BY <1>1, <1>2, <1>3, FewerPushed DEF SparingInv

\* A line is written that was planned: a push is not sent that was not to be.
LEMMA LineWritten ==
  ASSUME SparingInv, UNCHANGED <<now, notice>>,
         NEW s \in Sources, NEW c \in Channels, NEW line \in Lines,
         delivery' = [delivery EXCEPT ![s] = [delivery[s] EXCEPT ![c] = line]],
         Underway(delivery[s][c]), line.attempts >= delivery[s][c].attempts,
         holding' \in [Workers -> {Nothing} \cup Work],
         \A w \in Workers : \/ holding'[w] \in {holding[w], Nothing}
                            \/ holding'[w] = [of |-> s, by |-> c] /\ line.attempts >= 1
  PROVE  SparingInv'
<1>1. /\ DeliveryTables' /\ delivery'[s][c] = line
      /\ \A t \in Sources, k \in Channels : <<t, k>> # <<s, c>> => delivery'[t][k] = delivery[t][k]
  BY DEF SparingInv, DeliveryTables
<1>2. notice[s].state = "planned" /\ delivery[s][c].attempts \in Nat /\ line.attempts \in Nat
  BY DEF SparingInv, Unplanned, Underway, DeliveryTables, Lines
<1>3. Unplanned'
  BY <1>1, <1>2 DEF SparingInv, Unplanned
<1>4. ASSUME NEW w \in Workers, holding'[w] # Nothing
      PROVE  delivery'[holding'[w].of][holding'[w].by].attempts >= 1
  <2>1. CASE holding'[w] = [of |-> s, by |-> c] /\ line.attempts >= 1
    BY <2>1, <1>1
  <2>2. CASE holding'[w] = holding[w]
    <3>1. holding[w].of \in Sources /\ holding[w].by \in Channels
          /\ delivery[holding[w].of][holding[w].by].attempts >= 1
      BY <2>2, <1>4 DEF SparingInv, HeldCounted, DeliveryTables, Work
    <3>2. CASE holding[w].of = s /\ holding[w].by = c
      BY <1>1, <1>2, <2>2, <3>1, <3>2
    <3>3. CASE ~(holding[w].of = s /\ holding[w].by = c)
      BY <1>1, <2>2, <3>1, <3>3
    <3> QED
      BY <3>2, <3>3
  <2> QED
    BY <2>1, <2>2, <1>4
<1>5. ASSUME NEW d \in Nat
      PROVE  Pushed(d)' \subseteq Pushed(d)
  <2>1. "push" \in Channels /\ Announcements \subseteq Sources
    BY DEF Channels, Sources
  <2>2. ASSUME NEW t \in Announcements, Underway(delivery'[t]["push"])
        PROVE  Underway(delivery[t]["push"])
    BY <1>1, <2>1, <2>2
  <2> QED
    BY <2>2 DEF Pushed, Underway
<1>6. HeldCounted' /\ PushesCounted'
  BY <1>4, <1>5, FewerPushed DEF SparingInv, HeldCounted
<1> QED
  BY <1>1, <1>3, <1>6 DEF SparingInv

\* A source is handled: its notice is there and has no deliveries yet.
LEMMA NoticeMade ==
  ASSUME SparingInv, NEW s \in Sources, Handle(s)
  PROVE  SparingInv'
<1>1. notice' = WithNotice(s) /\ UNCHANGED <<now, delivery, holding>>
  BY DEF Handle
<1>2. CASE notice[s].state # "none"
  BY <1>1, <1>2, TablesStand DEF WithNotice, SparingInv, DeliveryTables
<1>3. CASE notice[s].state = "none"
  <2>1. Today \in Int
    BY Clock DEF SparingInv, DeliveryTables
  <2> DEFINE made == [state |-> "new", day |-> Today, planned |-> -1]
  <2>2. /\ notice' = [notice EXCEPT ![s] = made]
        /\ made \in Told
        /\ made.planned = -1 /\ made.state = "new"
    BY <1>1, <1>3, <2>1 DEF WithNotice, Told
  <2> HIDE DEF made
  <2>3. DeliveryTables' /\ notice'[s] = made /\ \A t \in Sources : t # s => notice'[t] = notice[t]
    BY <1>1, <2>2 DEF SparingInv, DeliveryTables
  <2>4. Unplanned'
    BY <1>1, <1>3, <2>2, <2>3 DEF SparingInv, Unplanned
  <2>5. HeldCounted'
    BY <1>1 DEF SparingInv, HeldCounted
  <2>6. ASSUME NEW d \in Nat
        PROVE  Pushed(d)' \subseteq Pushed(d)
    BY <1>1, <2>2, <2>3 DEF Pushed, Sources
  <2> QED
    BY <2>3, <2>4, <2>5, <2>6, FewerPushed DEF SparingInv
<1> QED
  BY <1>2, <1>3

\* The push of an announcement is planned to be sent while no more of them were made thisDay than
\* the cap allows.
LEMMA PlanOfPush ==
  ASSUME NEW s \in Sources, PushPlan(s) = "queued"
  PROVE  /\ s \in Announcements => ~OverCap(s)
         /\ s \notin Cancellations => ~InQuietWindow(Hour, QuietStart, QuietEnd)
<1>1. /\ s \in Announcements => Policy(s).capped
      /\ s \notin Cancellations => ~Policy(s).bypass
  BY DeliveryAssumption DEF Policy, Sources
<1> QED
  BY <1>1 DEF PushPlan

\* Lines and notices whose fields are written.
LEMMA LineDue ==
  ASSUME NEW line \in Lines, NEW written, written = [line EXCEPT !.due = TRUE]
  PROVE  written \in Lines /\ written.attempts = line.attempts /\ written.state = line.state
BY DEF Lines

LEMMA NoticeFields ==
  ASSUME NEW told \in Told, NEW on \in Int
  PROVE  LET written == [told EXCEPT !.state = "planned", !.planned = on]
         IN  written \in Told /\ written.state = "planned" /\ written.planned = on /\ written.day = told.day
BY DEF Told

\* What an attempt of a channel leaves the delivery in.
LEMMA OutcomeState ==
  ASSUME NEW c \in Channels, NEW o \in Outcomes(c)
  PROVE  o[1] \in {"delivered", "failed", "suppressed"}
<1>1. CASE c = "in_app"
  BY <1>1 DEF Outcomes
<1>2. CASE c = "email"
  BY <1>2 DEF Outcomes
<1>3. CASE c = "push" /\ ~token
  BY <1>3 DEF Outcomes
<1>4. CASE c = "push" /\ token
  <2> DEFINE yes == TRUE
             no == FALSE
  <2>1. Outcomes(c) =
          {<<"delivered", yes>>, <<"failed", yes>>, <<"suppressed", yes>>, <<"suppressed", no>>}
    BY <1>4 DEF Outcomes
  <2> HIDE DEF yes, no
  <2> QED
    BY <2>1
<1> QED
  BY <1>1, <1>2, <1>3, <1>4 DEF Channels

\* The outcome a worker writes into the line of what it held.
LEMMA OutcomeWritten ==
  ASSUME NEW w \in Workers, DeliverOne(w)
  PROVE  \E o \in Outcomes(holding[w].by) :
           delivery' = [delivery EXCEPT ![holding[w].of][holding[w].by].state = o[1],
                                        ![holding[w].of][holding[w].by].due = IF o[1] = "failed" THEN FALSE ELSE @]
BY ZenonT(60) DEF DeliverOne

\* What a planned notice gets: every line has its state, and no attempt yet.
LEMMA PlannedLines ==
  ASSUME NEW s \in Sources, delivery[s] \in [Channels -> Lines]
  PROVE  /\ Planned(s) \in [Channels -> Lines]
         /\ \A c \in Channels : Planned(s)[c].attempts = delivery[s][c].attempts
         /\ Planned(s)["push"].state = PushPlan(s)
         /\ PushPlan(s) \in {"none", "suppressed", "queued"}
<1>1. PushPlan(s) \in {"none", "suppressed", "queued"}
  BY DEF PushPlan
<1> DEFINE plan(c) == CASE c = "in_app" -> "queued"
                        [] c = "push" -> PushPlan(s)
                        [] c = "email" -> IF Policy(s).email THEN "queued" ELSE "none"
<1>2. \A c \in Channels : plan(c) \in States
  BY <1>1 DEF Channels, States
<1>3. plan("push") = PushPlan(s) /\ "push" \in Channels
  BY DEF Channels
<1>4. Planned(s) = [c \in Channels |-> [delivery[s][c] EXCEPT !.state = plan(c)]]
  BY DEF Planned
<1> HIDE DEF plan
<1>5. ASSUME NEW c \in Channels
      PROVE  /\ [delivery[s][c] EXCEPT !.state = plan(c)] \in Lines
             /\ [delivery[s][c] EXCEPT !.state = plan(c)].attempts = delivery[s][c].attempts
             /\ [delivery[s][c] EXCEPT !.state = plan(c)].state = plan(c)
  BY <1>2, <1>5 DEF Lines
<1> QED
  BY ZenonT(60), <1>1, <1>3, <1>4, <1>5

\* The push of an announcement that its plan sends is within the cap of the day it was made on.
LEMMA NoticePlanned ==
  ASSUME SparingInv, NEW s \in Sources, OrchestrateNotifications(s)
  PROVE  SparingInv'
<1> DEFINE thisDay == Today
           made == [notice[s] EXCEPT !.state = "planned", !.planned = thisDay]
<1>1. /\ notice[s].state = "new" /\ notice' = [notice EXCEPT ![s].state = "planned", ![s].planned = thisDay]
      /\ delivery' = [delivery EXCEPT ![s] = Planned(s)] /\ UNCHANGED <<now, holding>>
  BY DEF OrchestrateNotifications
<1>2. thisDay \in Nat /\ notice[s] \in Told
      /\ delivery[s] \in [Channels -> Lines]
  BY Clock DEF SparingInv, DeliveryTables
<1> HIDE DEF thisDay
<1>3. made \in Told
      /\ made.state = "planned" /\ made.planned = thisDay /\ made.day = notice[s].day
  <2>1. thisDay \in Int /\ notice[s] \in Told
    BY <1>2
  <2> QED
    BY <2>1, NoticeFields, Zenon
<1>4. notice' = [notice EXCEPT ![s] = made]
  BY <1>1, <1>2 DEF SparingInv, DeliveryTables
<1> HIDE DEF made
<1>5. /\ DeliveryTables' /\ notice'[s] = made /\ delivery'[s] = Planned(s)
      /\ \A t \in Sources : t # s => notice'[t] = notice[t] /\ delivery'[t] = delivery[t]
  BY ZenonT(60), <1>1, <1>2, <1>3, <1>4, PlannedLines DEF SparingInv, DeliveryTables
<1>6. Unplanned'
  BY <1>3, <1>5 DEF SparingInv, Unplanned
<1>7. HeldCounted'
  <2> SUFFICES ASSUME NEW w \in Workers, holding[w] # Nothing
               PROVE  delivery'[holding[w].of][holding[w].by].attempts >= 1
    BY <1>1 DEF HeldCounted
  <2>1. holding[w].of \in Sources /\ holding[w].by \in Channels
        /\ delivery[holding[w].of][holding[w].by].attempts >= 1
    BY DEF SparingInv, HeldCounted, DeliveryTables, Work
  <2>2. holding[w].of # s
    BY <1>1, <2>1 DEF SparingInv, Unplanned
  <2> QED
    BY <1>5, <2>1, <2>2
<1>8. ASSUME NEW d \in Nat
      PROVE  Cardinality(Pushed(d)') <= Cap
  <2>1. Pushed(d) \in SUBSET Announcements /\ Pushed(d)' \in SUBSET Announcements /\ Cardinality(Pushed(d)) <= Cap
    BY DEF Pushed, SparingInv, PushesCounted
  <2>2. CASE s \notin Pushed(d)'
    <3>1. Pushed(d)' \subseteq Pushed(d)
      BY <1>5, <2>2 DEF Pushed, Underway, Sources
    <3> QED
      BY DeliveryAssumption, <2>1, <3>1, AnnouncementsFinite, FS_Subset
  <2>3. CASE s \in Pushed(d)'
    <3>1. d = thisDay /\ notice[s].day = d /\ s \in Announcements /\ Underway(Planned(s)["push"])
      BY <1>3, <1>5, <2>3 DEF Pushed, Underway
    <3>2. PushPlan(s) = "queued"
      <4>1. "push" \in Channels
        BY DEF Channels
      <4>2. Planned(s)["push"].attempts = 0
        BY <1>1, <1>2, <4>1, PlannedLines DEF SparingInv, Unplanned
      <4> QED
        BY <1>2, <3>1, <4>2, PlannedLines DEF Underway
    <3> DEFINE madeToday == {t \in Announcements : notice[t].state # "none" /\ notice[t].day = Today}
    <3>3. ~OverCap(s)
      BY <3>1, <3>2, PlanOfPush
    <3>5. ~(Cardinality(madeToday) > Cap)
      BY <3>3 DEF OverCap
    <3>6. ASSUME NEW t \in Pushed(d)'
          PROVE  t \in Announcements /\ notice[t].state # "none" /\ notice[t].day = Today
      <4>1. t \in Announcements /\ t \in Sources /\ notice'[t].day = d /\ notice'[t].planned = d
        BY DEF Pushed, Sources
      <4>2. CASE t = s
        BY <1>1, <3>1, <4>1, <4>2 DEF thisDay
      <4>3. CASE t # s
        <5>1. notice[t].day = d /\ notice[t].planned = d
          BY <1>5, <4>1, <4>3
        <5>2. notice[t].state = "planned"
          BY <4>1, <5>1 DEF SparingInv, Unplanned
        <5> QED
          BY <3>1, <4>1, <5>1, <5>2 DEF thisDay
      <4> QED
        BY <4>2, <4>3
    <3>9. Pushed(d)' \subseteq madeToday
      BY <3>6
    <3> HIDE DEF madeToday
    <3>7. madeToday \in SUBSET Announcements
      BY DEF madeToday
    <3>8. Cardinality(Pushed(d)') <= Cardinality(madeToday)
      BY <3>7, <3>9, AnnouncementsFinite, FS_Subset
    <3> QED
      BY DeliveryAssumption, <2>1, <3>5, <3>7, <3>8, AnnouncementsFinite
  <2> QED
    BY <2>2, <2>3
<1> QED
  BY <1>5, <1>6, <1>7, <1>8 DEF SparingInv, PushesCounted

LEMMA DeliveryClaimed ==
  ASSUME SparingInv, NEW w \in Workers, NEW s \in Sources,
         NEW c \in Channels, ClaimDelivery(w, s, c)
  PROVE  SparingInv'
<1> DEFINE line == [state |-> "sending", attempts |-> delivery[s][c].attempts + 1, due |-> FALSE]
<1>1. /\ Claimable(delivery[s][c]) /\ holding' = [holding EXCEPT ![w] = [of |-> s, by |-> c]]
      /\ delivery' = [delivery EXCEPT ![s][c] = line] /\ UNCHANGED <<now, notice>>
  BY DEF ClaimDelivery, SparingInv, DeliveryTables
<1>2. delivery[s][c].attempts \in Nat /\ Underway(delivery[s][c])
  BY <1>1 DEF SparingInv, DeliveryTables, Lines, Claimable, Underway
<1>3. line \in Lines /\ line.attempts >= delivery[s][c].attempts /\ line.attempts >= 1
  BY <1>2 DEF Lines, States
<1> HIDE DEF line
<1>4. delivery' = [delivery EXCEPT ![s] = [delivery[s] EXCEPT ![c] = line]]
  BY <1>1 DEF SparingInv, DeliveryTables
<1>5. /\ holding' \in [Workers -> {Nothing} \cup Work]
      /\ \A v \in Workers : holding'[v] = holding[v] \/ holding'[v] = [of |-> s, by |-> c]
  BY <1>1 DEF SparingInv, DeliveryTables, Work
<1> QED
  BY <1>1, <1>2, <1>3, <1>4, <1>5, LineWritten

LEMMA DeliveredOne ==
  ASSUME SparingInv, NEW w \in Workers, DeliverOne(w)
  PROVE  SparingInv'
<1> DEFINE s == holding[w].of
           c == holding[w].by
<1>1. /\ s \in Sources /\ c \in Channels /\ delivery[s][c].attempts >= 1
      /\ delivery[s][c] \in Lines
  BY DEF DeliverOne, SparingInv, DeliveryTables, HeldCounted, Work
<1>2. PICK o \in Outcomes(c) :
        delivery' = [delivery EXCEPT ![s][c].state = o[1], ![s][c].due = IF o[1] = "failed" THEN FALSE ELSE @]
  BY OutcomeWritten
<1>3. holding' = [holding EXCEPT ![w] = Nothing] /\ UNCHANGED <<now, notice>>
  BY DEF DeliverOne
<1> HIDE DEF s, c
<1>4. o[1] \in States
  BY <1>1, OutcomeState DEF States
<1> DEFINE due == IF o[1] = "failed" THEN FALSE ELSE delivery[s][c].due
           line == [delivery[s][c] EXCEPT !.state = o[1], !.due = due]
<1>5. delivery' = [delivery EXCEPT ![s] = [delivery[s] EXCEPT ![c] = line]]
  BY <1>1, <1>2 DEF SparingInv, DeliveryTables, Lines
<1>6. due \in BOOLEAN
  BY <1>1 DEF Lines
<1> HIDE DEF due
<1>7. line \in Lines /\ line.attempts = delivery[s][c].attempts
  <2>1. line = [delivery[s][c] EXCEPT !.state = o[1], !.due = due]
    OBVIOUS
  <2> HIDE DEF line
  <2> QED
    BY <1>1, <1>4, <1>6, <2>1 DEF Lines
<1> HIDE DEF line
<1>8. Underway(delivery[s][c]) /\ line.attempts >= delivery[s][c].attempts
  BY <1>1, <1>7 DEF Underway, Lines
<1>9. /\ holding' \in [Workers -> {Nothing} \cup Work]
      /\ \A v \in Workers : holding'[v] \in {holding[v], Nothing}
  BY <1>3 DEF SparingInv, DeliveryTables
<1> QED
  BY <1>1, <1>3, <1>5, <1>7, <1>8, <1>9, LineWritten

LEMMA LeaseElapsed ==
  ASSUME SparingInv, NEW s \in Sources, NEW c \in Channels,
         Elapses(s, c)
  PROVE  SparingInv'
<1> DEFINE line == [delivery[s][c] EXCEPT !.due = TRUE]
<1>1. /\ delivery[s][c].state \in {"sending", "failed"} /\ delivery' = [delivery EXCEPT ![s][c].due = TRUE]
      /\ UNCHANGED <<now, notice, holding>> /\ delivery[s][c] \in Lines
  BY DEF Elapses, SparingInv, DeliveryTables
<1>2. delivery' = [delivery EXCEPT ![s] = [delivery[s] EXCEPT ![c] = line]]
  BY <1>1 DEF SparingInv, DeliveryTables
<1>3. line \in Lines /\ line.attempts >= delivery[s][c].attempts
  <2>1. line = [delivery[s][c] EXCEPT !.due = TRUE]
    OBVIOUS
  <2> HIDE DEF line
  <2> QED
    BY <1>1, <2>1, LineDue DEF Lines
<1> HIDE DEF line
<1>4. holding' \in [Workers -> {Nothing} \cup Work] /\ \A v \in Workers : holding'[v] = holding[v]
  BY <1>1 DEF SparingInv, DeliveryTables
<1>5. Underway(delivery[s][c])
  BY <1>1 DEF Underway
<1> QED
  BY <1>1, <1>2, <1>3, <1>4, <1>5, LineWritten

\* Of what is under way on the day of its announcement, the property counts a part.
LEMMA WithinCap ==
  ASSUME SparingInv
  PROVE  PushesWithinCap
<1> SUFFICES ASSUME NEW d \in 0 .. MaxTime \div DayLength
             PROVE  Cardinality({s \in Announcements :
                      /\ notice[s].day = d /\ notice[s].planned = d
                      /\ delivery[s]["push"].state \notin {"none", "suppressed"}}) <= Cap
  BY DEF PushesWithinCap
<1> DEFINE pushes == {s \in Announcements :
                        /\ notice[s].day = d /\ notice[s].planned = d
                        /\ delivery[s]["push"].state \notin {"none", "suppressed"}}
<1>2. d \in Nat /\ Pushed(d) \in SUBSET Announcements /\ pushes \in SUBSET Pushed(d)
  BY DEF Pushed, Underway
<1> HIDE DEF pushes
<1>3. Cardinality(pushes) <= Cardinality(Pushed(d)) /\ Cardinality(Pushed(d)) <= Cap
      /\ Cardinality(pushes) \in Nat /\ Cardinality(Pushed(d)) \in Nat
  BY <1>2, AnnouncementsFinite, FS_Subset DEF SparingInv, PushesCounted
<1> QED
  BY DeliveryAssumption, <1>3 DEF pushes

\* Only a plan sets a push on its way, and it reads the clock.
LEMMA PlansByDay ==
  ASSUME SparingInv, [DeliveryNext]_(vars)
  PROVE  PlannedByDay
<1> SUFFICES ASSUME NEW s \in Sources, delivery[s]["push"].state = "none",
                    delivery'[s]["push"].state = "queued", s \notin Cancellations
             PROVE  (Hour - QuietStart) % DayLength >= (QuietEnd - QuietStart) % DayLength
  BY DEF PlannedByDay
<1>1. "push" \in Channels /\ delivery[s] \in [Channels -> Lines]
  BY DEF Channels, SparingInv, DeliveryTables
<1>2. CASE OrchestrateNotifications(s)
  <2>1. delivery'[s] = Planned(s)
    BY <1>2 DEF OrchestrateNotifications, SparingInv, DeliveryTables
  <2>2. PushPlan(s) = "queued"
    BY <1>1, <2>1, PlannedLines
  <2>3. /\ ~InQuietWindow(Hour, QuietStart, QuietEnd) /\ Hour \in 0 .. DayLength - 1
        /\ DayLength \in Nat \ {0} /\ QuietStart \in 0 .. DayLength - 1 /\ QuietEnd \in 0 .. DayLength - 1
    BY DeliveryAssumption, <2>2, PlanOfPush, Clock DEF SparingInv, DeliveryTables
  <2> QED
    BY <2>3, OutsideQuietHours
<1>3. ASSUME NEW t \in Sources, OrchestrateNotifications(t), t # s
      PROVE  FALSE
  BY <1>3 DEF OrchestrateNotifications, SparingInv, DeliveryTables
<1>4. ASSUME NEW w \in Workers, NEW t \in Sources, NEW c \in Channels,
             ClaimDelivery(w, t, c)
      PROVE  FALSE
  BY <1>1, <1>4 DEF ClaimDelivery, SparingInv, DeliveryTables, Lines
<1>5. ASSUME NEW w \in Workers, DeliverOne(w)
      PROVE  FALSE
  <2> DEFINE t == holding[w].of
             c == holding[w].by
  <2>1. t \in Sources /\ c \in Channels
    BY SMTT(30), <1>5 DEF DeliverOne, SparingInv, DeliveryTables, Work
  <2>2. PICK o \in Outcomes(c) :
          delivery' = [delivery EXCEPT ![t][c].state = o[1], ![t][c].due = IF o[1] = "failed" THEN FALSE ELSE @]
    BY <1>5, OutcomeWritten
  <2> HIDE DEF t, c
  <2>3. o[1] # "queued"
    BY <2>1, OutcomeState
  <2> DEFINE due == IF o[1] = "failed" THEN FALSE ELSE delivery[t][c].due
             line == [delivery[t][c] EXCEPT !.state = o[1], !.due = due]
  <2>4. delivery[t][c] \in Lines
    BY <2>1 DEF SparingInv, DeliveryTables
  <2>5. delivery' = [delivery EXCEPT ![t] = [delivery[t] EXCEPT ![c] = line]]
    BY ZenonT(60), <2>1, <2>2 DEF SparingInv, DeliveryTables, Lines
  <2> HIDE DEF due
  <2>6. line.state = o[1]
    BY <2>4 DEF Lines
  <2> HIDE DEF line
  <2> QED
    BY SMTT(30), <1>1, <2>1, <2>3, <2>5, <2>6 DEF SparingInv, DeliveryTables
<1>6. ASSUME NEW t \in Sources, NEW c \in Channels, Elapses(t, c)
      PROVE  FALSE
  BY <1>1, <1>6 DEF Elapses, SparingInv, DeliveryTables, Lines
<1>7. CASE UNCHANGED delivery
  BY <1>7
<1> QED
  BY <1>2, <1>3, <1>4, <1>5, <1>6, <1>7
  DEF DeliveryNext, vars, Happens, DispatchOutbox, FanoutAnnouncements,
      ScheduleEventReminders, Handle, Fail, UpdatePreference,
      RegisterDevice, DisableDevice, Tick

LEMMA SparingStep ==
  ASSUME SparingInv, [DeliveryNext]_(vars)
  PROVE  SparingInv'
<1>1. ASSUME NEW s \in Sources, Happens(s)
      PROVE  SparingInv'
  BY <1>1, TablesStand DEF Happens, SparingInv, DeliveryTables
<1>2. ASSUME NEW w \in Workers, Fail(w)
      PROVE  SparingInv'
  <2>1. /\ UNCHANGED <<now, notice, delivery>> /\ holding' = [holding EXCEPT ![w] = Nothing]
    BY <1>2 DEF Fail
  <2>2. /\ holding' \in [Workers -> {Nothing} \cup Work]
        /\ \A v \in Workers : holding'[v] \in {holding[v], Nothing}
    BY <2>1 DEF SparingInv, DeliveryTables
  <2> QED
    BY <2>1, <2>2, TablesStand DEF SparingInv, DeliveryTables
<1>3. ASSUME UNCHANGED <<notice, delivery, holding>>, now' \in {now, now + 1}
      PROVE  SparingInv'
  BY <1>3, TablesStand DEF SparingInv, DeliveryTables
<1>4. ASSUME DispatchOutbox \/ FanoutAnnouncements \/ ScheduleEventReminders
      PROVE  SparingInv'
  BY <1>4, NoticeMade DEF DispatchOutbox, FanoutAnnouncements,
     ScheduleEventReminders, Sources
<1>5. ASSUME \/ UpdatePreference \/ RegisterDevice \/ DisableDevice
             \/ Tick \/ UNCHANGED vars
      PROVE  UNCHANGED <<notice, delivery, holding>> /\ now' \in {now, now + 1}
  BY <1>5 DEF UpdatePreference, RegisterDevice, DisableDevice, Tick, vars
<1> QED
  BY <1>1, <1>2, <1>3, <1>4, <1>5, NoticePlanned, DeliveryClaimed, DeliveredOne, LeaseElapsed DEF DeliveryNext

\* No step pushes at a recipient more often than the cap of the day says, however many workers make,
\* plan, send and lose their leases at once, nor plans a push into the night.
THEOREM PushesAlwaysSparing ==
  DeliverySpec => PushesAreSparing
<1>1. DeliveryInit => SparingInv
  BY SparingBegins
<1>2. SparingInv /\ [DeliveryNext]_(vars) => SparingInv'
  BY SparingStep
<1>3. SparingInv /\ [DeliveryNext]_(vars) => PlannedByDay
  BY PlansByDay
<1>4. SparingInv => PushesWithinCap
  BY WithinCap
<1>5. DeliverySpec => DeliveryInit /\ [][DeliveryNext]_(vars)
  BY DEF DeliverySpec
<1> QED
  BY <1>1, <1>2, <1>3, <1>4, <1>5, PTL DEF PushesAreSparing

=============================================================================
