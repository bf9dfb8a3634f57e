---------------------------- MODULE Achievements ----------------------------
(***************************************************************************)
(* One achievement of one user: the versions of its definition, the metric *)
(* it asks for, the awards, and evaluations that read all of these without *)
(* a lock and then award and revoke by the plan of planEvaluation.         *)
(***************************************************************************)
EXTENDS Integers, FiniteSets, FiniteSetsExt

CONSTANTS
  Versions,      \* the rule versions of the definition
  Gate,          \* the count a version asks for
  MaxMetric,     \* bound on the metric
  Evaluators     \* the requests that may evaluate at the same time

VARIABLES
  metric,       \* what computeMetrics counts
  live,         \* the versions between active_from and active_until
  award,        \* the unrevoked award of a version: none, shown or hidden
  evaluation    \* what an evaluation under way has read

achievementVars == <<metric, live, award, evaluation>>

Idle == [running |-> FALSE, metric |-> 0, live |-> {}, held |-> {}]

Held == {v \in Versions : award[v] # "none"}

TypeOK ==
  /\ metric \in 0..MaxMetric /\ live \subseteq Versions
  /\ award \in [Versions -> {"none", "shown", "hidden"}]
  /\ evaluation \in [Evaluators -> [running : BOOLEAN, metric : 0..MaxMetric,
                                    live : SUBSET Versions, held : SUBSET Versions]]

Init ==
  /\ metric = 0 /\ live = {}
  /\ award = [v \in Versions |-> "none"]
  /\ evaluation = [e \in Evaluators |-> Idle]

-----------------------------------------------------------------------------
(* achievement-rules.ts *)

\* The highest live version counts.
Canonical(defs) == IF defs = {} THEN {} ELSE {Max(defs)}

\* ruleMet: the count reaches the gate.
RuleMet(v, count) == count >= Gate[v]

\* planEvaluation: what to award and what to revoke.
ToAward(e) == {v \in Canonical(e.live) \ e.held : RuleMet(v, e.metric)}
Outdated(e) == e.held \ Canonical(e.live)
Unmet(e) == {v \in e.held \cap Canonical(e.live) : ~RuleMet(v, e.metric)}
ToRevoke(e) == Outdated(e) \cup Unmet(e)
ToRevoke_KeepsOutdated(e) == Unmet(e)
Lost(e) == ToRevoke(e)

-----------------------------------------------------------------------------
\* Check-ins and corrections, events held, feedback approved.
MetricChanges(n) ==
  /\ n # metric /\ metric' = n
  /\ UNCHANGED <<live, award, evaluation>>

\* The windows of the definitions, which nothing in the repository edits after the migrations.
DefinitionsChange(s) ==
  /\ s # live /\ live' = s
  /\ UNCHANGED <<metric, award, evaluation>>

\* evaluateAchievements: what it reads ...
Evaluate(i) ==
  /\ ~evaluation[i].running
  /\ evaluation' = [evaluation EXCEPT ![i] =
       [running |-> TRUE, metric |-> metric, live |-> live, held |-> Held]]
  /\ UNCHANGED <<metric, live, award>>

\* ... and what it writes: awards already there are left alone, and so are those gone already.
CommitEvaluation(i) ==
  LET e == evaluation[i] IN
  /\ e.running
  /\ award' = [v \in Versions |->
       IF v \in Lost(e) THEN "none"
       ELSE IF v \in ToAward(e) /\ award[v] = "none" THEN "shown" ELSE award[v]]
  /\ evaluation' = [evaluation EXCEPT ![i] = Idle]
  /\ UNCHANGED <<metric, live>>

\* revokeAchievement: the highest version held. No code of the repository calls it.
RevokeAchievement ==
  /\ Held # {}
  /\ award' = [award EXCEPT ![Max(Held)] = "none"]
  /\ UNCHANGED <<metric, live, evaluation>>

\* setAchievementVisibility, and setAllAchievementsHidden for every award that is held.
SetHidden(s, look) ==
  /\ s # {} /\ s \subseteq Held /\ \E v \in s : award[v] # look
  /\ award' = [v \in Versions |-> IF v \in s THEN look ELSE award[v]]
  /\ UNCHANGED <<metric, live, evaluation>>

Next ==
  \/ \E n \in 0..MaxMetric : MetricChanges(n)
  \/ \E s \in SUBSET Versions : DefinitionsChange(s)
  \/ \E i \in Evaluators : Evaluate(i) \/ CommitEvaluation(i)
  \/ RevokeAchievement
  \/ \E s \in SUBSET Versions, look \in {"shown", "hidden"} : SetHidden(s, look)

Spec == Init /\ [][Next]_achievementVars

-----------------------------------------------------------------------------
(* Properties *)

\* Whatever earlier evaluations, overlapping ones included, left behind, one that nothing
\* overtakes leaves exactly the award the current rule and metric give, superseded versions
\* revoked (evaluateAchievements, planEvaluation).
EvaluationSettles ==
  [][\A i \in Evaluators : LET e == evaluation[i] IN
       e.running /\ ~evaluation'[i].running
         /\ e.metric = metric /\ e.live = live /\ e.held = Held
       => Held' = {v \in Canonical(live) : RuleMet(v, metric)}]_achievementVars

=============================================================================
