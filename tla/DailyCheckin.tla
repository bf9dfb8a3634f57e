----------------------------- MODULE DailyCheckin -----------------------------
(***************************************************************************)
(* The daily check-in of ONE user in the points centre: the streak, and    *)
(* the bonuses of every Short-th and every Long-th day in a row            *)
(* (dailyCheckin of services/api/src/modules/points, planDailyCheckin of   *)
(* packages/domain/src/rewards.ts, migration 0025).                        *)
(*                                                                         *)
(* Taps may come at the same moment and over a midnight in Tokyo. A tap is *)
(* a transaction that waits for the user's advisory lock, reads the row    *)
(* together with the civil day, and writes and credits when it commits.    *)
(* The rewards are greater than zero.                                      *)
(***************************************************************************)
EXTENDS Integers

CONSTANTS
  Taps,    \* what sends the request: a tap, its double, a retry, another device
  Short,   \* 7, the days of the smaller bonus
  Long,    \* 30, the days of the larger one
  MaxCivilDay   \* bound on the calendar

VARIABLES
  today,    \* the civil day in Tokyo
  tap,      \* where each request is, with what it read
  locked,   \* whether some transaction holds the advisory lock
  streak,   \* the row of commerce.daily_checkin_streaks
  rewards   \* the days of each kind of reward: the business keys that are posted

checkinVars == <<today, tap, locked, streak, rewards>>

NoDay == -1   \* not the day before any day: the calendar begins with day 1
Row(last, current, longest) == [last |-> last, current |-> current, longest |-> longest]
NoRow == Row(NoDay, 0, 0)

Waiting == [step |-> "waiting", day |-> NoDay, saw |-> NoRow]

Init ==
  /\ today = 1
  /\ tap = [t \in Taps |-> Waiting]
  /\ locked = FALSE
  /\ streak = NoRow
  /\ rewards = [daily |-> {}, short |-> {}, long |-> {}]

-----------------------------------------------------------------------------
PreviousCivilDate(day) == day - 1

\* planDailyCheckin: the streak goes on from the day before and from no other.
NewStreak(saw, day) ==
  IF saw.last = PreviousCivilDate(day) THEN saw.current + 1 ELSE 1

\* Mutant: nobody waits for the lock.
Reads_Unlocked(t) ==
  /\ tap[t].step = "waiting"
  /\ locked' = TRUE
  /\ tap' = [tap EXCEPT ![t] = [step |-> "read", day |-> today, saw |-> streak]]
  /\ UNCHANGED <<today, streak, rewards>>

\* The lock is granted, and one statement reads the row and the day.
Reads(t) ==
  /\ tap[t].step = "waiting" /\ ~locked
  /\ locked' = TRUE
  /\ tap' = [tap EXCEPT ![t] = [step |-> "read", day |-> today, saw |-> streak]]
  /\ UNCHANGED <<today, streak, rewards>>

\* A transaction ends and the lock with it; the same button may be tapped again.
Ends(t) ==
  /\ tap' = [tap EXCEPT ![t] = Waiting]
  /\ locked' = FALSE
  /\ UNCHANGED today

\* credit, ON CONFLICT (user_id, business_key) DO NOTHING.
Credited(days, day, granted) == IF granted THEN days \cup {day} ELSE days

\* Checked in already: the answer says so and nothing is written.
Repeats(t) ==
  /\ tap[t].step = "read" /\ tap[t].saw.last = tap[t].day
  /\ Ends(t)
  /\ UNCHANGED <<streak, rewards>>

\* The row is written over the one there is, and the rewards are credited.
ChecksIn(t) ==
  LET day == tap[t].day
      new == NewStreak(tap[t].saw, day)
  IN
  /\ tap[t].step = "read" /\ tap[t].saw.last # day
  /\ streak' = Row(day, new, IF streak.longest > new THEN streak.longest ELSE new)
  /\ rewards' = [daily |-> Credited(rewards.daily, day, TRUE),
                 short |-> Credited(rewards.short, day, new % Short = 0),
                 long |-> Credited(rewards.long, day, new % Long = 0)]
  /\ Ends(t)

\* An error or a lost connection rolls everything back.
Fails(t) ==
  /\ tap[t].step = "read"
  /\ Ends(t)
  /\ UNCHANGED <<streak, rewards>>

Midnight ==
  /\ today < MaxCivilDay
  /\ today' = today + 1
  /\ UNCHANGED <<tap, locked, streak, rewards>>

Next ==
  \/ \E t \in Taps : Reads(t) \/ Repeats(t) \/ ChecksIn(t) \/ Fails(t)
  \/ Midnight

Spec == Init /\ [][Next]_checkinVars

-----------------------------------------------------------------------------
(* Properties *)

\* The n days that end with d are days of a check-in, and the one before is not.
IsRun(d, n) == (d - n + 1 .. d) \subseteq rewards.daily /\ d - n \notin rewards.daily

\* The row tells the truth about the days the user has checked in on: the last
\* of them, the days in a row that end with it, the most there ever were in a
\* row; and the bonuses went to the days that completed a multiple, once each.
StreakIsTrue ==
  /\ \A d \in rewards.daily : d <= streak.last
  /\ rewards.daily # {} => /\ streak.last \in rewards.daily /\ IsRun(streak.last, streak.current)
                           /\ \E d \in rewards.daily : IsRun(d, streak.longest)
  /\ \A d \in rewards.daily, n \in 1..MaxCivilDay :
       IsRun(d, n) => /\ n <= streak.longest
                      /\ d \in rewards.short <=> n % Short = 0
                      /\ d \in rewards.long <=> n % Long = 0
  /\ rewards.short \cup rewards.long \subseteq rewards.daily
=============================================================================
