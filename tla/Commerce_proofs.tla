--------------------------- MODULE Commerce_proofs ---------------------------
(***************************************************************************)
(* Theorems about the daily check-in, the invitations and the wallet       *)
(* composed in Commerce, for every value of its constants.                 *)
(***************************************************************************)
EXTENDS Commerce, FiniteFacts

-----------------------------------------------------------------------------
(* The daily check-in: days in a row *)

Run(D, d, n) == (d - n + 1 .. d) \subseteq D /\ d - n \notin D

\* The days in a row that end with a day are one number.
LEMMA RunUnique ==
  ASSUME NEW D, NEW d \in Int, NEW n \in Nat, NEW m \in Nat, Run(D, d, n), Run(D, d, m)
  PROVE  n = m
<1>1. ASSUME NEW a \in Nat, NEW b \in Nat, Run(D, d, a), Run(D, d, b) PROVE ~(a < b)
  <2> SUFFICES ASSUME a < b PROVE FALSE
    OBVIOUS
  <2>1. d - a \in d - b + 1 .. d
    OBVIOUS
  <2> QED
    BY <1>1, <2>1 DEF Run
<1>2. ~(n < m) /\ ~(m < n)
  BY <1>1
<1> QED
  BY <1>2

\* A later day changes no run that had ended.
LEMMA RunKept ==
  ASSUME NEW D \in SUBSET Int, NEW now \in Int, NEW d \in Int, d < now, NEW n \in Nat
  PROVE  Run(D \cup {now}, d, n) <=> Run(D, d, n)
<1>1. \A x \in d - n + 1 .. d : x # now
  OBVIOUS
<1>2. d - n # now
  OBVIOUS
<1> QED
  BY <1>1, <1>2 DEF Run

\* The run that a new day ends.
LEMMA RunGrows ==
  ASSUME NEW D \in SUBSET Int, NEW now \in Int, \A x \in D : x < now,
         NEW n \in Nat, Run(D, now - 1, n)
  PROVE  Run(D \cup {now}, now, n + 1)
<1>1. \A x \in now - (n + 1) + 1 .. now : x = now \/ x \in (now - 1) - n + 1 .. now - 1
  OBVIOUS
<1>2. now - (n + 1) = (now - 1) - n /\ now - (n + 1) # now
  OBVIOUS
<1> QED
  BY <1>1, <1>2 DEF Run

LEMMA RunBegins ==
  ASSUME NEW D \in SUBSET Int, NEW now \in Int, now - 1 \notin D
  PROVE  Run(D \cup {now}, now, 1)
<1>1. \A x \in now - 1 + 1 .. now : x = now
  OBVIOUS
<1>2. now - 1 # now
  OBVIOUS
<1> QED
  BY <1>1, <1>2 DEF Run

-----------------------------------------------------------------------------
(* The daily check-in: the row and the days *)

StreakRows == [last : Int, current : Nat, longest : Nat]
TapRows == [step : {"waiting", "read"}, day : Int, saw : StreakRows]

LEMMA NotTheDayBefore ==
  ASSUME NEW a \in Int, NEW b \in Int, a < b, a # b - 1
  PROVE  ~(b - 1 <= a)
OBVIOUS

\* What the row says of a set of days and of the days that had a bonus.
RowTells(row, D, short, long) ==
  /\ D # {} => /\ row.last \in D /\ Run(D, row.last, row.current)
               /\ \E d \in D : Run(D, d, row.longest)
  /\ D = {} => row = CheckingIn!NoRow
  /\ \A d \in D : 1 <= d /\ d <= row.last
  /\ \A d \in D, n \in Nat \ {0} :
       Run(D, d, n) => /\ n <= row.longest
                       /\ d \in short <=> n % Short = 0
                       /\ d \in long <=> n % Long = 0
  /\ short \cup long \subseteq D

\* A transaction that has read holds the lock, and the row is still as it read it.
ReadIsFresh(t) ==
  tap[t].step = "read" =>
    /\ locked /\ tap[t].saw = streak /\ streak.last <= tap[t].day
    /\ 1 <= tap[t].day /\ tap[t].day <= civilDay

StreakInv ==
  /\ civilDay \in Nat /\ 1 <= civilDay
  /\ tap \in [Taps -> TapRows]
  /\ streak \in StreakRows /\ streak.last <= civilDay
  /\ checkedIn.daily \in SUBSET Nat
  /\ RowTells(streak, checkedIn.daily, checkedIn.short, checkedIn.long)
  /\ \A t \in Taps : ReadIsFresh(t)
  /\ \A t, u \in Taps : tap[t].step = "read" /\ tap[u].step = "read" => t = u

LEMMA InitStreak == Init => StreakInv
<1> SUFFICES ASSUME Init PROVE StreakInv
  OBVIOUS
<1>1. /\ civilDay = 1 /\ locked = FALSE /\ streak = CheckingIn!NoRow
      /\ tap = [t \in Taps |-> CheckingIn!Waiting]
      /\ checkedIn.daily = {} /\ checkedIn.short = {} /\ checkedIn.long = {}
  BY DEF Init, CheckingIn!Init
<1>2. CheckingIn!NoRow \in StreakRows /\ CheckingIn!NoRow.last = -1
  BY DEF CheckingIn!NoRow, CheckingIn!Row, CheckingIn!NoDay, StreakRows
<1>3. CheckingIn!Waiting \in TapRows /\ CheckingIn!Waiting.step = "waiting"
  BY <1>2 DEF CheckingIn!Waiting, TapRows, CheckingIn!NoDay
<1>4. RowTells(streak, checkedIn.daily, checkedIn.short, checkedIn.long)
  BY <1>1 DEF RowTells
<1> QED
  BY <1>1, <1>2, <1>3, <1>4 DEF StreakInv, ReadIsFresh

\* The row that a new day writes tells the truth about the days with it.
NewRow(row, d) ==
  LET n == CheckingIn!NewStreak(row, d)
  IN CheckingIn!Row(d, n, IF row.longest > n THEN row.longest ELSE n)

LEMMA NewDayTells ==
  ASSUME NEW row \in StreakRows, NEW D \in SUBSET Nat, NEW short, NEW long,
         RowTells(row, D, short, long), NEW now \in Nat, 1 <= now,
         row.last <= now, row.last # now
  PROVE  /\ NewRow(row, now) \in StreakRows /\ NewRow(row, now).last = now
         /\ RowTells(NewRow(row, now), D \cup {now},
              CheckingIn!Credited(short, now, CheckingIn!NewStreak(row, now) % Short = 0),
              CheckingIn!Credited(long, now, CheckingIn!NewStreak(row, now) % Long = 0))
<1> DEFINE count == CheckingIn!NewStreak(row, now)
           row2 == NewRow(row, now)
<1>0. /\ row2 \in StreakRows /\ row2.last = now /\ row2.current = count
      /\ row2.longest = (IF row.longest > count THEN row.longest ELSE count)
      /\ count = IF row.last = now - 1 THEN row.current + 1 ELSE 1
  <2>1. /\ count = IF row.last = now - 1 THEN row.current + 1 ELSE 1
        /\ count \in Nat /\ row.longest \in Nat
    BY DEF CheckingIn!NewStreak, CheckingIn!PreviousCivilDate, StreakRows
  <2>2. row2 = CheckingIn!Row(now, count, IF row.longest > count THEN row.longest ELSE count)
    BY DEF NewRow
  <2> HIDE DEF count, row2
  <2> QED
    BY <2>1, <2>2 DEF CheckingIn!Row, StreakRows
<1> HIDE DEF count, row2
<1> DEFINE E == D \cup {now}
           short2 == CheckingIn!Credited(short, now, count % Short = 0)
           long2 == CheckingIn!Credited(long, now, count % Long = 0)
<1>1. /\ row.last \in Int /\ row.current \in Nat /\ row.longest \in Nat
      /\ row.last < now
  BY DEF StreakRows
<1>2. \A x \in D : 1 <= x /\ x <= row.last /\ x < now
  BY <1>1 DEF RowTells
<1>3. now \notin D
  BY <1>2
<1>4. count \in Nat \ {0} /\ Run(E, now, count)
  <2>1. CASE row.last = now - 1
    <3>1. D # {}
      BY <2>1 DEF RowTells, CheckingIn!NoRow, CheckingIn!Row, CheckingIn!NoDay
    <3>2. Run(D, now - 1, row.current)
      BY <2>1, <3>1 DEF RowTells
    <3>3. count = row.current + 1
      BY <1>0, <2>1
    <3> QED
      BY <1>1, <1>2, <3>2, <3>3, RunGrows
  <2>2. CASE row.last # now - 1
    <3>1. now - 1 \notin D
      <4>1. ~(now - 1 <= row.last)
        BY <1>1, <2>2, NotTheDayBefore
      <4> QED
        BY <1>2, <4>1
    <3>2. count = 1
      BY <1>0, <2>2
    <3> QED
      BY <3>1, <3>2, RunBegins
  <2> QED
    BY <2>1, <2>2
<1>5. \A n \in Nat : Run(E, now, n) => n = count
  BY <1>4, RunUnique
<1>6. \A d \in D, n \in Nat : Run(E, d, n) <=> Run(D, d, n)
  BY <1>2, RunKept
<1>7. /\ row2.longest \in Nat /\ row.longest <= row2.longest /\ count <= row2.longest
  BY <1>0, <1>1, <1>4
<1>8. \A d \in D : (d \in short2 <=> d \in short) /\ (d \in long2 <=> d \in long)
  BY <1>3 DEF CheckingIn!Credited
<1>9. now \notin short /\ now \notin long /\ short \subseteq D /\ long \subseteq D
  BY <1>3 DEF RowTells
<1>10. (now \in short2 <=> count % Short = 0) /\ (now \in long2 <=> count % Long = 0)
  BY <1>9 DEF CheckingIn!Credited
<1>11. short2 \cup long2 \subseteq E
  BY <1>9 DEF CheckingIn!Credited
<1> HIDE DEF short2, long2
<1>12. \E d \in E : Run(E, d, row2.longest)
  <2>1. CASE row.longest > count
    <3>1. D # {}
      BY <1>4, <2>1 DEF RowTells, CheckingIn!NoRow, CheckingIn!Row
    <3>2. PICK d \in D : Run(D, d, row.longest)
      BY <3>1 DEF RowTells
    <3> QED
      BY <1>0, <1>1, <1>6, <2>1, <3>2
  <2>2. CASE ~(row.longest > count)
    BY <1>0, <1>4, <2>2
  <2> QED
    BY <2>1, <2>2
<1>13. ASSUME NEW d \in E, NEW n \in Nat \ {0}, Run(E, d, n)
       PROVE  /\ n <= row2.longest
              /\ d \in short2 <=> n % Short = 0
              /\ d \in long2 <=> n % Long = 0
  <2>1. CASE d = now
    BY <1>5, <1>7, <1>10, <1>13, <2>1
  <2>2. CASE d \in D
    <3>1. Run(D, d, n)
      BY <1>6, <1>13, <2>2
    <3>2. /\ n <= row.longest
          /\ d \in short <=> n % Short = 0
          /\ d \in long <=> n % Long = 0
      BY <2>2, <3>1 DEF RowTells
    <3> QED
      BY <1>1, <1>7, <1>8, <2>2, <3>2
  <2> QED
    BY <2>1, <2>2
<1>14. \A d \in E : 1 <= d /\ d <= row2.last
  BY <1>0, <1>2
<1>15. row2.last \in E /\ Run(E, row2.last, row2.current) /\ E # {}
  BY <1>0, <1>4
<1> HIDE DEF E
<1>16. RowTells(row2, E, short2, long2)
  BY <1>11, <1>12, <1>13, <1>14, <1>15 DEF RowTells
<1> QED
  BY <1>0, <1>16 DEF E, short2, long2, count, row2

LEMMA StepStreak ==
  ASSUME StreakInv, CheckingIn!Next \/ UNCHANGED checkinPart
  PROVE  StreakInv'
<1> USE CommerceAssumption
<1>1. CASE UNCHANGED checkinPart
  BY <1>1 DEF checkinPart, StreakInv, ReadIsFresh, RowTells, Run
<1>2. CASE CheckingIn!Midnight
  <2>1. /\ civilDay' = civilDay + 1
        /\ UNCHANGED <<tap, locked, streak, checkedIn>>
    BY <1>2 DEF CheckingIn!Midnight
  <2>2. \A t \in Taps : ReadIsFresh(t)'
    BY <2>1 DEF StreakInv, ReadIsFresh, TapRows
  <2>3. streak.last <= civilDay'
    BY <2>1 DEF StreakInv, StreakRows
  <2> QED
    BY <2>1, <2>2, <2>3 DEF StreakInv
<1>3. ASSUME NEW t \in Taps, CheckingIn!Reads(t) PROVE StreakInv'
  <2> DEFINE read == [step |-> "read", day |-> civilDay, saw |-> streak]
  <2>1. /\ tap' = [tap EXCEPT ![t] = read] /\ locked' = TRUE /\ ~locked
        /\ UNCHANGED <<civilDay, streak, checkedIn>>
    BY <1>3 DEF CheckingIn!Reads
  <2>2. read \in TapRows /\ read.day = civilDay /\ read.saw = streak
    BY DEF StreakInv, TapRows
  <2> HIDE DEF read
  <2>3. tap' \in [Taps -> TapRows] /\ tap'[t] = read /\ \A u \in Taps \ {t} : tap'[u] = tap[u]
    BY <2>1, <2>2 DEF StreakInv
  <2>4. \A u \in Taps : tap[u].step # "read"
    BY <2>1 DEF StreakInv, ReadIsFresh
  <2>5. \A u \in Taps : ReadIsFresh(u)'
    BY <2>1, <2>2, <2>3, <2>4 DEF StreakInv, ReadIsFresh
  <2> QED
    BY <2>1, <2>3, <2>4, <2>5 DEF StreakInv
\* Whatever a transaction did, it gives the lock back.
<1>4. ASSUME NEW t \in Taps, tap[t].step = "read", CheckingIn!Ends(t),
             streak' \in StreakRows, streak'.last <= civilDay,
             checkedIn'.daily \in SUBSET Nat,
             RowTells(streak', checkedIn'.daily, checkedIn'.short, checkedIn'.long)
      PROVE  StreakInv'
  <2>1. tap' = [tap EXCEPT ![t] = CheckingIn!Waiting] /\ civilDay' = civilDay
    BY <1>4 DEF CheckingIn!Ends
  <2>2. CheckingIn!Waiting \in TapRows /\ CheckingIn!Waiting.step = "waiting"
    BY DEF CheckingIn!Waiting, CheckingIn!NoRow, CheckingIn!Row, CheckingIn!NoDay, TapRows, StreakRows
  <2>3. /\ tap' \in [Taps -> TapRows] /\ tap'[t].step = "waiting"
        /\ \A u \in Taps \ {t} : tap'[u] = tap[u]
    BY <2>1, <2>2 DEF StreakInv
  <2>4. \A u \in Taps : tap'[u].step # "read"
    BY <1>4, <2>3 DEF StreakInv
  <2> QED
    BY <1>4, <2>1, <2>3, <2>4 DEF StreakInv, ReadIsFresh
<1>5. ASSUME NEW t \in Taps, CheckingIn!Repeats(t) \/ CheckingIn!Fails(t) PROVE StreakInv'
  <2>1. tap[t].step = "read" /\ CheckingIn!Ends(t) /\ UNCHANGED <<streak, checkedIn>>
    BY <1>5 DEF CheckingIn!Repeats, CheckingIn!Fails
  <2> QED
    BY <1>4, <2>1 DEF StreakInv
<1>6. ASSUME NEW t \in Taps, CheckingIn!ChecksIn(t) PROVE StreakInv'
  <2> DEFINE now == tap[t].day
             count == CheckingIn!NewStreak(streak, now)
             D == checkedIn.daily
  <2>1. tap[t].step = "read" /\ CheckingIn!Ends(t) /\ tap[t].saw.last # now
    BY <1>6 DEF CheckingIn!ChecksIn
  <2>2. /\ tap[t].saw = streak /\ streak.last <= now /\ streak.last # now
        /\ 1 <= now /\ now <= civilDay
    BY <2>1 DEF StreakInv, ReadIsFresh
  <2>3. /\ streak' = NewRow(streak, now)
        /\ checkedIn' = [daily |-> CheckingIn!Credited(D, now, TRUE),
                         short |-> CheckingIn!Credited(checkedIn.short, now, count % Short = 0),
                         long |-> CheckingIn!Credited(checkedIn.long, now, count % Long = 0)]
    BY <1>6, <2>2 DEF CheckingIn!ChecksIn, NewRow
  <2>4. now \in Nat
    BY <2>1, <2>2 DEF StreakInv, TapRows
  <2>7. /\ checkedIn'.daily = D \cup {now}
        /\ checkedIn'.short = CheckingIn!Credited(checkedIn.short, now, count % Short = 0)
        /\ checkedIn'.long = CheckingIn!Credited(checkedIn.long, now, count % Long = 0)
    BY <2>3 DEF CheckingIn!Credited
  <2>8. streak \in StreakRows /\ D \in SUBSET Nat /\ RowTells(streak, D, checkedIn.short, checkedIn.long)
    BY DEF StreakInv
  <2> HIDE DEF now, D
  <2>9. /\ NewRow(streak, now) \in StreakRows /\ NewRow(streak, now).last = now
        /\ RowTells(NewRow(streak, now), D \cup {now},
                    CheckingIn!Credited(checkedIn.short, now, count % Short = 0),
                    CheckingIn!Credited(checkedIn.long, now, count % Long = 0))
    BY ZenonT(60), <2>2, <2>4, <2>8, NewDayTells
  <2>10. D \cup {now} \in SUBSET Nat
    BY <2>4, <2>8
  <2> QED
    BY <1>4, <2>1, <2>2, <2>3, <2>7, <2>9, <2>10
<1> QED
  BY <1>1, <1>2, <1>3, <1>5, <1>6 DEF CheckingIn!Next

LEMMA StreakTrue == StreakInv => CheckingIn!StreakIsTrue
<1> SUFFICES ASSUME StreakInv PROVE CheckingIn!StreakIsTrue
  OBVIOUS
<1> USE DEF StreakInv, RowTells, Run
<1>1. \A d \in checkedIn.daily : d <= streak.last
  OBVIOUS
<1>2. checkedIn.daily # {} => /\ streak.last \in checkedIn.daily
                             /\ CheckingIn!IsRun(streak.last, streak.current)
                             /\ \E d \in checkedIn.daily : CheckingIn!IsRun(d, streak.longest)
  BY DEF CheckingIn!IsRun
<1>3. ASSUME NEW d \in checkedIn.daily, NEW n \in 1..MaxCivilDay, CheckingIn!IsRun(d, n)
      PROVE  /\ n <= streak.longest
             /\ d \in checkedIn.short <=> n % Short = 0
             /\ d \in checkedIn.long <=> n % Long = 0
  <2>1. n \in Nat \ {0}
    BY CommerceAssumption
  <2> QED
    BY <1>3, <2>1 DEF CheckingIn!IsRun
<1>4. checkedIn.short \cup checkedIn.long \subseteq checkedIn.daily
  OBVIOUS
<1> QED
  BY <1>1, <1>2, <1>3, <1>4 DEF CheckingIn!StreakIsTrue

-----------------------------------------------------------------------------
(* Invitations *)

LinkRows == [creator : People, invite : BOOLEAN]
TraceRows == [link : LinkRows, who : Newcomers, action : {"opened", "registered"}, day : Nat]
VisitRows == [to : People \cup {Inviting!Nobody}, who : Newcomers, day : Nat, seen : Nat, nth : Nat]

\* Whom a check-in decided to pay was the inviter of the latest acceptance that still counted,
\* and none that counts now and was there to be seen is later.
Won(r) ==
  \E m \in Inviting!Earning(r) :
    /\ m <= r.seen /\ r.day - Window < trail[m].day /\ trail[m].day <= r.day
    /\ \A i \in Inviting!InvitesOf(r.who) : i <= r.seen => i <= m

\* What a reward that somebody earns by a newcomer whom p was paid for rests on.
NotTwice(p, r) ==
  r.to = p.to \/ p.to \in gone \/ \E i \in Inviting!Earning(r) : i > p.seen

ReferralTables ==
  /\ day \in Nat
  /\ links \in SUBSET LinkRows
  /\ trail \in Seq(TraceRows)
  /\ accepting \in [Newcomers -> LinkRows \cup {Inviting!NoLink}]
  /\ visits \in [Newcomers -> Nat]
  /\ visiting \in [Newcomers -> VisitRows \cup {Inviting!Idle}]
  /\ rewarded \in SUBSET VisitRows

\* Traces are in the order of time.
TrailInv ==
  /\ \A i \in DOMAIN trail : trail[i].day <= day
  /\ \A i, j \in DOMAIN trail : i <= j => trail[i].day <= trail[j].day

VisitInv ==
  \A u \in Newcomers : visiting[u] # Inviting!Idle =>
    /\ visiting[u].who = u /\ visiting[u].nth = visits[u]
    /\ visiting[u].seen <= Len(trail) /\ visiting[u].day <= day
    /\ visiting[u].to # Inviting!Nobody => /\ visiting[u].to # u /\ Won(visiting[u])
                                           /\ \A p \in rewarded : p.who = u => NotTwice(p, visiting[u])

RewardedInv ==
  /\ \A p \in rewarded : /\ p.to # Inviting!Nobody /\ p.to # p.who /\ p.seen <= Len(trail)
                          /\ p.day <= day /\ p.nth < visits[p.who] /\ Won(p)
  /\ \A p, q \in rewarded : q.to = p.to /\ q.who = p.who => q = p
  /\ \A p, q \in rewarded : p.who = q.who /\ p.nth < q.nth =>
        p.to \in gone \/ \E i \in Inviting!Earning(q) : i > p.seen

ReferralInv == ReferralTables /\ TrailInv /\ VisitInv /\ RewardedInv

LEMMA InitReferral == Init => ReferralInv
<1> SUFFICES ASSUME Init PROVE ReferralInv
  OBVIOUS
<1> USE DEF Init, Inviting!Init
<1>1. ReferralTables
  BY DEF ReferralTables
<1>2. TrailInv
  BY DEF TrailInv
<1>3. VisitInv /\ RewardedInv
  BY DEF VisitInv, RewardedInv
<1> QED
  BY <1>1, <1>2, <1>3 DEF ReferralInv

\* Later days, deleted accounts and longer trails: what earned a reward stays, and nothing that
\* had stopped counting counts again.
Later ==
  /\ day <= day' /\ day' \in Nat /\ gone \subseteq gone' /\ trail' \in Seq(TraceRows)
  /\ Len(trail) <= Len(trail') /\ \A i \in DOMAIN trail : trail'[i] = trail[i]

LEMMA EarningStays ==
  ASSUME ReferralTables, Later, NEW r
  PROVE  Inviting!Earning(r) \subseteq Inviting!Earning(r)'
<1>1. DOMAIN trail \subseteq DOMAIN trail'
  BY DEF ReferralTables, Later
<1> QED
  BY <1>1 DEF Later, Inviting!Earning

LEMMA InvitesShrink ==
  ASSUME ReferralTables, Later, NEW u, NEW i \in Inviting!InvitesOf(u)', i <= Len(trail)
  PROVE  i \in Inviting!InvitesOf(u)
<1>1. i \in DOMAIN trail /\ trail'[i] = trail[i]
  BY DEF ReferralTables, Later, Inviting!InvitesOf
<1>2. /\ trail[i].who = u /\ trail[i].action = "registered" /\ trail[i].link.invite
      /\ trail[i].link.creator \notin gone \cup {u}
  BY <1>1 DEF Inviting!InvitesOf, Later
<1>3. trail[i].day > day - Window
  <2>1. trail[i].day > day' - Window
    BY <1>1 DEF Inviting!InvitesOf
  <2>2. trail[i].day \in Nat
    <3>1. trail[i] \in TraceRows
      BY <1>1 DEF ReferralTables
    <3> QED
      BY <3>1 DEF TraceRows
  <2> QED
    BY <2>1, <2>2, CommerceAssumption DEF Later, ReferralTables
<1> QED
  BY <1>1, <1>2, <1>3 DEF Inviting!InvitesOf

LEMMA WonStays ==
  ASSUME ReferralTables, Later, NEW r, r.seen \in Nat, r.seen <= Len(trail), Won(r)
  PROVE  Won(r)'
<1>1. PICK m \in Inviting!Earning(r) :
        /\ m <= r.seen /\ r.day - Window < trail[m].day /\ trail[m].day <= r.day
        /\ \A i \in Inviting!InvitesOf(r.who) : i <= r.seen => i <= m
  BY DEF Won
<1>2. m \in Inviting!Earning(r)' /\ m \in DOMAIN trail /\ trail'[m] = trail[m]
  BY <1>1, EarningStays DEF Later, Inviting!Earning
<1>3. ASSUME NEW i \in Inviting!InvitesOf(r.who)', i <= r.seen PROVE i <= m
  <2>1. i <= Len(trail)
    BY <1>3 DEF Later, ReferralTables, Inviting!InvitesOf
  <2> QED
    BY <1>1, <1>3, <2>1, InvitesShrink
<1> QED
  BY <1>1, <1>2, <1>3 DEF Won

LEMMA NotTwiceStays ==
  ASSUME ReferralTables, Later, NEW p, NEW r, NotTwice(p, r)
  PROVE  NotTwice(p, r)'
BY EarningStays DEF NotTwice, Later

LEMMA VisitsStay ==
  ASSUME ReferralInv, Later, UNCHANGED <<visits, visiting, rewarded>>
  PROVE  VisitInv'
<1> SUFFICES ASSUME NEW u \in Newcomers, visiting[u] # Inviting!Idle
             PROVE  /\ visiting[u].who = u /\ visiting[u].nth = visits[u]
                    /\ visiting[u].seen <= Len(trail)' /\ visiting[u].day <= day'
                    /\ visiting[u].to # Inviting!Nobody =>
                         /\ visiting[u].to # u /\ Won(visiting[u])'
                         /\ \A p \in rewarded : p.who = u => NotTwice(p, visiting[u])'
  BY DEF VisitInv
<1>1. PICK r \in VisitRows : r = visiting[u]
  BY DEF ReferralInv, ReferralTables
<1>2. /\ r.who = u /\ r.nth = visits[u] /\ r.seen <= Len(trail) /\ r.day <= day
      /\ r.to # Inviting!Nobody => /\ r.to # u /\ Won(r)
                                  /\ \A p \in rewarded : p.who = u => NotTwice(p, r)
  BY <1>1 DEF ReferralInv, VisitInv
<1>3. r.seen \in Nat /\ r.day \in Nat
  BY <1>1 DEF VisitRows
<1>4. r.seen <= Len(trail)' /\ r.day <= day'
  BY <1>2, <1>3 DEF Later, ReferralInv, ReferralTables
<1>5. r.to # Inviting!Nobody =>
        Won(r)' /\ \A p \in rewarded : p.who = u => NotTwice(p, r)'
  BY <1>2, <1>3, WonStays, NotTwiceStays DEF ReferralInv
<1> QED
  BY <1>1, <1>2, <1>4, <1>5

LEMMA RewardedStays ==
  ASSUME ReferralInv, Later, UNCHANGED rewarded, \A u \in Newcomers : visits'[u] \in Nat /\ visits[u] <= visits'[u]
  PROVE  RewardedInv'
<1>1. ASSUME NEW p \in rewarded
      PROVE  /\ p.to # Inviting!Nobody /\ p.to # p.who /\ p.seen <= Len(trail)'
             /\ p.day <= day' /\ p.nth < visits'[p.who] /\ Won(p)'
  <2>1. p.who \in Newcomers /\ p.seen \in Nat /\ p.day \in Nat /\ p.nth \in Nat
    BY DEF ReferralInv, ReferralTables, VisitRows
  <2>2. /\ p.to # Inviting!Nobody /\ p.to # p.who /\ p.seen <= Len(trail)
        /\ p.day <= day /\ p.nth < visits[p.who] /\ Won(p)
    BY DEF ReferralInv, RewardedInv
  <2>3. visits[p.who] \in Nat /\ visits'[p.who] \in Nat /\ visits[p.who] <= visits'[p.who]
    BY <2>1 DEF ReferralInv, ReferralTables
  <2>4. p.seen <= Len(trail)' /\ p.day <= day'
    BY <2>1, <2>2 DEF Later, ReferralInv, ReferralTables
  <2>5. Won(p)'
    BY <2>1, <2>2, WonStays DEF ReferralInv
  <2> QED
    BY <2>1, <2>2, <2>3, <2>4, <2>5
<1>2. ASSUME NEW p \in rewarded, NEW q \in rewarded, p.who = q.who, p.nth < q.nth
      PROVE  p.to \in gone' \/ \E i \in Inviting!Earning(q)' : i > p.seen
  BY <1>2, EarningStays DEF ReferralInv, RewardedInv, Later
<1> QED
  BY <1>1, <1>2 DEF ReferralInv, RewardedInv

\* A trace is added, at the end and of today.
LEMMA TraceAdded ==
  ASSUME ReferralInv, NEW link \in LinkRows, NEW u \in Newcomers, NEW a \in {"opened", "registered"},
         trail' = Append(trail, Inviting!Attribution(link, u, a)), UNCHANGED <<day, gone>>
  PROVE  TrailInv' /\ Later
<1> DEFINE new1 == Inviting!Attribution(link, u, a)
<1>1. new1 \in TraceRows /\ new1.day = day
  BY DEF Inviting!Attribution, TraceRows, ReferralInv, ReferralTables
<1> HIDE DEF new1
<1>2. trail \in Seq(TraceRows) /\ trail' = Append(trail, new1) /\ day \in Nat
  BY DEF new1, ReferralInv, ReferralTables
<1>3. /\ trail' \in Seq(TraceRows) /\ Len(trail') = Len(trail) + 1 /\ Len(trail) \in Nat
      /\ \A i \in DOMAIN trail : trail'[i] = trail[i]
      /\ trail'[Len(trail) + 1] = new1
      /\ DOMAIN trail = 1..Len(trail) /\ DOMAIN trail' = 1..(Len(trail) + 1)
  BY <1>1, <1>2
<1>4. Later
  BY <1>2, <1>3 DEF Later
<1>5. ASSUME NEW i \in DOMAIN trail' PROVE trail'[i].day <= day
  <2>1. CASE i \in DOMAIN trail
    BY <1>3, <2>1 DEF ReferralInv, TrailInv
  <2>2. CASE i = Len(trail) + 1
    BY <1>1, <1>2, <1>3, <2>2
  <2> QED
    BY <1>3, <2>1, <2>2
<1>6. ASSUME NEW i \in DOMAIN trail', NEW j \in DOMAIN trail', i <= j
      PROVE  trail'[i].day <= trail'[j].day
  <2>1. CASE j = Len(trail) + 1
    BY <1>1, <1>3, <1>5, <2>1
  <2>2. CASE j \in DOMAIN trail
    <3>1. i \in DOMAIN trail
      BY <1>3, <1>6, <2>2
    <3> QED
      BY <1>3, <1>6, <2>2, <3>1 DEF ReferralInv, TrailInv
  <2> QED
    BY <1>3, <2>1, <2>2
<1> QED
  BY <1>4, <1>5, <1>6 DEF TrailInv

\* Steps that neither decide about a reward nor commit a check-in.
LEMMA QuietReferral ==
  ASSUME ReferralInv, UNCHANGED <<visits, visiting, rewarded>>, ReferralTables', TrailInv', Later
  PROVE  ReferralInv'
<1>1. VisitInv'
  BY VisitsStay
<1>2. RewardedInv'
  <2>1. \A u \in Newcomers : visits'[u] \in Nat /\ visits[u] <= visits'[u]
    BY DEF ReferralInv, ReferralTables
  <2> QED
    BY <2>1, RewardedStays
<1> QED
  BY <1>1, <1>2 DEF ReferralInv

LEMMA QuietSteps ==
  ASSUME ReferralInv,
         \/ \E u \in People, purpose \in {"share", "invite"}, campaign \in {"none", "invite"} :
              Inviting!CreateShare(u, purpose, campaign)
         \/ \E link \in links, u \in Newcomers : Inviting!Open(link, u)
         \/ \E u \in Newcomers, link \in links : Inviting!BeginAcceptance(u, link)
         \/ \E u \in Newcomers : Inviting!RecordAcceptance(u)
         \/ \E u \in People : Inviting!Leave(u)
         \/ Inviting!NextDay
  PROVE  ReferralInv'
<1>1. ASSUME NEW u \in People, NEW purpose, NEW campaign, Inviting!CreateShare(u, purpose, campaign)
      PROVE  ReferralInv'
  <2>1. /\ links' = links \cup {Inviting!Link(u, purpose = "invite" \/ campaign = "invite")}
        /\ UNCHANGED <<day, gone, trail, accepting, visits, visiting, rewarded>>
    BY <1>1 DEF Inviting!CreateShare
  <2>2. Inviting!Link(u, purpose = "invite" \/ campaign = "invite") \in LinkRows
    BY DEF Inviting!Link, LinkRows
  <2>3. ReferralTables'
    BY <2>1, <2>2 DEF ReferralInv, ReferralTables
  <2>4. TrailInv' /\ Later
    BY <2>1 DEF ReferralInv, ReferralTables, TrailInv, Later
  <2> QED
    BY <2>1, <2>3, <2>4, QuietReferral
<1>2. ASSUME NEW link \in links, NEW u \in Newcomers, Inviting!Open(link, u) PROVE ReferralInv'
  <2>1. /\ trail' = Append(trail, Inviting!Attribution(link, u, "opened"))
        /\ UNCHANGED <<day, gone, links, accepting, visits, visiting, rewarded>>
    BY <1>2 DEF Inviting!Open
  <2>2. link \in LinkRows
    BY DEF ReferralInv, ReferralTables
  <2>3. TrailInv' /\ Later
    BY <2>1, <2>2, TraceAdded
  <2>4. ReferralTables'
    BY <2>1, <2>3 DEF ReferralInv, ReferralTables, Later
  <2> QED
    BY <2>1, <2>3, <2>4, QuietReferral
<1>3. ASSUME NEW u \in Newcomers, NEW link \in links, Inviting!BeginAcceptance(u, link) PROVE ReferralInv'
  <2>1. /\ accepting' = [accepting EXCEPT ![u] = link]
        /\ UNCHANGED <<day, gone, links, trail, visits, visiting, rewarded>>
    BY <1>3 DEF Inviting!BeginAcceptance
  <2>2. ReferralTables'
    BY <2>1 DEF ReferralInv, ReferralTables
  <2>3. TrailInv' /\ Later
    BY <2>1 DEF ReferralInv, ReferralTables, TrailInv, Later
  <2> QED
    BY <2>1, <2>2, <2>3, QuietReferral
<1>4. ASSUME NEW u \in Newcomers, Inviting!RecordAcceptance(u) PROVE ReferralInv'
  <2>1. /\ accepting[u] # Inviting!NoLink
        /\ trail' = Append(trail, Inviting!Attribution(accepting[u], u, "registered"))
        /\ accepting' = [accepting EXCEPT ![u] = Inviting!NoLink]
        /\ UNCHANGED <<day, gone, links, visits, visiting, rewarded>>
    BY <1>4 DEF Inviting!RecordAcceptance
  <2>2. accepting[u] \in LinkRows
    BY <2>1 DEF ReferralInv, ReferralTables
  <2>3. TrailInv' /\ Later
    BY <2>1, <2>2, TraceAdded
  <2>4. ReferralTables'
    BY <2>1, <2>3 DEF ReferralInv, ReferralTables, Later
  <2> QED
    BY <2>1, <2>3, <2>4, QuietReferral
<1>5. ASSUME NEW u \in People, Inviting!Leave(u) PROVE ReferralInv'
  <2>1. gone' = gone \cup {u} /\ UNCHANGED <<day, links, trail, accepting, visits, visiting, rewarded>>
    BY <1>5 DEF Inviting!Leave
  <2>2. ReferralTables' /\ TrailInv' /\ Later
    BY <2>1 DEF ReferralInv, ReferralTables, TrailInv, Later
  <2> QED
    BY <2>1, <2>2, QuietReferral
<1>6. CASE Inviting!NextDay
  <2>1. day' = day + 1 /\ UNCHANGED <<gone, links, trail, accepting, visits, visiting, rewarded>>
    BY <1>6 DEF Inviting!NextDay
  <2>2. ReferralTables' /\ Later
    BY <2>1 DEF ReferralInv, ReferralTables, Later
  <2>3. ASSUME NEW i \in DOMAIN trail PROVE trail[i].day \in Nat
    <3>1. trail[i] \in TraceRows
      BY DEF ReferralInv, ReferralTables
    <3> QED
      BY <3>1 DEF TraceRows
  <2>4. TrailInv'
    BY <2>1, <2>3 DEF ReferralInv, ReferralTables, TrailInv
  <2> QED
    BY <2>1, <2>2, <2>4, QuietReferral
<1> QED
  BY <1>1, <1>2, <1>3, <1>4, <1>5, <1>6

LEMMA LatestInvite ==
  ASSUME ReferralTables, NEW u, Inviting!InvitesOf(u) # {}
  PROVE  /\ Inviting!InvitesOf(u) \in SUBSET Nat
         /\ Inviting!Max(Inviting!InvitesOf(u)) \in Inviting!InvitesOf(u)
         /\ \A i \in Inviting!InvitesOf(u) : i <= Inviting!Max(Inviting!InvitesOf(u))
<1> DEFINE S == Inviting!InvitesOf(u)
           n == Len(trail)
<1>1. DOMAIN trail = 1..n /\ n \in Nat
  BY DEF ReferralTables
<1>2. S \in SUBSET (1..n)
  BY <1>1 DEF Inviting!InvitesOf
<1> HIDE DEF S, n
<1>3. S # {}
  BY DEF S
<1>4. IsFiniteSet(1..n)
  BY <1>1, FS_Interval
<1>5. IsFiniteSet(S)
  BY <1>2, <1>4, FS_Subset
<1>6. S \in SUBSET Nat
  BY <1>1, <1>2
<1>7. \E x \in S : \A y \in S : x >= y
  BY <1>3, <1>5, <1>6, GreatestExists
<1>8. Inviting!Max(S) \in S /\ \A y \in S : Inviting!Max(S) >= y
  BY <1>7 DEF Inviting!Max
<1>9. \A y \in S : y <= Inviting!Max(S)
  BY <1>6, <1>8
<1> QED
  BY <1>6, <1>8, <1>9 DEF S

\* What a check-in decides to pay has been won, and not by a newcomer whom somebody was paid for,
\* unless there is a gap.
LEMMA InviterWon ==
  ASSUME ReferralInv, NEW u \in Newcomers, NEW r \in VisitRows,
         r.to = Inviting!Inviter(u), r.to # Inviting!Nobody,
         r.who = u, r.day = day, r.seen = Len(trail)
  PROVE  /\ r.to \in People /\ r.to # u /\ Won(r)
         /\ \A p \in rewarded : p.who = u => NotTwice(p, r)
<1> DEFINE S == Inviting!InvitesOf(u)
<1>1. S # {}
  BY DEF Inviting!Inviter
<1>2. ReferralTables /\ S \in SUBSET Nat
  BY <1>1, LatestInvite DEF ReferralInv
<1>3. PICK m \in S : m = Inviting!Max(S) /\ \A i \in S : i <= m
  BY <1>1, <1>2, LatestInvite
<1>4. r.to = trail[m].link.creator
  BY SMTT(30), <1>1, <1>3 DEF Inviting!Inviter
<1>5. /\ m \in DOMAIN trail /\ m <= Len(trail) /\ trail[m].who = u /\ trail[m].action = "registered"
      /\ trail[m].link.invite /\ r.to \notin gone /\ r.to # u /\ day - Window < trail[m].day
  <2>1. m \in DOMAIN trail /\ m <= Len(trail)
    BY <1>3 DEF Inviting!InvitesOf, ReferralInv, ReferralTables
  <2>2. trail[m].day \in Nat /\ day \in Nat
    <3>1. trail[m] \in TraceRows
      BY SMTT(30), <2>1 DEF ReferralInv, ReferralTables
    <3> QED
      BY <3>1 DEF TraceRows, ReferralInv, ReferralTables
  <2>3. trail[m].day > day - Window
    BY <1>3 DEF Inviting!InvitesOf
  <2>4. day - Window < trail[m].day
    BY <2>2, <2>3, CommerceAssumption
  <2> QED
    BY ZenonT(60), <1>3, <1>4, <2>1, <2>4 DEF Inviting!InvitesOf
<1>6. trail[m].link = Inviting!Link(r.to, TRUE) /\ r.to \in People
  <2>1. trail[m].link \in LinkRows
    <3>1. trail[m] \in TraceRows
      BY <1>5 DEF ReferralInv, ReferralTables
    <3> QED
      BY <3>1 DEF TraceRows
  <2> QED
    BY <1>4, <1>5, <2>1 DEF LinkRows, Inviting!Link
<1>7. m \in Inviting!Earning(r)
  BY <1>5, <1>6 DEF Inviting!Earning
<1>8. trail[m].day <= day
  BY <1>5 DEF ReferralInv, TrailInv
<1>9. Won(r)
  BY <1>3, <1>5, <1>7, <1>8 DEF Won
<1>10. ASSUME NEW p \in rewarded, p.who = u PROVE NotTwice(p, r)
  <2> SUFFICES ASSUME p.to \notin gone, ~(m > p.seen) PROVE r.to = p.to
    BY <1>7 DEF NotTwice
  <2>1. PICK k \in Inviting!Earning(p) :
          /\ k <= p.seen
          /\ \A i \in Inviting!InvitesOf(u) : i <= p.seen => i <= k
    BY <1>10 DEF ReferralInv, RewardedInv, Won
  <2>2. p.seen \in Nat /\ m \in Nat /\ k \in Nat /\ p.to # u
    BY <1>2, <1>3, <1>10, <2>1 DEF ReferralInv, ReferralTables, RewardedInv, VisitRows, Inviting!Earning
  <2>3. m <= k
    BY <1>3, <2>1, <2>2
  <2>4. /\ k \in DOMAIN trail /\ trail[k].who = u /\ trail[k].action = "registered"
        /\ trail[k].link.invite /\ trail[k].link.creator = p.to
    BY <1>10, <2>1 DEF Inviting!Earning, Inviting!Link
  <2>5. trail[m].day <= trail[k].day
    BY <1>5, <2>3, <2>4 DEF ReferralInv, TrailInv
  <2>6. trail[k].day > day - Window
    <3>1. trail[m] \in TraceRows /\ trail[k] \in TraceRows
      BY <1>5, <2>4 DEF ReferralInv, ReferralTables
    <3>2. trail[m].day \in Nat /\ trail[k].day \in Nat /\ day \in Nat
      BY <3>1 DEF TraceRows, ReferralInv, ReferralTables
    <3> QED
      BY <1>5, <2>5, <3>2, CommerceAssumption
  <2>7. k \in S
    BY <2>2, <2>4, <2>6 DEF Inviting!InvitesOf
  <2>8. k = m
    <3>1. k <= m
      BY <1>3, <2>7
    <3> QED
      BY <2>2, <2>3, <3>1
  <2> QED
    BY <1>4, <2>4, <2>8
<1> QED
  BY <1>5, <1>6, <1>9, <1>10

LEMMA DecideStep ==
  ASSUME ReferralInv, NEW u \in Newcomers, Inviting!DecideReward(u)
  PROVE  ReferralInv'
<1>1. PICK r : /\ r = [to |-> Inviting!Inviter(u), who |-> u, day |-> day, seen |-> Len(trail), nth |-> visits[u]]
               /\ visiting' = [visiting EXCEPT ![u] = r]
               /\ UNCHANGED <<day, gone, links, trail, accepting, visits, rewarded>>
  BY DEF Inviting!DecideReward
<1>2. /\ r.to = Inviting!Inviter(u) /\ r.who = u /\ r.day = day /\ r.seen = Len(trail) /\ r.nth = visits[u]
  BY <1>1
<1>3. r \in VisitRows
  <2>1. day \in Nat /\ Len(trail) \in Nat /\ visits[u] \in Nat
    BY DEF ReferralInv, ReferralTables
  <2>2. Inviting!Inviter(u) \in People \cup {Inviting!Nobody}
    <3> DEFINE S == Inviting!InvitesOf(u)
    <3> SUFFICES ASSUME S # {} PROVE trail[Inviting!Max(S)].link.creator \in People
      BY DEF Inviting!Inviter
    <3>1. Inviting!Max(S) \in S
      BY SMTT(30), LatestInvite DEF ReferralInv
    <3>2. Inviting!Max(S) \in DOMAIN trail
      BY <3>1 DEF Inviting!InvitesOf
    <3> HIDE DEF S
    <3>3. trail[Inviting!Max(S)] \in TraceRows
      BY <3>2 DEF ReferralInv, ReferralTables
    <3> QED
      BY <3>3 DEF TraceRows, LinkRows
  <2> QED
    BY <1>1, <2>1, <2>2 DEF VisitRows
<1>4. Later
  BY <1>1 DEF Later, ReferralInv, ReferralTables
<1>5. ReferralTables' /\ TrailInv'
  BY <1>1, <1>3 DEF ReferralInv, ReferralTables, TrailInv
<1>6. RewardedInv'
  <2>1. \A v \in Newcomers : visits'[v] \in Nat /\ visits[v] <= visits'[v]
    BY <1>1 DEF ReferralInv, ReferralTables
  <2> QED
    BY <1>1, <1>4, <2>1, RewardedStays
<1>7. /\ \A v \in Newcomers \ {u} : visiting'[v] = visiting[v]
      /\ visiting'[u] = r
  BY <1>1 DEF ReferralInv, ReferralTables
<1>8. r.to # Inviting!Nobody => /\ r.to # u /\ Won(r)
                               /\ \A p \in rewarded : p.who = u => NotTwice(p, r)
  BY <1>2, <1>3, InviterWon
<1>9. ASSUME NEW v \in Newcomers, visiting'[v] # Inviting!Idle
      PROVE  /\ visiting'[v].who = v /\ visiting'[v].nth = visits[v]
             /\ visiting'[v].seen <= Len(trail) /\ visiting'[v].day <= day
             /\ visiting'[v].to # Inviting!Nobody => /\ visiting'[v].to # v /\ Won(visiting'[v])
                                                    /\ \A p \in rewarded : p.who = v => NotTwice(p, visiting'[v])
  <2>1. CASE v = u
    <3>1. Len(trail) \in Nat /\ day \in Nat
      BY DEF ReferralInv, ReferralTables
    <3> QED
      BY <1>2, <1>7, <1>8, <2>1, <3>1
  <2>2. CASE v # u
    BY <1>7, <1>9, <2>2 DEF ReferralInv, VisitInv
  <2> QED
    BY <2>1, <2>2
<1>10. VisitInv'
  <2>1. ASSUME NEW x, Won(x) PROVE Won(x)'
    BY <1>1, <2>1 DEF Won, Inviting!Earning, Inviting!InvitesOf
  <2>2. ASSUME NEW x, NEW p, NotTwice(p, x) PROVE NotTwice(p, x)'
    BY <1>1, <2>2 DEF NotTwice, Inviting!Earning
  <2>3. ASSUME NEW v \in Newcomers, NEW x, x = visiting'[v], x # Inviting!Idle
        PROVE  /\ x.who = v /\ x.nth = visits'[v] /\ x.seen <= Len(trail)' /\ x.day <= day'
               /\ x.to # Inviting!Nobody => /\ x.to # v /\ Won(x)'
                                            /\ \A p \in rewarded' : p.who = v => NotTwice(p, x)'
    BY <1>1, <1>9, <2>1, <2>2, <2>3
  <2> QED
    BY <2>3 DEF VisitInv
<1> QED
  BY <1>5, <1>6, <1>10 DEF ReferralInv

LEMMA CommitStep ==
  ASSUME ReferralInv, NEW u \in Newcomers, Inviting!CommitVisit(u)
  PROVE  ReferralInv'
<1>1. PICK r \in VisitRows : r = visiting[u] /\ r # Inviting!Idle
  BY DEF Inviting!CommitVisit, ReferralInv, ReferralTables
<1>2. /\ visits' = [visits EXCEPT ![u] = visits[u] + 1]
      /\ visiting' = [visiting EXCEPT ![u] = Inviting!Idle]
      /\ rewarded' = IF r.to = Inviting!Nobody \/ Inviting!AlreadyPaid(r.to, u) THEN rewarded ELSE rewarded \cup {r}
      /\ UNCHANGED <<day, gone, links, trail, accepting>>
  BY <1>1 DEF Inviting!CommitVisit
<1>3. /\ r.who = u /\ r.nth = visits[u] /\ r.seen <= Len(trail) /\ r.day <= day
      /\ r.to # Inviting!Nobody => /\ r.to # u /\ Won(r)
                                  /\ \A p \in rewarded : p.who = u => NotTwice(p, r)
  BY <1>1 DEF ReferralInv, VisitInv
<1>4. Later
  BY <1>2 DEF Later, ReferralInv, ReferralTables
<1>5. visits \in [Newcomers -> Nat] /\ visits' \in [Newcomers -> Nat] /\ visits'[u] = visits[u] + 1
      /\ \A v \in Newcomers \ {u} : visits'[v] = visits[v]
  BY <1>2 DEF ReferralInv, ReferralTables
<1>6. visiting' \in [Newcomers -> VisitRows \cup {Inviting!Idle}] /\ visiting'[u] = Inviting!Idle
      /\ \A v \in Newcomers \ {u} : visiting'[v] = visiting[v]
  BY <1>2 DEF ReferralInv, ReferralTables
<1>7. ReferralTables' /\ TrailInv'
  BY <1>1, <1>2, <1>5, <1>6 DEF ReferralInv, ReferralTables, TrailInv
<1>8. ASSUME NEW x, Won(x) PROVE Won(x)'
  BY <1>2, <1>8 DEF Won, Inviting!Earning, Inviting!InvitesOf
<1>9. ASSUME NEW x, NEW p, NotTwice(p, x) PROVE NotTwice(p, x)'
  BY <1>2, <1>9 DEF NotTwice, Inviting!Earning
<1>10. VisitInv'
  <2>1. ASSUME NEW v \in Newcomers, NEW x, x = visiting'[v], x # Inviting!Idle
        PROVE  /\ x.who = v /\ x.nth = visits'[v] /\ x.seen <= Len(trail)' /\ x.day <= day'
               /\ x.to # Inviting!Nobody => /\ x.to # v /\ Won(x)'
                                            /\ \A p \in rewarded' : p.who = v => NotTwice(p, x)'
    <3>1. v # u /\ x = visiting[v] /\ visits'[v] = visits[v]
      BY <1>5, <1>6, <2>1
    <3>2. /\ x.who = v /\ x.nth = visits[v] /\ x.seen <= Len(trail) /\ x.day <= day
          /\ x.to # Inviting!Nobody => /\ x.to # v /\ Won(x)
                                       /\ \A p \in rewarded : p.who = v => NotTwice(p, x)
      BY <2>1, <3>1 DEF ReferralInv, VisitInv
    <3>3. \A p \in rewarded' : p.who = v => p \in rewarded
      BY <1>2, <1>3, <3>1
    <3> QED
      BY <1>2, <1>8, <1>9, <3>1, <3>2, <3>3
  <2> QED
    BY <2>1 DEF VisitInv
<1>11. CASE rewarded' = rewarded
  <2>1. \A v \in Newcomers : visits'[v] \in Nat /\ visits[v] <= visits'[v]
    BY <1>5
  <2>2. RewardedInv'
    BY <1>4, <1>11, <2>1, RewardedStays
  <2> QED
    BY <1>7, <1>10, <2>2 DEF ReferralInv
<1>12. CASE rewarded' # rewarded
  <2>1. /\ rewarded' = rewarded \cup {r} /\ r.to # Inviting!Nobody /\ ~Inviting!AlreadyPaid(r.to, u)
    BY <1>2, <1>12
  <2>2. \A p \in rewarded : p.who = u => p.to # r.to
    BY <2>1 DEF Inviting!AlreadyPaid
  <2>3. \A p \in rewarded : p.who \in Newcomers /\ p.nth \in Nat
    BY DEF ReferralInv, ReferralTables, VisitRows
  <2>4. ASSUME NEW p \in rewarded'
        PROVE  /\ p.to # Inviting!Nobody /\ p.to # p.who /\ p.seen <= Len(trail)
               /\ p.day <= day /\ p.nth < visits'[p.who] /\ Won(p)'
    <3>1. CASE p = r
      <4>1. r.nth < visits'[u]
        BY <1>3, <1>5
      <4> QED
        BY <1>3, <1>8, <2>1, <3>1, <4>1
    <3>2. CASE p \in rewarded
      <4>1. /\ p.to # Inviting!Nobody /\ p.to # p.who /\ p.seen <= Len(trail)
            /\ p.day <= day /\ p.nth < visits[p.who] /\ Won(p)
        BY <3>2 DEF ReferralInv, RewardedInv
      <4>2. p.nth < visits'[p.who]
        BY <1>5, <2>3, <3>2, <4>1
      <4> QED
        BY <1>8, <4>1, <4>2
    <3> QED
      BY <2>1, <3>1, <3>2
  <2>5. ASSUME NEW p \in rewarded', NEW q \in rewarded', q.to = p.to, q.who = p.who
        PROVE  q = p
    <3>1. CASE p \in rewarded /\ q \in rewarded
      BY <2>5, <3>1 DEF ReferralInv, RewardedInv
    <3>2. CASE p = r \/ q = r
      BY <1>3, <2>1, <2>2, <2>5, <3>2
    <3> QED
      BY <2>1, <3>1, <3>2
  <2>6. ASSUME NEW p \in rewarded', NEW q \in rewarded', p.who = q.who, p.nth < q.nth
        PROVE  p.to \in gone \/ \E i \in Inviting!Earning(q) : i > p.seen
    <3>1. CASE p \in rewarded /\ q \in rewarded
      BY <2>6, <3>1 DEF ReferralInv, RewardedInv
    <3>2. CASE p \in rewarded /\ q = r
      <4>1. NotTwice(p, r) /\ p.to # r.to
        BY <1>3, <2>1, <2>2, <2>6, <3>2
      <4> QED
        BY <3>2, <4>1 DEF NotTwice
    <3>3. CASE p = r
      <4>1. q \in rewarded => q.nth < visits[u]
        BY <1>3, <2>6, <3>3 DEF ReferralInv, RewardedInv
      <4>2. visits[u] \in Nat /\ (q \in rewarded => q.nth \in Nat)
        BY <1>5, <2>3
      <4> QED
        BY <1>3, <2>1, <2>6, <3>3, <4>1, <4>2
    <3> QED
      BY <2>1, <3>1, <3>2, <3>3
  <2>7. \A q : Inviting!Earning(q)' = Inviting!Earning(q)
    BY <1>2 DEF Inviting!Earning
  <2>8. RewardedInv'
    BY <1>2, <2>4, <2>5, <2>6, <2>7 DEF RewardedInv
  <2> QED
    BY <1>7, <1>10, <2>8 DEF ReferralInv
<1> QED
  BY <1>11, <1>12

LEMMA StepReferral ==
  ASSUME ReferralInv, Inviting!Next \/ UNCHANGED invitingPart
  PROVE  ReferralInv'
<1>1. CASE UNCHANGED invitingPart
  <2>1. UNCHANGED <<day, gone, links, trail, accepting, visits, visiting, rewarded>>
    BY <1>1 DEF invitingPart
  <2>2. ReferralTables' /\ TrailInv' /\ Later
    BY <2>1 DEF ReferralInv, ReferralTables, TrailInv, Later
  <2> QED
    BY <2>1, <2>2, QuietReferral
<1>2. CASE Inviting!Next
  BY <1>2, QuietSteps, DecideStep, CommitStep, Zenon DEF Inviting!Next
<1> QED
  BY <1>1, <1>2

LEMMA ReferralEarned == ReferralInv => Inviting!RewardsAreEarned
<1> SUFFICES ASSUME ReferralInv PROVE Inviting!RewardsAreEarned
  OBVIOUS
<1>1. ASSUME NEW p \in rewarded
      PROVE  /\ p.to # p.who /\ visits[p.who] > 0
             /\ \E i \in Inviting!Earning(p) : i <= p.seen /\ trail[i].day \in p.day - Window + 1 .. p.day
             /\ \A q \in rewarded : q.to = p.to /\ q.who = p.who => q = p
  <2>1. /\ p.to # p.who /\ p.nth < visits[p.who] /\ Won(p)
        /\ \A q \in rewarded : q.to = p.to /\ q.who = p.who => q = p
    BY DEF ReferralInv, RewardedInv
  <2>2. p.nth \in Nat /\ visits[p.who] \in Nat /\ p.day \in Nat
    BY DEF ReferralInv, ReferralTables, VisitRows
  <2>3. PICK i \in Inviting!Earning(p) :
          i <= p.seen /\ p.day - Window < trail[i].day /\ trail[i].day <= p.day
    BY <2>1 DEF Won
  <2>4. trail[i].day \in Nat
    <3>1. trail[i] \in TraceRows
      BY DEF Inviting!Earning, ReferralInv, ReferralTables
    <3> QED
      BY <3>1 DEF TraceRows
  <2>5. trail[i].day \in p.day - Window + 1 .. p.day
    BY <2>2, <2>3, <2>4, CommerceAssumption
  <2>6. visits[p.who] > 0
    BY <2>1, <2>2
  <2> QED
    BY <2>1, <2>3, <2>5, <2>6
<1>2. Inviting!SecondRewardNeedsGap
  BY DEF Inviting!SecondRewardNeedsGap, ReferralInv, RewardedInv
<1> QED
  BY <1>1, <1>2 DEF Inviting!RewardsAreEarned, Inviting!EachRewardIsEarned

-----------------------------------------------------------------------------
(* The wallet: amounts in a sequence of postings *)

LEMMA WalletSums ==
  ASSUME NEW f, NEW S
  PROVE  Wallet!SumOver(f, S) = Sum(f, S)
BY Zenon DEF Wallet!SumOver, Wallet!MapThenSumSet, Wallet!MapThenFoldSet, Sum, MapThenSumSet, MapThenFoldSet

Buckets == {"free", "paid"}

\* What identifies a transaction: its business key.
Txs ==
  (({"reward"} \X Rewards) \cup ({"adjustment"} \X Adjustments) \cup ({"expiry"} \X Nat))
  \cup (({"paid", "bonus", "store_refund"} \X Orders)
        \cup ({"fee", "reversal", "event_refund"} \X Fees))

Rows == [tx : Txs, bucket : Buckets, amount : Int, expires : Nat, lot : Nat, platformLot : Nat]

Amounts(s) == [i \in DOMAIN s |-> s[i].amount]
Among(s, T, b) == {i \in DOMAIN s : s[i].tx \in T /\ s[i].bucket = b}

\* What the postings of some transactions move in a bucket.
Amount(s, T, b) == Sum(Amounts(s), Among(s, T, b))

LEMMA AmongFinite ==
  ASSUME NEW s \in Seq(Rows), NEW T, NEW b
  PROVE  /\ DOMAIN s = 1..Len(s) /\ Len(s) \in Nat /\ IsFiniteSet(DOMAIN s)
         /\ Among(s, T, b) \in SUBSET DOMAIN s /\ IsFiniteSet(Among(s, T, b))
         /\ \A i \in DOMAIN s : s[i] \in Rows /\ Amounts(s)[i] = s[i].amount /\ Amounts(s)[i] \in Int
<1>1. DOMAIN s = 1..Len(s) /\ Len(s) \in Nat
  OBVIOUS
<1>2. IsFiniteSet(DOMAIN s)
  BY <1>1, FS_Interval
<1>3. Among(s, T, b) \in SUBSET DOMAIN s
  BY DEF Among
<1>4. \A i \in DOMAIN s : s[i] \in Rows
  BY <1>1
<1>5. \A i \in DOMAIN s : Amounts(s)[i] = s[i].amount /\ Amounts(s)[i] \in Int
  BY <1>4 DEF Amounts, Rows
<1> QED
  BY <1>1, <1>2, <1>3, <1>4, <1>5, FS_Subset

LEMMA AmountInt ==
  ASSUME NEW s \in Seq(Rows), NEW T, NEW b
  PROVE  Amount(s, T, b) \in Int
BY AmongFinite, SumInt DEF Amount

LEMMA AmountEmpty ==
  ASSUME NEW T, NEW b
  PROVE  Amount(<<>>, T, b) = 0
<1>1. Among(<<>>, T, b) = {}
  BY DEF Among
<1> QED
  BY <1>1, SumNone DEF Amount

LEMMA AmountOne ==
  ASSUME NEW row \in Rows, NEW T, NEW b
  PROVE  Amount(<<row>>, T, b) = IF row.tx \in T /\ row.bucket = b THEN row.amount ELSE 0
<1> DEFINE f == Amounts(<<row>>)
<1>1. f[1] = row.amount /\ f[1] \in Int
  BY DEF Amounts, Rows
<1>2. Among(<<row>>, T, b) = IF row.tx \in T /\ row.bucket = b THEN {1} ELSE {}
  BY DEF Among
<1> HIDE DEF f
<1>3. Sum(f, {1}) = f[1] /\ Sum(f, {}) = 0
  BY <1>1, SumOne, SumNone
<1> QED
  BY <1>1, <1>2, <1>3 DEF Amount, f

LEMMA AmountAppend ==
  ASSUME NEW s \in Seq(Rows), NEW t \in Seq(Rows), NEW T, NEW b
  PROVE  Amount(s \o t, T, b) = Amount(s, T, b) + Amount(t, T, b)
<1> DEFINE u == s \o t
           n == Len(s)
           f == Amounts(u)
           P == Among(s, T, b)
           Q == {i \in DOMAIN u : i > n /\ i \in Among(u, T, b)}
           R == Among(t, T, b)
<1>1. /\ u \in Seq(Rows) /\ DOMAIN u = 1..(n + Len(t)) /\ n \in Nat /\ Len(t) \in Nat
      /\ DOMAIN s = 1..n /\ DOMAIN t = 1..Len(t)
      /\ \A i \in 1..n : u[i] = s[i]
      /\ \A i \in DOMAIN u : i > n => i - n \in DOMAIN t /\ u[i] = t[i - n]
      /\ \A i \in DOMAIN t : i + n \in DOMAIN u /\ i + n > n /\ u[i + n] = t[i]
  OBVIOUS
<1> HIDE DEF u, n
<1>2. P \in SUBSET DOMAIN u /\ Q \in SUBSET DOMAIN u /\ P \cap Q = {} /\ Among(u, T, b) = P \cup Q
  <2>1. \A i \in DOMAIN u : i > n \/ i \in DOMAIN s
    BY <1>1
  <2>2. \A i \in DOMAIN s : i \in DOMAIN u /\ ~(i > n) /\ u[i] = s[i]
    BY <1>1
  <2> QED
    BY <2>1, <2>2 DEF Among
<1>3. IsFiniteSet(DOMAIN u) /\ \A i \in DOMAIN u : f[i] \in Int /\ f[i] = u[i].amount
  BY <1>1, AmongFinite
<1>4. IsFiniteSet(P) /\ IsFiniteSet(Q)
  BY <1>2, <1>3, FS_Subset
<1>5. R \in SUBSET DOMAIN t /\ IsFiniteSet(R) /\ \A i \in R : Amounts(t)[i] = t[i].amount
  BY AmongFinite
<1>6. \A i \in P : Amounts(s)[i] = f[i]
  BY <1>1, <1>2, <1>3, AmongFinite
<1> DEFINE shift == [i \in R |-> i + n]
<1>7. shift \in [R -> Q] /\ \A i \in R : shift[i] = i + n
  BY <1>1, <1>5 DEF Among
<1>8. \A x \in Q : \E i \in R : shift[i] = x
  <2> TAKE x \in Q
  <2>1. x - n \in R /\ (x - n) + n = x
    BY <1>1 DEF Among
  <2> QED
    BY <1>7, <2>1
<1>9. \A i, j \in R : i # j => shift[i] # shift[j]
  BY <1>1, <1>5, <1>7
<1>10. \A i \in R : Amounts(t)[i] = f[shift[i]]
  BY <1>1, <1>3, <1>5, <1>7
<1> HIDE DEF f, P, Q, R, shift
<1>11. Sum(Amounts(t), R) = Sum(f, Q)
  BY <1>2, <1>3, <1>5, <1>7, <1>8, <1>9, <1>10, SumRenamed
<1>12. Sum(Amounts(s), P) = Sum(f, P)
  BY <1>4, <1>6, SumSame
<1>13. Sum(f, P \cup Q) = Sum(f, P) + Sum(f, Q)
  BY <1>2, <1>3, <1>4, SumUnion
<1> QED
  BY <1>2, <1>11, <1>12, <1>13 DEF Amount, f, P, Q, R, u

\* Postings of other transactions do not count, and the sum has the sign of what it adds.
LEMMA AmountNone ==
  ASSUME NEW s \in Seq(Rows), NEW T, NEW b, \A i \in DOMAIN s : s[i].tx \notin T
  PROVE  Amount(s, T, b) = 0
<1>1. Among(s, T, b) = {}
  BY DEF Among
<1> QED
  BY <1>1, SumNone DEF Amount

LEMMA AmountWhole ==
  ASSUME NEW s, NEW T, NEW U, NEW b, \A i \in DOMAIN s : s[i].tx \in T <=> s[i].tx \in U
  PROVE  Amount(s, T, b) = Amount(s, U, b)
<1>1. Among(s, T, b) = Among(s, U, b)
  BY DEF Among
<1> QED
  BY <1>1 DEF Amount

LEMMA AmountSign ==
  ASSUME NEW s \in Seq(Rows), NEW T, NEW b, \A i \in DOMAIN s : s[i].tx \in T => s[i].amount <= 0
  PROVE  Amount(s, T, b) <= 0
<1> DEFINE S == Among(s, T, b)
           f == Amounts(s)
<1>1. IsFiniteSet(S) /\ \A i \in S : f[i] \in Int /\ f[i] = s[i].amount
  BY AmongFinite
<1>2. \A i \in S : f[i] <= 0
  BY <1>1 DEF Among
<1> HIDE DEF S, f
<1>3. Sum(f, S) <= 0
  BY <1>1, <1>2, SumSign
<1> QED
  BY <1>3 DEF Amount, S, f

-----------------------------------------------------------------------------
(* The wallet: how an amount is spread over lots *)

\* The places of the legs as a sequence: each once.
LEMMA Enumeration ==
  ASSUME NEW P, IsFiniteSet(P), NEW s \in Wallet!SetToSeqs(P)
  PROVE  /\ Len(s) \in Nat /\ s \in [1..Len(s) -> P]
         /\ \A i, j \in 1..Len(s) : i # j => s[i] # s[j]
         /\ \A x \in P : \E i \in 1..Len(s) : s[i] = x
<1> DEFINE n == Cardinality(P)
<1>1. Wallet!Cardinality(P) = n
  BY Zenon DEF Wallet!Cardinality, Cardinality
<1>2. s \in [1..n -> P] /\ \A i, j \in 1..n : i # j => s[i] # s[j]
  BY <1>1 DEF Wallet!SetToSeqs
<1>3. n \in Nat
  BY FS_CardinalityType
<1>4. IsFiniteSet(1..n) /\ Cardinality(1..n) = n
  BY <1>3, FS_Interval
<1> HIDE DEF n
<1>5. s \in Injection(1..n, P)
  BY <1>2 DEF Injection, IsInjective
<1>6. s \in Surjection(1..n, P)
  BY <1>4, <1>5, FS_Injection DEF n
<1>7. \A x \in P : \E i \in 1..n : s[i] = x
  BY <1>6 DEF Surjection
<1>8. Len(s) = n
  BY <1>2, <1>3
<1> QED
  BY <1>2, <1>3, <1>7, <1>8

\* A strict order that compares any two.
Orderly(R, S) ==
  /\ \A x \in S : <<x, x>> \notin R
  /\ \A x, y, z \in S : <<x, y>> \in R /\ <<y, z>> \in R => <<x, z>> \in R
  /\ \A x, y \in S : x # y => <<x, y>> \in R \/ <<y, x>> \in R

\* A finite set has a last element.
LEMMA LastExists ==
  ASSUME NEW T, IsFiniteSet(T), T # {}, NEW R, Orderly(R, T)
  PROVE  \E m \in T : \A x \in T \ {m} : <<x, m>> \in R
<1> DEFINE A == {U \in SUBSET T : U = {} \/ \E m \in U : \A x \in U \ {m} : <<x, m>> \in R}
<1>1. {} \in A
  OBVIOUS
<1>2. ASSUME NEW U \in SUBSET T, U \in A, NEW a \in T \ U
      PROVE  U \cup {a} \in A
  <2>1. CASE U = {}
    BY <2>1
  <2>2. CASE U # {}
    <3>1. PICK m \in U : \A x \in U \ {m} : <<x, m>> \in R
      BY <1>2, <2>2
    <3>2. CASE <<m, a>> \in R
      <4>1. \A x \in (U \cup {a}) \ {a} : <<x, a>> \in R
        BY <3>1, <3>2 DEF Orderly
      <4> QED
        BY <4>1
    <3>3. CASE <<a, m>> \in R
      <4>1. \A x \in (U \cup {a}) \ {m} : <<x, m>> \in R
        BY <3>1, <3>3
      <4> QED
        BY <4>1
    <3> QED
      BY <3>2, <3>3 DEF Orderly
  <2> QED
    BY <2>1, <2>2
<1> HIDE DEF A
<1>3. T \in A
  BY <1>1, <1>2, SetInduction
<1> QED
  BY <1>3 DEF A

Before(R, S, i) == {j \in S : <<j, i>> \in R}

\* What each of S gives when those before it in R give first.
Given(R, S, offer, amount) ==
  [i \in S |-> Min({offer[i], Max({0, amount - Sum(offer, Before(R, S, i))})})]

LEMMA GivenType ==
  ASSUME NEW S, IsFiniteSet(S), NEW R, NEW amount \in Nat, NEW offer, \A i \in S : offer[i] \in Nat,
         NEW i \in S
  PROVE  /\ Sum(offer, Before(R, S, i)) \in Int
         /\ Given(R, S, offer, amount)[i] \in Nat
         /\ Given(R, S, offer, amount)[i] =
              IF amount - Sum(offer, Before(R, S, i)) <= 0 THEN 0
              ELSE IF offer[i] <= amount - Sum(offer, Before(R, S, i)) THEN offer[i]
              ELSE amount - Sum(offer, Before(R, S, i))
<1> DEFINE B == Before(R, S, i)
           due == amount - Sum(offer, B)
<1>1. IsFiniteSet(B) /\ \A j \in B : offer[j] \in Int
  <2>1. B \in SUBSET S
    BY DEF Before
  <2> HIDE DEF B
  <2> QED
    BY <2>1, FS_Subset
<1> HIDE DEF B
<1>2. Sum(offer, B) \in Int
  BY <1>1, SumInt
<1>3. due \in Int /\ offer[i] \in Nat
  BY <1>2
<1>4. Given(R, S, offer, amount)[i] = Min({offer[i], Max({0, due})})
  BY DEF Given, B
<1> HIDE DEF due
<1>5. Max({0, due}) = (IF 0 <= due THEN due ELSE 0) /\ Max({0, due}) \in Int
  BY SMTT(30), <1>3, TwoExtremes
<1>6. Min({offer[i], Max({0, due})}) = IF offer[i] <= Max({0, due}) THEN offer[i] ELSE Max({0, due})
  <2> DEFINE top == Max({0, due})
  <2>1. top \in Int /\ offer[i] \in Int
    BY <1>3, <1>5
  <2> HIDE DEF top
  <2>2. Min({offer[i], top}) = IF offer[i] <= top THEN offer[i] ELSE top
    BY <2>1, TwoExtremes
  <2> QED
    BY <2>2 DEF top
<1>7. /\ Given(R, S, offer, amount)[i] = IF due <= 0 THEN 0 ELSE IF offer[i] <= due THEN offer[i] ELSE due
      /\ Given(R, S, offer, amount)[i] \in Nat
  BY <1>3, <1>4, <1>5, <1>6
<1> QED
  BY <1>2, <1>7 DEF B, due

\* Together they give the amount, when their offers suffice.
LEMMA SpreadTakesAll ==
  ASSUME NEW S, IsFiniteSet(S), NEW R,
         Orderly(R, S), NEW amount \in Nat, NEW offer, \A i \in S : offer[i] \in Nat,
         Sum(offer, S) >= amount
  PROVE  Sum(Given(R, S, offer, amount), S) = amount
<1> DEFINE given == Given(R, S, offer, amount)
           Closed(T) == \A x \in T, y \in S : <<y, x>> \in R => y \in T
           Right(T) == Sum(given, T) = IF Sum(offer, T) <= amount THEN Sum(offer, T) ELSE amount
           N == {n \in Nat : \A T \in SUBSET S : Cardinality(T) = n /\ Closed(T) => Right(T)}
<1>1. \A i \in S : given[i] \in Int /\ offer[i] \in Int
  <2>1. ASSUME NEW i \in S PROVE given[i] \in Nat
    BY GivenType, Zenon
  <2> HIDE DEF given
  <2> QED
    BY <2>1
<1>2. 0 \in N
  <2> SUFFICES ASSUME NEW T \in SUBSET S, Cardinality(T) = 0 PROVE Right(T)
    OBVIOUS
  <2>1. T = {}
    BY FS_Subset, FS_EmptySet
  <2>2. Sum(given, T) = 0 /\ Sum(offer, T) = 0
    BY <2>1, SumNone
  <2> QED
    BY <2>2
<1>3. ASSUME NEW n \in Nat, n \in N
      PROVE  n + 1 \in N
  <2> SUFFICES ASSUME NEW T \in SUBSET S, Cardinality(T) = n + 1, Closed(T) PROVE Right(T)
    OBVIOUS
  <2>1. IsFiniteSet(T)
    BY FS_Subset
  <2>2. T # {}
    BY <2>1, FS_EmptySet
  <2>3. PICK m \in T : \A x \in T \ {m} : <<x, m>> \in R
    <3>1. Orderly(R, T)
      BY DEF Orderly
    <3> QED
      BY <2>1, <2>2, <3>1, LastExists
  <2> DEFINE U == T \ {m}
  <2>4. U \in SUBSET S /\ U = Before(R, S, m) /\ m \in S
    BY <2>3 DEF Orderly, Before
  <2>5. Cardinality(U) = n
    <3>1. Cardinality(U) = Cardinality(T) - 1
      BY <2>1, FS_RemoveElement
    <3> QED
      BY <3>1
  <2>6. Closed(U)
    BY <2>4 DEF Orderly, Before
  <2>7. Right(U)
    BY <1>3, <2>4, <2>5, <2>6
  <2>8. Sum(given, T) = given[m] + Sum(given, U) /\ Sum(offer, T) = offer[m] + Sum(offer, U)
    BY <1>1, <2>1, SumRemove
  <2> HIDE DEF U
  <2>9. /\ Sum(offer, U) \in Int
        /\ given[m] = IF amount - Sum(offer, U) <= 0 THEN 0
                      ELSE IF offer[m] <= amount - Sum(offer, U) THEN offer[m] ELSE amount - Sum(offer, U)
    BY <2>4, GivenType
  <2>10. offer[m] \in Nat
    BY <2>4
  <2> HIDE DEF given
  <2> QED
    BY <2>7, <2>8, <2>9, <2>10
<1> HIDE DEF N
<1>4. Nat \subseteq N
  BY <1>2, <1>3, NumberInduction
<1>5. Cardinality(S) \in N
  BY <1>4, FS_CardinalityType
<1>6. Right(S)
  BY <1>5 DEF N
<1>7. Sum(offer, S) \in Int
  BY <1>1, SumInt
<1> HIDE DEF given
<1>8. Sum(given, S) = amount
  BY <1>6, <1>7
<1> QED
  BY <1>8 DEF given

-----------------------------------------------------------------------------
(* The wallet: spending *)

HoldStates == {"none", "active", "lapsed", "captured", "released", "expired"}

WalletTables ==
  /\ clock \in Nat /\ free \in Nat /\ paid \in Int
  /\ ledger \in Seq(Rows)
  /\ hold \in [Fees -> HoldStates]

LEMMA TotalIsSum ==
  ASSUME NEW P
  PROVE  Wallet!Total(P) = Sum(Amounts(ledger), P)
BY WalletSums DEF Wallet!Total, Wallet!Places, Amounts

LEMMA TotalInt ==
  ASSUME WalletTables, NEW P \in SUBSET DOMAIN ledger
  PROVE  Wallet!Total(P) \in Int
<1>1. IsFiniteSet(DOMAIN ledger) /\ \A i \in DOMAIN ledger : Amounts(ledger)[i] \in Int
  BY AmongFinite DEF WalletTables
<1>2. IsFiniteSet(P)
  BY <1>1, FS_Subset
<1>3. Sum(Amounts(ledger), P) \in Int
  BY <1>1, <1>2, SumInt
<1> QED
  BY <1>3, TotalIsSum

\* Lots are spent in a strict order.
Earlier(S) == {p \in S \X S : Wallet!Precedes(p[1], p[2])}

LEMMA LotOrder ==
  ASSUME WalletTables, NEW S \in SUBSET DOMAIN ledger
  PROVE  /\ Orderly(Earlier(S), S)
         /\ \A i \in S : Before(Earlier(S), S, i) = {j \in S : Wallet!Precedes(j, i)}
<1> DEFINE rank(k) == IF ledger[k].bucket = "free" THEN 0 ELSE 1
           e(k) == ledger[k].expires
<1>1. \A k \in S : k \in Nat /\ e(k) \in Nat /\ rank(k) \in Nat
  <2> SUFFICES ASSUME NEW k \in S PROVE k \in Nat /\ e(k) \in Nat
    OBVIOUS
  <2>1. k \in Nat /\ ledger[k] \in Rows
    BY AmongFinite DEF WalletTables
  <2> QED
    BY <2>1 DEF Rows
<1>2. \A x, y \in S : <<x, y>> \in Earlier(S) <=>
        \/ rank(x) < rank(y)
        \/ rank(x) = rank(y) /\ e(x) < e(y)
        \/ rank(x) = rank(y) /\ e(x) = e(y) /\ x < y
  BY DEF Earlier, Wallet!Precedes
<1> HIDE DEF rank, e
<1>3. \A x \in S : <<x, x>> \notin Earlier(S)
  BY <1>1, <1>2
<1>4. \A x, y, z \in S : <<x, y>> \in Earlier(S) /\ <<y, z>> \in Earlier(S) => <<x, z>> \in Earlier(S)
  BY <1>1, <1>2
<1>5. \A x, y \in S : x # y => <<x, y>> \in Earlier(S) \/ <<y, x>> \in Earlier(S)
  BY <1>1, <1>2
<1>6. \A i \in S : Before(Earlier(S), S, i) = {j \in S : Wallet!Precedes(j, i)}
  BY DEF Before, Earlier
<1> QED
  BY <1>3, <1>4, <1>5, <1>6 DEF Orderly

\* The lots offer what they have left.
LEMMA OfferType ==
  ASSUME WalletTables
  PROVE  /\ DOMAIN Wallet!Offer \in SUBSET DOMAIN ledger
         /\ \A i \in DOMAIN Wallet!Offer : Wallet!Offer[i] \in Nat
<1> DEFINE U == {k \in Wallet!Lots : ~Wallet!Expired(k)}
           left == [i \in U |-> Wallet!Remaining(i)]
<1>1. Wallet!Offer = [i \in {k \in DOMAIN left : left[k] > 0} |-> left[i]]
  BY DEF Wallet!Offer
<1>2. U \in SUBSET DOMAIN ledger
  BY DEF Wallet!Lots, Wallet!Places
<1>3. ASSUME NEW i \in U PROVE left[i] \in Int
  <2> DEFINE A == {j \in Wallet!Places : ledger[j].lot = i}
             B == {j \in Wallet!Places : ledger[j].platformLot = i}
  <2>1. left[i] = ledger[i].amount + Wallet!Total(A) - Wallet!Total(B)
    BY DEF Wallet!Remaining
  <2>2. A \in SUBSET DOMAIN ledger /\ B \in SUBSET DOMAIN ledger
    BY DEF Wallet!Places
  <2> HIDE DEF A, B
  <2>3. Wallet!Total(A) \in Int /\ Wallet!Total(B) \in Int
    BY <2>2, TotalInt
  <2>4. ledger[i].amount \in Int
    BY <1>2, AmongFinite DEF WalletTables
  <2> HIDE DEF left
  <2> QED
    BY <2>1, <2>3, <2>4
<1>4. DOMAIN left = U
  OBVIOUS
<1> HIDE DEF left, U
<1> QED
  BY <1>1, <1>2, <1>3, <1>4

\* Its shares take the amount from the lots.
LEMMA SharesTakeAll ==
  ASSUME WalletTables, NEW amount \in Nat, NEW offer,
         DOMAIN offer \in SUBSET DOMAIN ledger, \A i \in DOMAIN offer : offer[i] \in Nat,
         Sum(offer, DOMAIN offer) >= amount
  PROVE  LET share == Wallet!Shares(offer, amount)
         IN /\ DOMAIN share \in SUBSET DOMAIN ledger /\ IsFiniteSet(DOMAIN share)
            /\ \A i \in DOMAIN share : share[i] \in Nat \ {0}
            /\ Sum(share, DOMAIN share) = amount
<1> DEFINE S == DOMAIN offer
           R == Earlier(S)
           given == Given(R, S, offer, amount)
           G == {k \in S : given[k] > 0}
           share == Wallet!Shares(offer, amount)
<1>1. IsFiniteSet(S)
  BY AmongFinite, FS_Subset DEF WalletTables
<1>2. Orderly(R, S) /\ \A i \in S : Before(R, S, i) = {j \in S : Wallet!Precedes(j, i)}
  BY LotOrder
<1>3. given = [i \in S |-> Wallet!Min({offer[i], Wallet!Max({0, amount - Wallet!SumOver(offer, {j \in S : Wallet!Precedes(j, i)})})})]
  <2>1. \A T : Wallet!Min(T) = Min(T) /\ Wallet!Max(T) = Max(T)
    BY Zenon DEF Wallet!Min, Min, Wallet!Max, Max
  <2>2. \A i \in S : Wallet!SumOver(offer, {j \in S : Wallet!Precedes(j, i)}) = Sum(offer, Before(R, S, i))
    BY <1>2, WalletSums
  <2> HIDE DEF R, S
  <2> QED
    BY <2>1, <2>2 DEF Given
<1>4. share = [i \in G |-> given[i]]
  BY <1>3 DEF Wallet!Shares
<1>5. \A i \in S : given[i] \in Nat
  BY <1>1, GivenType
<1>6. Sum(given, S) = amount
  BY <1>1, <1>2, SpreadTakesAll
<1> HIDE DEF given, R, share
<1>7. \A i \in S \ G : given[i] = 0
  BY <1>5
<1>8. Sum(given, S) = Sum(given, G)
  BY <1>1, <1>5, <1>7, SumPart
<1>9. IsFiniteSet(G) /\ G \in SUBSET S
  BY <1>1, FS_Subset
<1>10. Sum(given, G) = Sum(share, G)
  <2>1. \A i \in G : given[i] = share[i]
    BY <1>4
  <2> HIDE DEF G
  <2> QED
    BY <1>9, <2>1, SumSame
<1>11. DOMAIN share = G /\ \A i \in G : share[i] \in Nat \ {0}
  BY <1>4, <1>5
<1>12. /\ DOMAIN share \in SUBSET DOMAIN ledger /\ IsFiniteSet(DOMAIN share)
       /\ \A i \in DOMAIN share : share[i] \in Nat \ {0}
       /\ Sum(share, DOMAIN share) = amount
  <2> HIDE DEF G
  <2> QED
    BY <1>6, <1>8, <1>9, <1>10, <1>11
<1> QED
  BY <1>12 DEF share

\* Postings that mirror places one to one move what is at the places, negated.
Mirrors(t, P, order, tx, v) ==
  /\ t \in Seq(Rows) /\ Len(t) = Len(order)
  /\ \A n \in 1..Len(order) : /\ t[n].tx = tx /\ t[n].bucket = ledger[order[n]].bucket
                               /\ t[n].amount = -v[order[n]]

InBucket(P, b) == {i \in P : ledger[i].bucket = b}

LEMMA MirrorAmount ==
  ASSUME NEW P, IsFiniteSet(P), NEW order \in Wallet!SetToSeqs(P), NEW tx, NEW v, \A i \in P : v[i] \in Int,
         NEW t, Mirrors(t, P, order, tx, v), NEW b
  PROVE  Amount(t, {tx}, b) = -Sum(v, InBucket(P, b))
<1> DEFINE S == InBucket(P, b)
           D == Among(t, {tx}, b)
           neg == [i \in S |-> -v[i]]
           p == [n \in D |-> order[n]]
           e == Amounts(t)
<1>1. /\ Len(order) \in Nat /\ order \in [1..Len(order) -> P]
      /\ \A i, j \in 1..Len(order) : i # j => order[i] # order[j]
      /\ \A x \in P : \E i \in 1..Len(order) : order[i] = x
  BY Enumeration
<1>2. /\ t \in Seq(Rows) /\ DOMAIN t = 1..Len(order)
      /\ \A n \in DOMAIN t : /\ t[n].tx = tx /\ t[n].bucket = ledger[order[n]].bucket
                             /\ t[n].amount = -v[order[n]] /\ order[n] \in P
  BY <1>1 DEF Mirrors
<1>3. S \in SUBSET P /\ IsFiniteSet(S)
  BY FS_Subset DEF InBucket
<1>4. IsFiniteSet(D) /\ D \in SUBSET DOMAIN t /\ \A n \in D : e[n] = t[n].amount
  BY <1>2, AmongFinite
<1>5. \A i \in S : v[i] \in Int /\ neg[i] \in Int /\ neg[i] = -v[i]
  BY <1>3
<1>6. p \in [D -> S] /\ \A n \in D : p[n] = order[n]
  BY <1>2, <1>4 DEF Among, InBucket
<1>7. \A i, j \in D : i # j => p[i] # p[j]
  BY <1>1, <1>2, <1>4, <1>6
<1>8. \A x \in S : \E n \in D : p[n] = x
  <2> TAKE x \in S
  <2>1. PICK n \in 1..Len(order) : order[n] = x
    BY <1>1, <1>3
  <2>2. n \in D
    BY <1>2, <2>1 DEF Among, InBucket
  <2> QED
    BY <1>6, <2>1, <2>2
<1>9. \A n \in D : e[n] = neg[p[n]]
  BY <1>2, <1>4, <1>5, <1>6
<1> HIDE DEF S, D, neg, p, e
<1>10. Sum(e, D) = Sum(neg, S)
  BY <1>3, <1>4, <1>5, <1>6, <1>7, <1>8, <1>9, SumRenamed
<1>11. Sum(neg, S) = -Sum(v, S)
  BY <1>3, <1>5, SumMinus
<1> QED
  BY <1>10, <1>11 DEF Amount, S, D, e

\* The two buckets of some places are all of them.
LEMMA BucketsAreAll ==
  ASSUME WalletTables, NEW P \in SUBSET DOMAIN ledger, NEW v, \A i \in P : v[i] \in Int
  PROVE  /\ Sum(v, InBucket(P, "free")) \in Int /\ Sum(v, InBucket(P, "paid")) \in Int
         /\ Sum(v, P) = Sum(v, InBucket(P, "free")) + Sum(v, InBucket(P, "paid"))
<1> DEFINE F == InBucket(P, "free")
           G == InBucket(P, "paid")
<1>1. IsFiniteSet(P)
  BY AmongFinite, FS_Subset DEF WalletTables
<1>2. \A i \in P : ledger[i].bucket \in Buckets
  <2> TAKE i \in P
  <2>1. ledger[i] \in Rows
    BY AmongFinite DEF WalletTables
  <2> QED
    BY <2>1 DEF Rows
<1>3. P = F \cup G /\ F \cap G = {} /\ F \in SUBSET P /\ G \in SUBSET P
  BY <1>2 DEF InBucket, Buckets
<1> HIDE DEF F, G
<1>4. IsFiniteSet(F) /\ IsFiniteSet(G)
  BY <1>1, <1>3, FS_Subset
<1>5. Sum(v, F) \in Int /\ Sum(v, G) \in Int
  BY <1>3, <1>4, SumInt
<1>6. Sum(v, F \cup G) = Sum(v, F) + Sum(v, G)
  BY <1>3, <1>4, SumUnion
<1> QED
  BY <1>3, <1>5, <1>6 DEF F, G

\* Postings of some transactions, and the wallet that moves with them.
Moves(t, X) ==
  /\ t \in Seq(Rows) /\ \A i \in DOMAIN t : t[i].tx \in X
  /\ ledger' = ledger \o t
  /\ free' = free + Amount(t, X, "free") /\ paid' = paid + Amount(t, X, "paid")

\* A spend takes exactly its amount, by legs that give nothing.
LEMMA SpendTakes ==
  ASSUME WalletTables, NEW tx \in Txs, NEW amount \in Nat, NEW reserved, Wallet!Spend(tx, amount, reserved)
  PROVE  /\ free + paid - reserved >= amount /\ ~Wallet!Posted(tx) /\ free' \in Nat
         /\ \E t : /\ Moves(t, {tx}) /\ \A i \in DOMAIN t : t[i].amount <= 0
                   /\ Amount(t, {tx}, "free") + Amount(t, {tx}, "paid") = -amount
<1> DEFINE offer == Wallet!Offer
           share == Wallet!Shares(offer, amount)
           P == DOMAIN share
           from(b) == Wallet!SumOver(share, {i \in DOMAIN share : ledger[i].bucket = b})
<1>1. PICK order : /\ order \in Wallet!SetToSeqs(P)
                   /\ Wallet!Post([n \in 1..Len(order) |->
                        Wallet!Posting(tx, ledger[order[n]].bucket, -share[order[n]], Wallet!Never, order[n], order[n])])
  BY Zenon DEF Wallet!Spend, Wallet!InOrder
<1>2. /\ free + paid - reserved >= amount /\ ~Wallet!Posted(tx)
      /\ Wallet!SumOver(offer, DOMAIN offer) >= amount
      /\ free' = free - from("free") /\ free' >= 0 /\ paid' = paid - from("paid")
  BY DEF Wallet!Spend
<1>3. order \in Wallet!SetToSeqs(P)
  BY <1>1
<1> DEFINE t == [n \in 1..Len(order) |->
          Wallet!Posting(tx, ledger[order[n]].bucket, -share[order[n]], Wallet!Never, order[n], order[n])]
<1>4. ledger' = ledger \o t
  BY <1>1 DEF Wallet!Post
<1>5. /\ P \in SUBSET DOMAIN ledger /\ IsFiniteSet(P)
      /\ \A i \in P : share[i] \in Nat \ {0}
      /\ Sum(share, P) = amount
  <2>1. Sum(offer, DOMAIN offer) >= amount
    BY <1>2, WalletSums
  <2> HIDE DEF offer
  <2>2. DOMAIN offer \in SUBSET DOMAIN ledger /\ \A i \in DOMAIN offer : offer[i] \in Nat
    BY OfferType DEF offer
  <2> QED
    BY <2>1, <2>2, SharesTakeAll
<1> HIDE DEF share
<1>6. Len(order) \in Nat /\ order \in [1..Len(order) -> P]
  BY <1>3, <1>5, Enumeration
<1>7. ASSUME NEW n \in 1..Len(order)
      PROVE  /\ t[n] \in Rows /\ t[n].tx = tx /\ t[n].bucket = ledger[order[n]].bucket
             /\ t[n].amount = -share[order[n]] /\ t[n].amount <= 0
  <2>1. order[n] \in P /\ order[n] \in Nat /\ ledger[order[n]] \in Rows
    BY <1>5, <1>6, AmongFinite DEF WalletTables
  <2>2. ledger[order[n]].bucket \in Buckets
    BY <2>1 DEF Rows
  <2>3. -share[order[n]] \in Int /\ -share[order[n]] <= 0
    BY <1>5, <2>1
  <2>4. Wallet!Never \in Nat
    BY CommerceAssumption DEF Wallet!Never
  <2> DEFINE bk == ledger[order[n]].bucket
             amt == -share[order[n]]
             lot == order[n]
             life == Wallet!Never
  <2>5. t[n] = Wallet!Posting(tx, bk, amt, life, lot, lot)
    OBVIOUS
  <2>6. bk \in Buckets /\ amt \in Int /\ amt <= 0 /\ lot \in Nat /\ life \in Nat
    BY <2>1, <2>2, <2>3, <2>4
  <2> HIDE DEF bk, amt, lot, life, t
  <2>7. t[n] \in Rows /\ t[n].tx = tx /\ t[n].bucket = bk /\ t[n].amount = amt
    <3> DEFINE row == Wallet!Posting(tx, bk, amt, life, lot, lot)
    <3>1. row \in Rows /\ row.tx = tx /\ row.bucket = bk /\ row.amount = amt
      BY <2>6 DEF Wallet!Posting, Rows
    <3> HIDE DEF row
    <3>2. t[n] = row
      BY <2>5 DEF row
    <3> QED
      BY <3>1, <3>2
  <2>8. t[n].amount <= 0
    BY <2>6, <2>7
  <2> QED
    BY <2>7, <2>8, Zenon DEF bk, amt
<1> HIDE DEF t
<1>8. t \in Seq(Rows) /\ Len(t) = Len(order) /\ DOMAIN t = 1..Len(order)
  <2>1. t \in [1..Len(order) -> Rows]
    BY <1>7 DEF t
  <2> QED
    BY <1>6, <2>1
<1>9. Mirrors(t, P, order, tx, share)
  BY <1>7, <1>8 DEF Mirrors
<1>10. \A i \in P : share[i] \in Int
  BY <1>5
<1>11. \A b : from(b) = Sum(share, InBucket(P, b))
  BY WalletSums DEF InBucket
<1>12. \A b : Amount(t, {tx}, b) = -Sum(share, InBucket(P, b))
  BY <1>3, <1>5, <1>9, <1>10, MirrorAmount
<1> HIDE DEF from, P
<1>13. /\ Sum(share, InBucket(P, "free")) \in Int /\ Sum(share, InBucket(P, "paid")) \in Int
       /\ amount = Sum(share, InBucket(P, "free")) + Sum(share, InBucket(P, "paid"))
  BY <1>5, <1>10, BucketsAreAll
<1>14. free' = free + Amount(t, {tx}, "free") /\ paid' = paid + Amount(t, {tx}, "paid") /\ free' \in Nat
       /\ Amount(t, {tx}, "free") + Amount(t, {tx}, "paid") = -amount
  <2>1. from("free") = Sum(share, InBucket(P, "free")) /\ from("paid") = Sum(share, InBucket(P, "paid"))
    BY <1>11
  <2>2. Amount(t, {tx}, "free") = -Sum(share, InBucket(P, "free")) /\ Amount(t, {tx}, "paid") = -Sum(share, InBucket(P, "paid"))
    BY <1>12
  <2> QED
    BY <1>2, <1>13, <2>1, <2>2 DEF WalletTables
<1>15. Moves(t, {tx})
  BY <1>4, <1>7, <1>8, <1>14 DEF Moves
<1>16. \A i \in DOMAIN t : t[i].amount <= 0
  BY <1>7, <1>8
<1> QED
  BY <1>2, <1>14, <1>15, <1>16

\* What postings do to the ledger and to what moves in it.
LEMMA MovesAppend ==
  ASSUME WalletTables, NEW t, NEW X, Moves(t, X)
  PROVE  /\ ledger' \in Seq(Rows) /\ paid' \in Int /\ free' \in Int
         /\ \A i \in DOMAIN ledger : i \in DOMAIN ledger' /\ ledger'[i] = ledger[i]
         /\ \A i \in DOMAIN ledger' :
              i \in DOMAIN ledger \/ \E n \in DOMAIN t : ledger'[i] = t[n] /\ t[n].tx \in X
         /\ \A T, b : X \subseteq T => Amount(ledger', T, b) = Amount(ledger, T, b) + Amount(t, X, b)
         /\ \A T, b : X \cap T = {} => Amount(ledger', T, b) = Amount(ledger, T, b)
<1>1. ledger \in Seq(Rows) /\ t \in Seq(Rows) /\ ledger' = ledger \o t /\ \A i \in DOMAIN t : t[i].tx \in X
  BY DEF WalletTables, Moves
<1>2. Amount(t, X, "free") \in Int /\ Amount(t, X, "paid") \in Int
  BY <1>1, AmountInt
<1>3. ledger' \in Seq(Rows) /\ paid' \in Int /\ free' \in Int
  BY <1>1, <1>2 DEF WalletTables, Moves
<1>4. /\ \A i \in DOMAIN ledger : i \in DOMAIN ledger' /\ ledger'[i] = ledger[i]
      /\ \A i \in DOMAIN ledger' : i \in DOMAIN ledger \/ \E n \in DOMAIN t : ledger'[i] = t[n]
  <2> DEFINE u == ledger \o t
             s == ledger
  <2>1. s \in Seq(Rows) /\ t \in Seq(Rows) /\ u = s \o t
    BY <1>1
  <2> HIDE DEF s, u
  <2>2. /\ DOMAIN s = 1..Len(s) /\ DOMAIN t = 1..Len(t) /\ DOMAIN u = 1..(Len(s) + Len(t))
        /\ Len(s) \in Nat /\ Len(t) \in Nat
        /\ \A i \in 1..Len(s) : u[i] = s[i]
        /\ \A i \in DOMAIN u : i > Len(s) => i - Len(s) \in DOMAIN t /\ u[i] = t[i - Len(s)]
    BY <2>1
  <2>3. /\ \A i \in DOMAIN s : i \in DOMAIN u /\ u[i] = s[i]
        /\ \A i \in DOMAIN u : i \in DOMAIN s \/ \E n \in DOMAIN t : u[i] = t[n]
    BY <2>2
  <2> QED
    BY <1>1, <2>3 DEF s, u
<1>5. \A T, b : Amount(ledger', T, b) = Amount(ledger, T, b) + Amount(t, T, b)
  BY <1>1, AmountAppend
<1>6. ASSUME NEW T, NEW b, X \subseteq T
      PROVE  Amount(t, T, b) = Amount(t, X, b)
  BY <1>1, <1>6, AmountWhole
<1>7. ASSUME NEW T, NEW b, X \cap T = {}
      PROVE  Amount(t, T, b) = 0 /\ Amount(ledger, T, b) \in Int
  <2>1. \A i \in DOMAIN t : t[i].tx \notin T
    BY <1>1, <1>7
  <2> QED
    BY <1>1, <2>1, AmountNone, AmountInt
<1>8. \A T, b : X \subseteq T => Amount(ledger', T, b) = Amount(ledger, T, b) + Amount(t, X, b)
  BY <1>5, <1>6
<1>9. \A T, b : X \cap T = {} => Amount(ledger', T, b) = Amount(ledger, T, b)
  BY <1>5, <1>7
<1> QED
  BY <1>1, <1>3, <1>4, <1>8, <1>9

\* A posting that is made when there is something to post.
Maybe(c, row) == IF c THEN <<row>> ELSE <<>>

\* What two postings of one transaction are worth.
Worth(t, X, c, r, d, s) ==
  /\ t \in Seq(Rows) /\ \A i \in DOMAIN t : t[i].tx \in X
  /\ \A b : Amount(t, X, b) = (IF c /\ r.bucket = b THEN r.amount ELSE 0)
                              + (IF d /\ s.bucket = b THEN s.amount ELSE 0)

LEMMA TwoPostings ==
  ASSUME NEW c \in BOOLEAN, NEW d \in BOOLEAN, NEW r \in Rows, NEW s \in Rows, NEW X, r.tx \in X, s.tx \in X,
         NEW t, t = Maybe(c, r) \o Maybe(d, s)
  PROVE  Worth(t, X, c, r, d, s)
<1>1. ASSUME NEW e \in BOOLEAN, NEW q \in Rows, q.tx \in X
      PROVE  /\ Maybe(e, q) \in Seq(Rows) /\ \A i \in DOMAIN Maybe(e, q) : Maybe(e, q)[i].tx \in X
             /\ \A b : Amount(Maybe(e, q), X, b) = IF e /\ q.bucket = b THEN q.amount ELSE 0
  <2>1. Maybe(e, q) = IF e THEN <<q>> ELSE <<>>
    BY DEF Maybe
  <2>2. \A b : Amount(<<q>>, X, b) = (IF q.bucket = b THEN q.amount ELSE 0) /\ Amount(<<>>, X, b) = 0
    BY <1>1, AmountOne, AmountEmpty
  <2>3. <<q>> \in Seq(Rows) /\ <<>> \in Seq(Rows) /\ DOMAIN <<q>> = 1..1 /\ DOMAIN <<>> = 1..0 /\ <<q>>[1] = q
    OBVIOUS
  <2>4. \A i \in DOMAIN <<q>> : <<q>>[i] = q
    BY <2>3
  <2>5. \A i \in DOMAIN <<>> : FALSE
    BY <2>3
  <2>6. CASE e
    BY <1>1, <2>1, <2>2, <2>3, <2>4, <2>6
  <2>7. CASE ~e
    BY <2>1, <2>2, <2>3, <2>5, <2>7
  <2> QED
    BY <2>6, <2>7
<1> DEFINE x == Maybe(c, r)
           y == Maybe(d, s)
<1>2. /\ x \in Seq(Rows) /\ \A i \in DOMAIN x : x[i].tx \in X
      /\ y \in Seq(Rows) /\ \A i \in DOMAIN y : y[i].tx \in X
      /\ \A b : Amount(x, X, b) = (IF c /\ r.bucket = b THEN r.amount ELSE 0)
              /\ Amount(y, X, b) = (IF d /\ s.bucket = b THEN s.amount ELSE 0)
  BY <1>1
<1>3. t = x \o y
  OBVIOUS
<1> HIDE DEF x, y
<1>4. t \in Seq(Rows) /\ \A b : Amount(t, X, b) = Amount(x, X, b) + Amount(y, X, b)
  BY <1>2, <1>3, AmountAppend
<1>5. /\ DOMAIN x = 1..Len(x) /\ DOMAIN y = 1..Len(y) /\ DOMAIN t = 1..(Len(x) + Len(y))
      /\ Len(x) \in Nat /\ Len(y) \in Nat
      /\ \A i \in 1..Len(x) : t[i] = x[i]
      /\ \A i \in DOMAIN t : i > Len(x) => i - Len(x) \in DOMAIN y /\ t[i] = y[i - Len(x)]
  BY <1>2, <1>3
<1>6. \A i \in DOMAIN t : t[i].tx \in X
  <2> TAKE i \in DOMAIN t
  <2>1. CASE i > Len(x)
    BY <1>2, <1>5, <2>1
  <2>2. CASE i \in DOMAIN x
    <3>1. t[i] = x[i]
      BY <1>5, <2>2
    <3> QED
      BY <1>2, <2>2, <3>1
  <2>3. i > Len(x) \/ i \in DOMAIN x
    BY <1>5
  <2> QED
    BY <2>1, <2>2, <2>3
<1> QED
  BY <1>2, <1>4, <1>6 DEF Worth

-----------------------------------------------------------------------------
(* The wallet: the inductive invariant *)

Related(f) == {"fee", "reversal", "event_refund"} \X {f}

FeesInOrder ==
  \A f \in Fees :
    /\ \A i \in DOMAIN ledger : ledger[i].tx = <<"fee", f>> => ledger[i].amount <= 0
    /\ \A i \in DOMAIN ledger : ledger[i].tx \in Related(f) => Wallet!Posted(<<"fee", f>>)
    /\ \A b \in Buckets : Amount(ledger, Related(f), b) <= 0

HoldsInOrder ==
  \A f \in Fees :
    hold[f] # "none" =>
      IF hold[f] = "captured"
        THEN Amount(ledger, {<<"fee", f>>}, "free") + Amount(ledger, {<<"fee", f>>}, "paid") = -PriceOf[f]
        ELSE ~Wallet!Posted(<<"fee", f>>)

WalletInv ==
  /\ WalletTables
  /\ free = Amount(ledger, Txs, "free") /\ paid = Amount(ledger, Txs, "paid")
  /\ FeesInOrder /\ HoldsInOrder

\* What is free beyond what live holds reserve.
Held(h) == {f \in Fees : h[f] = "active"}
Slack(x, y, h) == x + y - Sum(PriceOf, Held(h))

LEMMA MovedIsAmount ==
  ASSUME NEW tx, NEW b
  PROVE  Wallet!Moved(tx, b) = Amount(ledger, {tx}, b)
<1>1. {i \in DOMAIN ledger : ledger[i].tx = tx /\ ledger[i].bucket = b} = Among(ledger, {tx}, b)
  BY DEF Among
<1> QED
  BY <1>1, TotalIsSum DEF Wallet!Moved, Wallet!Places, Amount

LEMMA ReservedIsSum ==
  ASSUME NEW H \in SUBSET Fees
  PROVE  Wallet!Reserved(H) = Sum(PriceOf, {f \in H : hold[f] = "active"})
BY WalletSums DEF Wallet!Reserved, Wallet!Live

LEMMA HeldSum ==
  ASSUME NEW H \in SUBSET Fees
  PROVE  Sum(PriceOf, H) \in Int /\ IsFiniteSet(H) /\ \A f \in H : PriceOf[f] \in Nat \ {0}
<1>1. IsFiniteSet(H)
  BY CommerceAssumption, FS_Subset
<1>2. \A f \in H : PriceOf[f] \in Nat \ {0} /\ PriceOf[f] \in Int
  BY CommerceAssumption
<1> QED
  BY <1>1, <1>2, SumInt

-----------------------------------------------------------------------------
(* The wallet: the kinds of steps *)

\* Postings that are no fee and give none back.
Elsewhere ==
  \E t, X : Moves(t, X) /\ X \in SUBSET Txs /\ (\A f \in Fees : X \cap Related(f) = {}) /\ hold' = hold

\* The fee of f, from its hold or not.
Paying(f) ==
  /\ \E t : /\ Moves(t, {<<"fee", f>>}) /\ \A i \in DOMAIN t : t[i].amount <= 0
            /\ Amount(t, {<<"fee", f>>}, "free") + Amount(t, {<<"fee", f>>}, "paid") = -PriceOf[f]
  /\ ~Wallet!Posted(<<"fee", f>>)
  /\ \/ hold[f] = "none" /\ hold' = hold
     \/ hold' = [hold EXCEPT ![f] = "captured"]

\* What f took comes back, as far as it took it.
GivingBack(f, r) ==
  /\ Wallet!Posted(<<"fee", f>>) /\ hold' = hold
  /\ \E t : /\ Moves(t, {<<r, f>>})
            /\ \A b \in Buckets : Amount(ledger, Related(f), b) + Amount(t, {<<r, f>>}, b) <= 0

\* A hold changes while its fee is not paid, or the clock does.
Holding(f) ==
  /\ UNCHANGED <<free, paid, ledger>>
  /\ ~Wallet!Posted(<<"fee", f>>)
  /\ \E state \in HoldStates \ {"captured"} : hold' = [hold EXCEPT ![f] = state]

LEMMA PostedNext ==
  ASSUME WalletTables, NEW t, NEW X, Moves(t, X), NEW tx
  PROVE  /\ Wallet!Posted(tx) => Wallet!Posted(tx)'
         /\ Wallet!Posted(tx)' => Wallet!Posted(tx) \/ tx \in X
<1>1. /\ \A i \in DOMAIN ledger : i \in DOMAIN ledger' /\ ledger'[i] = ledger[i]
      /\ \A i \in DOMAIN ledger' :
              i \in DOMAIN ledger \/ \E n \in DOMAIN t : ledger'[i] = t[n] /\ t[n].tx \in X
  BY MovesAppend
<1> QED
  BY <1>1 DEF Wallet!Posted, Wallet!Places

\* Every posting is in the balance of its bucket.
LEMMA BalancesFollow ==
  ASSUME WalletInv, NEW t, NEW X, Moves(t, X), X \in SUBSET Txs
  PROVE  free' = Amount(ledger', Txs, "free") /\ paid' = Amount(ledger', Txs, "paid")
<1>1. WalletTables /\ X \subseteq Txs
  BY DEF WalletInv
<1>2. \A b : Amount(ledger', Txs, b) = Amount(ledger, Txs, b) + Amount(t, X, b)
  BY <1>1, MovesAppend
<1> QED
  BY <1>2 DEF WalletInv, Moves

LEMMA FeesAreTxs ==
  ASSUME NEW f \in Fees
  PROVE  /\ Related(f) \in SUBSET Txs /\ <<"fee", f>> \in Related(f)
         /\ <<"reversal", f>> \in Related(f) /\ <<"event_refund", f>> \in Related(f)
         /\ \A g \in Fees : g # f => Related(f) \cap Related(g) = {}
         /\ \A tx \in Related(f) : \E r \in {"fee", "reversal", "event_refund"} : tx = <<r, f>>
BY DEF Related, Txs

LEMMA ElsewhereKeeps ==
  ASSUME WalletInv, Elsewhere, clock' \in Nat, free' \in Nat
  PROVE  WalletInv'
<1>1. PICK t, X : Moves(t, X) /\ X \in SUBSET Txs /\ (\A f \in Fees : X \cap Related(f) = {}) /\ hold' = hold
  BY DEF Elsewhere
<1>2. WalletTables
  BY DEF WalletInv
<1>3. /\ ledger' \in Seq(Rows) /\ paid' \in Int
      /\ \A i \in DOMAIN ledger : i \in DOMAIN ledger' /\ ledger'[i] = ledger[i]
      /\ \A i \in DOMAIN ledger' :
           i \in DOMAIN ledger \/ \E n \in DOMAIN t : ledger'[i] = t[n] /\ t[n].tx \in X
      /\ \A T, b : X \cap T = {} => Amount(ledger', T, b) = Amount(ledger, T, b)
  BY <1>1, <1>2, MovesAppend
<1>4. WalletTables'
  BY <1>1, <1>2, <1>3 DEF WalletTables
<1>5. free' = Amount(ledger', Txs, "free") /\ paid' = Amount(ledger', Txs, "paid")
  BY <1>1, BalancesFollow
<1>6. ASSUME NEW f \in Fees
      PROVE  /\ \A i \in DOMAIN ledger' : ledger'[i].tx \in Related(f) => i \in DOMAIN ledger /\ ledger'[i] = ledger[i]
             /\ \A b : Amount(ledger', Related(f), b) = Amount(ledger, Related(f), b)
             /\ \A b : Amount(ledger', {<<"fee", f>>}, b) = Amount(ledger, {<<"fee", f>>}, b)
             /\ Wallet!Posted(<<"fee", f>>)' <=> Wallet!Posted(<<"fee", f>>)
  <2>1. X \cap Related(f) = {} /\ <<"fee", f>> \in Related(f)
    BY <1>1, FeesAreTxs
  <2>2. X \cap {<<"fee", f>>} = {} /\ <<"fee", f>> \notin X
    BY <2>1
  <2>3. \A i \in DOMAIN ledger' : ledger'[i].tx \in Related(f) => i \in DOMAIN ledger /\ ledger'[i] = ledger[i]
    BY <1>3, <2>1
  <2>4. Wallet!Posted(<<"fee", f>>)' <=> Wallet!Posted(<<"fee", f>>)
    BY <1>1, <1>2, <2>2, PostedNext
  <2> QED
    BY <1>3, <2>1, <2>2, <2>3, <2>4
<1>7. FeesInOrder'
  <2> SUFFICES ASSUME NEW f \in Fees
               PROVE  /\ \A i \in DOMAIN ledger' : ledger'[i].tx = <<"fee", f>> => ledger'[i].amount <= 0
                      /\ \A i \in DOMAIN ledger' : ledger'[i].tx \in Related(f) => Wallet!Posted(<<"fee", f>>)'
                      /\ \A b \in Buckets : Amount(ledger', Related(f), b) <= 0
    BY DEF FeesInOrder
  <2>1. <<"fee", f>> \in Related(f)
    BY FeesAreTxs
  <2> QED
    BY <1>6, <2>1 DEF WalletInv, FeesInOrder
<1>8. HoldsInOrder'
  BY <1>1, <1>6 DEF WalletInv, HoldsInOrder
<1> QED
  BY <1>4, <1>5, <1>7, <1>8 DEF WalletInv

LEMMA PayingKeeps ==
  ASSUME WalletInv, NEW f \in Fees, Paying(f), clock' \in Nat, free' \in Nat
  PROVE  WalletInv'
<1> DEFINE tx == <<"fee", f>>
<1>1. PICK t : /\ Moves(t, {tx}) /\ \A i \in DOMAIN t : t[i].amount <= 0
               /\ Amount(t, {tx}, "free") + Amount(t, {tx}, "paid") = -PriceOf[f]
  BY DEF Paying
<1>2. WalletTables /\ t \in Seq(Rows) /\ \A i \in DOMAIN t : t[i].tx \in {tx}
  BY <1>1 DEF WalletInv, Moves
<1>3. tx \in Txs /\ {tx} \in SUBSET Txs /\ tx \in Related(f) /\ {tx} \subseteq Related(f)
  BY ZenonT(60), FeesAreTxs
<1>4. ~Wallet!Posted(tx) /\ ((hold[f] = "none" /\ hold' = hold) \/ hold' = [hold EXCEPT ![f] = "captured"])
  BY DEF Paying
<1> HIDE DEF tx
<1>5. /\ ledger' \in Seq(Rows) /\ paid' \in Int
      /\ \A i \in DOMAIN ledger : i \in DOMAIN ledger' /\ ledger'[i] = ledger[i]
      /\ \A i \in DOMAIN ledger' :
           i \in DOMAIN ledger \/ \E n \in DOMAIN t : ledger'[i] = t[n] /\ t[n].tx \in {tx}
      /\ \A T, b : {tx} \subseteq T => Amount(ledger', T, b) = Amount(ledger, T, b) + Amount(t, {tx}, b)
      /\ \A T, b : {tx} \cap T = {} => Amount(ledger', T, b) = Amount(ledger, T, b)
  BY <1>1, <1>2, MovesAppend
<1>6. WalletTables'
  <2>1. hold' \in [Fees -> HoldStates]
    BY <1>2, <1>4 DEF WalletTables, HoldStates
  <2> QED
    BY <1>5, <2>1 DEF WalletTables
<1>7. free' = Amount(ledger', Txs, "free") /\ paid' = Amount(ledger', Txs, "paid")
  BY <1>1, <1>3, BalancesFollow
<1>8. \A x : Wallet!Posted(x) => Wallet!Posted(x)'
  BY <1>1, <1>2, PostedNext
<1>9. \A x : Wallet!Posted(x)' => Wallet!Posted(x) \/ x = tx
  BY <1>1, <1>2, PostedNext
<1>10. \A b : Amount(t, {tx}, b) \in Int /\ Amount(t, {tx}, b) <= 0
  BY <1>1, <1>2, AmountInt, AmountSign
<1>11. ASSUME NEW g \in Fees
       PROVE  /\ \A i \in DOMAIN ledger' : ledger'[i].tx = <<"fee", g>> => ledger'[i].amount <= 0
              /\ \A i \in DOMAIN ledger' : ledger'[i].tx \in Related(g) => Wallet!Posted(<<"fee", g>>)'
              /\ \A b \in Buckets : Amount(ledger', Related(g), b) <= 0
  <2>1. /\ \A i \in DOMAIN ledger : ledger[i].tx = <<"fee", g>> => ledger[i].amount <= 0
        /\ \A i \in DOMAIN ledger : ledger[i].tx \in Related(g) => Wallet!Posted(<<"fee", g>>)
        /\ \A b \in Buckets : Amount(ledger, Related(g), b) <= 0
    BY DEF WalletInv, FeesInOrder
  <2>2. \A i \in DOMAIN ledger' : ledger'[i].tx = <<"fee", g>> => ledger'[i].amount <= 0
    BY <1>1, <1>5, <2>1
  <2>3. ASSUME NEW i \in DOMAIN ledger', ledger'[i].tx \in Related(g)
        PROVE  Wallet!Posted(<<"fee", g>>)'
    <3>1. CASE i \in DOMAIN ledger
      BY <1>5, <1>8, <2>1, <2>3, <3>1
    <3>2. CASE i \notin DOMAIN ledger
      <4>1. ledger'[i].tx = tx
        BY <1>5, <3>2
      <4>2. g = f
        BY <1>3, <2>3, <4>1, FeesAreTxs
      <4> QED
        BY <4>1, <4>2 DEF Wallet!Posted, Wallet!Places, tx
    <3> QED
      BY <3>1, <3>2
  <2>4. ASSUME NEW b \in Buckets
        PROVE  Amount(ledger', Related(g), b) <= 0
    <3>1. Amount(ledger, Related(g), b) \in Int
      BY <1>2, AmountInt DEF WalletTables
    <3>2. CASE g = f
      <4>1. Amount(ledger', Related(g), b) = Amount(ledger, Related(g), b) + Amount(t, {tx}, b)
        BY <1>3, <1>5, <3>2, Zenon
      <4> QED
        BY <1>10, <2>1, <3>1, <4>1
    <3>3. CASE g # f
      <4>2. Related(f) \cap Related(g) = {}
        BY <3>3, FeesAreTxs
      <4>1. {tx} \cap Related(g) = {}
        BY <1>3, <4>2
      <4> QED
        BY <1>5, <2>1, <4>1
    <3> QED
      BY <3>2, <3>3
  <2> QED
    BY <2>2, <2>3, <2>4
<1>12. ASSUME NEW g \in Fees, hold'[g] # "none"
       PROVE  IF hold'[g] = "captured"
                THEN Amount(ledger', {<<"fee", g>>}, "free") + Amount(ledger', {<<"fee", g>>}, "paid") = -PriceOf[g]
                ELSE ~Wallet!Posted(<<"fee", g>>)'
  <2>1. CASE g = f
    <3>1. hold' = [hold EXCEPT ![f] = "captured"]
      BY <1>4, <1>12, <2>1
    <3>2. hold'[g] = "captured"
      BY <1>2, <2>1, <3>1 DEF WalletTables
    <3>3. \A i \in DOMAIN ledger : ledger[i].tx \notin {tx}
      BY <1>4 DEF Wallet!Posted, Wallet!Places
    <3>4. \A b : Amount(ledger, {tx}, b) = 0
      BY <1>2, <3>3, AmountNone DEF WalletTables
    <3>6. {tx} \subseteq {tx}
      OBVIOUS
    <3>7. \A b : Amount(ledger', {tx}, b) = Amount(ledger, {tx}, b) + Amount(t, {tx}, b)
      BY <1>5, <3>6, Zenon
    <3>5. \A b : Amount(ledger', {tx}, b) = Amount(t, {tx}, b)
      BY <1>10, <3>4, <3>7
    <3> QED
      BY <1>1, <2>1, <3>2, <3>5 DEF tx
  <2>2. CASE g # f
    <3>1. hold'[g] = hold[g]
      BY <1>2, <1>4, <2>2 DEF WalletTables
    <3>2. <<"fee", g>> # tx /\ {tx} \cap {<<"fee", g>>} = {}
      BY <2>2 DEF tx
    <3>3. ~Wallet!Posted(<<"fee", g>>) => ~Wallet!Posted(<<"fee", g>>)'
      BY <1>9, <3>2
    <3>4. \A b : Amount(ledger', {<<"fee", g>>}, b) = Amount(ledger, {<<"fee", g>>}, b)
      BY <1>5, <3>2
    <3> QED
      BY <1>12, <3>1, <3>3, <3>4 DEF WalletInv, HoldsInOrder
  <2> QED
    BY <2>1, <2>2
<1>13. FeesInOrder'
  BY <1>11 DEF FeesInOrder
<1>14. HoldsInOrder'
  BY <1>12 DEF HoldsInOrder
<1> QED
  BY <1>6, <1>7, <1>13, <1>14 DEF WalletInv

LEMMA GivingBackKeeps ==
  ASSUME WalletInv, NEW f \in Fees, NEW r \in {"reversal", "event_refund"}, GivingBack(f, r),
         clock' \in Nat, free' \in Nat
  PROVE  WalletInv'
<1> DEFINE tx == <<r, f>>
<1>1. PICK t : /\ Moves(t, {tx})
               /\ \A b \in Buckets : Amount(ledger, Related(f), b) + Amount(t, {tx}, b) <= 0
  BY DEF GivingBack
<1>2. WalletTables
  BY DEF WalletInv
<1>3. tx \in Related(f) /\ {tx} \in SUBSET Txs /\ {tx} \subseteq Related(f)
  <2>1. tx \in Related(f)
    BY DEF Related
  <2>2. Related(f) \in SUBSET Txs
    BY FeesAreTxs
  <2> QED
    BY <2>1, <2>2
<1>4. Wallet!Posted(<<"fee", f>>) /\ hold' = hold
  BY DEF GivingBack
<1>5. \A g \in Fees : <<"fee", g>> # tx /\ {tx} \cap {<<"fee", g>>} = {}
  OBVIOUS
<1> HIDE DEF tx
<1>6. /\ ledger' \in Seq(Rows) /\ paid' \in Int
      /\ \A i \in DOMAIN ledger : i \in DOMAIN ledger' /\ ledger'[i] = ledger[i]
      /\ \A i \in DOMAIN ledger' :
           i \in DOMAIN ledger \/ \E n \in DOMAIN t : ledger'[i] = t[n] /\ t[n].tx \in {tx}
      /\ \A T, b : {tx} \subseteq T => Amount(ledger', T, b) = Amount(ledger, T, b) + Amount(t, {tx}, b)
      /\ \A T, b : {tx} \cap T = {} => Amount(ledger', T, b) = Amount(ledger, T, b)
  BY <1>1, <1>2, MovesAppend
<1>7. WalletTables'
  BY <1>2, <1>4, <1>6 DEF WalletTables
<1>8. free' = Amount(ledger', Txs, "free") /\ paid' = Amount(ledger', Txs, "paid")
  BY <1>1, <1>3, BalancesFollow
<1>9. \A g \in Fees : Wallet!Posted(<<"fee", g>>)' <=> Wallet!Posted(<<"fee", g>>)
  <2>1. \A g \in Fees : <<"fee", g>> \notin {tx}
    BY <1>5
  <2> QED
    BY <1>1, <1>2, <2>1, PostedNext
<1>10. ASSUME NEW g \in Fees
       PROVE  /\ \A i \in DOMAIN ledger' : ledger'[i].tx = <<"fee", g>> => ledger'[i].amount <= 0
              /\ \A i \in DOMAIN ledger' : ledger'[i].tx \in Related(g) => Wallet!Posted(<<"fee", g>>)'
              /\ \A b \in Buckets : Amount(ledger', Related(g), b) <= 0
  <2>1. /\ \A i \in DOMAIN ledger : ledger[i].tx = <<"fee", g>> => ledger[i].amount <= 0
        /\ \A i \in DOMAIN ledger : ledger[i].tx \in Related(g) => Wallet!Posted(<<"fee", g>>)
        /\ \A b \in Buckets : Amount(ledger, Related(g), b) <= 0
    BY DEF WalletInv, FeesInOrder
  <2>2. \A i \in DOMAIN ledger' : ledger'[i].tx = <<"fee", g>> => ledger'[i].amount <= 0
    BY <1>5, <1>6, <2>1
  <2>3. g # f => Related(f) \cap Related(g) = {}
    BY FeesAreTxs
  <2>4. g # f => tx \notin Related(g) /\ {tx} \cap Related(g) = {}
    BY <1>3, <2>3
  <2>5. ASSUME NEW i \in DOMAIN ledger', ledger'[i].tx \in Related(g)
        PROVE  Wallet!Posted(<<"fee", g>>)'
    <3>1. CASE i \in DOMAIN ledger
      BY <1>6, <1>9, <2>1, <2>5, <3>1
    <3>2. CASE i \notin DOMAIN ledger
      <4>1. ledger'[i].tx = tx
        BY <1>6, <3>2
      <4>2. g = f
        BY <2>4, <2>5, <4>1
      <4> QED
        BY <1>4, <1>9, <4>2
    <3> QED
      BY <3>1, <3>2
  <2>6. ASSUME NEW b \in Buckets
        PROVE  Amount(ledger', Related(g), b) <= 0
    <3>1. CASE g = f
      <4>1. Amount(ledger', Related(g), b) = Amount(ledger, Related(g), b) + Amount(t, {tx}, b)
        BY <1>3, <1>6, <3>1, Zenon
      <4> QED
        BY <1>1, <3>1, <4>1
    <3>2. CASE g # f
      <4>1. Amount(ledger', Related(g), b) = Amount(ledger, Related(g), b)
        BY <1>6, <2>4, <3>2, Zenon
      <4> QED
        BY <2>1, <4>1
    <3> QED
      BY <3>1, <3>2
  <2> QED
    BY <2>2, <2>5, <2>6
<1>11. \A g \in Fees, b \in Buckets : Amount(ledger', {<<"fee", g>>}, b) = Amount(ledger, {<<"fee", g>>}, b)
  BY <1>5, <1>6
<1>12. FeesInOrder'
  BY <1>10 DEF FeesInOrder
<1>13. HoldsInOrder'
  BY <1>4, <1>9, <1>11 DEF WalletInv, HoldsInOrder, Buckets
<1> QED
  BY <1>7, <1>8, <1>12, <1>13 DEF WalletInv

LEMMA HoldingKeeps ==
  ASSUME WalletInv, clock' \in Nat, UNCHANGED <<free, paid, ledger>>,
         hold' = hold \/ \E f \in Fees : Holding(f)
  PROVE  WalletInv'
<1>1. hold' \in [Fees -> HoldStates]
  BY DEF WalletInv, WalletTables, Holding
<1>2. \A tx : Wallet!Posted(tx)' <=> Wallet!Posted(tx)
  BY DEF Wallet!Posted, Wallet!Places
<1>3. WalletTables'
  BY <1>1 DEF WalletInv, WalletTables
<1>4. FeesInOrder'
  BY <1>2 DEF WalletInv, FeesInOrder
<1>5. HoldsInOrder'
  <2>1. CASE hold' = hold
    BY <1>2, <2>1 DEF WalletInv, HoldsInOrder
  <2>2. CASE \E f \in Fees : Holding(f)
    <3>1. PICK f \in Fees, state \in HoldStates \ {"captured"} :
            hold' = [hold EXCEPT ![f] = state] /\ ~Wallet!Posted(<<"fee", f>>)
      BY <2>2 DEF Holding
    <3>2. \A g \in Fees : hold'[g] = IF g = f THEN state ELSE hold[g]
      BY <3>1 DEF WalletInv, WalletTables
    <3>3. state # "captured"
      OBVIOUS
    <3> QED
      BY <1>2, <3>1, <3>2, <3>3 DEF WalletInv, HoldsInOrder
  <2> QED
    BY <2>1, <2>2
<1> QED
  BY <1>3, <1>4, <1>5 DEF WalletInv

-----------------------------------------------------------------------------
(* The wallet: each operation is a step of its kind *)

\* One transaction of at most two postings.
LEMMA PairPosted ==
  ASSUME WalletTables, NEW c \in BOOLEAN, NEW d \in BOOLEAN, NEW r \in Rows, NEW s \in Rows,
         NEW X, r.tx \in X, s.tx \in X, Wallet!Post(Maybe(c, r) \o Maybe(d, s)),
         free' = free + (IF c /\ r.bucket = "free" THEN r.amount ELSE 0)
                      + (IF d /\ s.bucket = "free" THEN s.amount ELSE 0),
         paid' = paid + (IF c /\ r.bucket = "paid" THEN r.amount ELSE 0)
                      + (IF d /\ s.bucket = "paid" THEN s.amount ELSE 0)
  PROVE  \E t : Moves(t, X) /\ Worth(t, X, c, r, d, s)
<1> DEFINE t == Maybe(c, r) \o Maybe(d, s)
<1>1. ledger' = ledger \o t
  BY DEF Wallet!Post
<1>5. t = Maybe(c, r) \o Maybe(d, s)
  OBVIOUS
<1> HIDE DEF t
<1>2. /\ t \in Seq(Rows) /\ \A i \in DOMAIN t : t[i].tx \in X
      /\ \A b : Amount(t, X, b) = (IF c /\ r.bucket = b THEN r.amount ELSE 0)
                                  + (IF d /\ s.bucket = b THEN s.amount ELSE 0)
  <2>1. Worth(t, X, c, r, d, s)
    BY <1>5, TwoPostings
  <2> QED
    BY <2>1 DEF Worth
<1>6. Worth(t, X, c, r, d, s)
  BY <1>5, TwoPostings
<1>3. r.amount \in Int /\ s.amount \in Int
  BY DEF Rows
<1>4. /\ free' = free + Amount(t, X, "free")
      /\ paid' = paid + Amount(t, X, "paid")
  <2>1. free \in Int /\ paid \in Int
    BY DEF WalletTables
  <2>2. /\ Amount(t, X, "free") = (IF c /\ r.bucket = "free" THEN r.amount ELSE 0)
                                  + (IF d /\ s.bucket = "free" THEN s.amount ELSE 0)
        /\ Amount(t, X, "paid") = (IF c /\ r.bucket = "paid" THEN r.amount ELSE 0)
                                  + (IF d /\ s.bucket = "paid" THEN s.amount ELSE 0)
    BY <1>2
  <2> QED
    BY <1>3, <2>1, <2>2
<1> QED
  BY <1>1, <1>2, <1>4, <1>6 DEF Moves

LEMMA SinglePosted ==
  ASSUME NEW r
  PROVE  Maybe(TRUE, r) \o Maybe(FALSE, r) = <<r>>
BY DEF Maybe

\* Keys of fees are no keys of anything else.
LEMMA OtherKeys ==
  ASSUME NEW kind \in {"reward", "adjustment", "expiry", "paid", "bonus", "store_refund"}, NEW x
  PROVE  \A f \in Fees : <<kind, x>> \notin Related(f)
BY DEF Related

LEMMA RewardMoves ==
  ASSUME WalletTables, NEW k \in Rewards, Wallet!Reward(k)
  PROVE  Elsewhere /\ clock' \in Nat /\ free' \in Nat /\ free' + paid' >= free + paid
<1> DEFINE tx == <<"reward", k>>
           row == Wallet!Posting(tx, "free", RewardOf[k], clock + CreditLife, 0, 0)
<1>1. RewardOf[k] \in Nat /\ clock + CreditLife \in Nat
  BY CommerceAssumption DEF WalletTables
<1>2. tx \in Txs
  BY DEF Txs
<1>3. row \in Rows /\ row.tx = tx /\ row.bucket = "free" /\ row.amount = RewardOf[k]
  BY <1>1, <1>2 DEF Wallet!Posting, Rows, Buckets
<1>4. /\ Wallet!Post(<<row>>) /\ free' = free + RewardOf[k] /\ paid' = paid /\ clock' = clock /\ hold' = hold
  BY DEF Wallet!Reward
<1>5. \A f \in Fees : tx \notin Related(f)
  BY OtherKeys
<1> HIDE DEF tx, row
<1>6. Wallet!Post(Maybe(TRUE, row) \o Maybe(FALSE, row))
  BY <1>4, SinglePosted
<1>7. \E t : Moves(t, {tx})
  <2>1. /\ free' = free + (IF TRUE /\ row.bucket = "free" THEN row.amount ELSE 0)
                        + (IF FALSE /\ row.bucket = "free" THEN row.amount ELSE 0)
        /\ paid' = paid + (IF TRUE /\ row.bucket = "paid" THEN row.amount ELSE 0)
                        + (IF FALSE /\ row.bucket = "paid" THEN row.amount ELSE 0)
    BY <1>1, <1>3, <1>4 DEF WalletTables
  <2>2. row.tx \in {tx}
    BY <1>3
  <2> QED
    BY <1>3, <1>6, <2>1, <2>2, PairPosted
<1>8. {tx} \in SUBSET Txs /\ \A f \in Fees : {tx} \cap Related(f) = {}
  BY <1>2, <1>5
<1>9. Elsewhere
  BY <1>4, <1>7, <1>8 DEF Elsewhere
<1> QED
  BY <1>1, <1>4, <1>9 DEF WalletTables

LEMMA OrderMoves ==
  ASSUME WalletTables, NEW o \in Orders, Wallet!VerifyAndCredit(o)
  PROVE  Elsewhere /\ clock' \in Nat /\ free' \in Nat /\ free' + paid' >= free + paid
<1> DEFINE X == {<<"paid", o>>, <<"bonus", o>>}
           row == Wallet!Posting(<<"paid", o>>, "paid", PointsOf[o], Wallet!Never, 0, 0)
           bonus == Wallet!Posting(<<"bonus", o>>, "free", BonusOf[o], clock + CreditLife, 0, 0)
           c == BonusOf[o] > 0
<1>1. PointsOf[o] \in Nat /\ BonusOf[o] \in Nat /\ clock + CreditLife \in Nat /\ Wallet!Never \in Nat
  BY CommerceAssumption DEF WalletTables, Wallet!Never
<1>2. X \in SUBSET Txs /\ <<"paid", o>> \in Txs /\ <<"bonus", o>> \in Txs
  BY DEF Txs
<1>3. /\ row \in Rows /\ row.tx \in X /\ row.bucket = "paid" /\ row.amount = PointsOf[o]
      /\ bonus \in Rows /\ bonus.tx \in X /\ bonus.bucket = "free" /\ bonus.amount = BonusOf[o]
  BY <1>1, <1>2 DEF Wallet!Posting, Rows, Buckets
<1>4. /\ Wallet!Post(<<row>> \o (IF c THEN <<bonus>> ELSE <<>>))
      /\ free' = free + BonusOf[o] /\ paid' = paid + PointsOf[o] /\ clock' = clock /\ hold' = hold
  BY DEF Wallet!VerifyAndCredit
<1>5. Wallet!Post(Maybe(TRUE, row) \o Maybe(c, bonus))
  BY <1>4 DEF Maybe
<1>6. \A f \in Fees : X \cap Related(f) = {}
  <2>1. \A f \in Fees : <<"paid", o>> \notin Related(f) /\ <<"bonus", o>> \notin Related(f)
    BY OtherKeys
  <2> QED
    BY <2>1
<1>7. c \in BOOLEAN /\ (~c => BonusOf[o] = 0)
  BY <1>1
<1> HIDE DEF X, row, bonus, c
<1>8. \E t : Moves(t, X)
  <2>1. /\ free' = free + (IF TRUE /\ row.bucket = "free" THEN row.amount ELSE 0)
                        + (IF c /\ bonus.bucket = "free" THEN bonus.amount ELSE 0)
        /\ paid' = paid + (IF TRUE /\ row.bucket = "paid" THEN row.amount ELSE 0)
                        + (IF c /\ bonus.bucket = "paid" THEN bonus.amount ELSE 0)
    BY <1>1, <1>3, <1>4, <1>7 DEF WalletTables
  <2> QED
    BY <1>3, <1>5, <1>7, <2>1, PairPosted
<1>9. Elsewhere
  BY <1>2, <1>4, <1>6, <1>8 DEF Elsewhere
<1> QED
  BY SMTT(30), <1>1, <1>4, <1>9 DEF WalletTables

\* A refund of an order claws back what is there; the rest is owed by the paid bucket.
LEMMA RevokeMoves ==
  ASSUME WalletTables, NEW o \in Orders, NEW halves \in 1..2, Wallet!Revoke(o, halves)
  PROVE  Elsewhere /\ clock' \in Nat /\ free' \in Nat
<1> DEFINE tx == <<"store_refund", o>>
           half(n) == (n * halves + 1) \div 2
           paidDue == half(PointsOf[o])
           freeDue == half(BonusOf[o])
           taken == Wallet!Min({freeDue, free})
           owed == paidDue + freeDue - taken
           row == Wallet!Posting(tx, "paid", -owed, Wallet!Never, 0, 0)
           other == Wallet!Posting(tx, "free", -taken, Wallet!Never, 0, 0)
           c == taken > 0
<1>1. PointsOf[o] \in Nat /\ BonusOf[o] \in Nat /\ Wallet!Never \in Nat /\ free \in Nat /\ paid \in Int
  BY CommerceAssumption DEF WalletTables, Wallet!Never
<1>2. \A n \in Nat : half(n) \in Nat
  <2>1. CASE halves = 1
    <3>1. \A n \in Nat : half(n) = (n + 1) \div 2
      BY <2>1
    <3> QED
      BY <3>1
  <2>2. CASE halves = 2
    <3>1. \A n \in Nat : half(n) = (n * 2 + 1) \div 2
      BY <2>2
    <3> QED
      BY <3>1
  <2>3. halves = 1 \/ halves = 2
    OBVIOUS
  <2> QED
    BY <2>1, <2>2, <2>3
<1>3. paidDue \in Nat /\ freeDue \in Nat
  BY <1>1, <1>2
<1>4. /\ Wallet!Post(<<row>> \o (IF c THEN <<other>> ELSE <<>>))
      /\ free' = free - taken /\ paid' = paid - (paidDue + (freeDue - taken))
      /\ clock' = clock /\ hold' = hold
  BY DEF Wallet!Revoke, Wallet!ClawedBack
<1> HIDE DEF half, paidDue, freeDue
<1>5. taken = IF freeDue <= free THEN freeDue ELSE free
  <2>1. Wallet!Min({freeDue, free}) = Min({freeDue, free})
    BY Zenon DEF Wallet!Min, Min
  <2> QED
    BY <1>1, <1>3, <2>1, TwoExtremes
<1> HIDE DEF taken
<1>6. taken \in Nat /\ taken <= free /\ owed \in Int /\ -owed \in Int /\ -taken \in Int
  BY <1>1, <1>3, <1>5
<1>7. tx \in Txs
  BY DEF Txs
<1>8. /\ row \in Rows /\ row.tx = tx /\ row.bucket = "paid" /\ row.amount = -owed
      /\ other \in Rows /\ other.tx = tx /\ other.bucket = "free" /\ other.amount = -taken
  <2> HIDE DEF owed, tx
  <2> QED
    BY <1>1, <1>6, <1>7 DEF Wallet!Posting, Rows, Buckets
<1>9. Wallet!Post(Maybe(TRUE, row) \o Maybe(c, other))
  BY <1>4 DEF Maybe
<1>10. \A f \in Fees : tx \notin Related(f)
  BY OtherKeys
<1>11. c \in BOOLEAN /\ (~c => taken = 0)
  BY <1>6
<1> HIDE DEF tx, row, other, c
<1>12. \E t : Moves(t, {tx})
  <2>1. /\ free' = free + (IF TRUE /\ row.bucket = "free" THEN row.amount ELSE 0)
                        + (IF c /\ other.bucket = "free" THEN other.amount ELSE 0)
        /\ paid' = paid + (IF TRUE /\ row.bucket = "paid" THEN row.amount ELSE 0)
                        + (IF c /\ other.bucket = "paid" THEN other.amount ELSE 0)
    BY <1>1, <1>3, <1>4, <1>6, <1>8, <1>11
  <2>2. row.tx \in {tx} /\ other.tx \in {tx}
    BY <1>8
  <2> QED
    BY <1>8, <1>9, <1>11, <2>1, <2>2, PairPosted
<1>13. {tx} \in SUBSET Txs /\ \A f \in Fees : {tx} \cap Related(f) = {}
  BY <1>7, <1>10
<1>14. Elsewhere
  BY <1>4, <1>12, <1>13 DEF Elsewhere
<1> QED
  BY <1>1, <1>4, <1>6, <1>14 DEF WalletTables

LEMMA AdjustMoves ==
  ASSUME WalletTables, NEW j \in Adjustments, Wallet!Adjust(j)
  PROVE  Elsewhere /\ clock' \in Nat /\ free' \in Nat
<1> DEFINE tx == <<"adjustment", j>>
           bk == AdjustmentOf[j][1]
           amt == AdjustmentOf[j][2]
           row == Wallet!Posting(tx, bk, amt, Wallet!Never, 0, 0)
<1>1. bk \in Buckets /\ amt \in Int /\ Wallet!Never \in Nat /\ free \in Nat /\ paid \in Int /\ clock \in Nat
  BY CommerceAssumption DEF WalletTables, Wallet!Never, Buckets
<1>2. tx \in Txs
  BY DEF Txs
<1>3. /\ amt < 0 => (IF bk = "free" THEN free ELSE paid) + amt >= 0
      /\ Wallet!Post(<<row>>) /\ clock' = clock /\ hold' = hold
      /\ free' = (IF bk = "free" THEN free + amt ELSE free)
      /\ paid' = (IF bk = "paid" THEN paid + amt ELSE paid)
  BY DEF Wallet!Adjust
<1> HIDE DEF bk, amt
<1>4. row \in Rows /\ row.tx = tx /\ row.bucket = bk /\ row.amount = amt
  BY <1>1, <1>2 DEF Wallet!Posting, Rows
<1>5. \A f \in Fees : tx \notin Related(f)
  BY OtherKeys
<1> HIDE DEF tx, row
<1>6. Wallet!Post(Maybe(TRUE, row) \o Maybe(FALSE, row))
  BY <1>3, SinglePosted
<1>7. \E t : Moves(t, {tx})
  <2>1. /\ free' = free + (IF TRUE /\ row.bucket = "free" THEN row.amount ELSE 0)
                        + (IF FALSE /\ row.bucket = "free" THEN row.amount ELSE 0)
        /\ paid' = paid + (IF TRUE /\ row.bucket = "paid" THEN row.amount ELSE 0)
                        + (IF FALSE /\ row.bucket = "paid" THEN row.amount ELSE 0)
    BY <1>1, <1>3, <1>4 DEF Buckets
  <2>2. row.tx \in {tx}
    BY <1>4
  <2> QED
    BY <1>4, <1>6, <2>1, <2>2, PairPosted
<1>8. {tx} \in SUBSET Txs /\ \A f \in Fees : {tx} \cap Related(f) = {}
  BY <1>2, <1>5
<1>9. Elsewhere
  BY <1>3, <1>7, <1>8 DEF Elsewhere
<1> QED
  BY <1>1, <1>3, <1>9

LEMMA RemainingInt ==
  ASSUME WalletTables, NEW i \in DOMAIN ledger
  PROVE  Wallet!Remaining(i) \in Int /\ i \in Nat
<1> DEFINE A == {j \in Wallet!Places : ledger[j].lot = i}
           B == {j \in Wallet!Places : ledger[j].platformLot = i}
<1>1. A \in SUBSET DOMAIN ledger /\ B \in SUBSET DOMAIN ledger
  BY DEF Wallet!Places
<1>2. ledger[i] \in Rows /\ i \in Nat
  BY AmongFinite DEF WalletTables
<1>3. ledger[i].amount \in Int
  BY <1>2 DEF Rows
<1>4. Wallet!Remaining(i) = ledger[i].amount + Wallet!Total(A) - Wallet!Total(B)
  BY Zenon DEF Wallet!Remaining
<1> HIDE DEF A, B
<1>5. Wallet!Total(A) \in Int /\ Wallet!Total(B) \in Int
  BY <1>1, TotalInt
<1> QED
  BY <1>2, <1>3, <1>4, <1>5

LEMMA ExpireLotMoves ==
  ASSUME WalletTables, NEW i \in DOMAIN ledger, Wallet!ExpireLot(i)
  PROVE  Elsewhere /\ clock' \in Nat /\ free' \in Nat
<1> DEFINE tx == <<"expiry", i>>
           left == Wallet!Remaining(i)
           row == Wallet!Posting(tx, "free", -left, Wallet!Never, i, 0)
<1>1. left \in Int /\ i \in Nat /\ -left \in Int /\ Wallet!Never \in Nat /\ free \in Nat /\ paid \in Int
      /\ clock \in Nat
  BY CommerceAssumption, RemainingInt DEF WalletTables, Wallet!Never
<1>2. tx \in Txs
  BY <1>1 DEF Txs
<1>3. /\ Wallet!Post(<<row>>) /\ free' = free - left /\ free' >= 0
      /\ paid' = paid /\ clock' = clock /\ hold' = hold
  BY DEF Wallet!ExpireLot
<1> HIDE DEF left
<1>4. row \in Rows /\ row.tx = tx /\ row.bucket = "free" /\ row.amount = -left
  BY <1>1, <1>2 DEF Wallet!Posting, Rows, Buckets
<1>5. \A f \in Fees : tx \notin Related(f)
  BY OtherKeys
<1> HIDE DEF tx, row
<1>6. Wallet!Post(Maybe(TRUE, row) \o Maybe(FALSE, row))
  BY <1>3, SinglePosted
<1>7. \E t : Moves(t, {tx})
  <2>1. /\ free' = free + (IF TRUE /\ row.bucket = "free" THEN row.amount ELSE 0)
                        + (IF FALSE /\ row.bucket = "free" THEN row.amount ELSE 0)
        /\ paid' = paid + (IF TRUE /\ row.bucket = "paid" THEN row.amount ELSE 0)
                        + (IF FALSE /\ row.bucket = "paid" THEN row.amount ELSE 0)
    BY <1>1, <1>3, <1>4
  <2>2. row.tx \in {tx}
    BY <1>4
  <2> QED
    BY <1>4, <1>6, <2>1, <2>2, PairPosted
<1>8. {tx} \in SUBSET Txs /\ \A f \in Fees : {tx} \cap Related(f) = {}
  BY <1>2, <1>5
<1>9. Elsewhere
  BY <1>3, <1>7, <1>8 DEF Elsewhere
<1> QED
  BY <1>1, <1>3, <1>9

\* What a fee took, while nothing of it came back.
LEMMA FeeTaken ==
  ASSUME WalletInv, NEW f \in Fees, Wallet!NotRefunded(f), NEW b
  PROVE  /\ Amount(ledger, Related(f), b) = Amount(ledger, {<<"fee", f>>}, b)
         /\ Amount(ledger, {<<"fee", f>>}, b) \in Int /\ Amount(ledger, {<<"fee", f>>}, b) <= 0
<1>1. ledger \in Seq(Rows) /\ \A i \in DOMAIN ledger : ledger[i].tx = <<"fee", f>> => ledger[i].amount <= 0
  BY DEF WalletInv, WalletTables, FeesInOrder
<1>2. \A i \in DOMAIN ledger : ledger[i].tx # <<"reversal", f>> /\ ledger[i].tx # <<"event_refund", f>>
  BY DEF Wallet!NotRefunded, Wallet!Posted, Wallet!Places
<1>3. \A i \in DOMAIN ledger : ledger[i].tx \in Related(f) <=> ledger[i].tx \in {<<"fee", f>>}
  BY <1>2 DEF Related
<1>4. Amount(ledger, Related(f), b) = Amount(ledger, {<<"fee", f>>}, b)
  BY <1>3, AmountWhole
<1>5. \A i \in DOMAIN ledger : ledger[i].tx \in {<<"fee", f>>} => ledger[i].amount <= 0
  BY <1>1
<1> QED
  BY <1>1, <1>4, <1>5, AmountInt, AmountSign

LEMMA ReverseMoves ==
  ASSUME WalletInv, NEW f \in Fees, NEW amount \in 1..PriceOf[f], Wallet!ReverseFee(f, amount)
  PROVE  /\ GivingBack(f, "reversal") /\ clock' \in Nat /\ free' \in Nat
         /\ free' + paid' >= free + paid
<1> DEFINE tx == <<"reversal", f>>
           spent(b) == -Wallet!Moved(<<"fee", f>>, b)
           paidBack == Wallet!GivenBack(spent("paid"), amount)
           freeBack == Wallet!GivenBack(spent("free"), amount - paidBack)
           row == Wallet!Posting(tx, "paid", paidBack, Wallet!Never, 0, 0)
           other == Wallet!Posting(tx, "free", freeBack, clock + ReversalLife, 0, 0)
           c == paidBack > 0
           d == freeBack > 0
<1>1. /\ Wallet!Posted(<<"fee", f>>) /\ Wallet!NotRefunded(f)
      /\ Wallet!Post((IF c THEN <<row>> ELSE <<>>) \o (IF d THEN <<other>> ELSE <<>>))
      /\ free' = free + freeBack /\ paid' = paid + paidBack /\ clock' = clock /\ hold' = hold
  BY DEF Wallet!ReverseFee
<1>2. WalletTables /\ free \in Nat /\ paid \in Int /\ clock \in Nat /\ amount \in Nat
      /\ Wallet!Never \in Nat /\ clock + ReversalLife \in Nat
  BY CommerceAssumption DEF WalletInv, WalletTables, Wallet!Never
<1>3. /\ \A b : spent(b) = -Amount(ledger, {<<"fee", f>>}, b) /\ spent(b) \in Nat
      /\ \A b : Amount(ledger, Related(f), b) = -spent(b)
  <2>1. \A b : /\ Amount(ledger, Related(f), b) = Amount(ledger, {<<"fee", f>>}, b)
               /\ Amount(ledger, {<<"fee", f>>}, b) \in Int /\ Amount(ledger, {<<"fee", f>>}, b) <= 0
    BY <1>1, FeeTaken
  <2>2. \A b : spent(b) = -Amount(ledger, {<<"fee", f>>}, b)
    BY MovedIsAmount
  <2> QED
    BY <2>1, <2>2
<1> HIDE DEF spent
<1>4. \A x, y \in Nat : Wallet!GivenBack(x, y) = IF x <= y THEN x ELSE y
  <2> TAKE x, y \in Nat
  <2>1. Wallet!Min({x, y}) = Min({x, y})
    BY Zenon DEF Wallet!Min, Min
  <2> QED
    BY <2>1, TwoExtremes DEF Wallet!GivenBack
<1>5. paidBack \in Nat /\ paidBack <= amount /\ paidBack <= spent("paid")
  BY <1>2, <1>3, <1>4
<1>6. amount - paidBack \in Nat
  BY <1>2, <1>5
<1>7. freeBack \in Nat /\ freeBack <= spent("free")
  BY <1>3, <1>4, <1>6
<1> HIDE DEF paidBack, freeBack
<1>8. tx \in Txs
  BY DEF Txs
<1>9. /\ row \in Rows /\ row.tx = tx /\ row.bucket = "paid" /\ row.amount = paidBack
      /\ other \in Rows /\ other.tx = tx /\ other.bucket = "free" /\ other.amount = freeBack
  <2> HIDE DEF tx
  <2> QED
    BY <1>2, <1>5, <1>7, <1>8 DEF Wallet!Posting, Rows, Buckets
<1>10. Wallet!Post(Maybe(c, row) \o Maybe(d, other))
  BY <1>1 DEF Maybe
<1>11. c \in BOOLEAN /\ d \in BOOLEAN /\ (~c => paidBack = 0) /\ (~d => freeBack = 0)
  BY <1>5, <1>7
<1> HIDE DEF row, other, c, d
<1>12. PICK t : Moves(t, {tx}) /\ Worth(t, {tx}, c, row, d, other)
  <2> HIDE DEF tx
  <2>1. /\ free' = free + (IF c /\ row.bucket = "free" THEN row.amount ELSE 0)
                        + (IF d /\ other.bucket = "free" THEN other.amount ELSE 0)
        /\ paid' = paid + (IF c /\ row.bucket = "paid" THEN row.amount ELSE 0)
                        + (IF d /\ other.bucket = "paid" THEN other.amount ELSE 0)
    BY <1>1, <1>2, <1>5, <1>7, <1>9, <1>11
  <2>2. row.tx \in {tx} /\ other.tx \in {tx}
    BY <1>9
  <2> QED
    BY <1>2, <1>9, <1>10, <1>11, <2>1, <2>2, PairPosted
<1>13. Amount(t, {tx}, "paid") = paidBack /\ Amount(t, {tx}, "free") = freeBack
  <2>1. \A b : Amount(t, {tx}, b) = (IF c /\ row.bucket = b THEN row.amount ELSE 0)
                                   + (IF d /\ other.bucket = b THEN other.amount ELSE 0)
    BY <1>12 DEF Worth
  <2>2. \A b : Amount(t, {tx}, b) = (IF c /\ "paid" = b THEN paidBack ELSE 0)
                                   + (IF d /\ "free" = b THEN freeBack ELSE 0)
    BY <1>9, <2>1
  <2> QED
    BY <1>5, <1>7, <1>11, <2>2
<1>14. \A b \in Buckets : Amount(ledger, Related(f), b) + Amount(t, {tx}, b) <= 0
  <2>1. Amount(ledger, Related(f), "paid") + Amount(t, {tx}, "paid") <= 0
    BY <1>3, <1>5, <1>13
  <2>2. Amount(ledger, Related(f), "free") + Amount(t, {tx}, "free") <= 0
    BY <1>3, <1>7, <1>13
  <2> QED
    BY <2>1, <2>2 DEF Buckets
<1>15. GivingBack(f, "reversal")
  BY <1>1, <1>12, <1>14 DEF GivingBack
<1> QED
  BY <1>1, <1>2, <1>5, <1>7, <1>15

LEMMA RefundMoves ==
  ASSUME WalletInv, NEW f \in Fees, Wallet!RefundEventFee(f)
  PROVE  /\ GivingBack(f, "event_refund") /\ clock' \in Nat /\ free' \in Nat
         /\ free' + paid' >= free + paid
<1> DEFINE tx == <<"event_refund", f>>
           P == {i \in DOMAIN ledger : ledger[i].tx = <<"fee", f>>}
           back(b) == -Wallet!Moved(<<"fee", f>>, b)
<1>1. /\ Wallet!Posted(<<"fee", f>>) /\ Wallet!NotRefunded(f)
      /\ free' = free + back("free") /\ paid' = paid + back("paid") /\ clock' = clock /\ hold' = hold
  BY Zenon DEF Wallet!RefundEventFee
<1>2. PICK legs : /\ legs \in Wallet!SetToSeqs(P)
                  /\ Wallet!Post([n \in 1..Len(legs) |->
                       Wallet!Posting(tx, ledger[legs[n]].bucket, -ledger[legs[n]].amount,
                                      Wallet!Never, ledger[legs[n]].lot, 0)])
  BY Zenon DEF Wallet!RefundEventFee, Wallet!InOrder, Wallet!Places
<1> DEFINE t == [n \in 1..Len(legs) |->
                  Wallet!Posting(tx, ledger[legs[n]].bucket, -ledger[legs[n]].amount,
                                 Wallet!Never, ledger[legs[n]].lot, 0)]
<1>3. ledger' = ledger \o t
  BY <1>2 DEF Wallet!Post
<1>4. WalletTables /\ free \in Nat /\ paid \in Int /\ clock \in Nat /\ Wallet!Never \in Nat
      /\ IsFiniteSet(P) /\ P \in SUBSET DOMAIN ledger
  <2>1. WalletTables /\ free \in Nat /\ paid \in Int /\ clock \in Nat /\ Wallet!Never \in Nat
    BY SMTT(30), CommerceAssumption DEF WalletInv, WalletTables, Wallet!Never
  <2>2. P \in SUBSET DOMAIN ledger
    OBVIOUS
  <2>3. IsFiniteSet(DOMAIN ledger)
    BY <2>1, AmongFinite DEF WalletTables
  <2> QED
    BY <2>1, <2>2, <2>3, FS_Subset
<1>5. /\ \A b : back(b) = -Amount(ledger, {<<"fee", f>>}, b) /\ back(b) \in Nat
      /\ \A b : Amount(ledger, Related(f), b) = -back(b)
  <2>1. \A b : /\ Amount(ledger, Related(f), b) = Amount(ledger, {<<"fee", f>>}, b)
               /\ Amount(ledger, {<<"fee", f>>}, b) \in Int /\ Amount(ledger, {<<"fee", f>>}, b) <= 0
    BY <1>1, FeeTaken
  <2>2. \A b : back(b) = -Amount(ledger, {<<"fee", f>>}, b)
    BY MovedIsAmount
  <2> QED
    BY <2>1, <2>2
<1> HIDE DEF back
<1>6. \A b : Amount(ledger, {<<"fee", f>>}, b) = Sum(Amounts(ledger), InBucket(P, b))
  <2>1. \A b : Among(ledger, {<<"fee", f>>}, b) = InBucket(P, b)
    BY DEF Among, InBucket
  <2> HIDE DEF P
  <2> QED
    BY <2>1 DEF Amount
<1>7. tx \in Txs
  BY DEF Txs
<1> HIDE DEF P, tx
<1>8. Len(legs) \in Nat /\ legs \in [1..Len(legs) -> P]
  BY <1>2, <1>4, Enumeration
<1>9. ASSUME NEW n \in 1..Len(legs)
      PROVE  /\ t[n] \in Rows /\ t[n].tx = tx /\ t[n].bucket = ledger[legs[n]].bucket
             /\ t[n].amount = -Amounts(ledger)[legs[n]]
  <2>1. legs[n] \in DOMAIN ledger
    BY <1>4, <1>8
  <2>2. ledger[legs[n]] \in Rows /\ Amounts(ledger)[legs[n]] = ledger[legs[n]].amount
    BY <1>4, <2>1, AmongFinite DEF WalletTables
  <2> DEFINE bk == ledger[legs[n]].bucket
             amt == -ledger[legs[n]].amount
             lot == ledger[legs[n]].lot
  <2>3. bk \in Buckets /\ amt \in Int /\ lot \in Nat
    BY <2>2 DEF Rows
  <2>4. t[n] = Wallet!Posting(tx, bk, amt, Wallet!Never, lot, 0)
    OBVIOUS
  <2>5. amt = -Amounts(ledger)[legs[n]]
    BY <2>2
  <2> HIDE DEF t, bk, amt, lot
  <2>6. t[n] \in Rows /\ t[n].tx = tx /\ t[n].bucket = bk /\ t[n].amount = amt
    BY <1>4, <1>7, <2>3, <2>4 DEF Wallet!Posting, Rows
  <2> QED
    BY <2>5, <2>6, Zenon DEF bk
<1>10. t \in Seq(Rows) /\ Len(t) = Len(legs) /\ DOMAIN t = 1..Len(legs)
  <2>1. t \in [1..Len(legs) -> Rows]
    <3>1. t = [n \in 1..Len(legs) |-> t[n]]
      OBVIOUS
    <3> QED
      BY <1>9, <3>1
  <2> QED
    BY <1>8, <2>1
<1> HIDE DEF t
<1>11. Mirrors(t, P, legs, tx, Amounts(ledger))
  BY <1>9, <1>10 DEF Mirrors
<1>12. \A i \in P : Amounts(ledger)[i] \in Int
  BY <1>4, AmongFinite DEF WalletTables
<1>13. \A b : Amount(t, {tx}, b) = -Sum(Amounts(ledger), InBucket(P, b))
  BY <1>2, <1>4, <1>11, <1>12, MirrorAmount
<1>14. \A b : Amount(t, {tx}, b) = back(b)
  BY <1>5, <1>6, <1>13
<1>15. Moves(t, {tx})
  BY <1>1, <1>3, <1>9, <1>10, <1>14 DEF Moves
<1>16. \A b \in Buckets : Amount(ledger, Related(f), b) + Amount(t, {tx}, b) <= 0
  BY <1>5, <1>14
<1>17. GivingBack(f, "event_refund")
  BY <1>1, <1>15, <1>16 DEF GivingBack, tx
<1> QED
  BY <1>1, <1>4, <1>5, <1>17

LEMMA PayMoves ==
  ASSUME WalletInv, NEW f \in Fees, Wallet!PayFee(f)
  PROVE  /\ Paying(f) /\ clock' \in Nat /\ free' \in Nat
         /\ Slack(free', paid', hold') >= 0
<1> DEFINE tx == <<"fee", f>>
           reserved == Wallet!Reserved(Fees)
<1>1. hold[f] = "none" /\ Wallet!Spend(tx, PriceOf[f], reserved) /\ clock' = clock /\ hold' = hold
  BY DEF Wallet!PayFee
<1>2. WalletTables /\ clock \in Nat /\ PriceOf[f] \in Nat /\ free \in Nat /\ paid \in Int
  BY CommerceAssumption DEF WalletInv, WalletTables
<1>3. tx \in Txs
  BY DEF Txs
<1> HIDE DEF tx, reserved
<1>4. /\ free + paid - reserved >= PriceOf[f] /\ ~Wallet!Posted(tx) /\ free' \in Nat
      /\ \E t : /\ Moves(t, {tx}) /\ \A i \in DOMAIN t : t[i].amount <= 0
                /\ Amount(t, {tx}, "free") + Amount(t, {tx}, "paid") = -PriceOf[f]
  BY <1>1, <1>2, <1>3, SpendTakes
<1>5. PICK t : /\ Moves(t, {tx}) /\ \A i \in DOMAIN t : t[i].amount <= 0
               /\ Amount(t, {tx}, "free") + Amount(t, {tx}, "paid") = -PriceOf[f]
  BY <1>4
<1>6. Paying(f)
  BY <1>1, <1>4, <1>5 DEF Paying, tx
<1>7. Amount(t, {tx}, "free") \in Int /\ Amount(t, {tx}, "paid") \in Int
  BY <1>5, AmountInt DEF Moves
<1>8. free' = free + Amount(t, {tx}, "free") /\ paid' = paid + Amount(t, {tx}, "paid")
  BY <1>5 DEF Moves
<1>9. free' + paid' = free + paid - PriceOf[f]
  BY <1>2, <1>5, <1>7, <1>8
<1>10. reserved = Sum(PriceOf, Held(hold)) /\ Sum(PriceOf, Held(hold)) \in Int
  <2>1. Held(hold) \in SUBSET Fees
    BY DEF Held
  <2>2. Sum(PriceOf, Held(hold)) \in Int
    BY <2>1, HeldSum
  <2> QED
    BY <2>2, ReservedIsSum DEF Held, reserved
<1>11. Slack(free', paid', hold') >= 0
  <2>1. Slack(free', paid', hold') = free' + paid' - Sum(PriceOf, Held(hold'))
    BY DEF Slack
  <2>2. Sum(PriceOf, Held(hold')) = reserved /\ reserved \in Int
    BY <1>1, <1>10
  <2>4. PICK x, y, k, v, w : x = free /\ y = paid /\ k = reserved /\ v = free' /\ w = paid'
    OBVIOUS
  <2>5. /\ x \in Int /\ y \in Int /\ v \in Int /\ w \in Int /\ k \in Int /\ PriceOf[f] \in Int
        /\ Slack(free', paid', hold') = v + w - k /\ v + w = x + y - PriceOf[f] /\ x + y - k >= PriceOf[f]
    <3>1. x \in Int /\ y \in Int /\ v \in Int /\ k \in Int /\ PriceOf[f] \in Int
      BY <1>2, <1>4, <2>2, <2>4
    <3>2. paid' = paid + Amount(t, {tx}, "paid") /\ paid \in Int /\ Amount(t, {tx}, "paid") \in Int
      BY <1>2, <1>7, <1>8
    <3>3. w \in Int
      BY <2>4, <3>2
    <3>4. Slack(free', paid', hold') = v + w - k
      BY <2>1, <2>2, <2>4, Zenon
    <3>5. v + w = x + y - PriceOf[f]
      BY <1>9, <2>4, Zenon
    <3>6. x + y - k >= PriceOf[f]
      BY <1>4, <2>4, Zenon
    <3> QED
      BY <3>1, <3>3, <3>4, <3>5, <3>6
  <2> QED
    BY <2>5
<1> QED
  BY <1>1, <1>2, <1>4, <1>6, <1>11

LEMMA CaptureMoves ==
  ASSUME WalletInv, NEW f \in Fees, Wallet!CaptureHold(f)
  PROVE  /\ Paying(f) /\ clock' \in Nat /\ free' \in Nat
         /\ Slack(free', paid', hold') >= 0
<1> DEFINE tx == <<"fee", f>>
           reserved == Wallet!Reserved(Fees \ {f})
<1>1. Wallet!Spend(tx, PriceOf[f], reserved) /\ clock' = clock /\ hold' = [hold EXCEPT ![f] = "captured"]
  BY DEF Wallet!CaptureHold
<1>2. WalletTables /\ clock \in Nat /\ PriceOf[f] \in Nat /\ free \in Nat /\ paid \in Int
  BY CommerceAssumption DEF WalletInv, WalletTables
<1>3. tx \in Txs
  BY DEF Txs
<1> HIDE DEF tx, reserved
<1>4. /\ free + paid - reserved >= PriceOf[f] /\ ~Wallet!Posted(tx) /\ free' \in Nat
      /\ \E t : /\ Moves(t, {tx}) /\ \A i \in DOMAIN t : t[i].amount <= 0
                /\ Amount(t, {tx}, "free") + Amount(t, {tx}, "paid") = -PriceOf[f]
  BY <1>1, <1>2, <1>3, SpendTakes
<1>5. PICK t : /\ Moves(t, {tx}) /\ \A i \in DOMAIN t : t[i].amount <= 0
               /\ Amount(t, {tx}, "free") + Amount(t, {tx}, "paid") = -PriceOf[f]
  BY <1>4
<1>6. Paying(f)
  BY <1>1, <1>4, <1>5 DEF Paying, tx
<1>7. Amount(t, {tx}, "free") \in Int /\ Amount(t, {tx}, "paid") \in Int
  BY <1>5, AmountInt DEF Moves
<1>8. free' = free + Amount(t, {tx}, "free") /\ paid' = paid + Amount(t, {tx}, "paid")
  BY <1>5 DEF Moves
<1>9. free' + paid' = free + paid - PriceOf[f]
  BY <1>2, <1>5, <1>7, <1>8
<1>10. reserved = Sum(PriceOf, Held(hold')) /\ Sum(PriceOf, Held(hold')) \in Int
  <2>1. Fees \ {f} \in SUBSET Fees
    OBVIOUS
  <2>2. {g \in Fees \ {f} : hold[g] = "active"} = Held(hold')
    BY <1>1, <1>2 DEF WalletTables, Held
  <2>3. Held(hold') \in SUBSET Fees
    BY DEF Held
  <2>4. Sum(PriceOf, Held(hold')) \in Int
    BY <2>3, HeldSum
  <2> QED
    BY <2>1, <2>2, <2>4, ReservedIsSum DEF reserved
<1>11. Slack(free', paid', hold') >= 0
  <2>1. Slack(free', paid', hold') = free' + paid' - Sum(PriceOf, Held(hold'))
    BY DEF Slack
  <2>2. Sum(PriceOf, Held(hold')) = reserved /\ reserved \in Int
    BY <1>10
  <2>4. PICK x, y, k, v, w : x = free /\ y = paid /\ k = reserved /\ v = free' /\ w = paid'
    OBVIOUS
  <2>5. /\ x \in Int /\ y \in Int /\ v \in Int /\ w \in Int /\ k \in Int /\ PriceOf[f] \in Int
        /\ Slack(free', paid', hold') = v + w - k /\ v + w = x + y - PriceOf[f] /\ x + y - k >= PriceOf[f]
    <3>1. x \in Int /\ y \in Int /\ v \in Int /\ k \in Int /\ PriceOf[f] \in Int
      BY <1>2, <1>4, <2>2, <2>4
    <3>2. paid' = paid + Amount(t, {tx}, "paid") /\ paid \in Int /\ Amount(t, {tx}, "paid") \in Int
      BY <1>2, <1>7, <1>8
    <3>3. w \in Int
      BY <2>4, <3>2
    <3>4. Slack(free', paid', hold') = v + w - k
      BY <2>1, <2>2, <2>4, Zenon
    <3>5. v + w = x + y - PriceOf[f]
      BY <1>9, <2>4, Zenon
    <3>6. x + y - k >= PriceOf[f]
      BY <1>4, <2>4, Zenon
    <3> QED
      BY <3>1, <3>3, <3>4, <3>5, <3>6
  <2> QED
    BY <2>5
<1> QED
  BY <1>1, <1>2, <1>4, <1>6, <1>11

LEMMA CreateHoldHolds ==
  ASSUME WalletInv, NEW f \in Fees, Wallet!CreateHold(f)
  PROVE  /\ Holding(f) /\ clock' \in Nat /\ UNCHANGED <<free, paid, ledger>>
         /\ Slack(free', paid', hold') >= 0
<1>1. /\ hold[f] = "none" /\ ~Wallet!Posted(<<"fee", f>>)
      /\ free + paid - Wallet!Reserved(Fees) >= PriceOf[f]
      /\ hold' = [hold EXCEPT ![f] = "active"] /\ UNCHANGED <<clock, free, paid, ledger>>
  BY DEF Wallet!CreateHold
<1>2. WalletTables /\ clock \in Nat /\ free \in Nat /\ paid \in Int
  BY DEF WalletInv, WalletTables
<1>3. Holding(f)
  BY <1>1 DEF Holding, HoldStates
<1> DEFINE H == Held(hold)
<1>4. Held(hold') = H \cup {f} /\ f \notin H /\ H \cup {f} \in SUBSET Fees /\ H \in SUBSET Fees
  BY <1>1, <1>2 DEF WalletTables, Held
<1>5. Wallet!Reserved(Fees) = Sum(PriceOf, H)
  BY ReservedIsSum DEF Held
<1> HIDE DEF H
<1>6. IsFiniteSet(H) /\ Sum(PriceOf, H) \in Int /\ \A g \in H \cup {f} : PriceOf[g] \in Int
  BY <1>4, HeldSum
<1>7. Sum(PriceOf, H \cup {f}) = Sum(PriceOf, H) + PriceOf[f]
  BY <1>4, <1>6, SumAdd
<1>8. PriceOf[f] \in Int
  BY <1>6
<1>9. Slack(free', paid', hold') >= 0
  <2>1. Slack(free', paid', hold') = free + paid - Sum(PriceOf, H \cup {f})
    BY <1>1, <1>4, Zenon DEF Slack
  <2>2. free + paid - Sum(PriceOf, H) >= PriceOf[f]
    BY <1>1, <1>5
  <2> QED
    BY <1>2, <1>6, <1>7, <1>8, <2>1, <2>2
<1> QED
  BY <1>1, <1>2, <1>3, <1>9

LEMMA EndHoldHolds ==
  ASSUME WalletInv, NEW f \in Fees,
         Wallet!ReleaseHold(f) \/ Wallet!ExpireHold(f) \/ Wallet!LapseHold(f)
  PROVE  /\ Holding(f) /\ clock' \in Nat /\ UNCHANGED <<free, paid, ledger>>
         /\ Slack(free', paid', hold') >= Slack(free, paid, hold)
<1>1. PICK state \in {"released", "expired", "lapsed"} :
        /\ hold[f] \in {"active", "lapsed"}
        /\ hold' = [hold EXCEPT ![f] = state] /\ UNCHANGED <<clock, free, paid, ledger>>
  BY DEF Wallet!ReleaseHold, Wallet!ExpireHold, Wallet!LapseHold
<1>2. WalletTables /\ clock \in Nat /\ free \in Nat /\ paid \in Int
  BY DEF WalletInv, WalletTables
<1>3. ~Wallet!Posted(<<"fee", f>>)
  BY <1>1 DEF WalletInv, HoldsInOrder
<1>4. state \in HoldStates \ {"captured"}
  BY DEF HoldStates
<1>5. Holding(f)
  BY <1>1, <1>3, <1>4 DEF Holding
<1> DEFINE H == Held(hold)
<1>6. Held(hold') = H \ {f} /\ H \in SUBSET Fees /\ H \ {f} \in SUBSET Fees
  BY <1>1, <1>2 DEF WalletTables, Held
<1> HIDE DEF H
<1>7. /\ IsFiniteSet(H) /\ Sum(PriceOf, H) \in Int /\ \A g \in H : PriceOf[g] \in Int
      /\ Sum(PriceOf, H \ {f}) \in Int /\ PriceOf[f] \in Nat
  BY <1>6, HeldSum, CommerceAssumption
<1>8. Sum(PriceOf, H \ {f}) <= Sum(PriceOf, H)
  <2>1. CASE f \in H
    <3>1. Sum(PriceOf, H) = PriceOf[f] + Sum(PriceOf, H \ {f})
      BY <1>7, <2>1, SumRemove
    <3> QED
      BY <1>7, <3>1
  <2>2. CASE f \notin H
    <3>1. H \ {f} = H
      BY <2>2
    <3> QED
      BY <1>7, <3>1
  <2> QED
    BY <2>1, <2>2
<1>9. Slack(free', paid', hold') >= Slack(free, paid, hold)
  <2>1. free' = free /\ paid' = paid
    BY <1>1
  <2> QED
    BY <1>2, <1>6, <1>7, <1>8, <2>1 DEF Slack, H
<1> QED
  BY <1>1, <1>2, <1>5, <1>9

LEMMA SlackInt ==
  ASSUME WalletTables
  PROVE  Slack(free, paid, hold) \in Int /\ free \in Nat /\ paid \in Int /\ clock \in Nat
<1>1. Held(hold) \in SUBSET Fees
  BY DEF Held
<1>2. Sum(PriceOf, Held(hold)) \in Int
  BY <1>1, HeldSum
<1> QED
  BY <1>2 DEF Slack, WalletTables

\* More points under the same holds cover no less.
LEMMA SlackGrows ==
  ASSUME WalletTables, paid' \in Int, free' \in Nat, hold' = hold, free' + paid' >= free + paid
  PROVE  Slack(free', paid', hold') >= Slack(free, paid, hold)
<1>1. Held(hold) \in SUBSET Fees
  BY DEF Held
<1>2. Sum(PriceOf, Held(hold)) \in Int
  BY <1>1, HeldSum
<1>3. free \in Nat /\ paid \in Int
  BY DEF WalletTables
<1>4. PICK k : k = Sum(PriceOf, Held(hold))
  OBVIOUS
<1>5. Slack(free', paid', hold') = free' + paid' - k /\ Slack(free, paid, hold) = free + paid - k
  BY <1>4, Zenon DEF Slack
<1>6. PICK x, y, v, w : x = free /\ y = paid /\ v = free' /\ w = paid'
  OBVIOUS
<1>7. x \in Int /\ y \in Int /\ v \in Int /\ w \in Int /\ k \in Int
  BY <1>2, <1>3, <1>4, <1>6
<1>8. v + w >= x + y
  BY <1>6, Zenon
<1>9. v + w - k >= x + y - k
  BY <1>7, <1>8
<1> QED
  BY <1>5, <1>6, <1>9, Zenon

Sound ==
  /\ WalletInv'
  /\ Slack(free', paid', hold') >= 0 \/ Slack(free', paid', hold') >= Slack(free, paid, hold) \/ Wallet!TakeBack

LEMMA CreditSound ==
  ASSUME WalletInv, Wallet!Credit
  PROVE  Sound
<1>1. WalletTables
  BY DEF WalletInv
<1>2. Elsewhere /\ clock' \in Nat /\ free' \in Nat /\ free' + paid' >= free + paid
  BY <1>1, RewardMoves, OrderMoves DEF Wallet!Credit
<1>3. WalletInv'
  BY <1>2, ElsewhereKeeps
<1>4. paid' \in Int /\ hold' = hold
  BY <1>2, <1>3 DEF WalletInv, WalletTables, Elsewhere
<1>5. Slack(free', paid', hold') >= Slack(free, paid, hold)
  BY <1>1, <1>2, <1>4, SlackGrows
<1> QED
  BY <1>3, <1>5 DEF Sound

LEMMA UseSound ==
  ASSUME WalletInv, NEW f \in Fees, Wallet!UseOf(f)
  PROVE  Sound
<1>1. CASE Wallet!PayFee(f)
  BY <1>1, PayMoves, PayingKeeps DEF Sound
<1>2. CASE Wallet!CaptureHold(f)
  BY <1>2, CaptureMoves, PayingKeeps DEF Sound
<1>3. CASE Wallet!CreateHold(f)
  <2>1. /\ Holding(f) /\ clock' \in Nat /\ UNCHANGED <<free, paid, ledger>>
        /\ Slack(free', paid', hold') >= 0
    BY <1>3, CreateHoldHolds
  <2>2. WalletInv'
    BY <2>1, HoldingKeeps
  <2> QED
    BY <2>1, <2>2 DEF Sound
<1>4. CASE Wallet!ReleaseHold(f) \/ Wallet!ExpireHold(f) \/ Wallet!LapseHold(f)
  <2>1. /\ Holding(f) /\ clock' \in Nat /\ UNCHANGED <<free, paid, ledger>>
        /\ Slack(free', paid', hold') >= Slack(free, paid, hold)
    BY <1>4, EndHoldHolds
  <2>2. WalletInv'
    BY <2>1, HoldingKeeps
  <2> QED
    BY <2>1, <2>2 DEF Sound
<1>5. ASSUME \/ \E amount \in 1..PriceOf[f] : Wallet!ReverseFee(f, amount)
             \/ Wallet!RefundEventFee(f)
      PROVE  Sound
  <2>1. PICK r \in {"reversal", "event_refund"} :
          GivingBack(f, r) /\ clock' \in Nat /\ free' \in Nat /\ free' + paid' >= free + paid
    BY <1>5, ReverseMoves, RefundMoves
  <2>2. WalletInv'
    BY <2>1, GivingBackKeeps
  <2>3. WalletTables /\ paid' \in Int /\ hold' = hold
    BY <2>1, <2>2 DEF WalletInv, WalletTables, GivingBack
  <2>4. Slack(free', paid', hold') >= Slack(free, paid, hold)
    BY <2>1, <2>3, SlackGrows
  <2> QED
    BY <2>2, <2>4 DEF Sound
<1> QED
  BY <1>1, <1>2, <1>3, <1>4, <1>5 DEF Wallet!UseOf

LEMMA TakeBackSound ==
  ASSUME WalletInv, Wallet!TakeBack
  PROVE  Sound
<1>1. WalletTables
  BY DEF WalletInv
<1>2. \A i \in Wallet!FirstDue : i \in DOMAIN ledger
  BY DEF Wallet!FirstDue, Wallet!DueLots, Wallet!Lots, Wallet!Places
<1>3. Elsewhere /\ clock' \in Nat /\ free' \in Nat
  BY <1>1, <1>2, RevokeMoves, AdjustMoves, ExpireLotMoves DEF Wallet!TakeBack
<1>4. WalletInv'
  BY <1>3, ElsewhereKeeps
<1> QED
  BY <1>4 DEF Sound

LEMMA InitWallet ==
  ASSUME Wallet!Init
  PROVE  WalletInv
<1>1. ledger = <<>> /\ free = 0 /\ paid = 0 /\ clock = 0 /\ hold = [f \in Fees |-> "none"]
  BY DEF Wallet!Init
<1>2. WalletTables
  BY <1>1 DEF WalletTables, HoldStates
<1>3. \A T, b : Amount(ledger, T, b) = 0
  BY <1>1, AmountEmpty
<1>4. \A i \in DOMAIN ledger : FALSE
  BY <1>1
<1>5. FeesInOrder
  BY <1>3, <1>4 DEF FeesInOrder
<1>6. HoldsInOrder
  BY <1>1 DEF HoldsInOrder
<1> QED
  BY <1>1, <1>2, <1>3, <1>5, <1>6 DEF WalletInv

LEMMA StepWallet ==
  ASSUME WalletInv, Wallet!Next \/ UNCHANGED walletPart
  PROVE  Sound
<1>1. CASE Wallet!Credit
  BY <1>1, CreditSound
<1>2. CASE \E f \in Fees : Wallet!UseOf(f)
  BY <1>2, UseSound
<1>3. CASE Wallet!TakeBack
  BY <1>3, TakeBackSound
<1>4. ASSUME Wallet!Tick \/ UNCHANGED walletPart
      PROVE  Sound
  <2>1. WalletTables
    BY DEF WalletInv
  <2>2. UNCHANGED <<free, paid, ledger>> /\ hold' = hold /\ clock' \in Nat
    BY <1>4, <2>1 DEF Wallet!Tick, walletPart, WalletTables
  <2>3. WalletInv'
    BY <2>2, HoldingKeeps
  <2>4. Slack(free', paid', hold') >= Slack(free, paid, hold)
    BY <2>1, <2>2, SlackInt
  <2> QED
    BY <2>3, <2>4 DEF Sound
<1> QED
  BY <1>1, <1>2, <1>3, <1>4 DEF Wallet!Next

-----------------------------------------------------------------------------
(* What the invariants show *)

LEMMA WalletShows ==
  ASSUME WalletInv
  PROVE  Wallet!WalletMatchesLedger /\ FeesSettleOnce
<1>1. WalletTables /\ ledger \in Seq(Rows) /\ \A i \in DOMAIN ledger : ledger[i].tx \in Txs
  <2>1. ledger \in Seq(Rows)
    BY DEF WalletInv, WalletTables
  <2>2. \A i \in DOMAIN ledger : ledger[i] \in Rows
    BY <2>1, AmongFinite
  <2> QED
    BY <2>1, <2>2 DEF Rows, WalletInv
<1>2. \A b : Among(ledger, Txs, b) = {i \in DOMAIN ledger : ledger[i].bucket = b}
  BY <1>1 DEF Among
<1>3. \A b : Wallet!Total({i \in DOMAIN ledger : ledger[i].bucket = b}) = Amount(ledger, Txs, b)
  BY <1>2, TotalIsSum DEF Amount
<1>4. Wallet!WalletMatchesLedger
  BY <1>3 DEF WalletInv, Wallet!WalletMatchesLedger, Wallet!WalletMismatch, Wallet!Places
<1>5. ASSUME NEW f \in Fees, NEW b \in {"free", "paid"}
      PROVE  Wallet!Total({i \in Wallet!Places : /\ ledger[i].tx \in {"fee", "reversal", "event_refund"} \X {f}
                                                 /\ ledger[i].bucket = b}) <= 0
  <2>1. {i \in Wallet!Places : /\ ledger[i].tx \in {"fee", "reversal", "event_refund"} \X {f}
                               /\ ledger[i].bucket = b} = Among(ledger, Related(f), b)
    BY DEF Among, Related, Wallet!Places
  <2>2. Amount(ledger, Related(f), b) <= 0
    BY DEF WalletInv, FeesInOrder, Buckets
  <2> QED
    BY <2>1, <2>2, TotalIsSum DEF Amount
<1>6. Wallet!RefundsWithinFee
  BY <1>5 DEF Wallet!RefundsWithinFee
<1>7. Wallet!CapturedHoldsArePaid
  BY MovedIsAmount DEF Wallet!CapturedHoldsArePaid, WalletInv, HoldsInOrder
<1> QED
  BY <1>4, <1>6, <1>7 DEF FeesSettleOnce

LEMMA CoverShows ==
  ASSUME WalletInv, Sound
  PROVE  Wallet!HoldsTakenBackOnly
<1>1. Wallet!Reserved(Fees) = Sum(PriceOf, Held(hold))
  BY ReservedIsSum DEF Held
<1>2. (Wallet!Reserved(Fees))' = Sum(PriceOf, Held(hold'))
  BY WalletSums DEF Wallet!Reserved, Wallet!Live, Held
<1>3. PICK k, m : k = Slack(free, paid, hold) /\ m = Slack(free', paid', hold')
  OBVIOUS
<1>4. k = free + paid - Wallet!Reserved(Fees) /\ m = free' + paid' - (Wallet!Reserved(Fees))'
  BY <1>1, <1>2, <1>3, Zenon DEF Slack
<1>5. k \in Int /\ m \in Int
  <2>1. WalletTables /\ WalletTables'
    BY DEF WalletInv, Sound
  <2>2. Held(hold) \in SUBSET Fees /\ Held(hold') \in SUBSET Fees
    BY DEF Held
  <2>3. Sum(PriceOf, Held(hold)) \in Int /\ Sum(PriceOf, Held(hold')) \in Int
    BY <2>2, HeldSum
  <2> QED
    BY SMTT(30), <1>1, <1>2, <1>4, <2>1, <2>3 DEF WalletTables
<1>6. m >= 0 \/ m >= k \/ Wallet!TakeBack
  BY <1>3 DEF Sound
<1>7. m < 0 /\ m < k => Wallet!TakeBack
  BY <1>5, <1>6
<1> QED
  BY <1>4, <1>7, Zenon DEF Wallet!HoldsTakenBackOnly

CommerceInv == StreakInv /\ ReferralInv /\ WalletInv

LEMMA InitCommerce == Init => CommerceInv
BY InitStreak, InitReferral, InitWallet DEF Init, CommerceInv

LEMMA StepParts ==
  ASSUME [Next]_commerceVars
  PROVE  /\ CheckingIn!Next \/ UNCHANGED checkinPart
         /\ Inviting!Next \/ UNCHANGED invitingPart
         /\ Wallet!Next \/ UNCHANGED walletPart
         /\ part' = part
BY DEF Next, commerceVars, walletPart, invitingPart, checkinPart

LEMMA StepCommerce == CommerceInv /\ [Next]_commerceVars => CommerceInv'
<1> SUFFICES ASSUME CommerceInv, [Next]_commerceVars PROVE CommerceInv'
  OBVIOUS
<1>1. StreakInv'
  BY StepParts, StepStreak DEF CommerceInv
<1>2. ReferralInv'
  BY StepParts, StepReferral DEF CommerceInv
<1>3. WalletInv'
  BY StepParts, StepWallet DEF CommerceInv, Sound
<1> QED
  BY <1>1, <1>2, <1>3 DEF CommerceInv

\* The inductive invariant of the three parts holds always: the tables have their types, the
\* balances are the sums of the ledger, fees and holds go together, and so on.
THEOREM CommerceAlways == Spec => []CommerceInv
<1>1. Init => CommerceInv
  BY InitCommerce
<1>2. CommerceInv /\ [Next]_commerceVars => CommerceInv'
  BY StepCommerce
<1> QED
  BY <1>1, <1>2, PTL DEF Spec

\* Whenever reconcileLedger looks, the wallet row is the sum of the user's entries in each bucket.
THEOREM WalletAlwaysMatches == Spec => []WalletMatchesLedger
<1>1. CommerceInv => WalletMatchesLedger
  BY WalletShows DEF CommerceInv, WalletMatchesLedger
<1> QED
  BY <1>1, CommerceAlways, PTL

\* Captured holds were paid for exactly, and what a fee took comes back at most once and only as
\* far as it was taken from each bucket.
THEOREM FeesAlwaysSettle == Spec => []FeesSettleOnce
<1>1. CommerceInv => FeesSettleOnce
  BY WalletShows DEF CommerceInv
<1> QED
  BY <1>1, CommerceAlways, PTL

\* No spend, capture or new hold uses points that live holds reserve: only what takes points
\* back (refunds of orders, adjustments, the expiry of lots) lets the balance fall below them.
THEOREM HoldsAlwaysCovered == Spec => HoldsStayCovered
<1>1. CommerceInv /\ [Next]_commerceVars => [part = "wallet" => Wallet!HoldsTakenBackOnly]_commerceVars
  <2> SUFFICES ASSUME CommerceInv, [Next]_commerceVars PROVE Wallet!HoldsTakenBackOnly
    OBVIOUS
  <2>1. WalletInv /\ Sound
    BY StepParts, StepWallet DEF CommerceInv
  <2> QED
    BY <2>1, CoverShows
<1> QED
  BY <1>1, CommerceAlways, PTL DEF Spec, HoldsStayCovered

\* Inviters are paid for visits they brought about, within the window, and the streak with its
\* bonuses is that of the days the user really checked in on.
THEOREM RewardsAlwaysEarned == Spec => []RewardsAreEarned
<1>1. CommerceInv => RewardsAreEarned
  BY StreakTrue, ReferralEarned DEF CommerceInv, RewardsAreEarned
<1> QED
  BY <1>1, CommerceAlways, PTL

=============================================================================
