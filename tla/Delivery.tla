------------------------------ MODULE Delivery ------------------------------
(***************************************************************************)
(* How something that happened reaches a member: services/worker.  Outbox  *)
(* rows, announcements and due reminders become notices, a notice is       *)
(* planned into deliveries (the in-app one always, push under preferences, *)
(* quiet hours and a daily cap), and a delivery is claimed under a lease,  *)
(* sent and recorded.  Several workers run at once; every job but the      *)
(* sending is one transaction whose rows the others skip, so that which    *)
(* worker runs it does not show; the sending is not fenced: a worker whose *)
(* lease ended still writes its outcome.                                   *)
(*                                                                         *)
(* One recipient and one group.  A job handles its items one at a time.    *)
(* MaxFaults bounds what goes wrong (a worker that dies, a provider that   *)
(* fails, a lease that ends under its holder), MaxChoices what the member  *)
(* does.                                                                   *)
(***************************************************************************)
EXTENDS Integers, FiniteSets

CONSTANTS
  Workers,
  Announcements, Cancellations, Changes, Reminders,   \* the sources, by what they are about
  Scenarios,                                          \* sets of sources: a behaviour sees one of them
  DayLength, MaxTime,                                 \* hours of a day, and of a behaviour
  QuietStart, QuietEnd,                               \* notification.quiet_hours
  Cap,                                                \* notification.frequency.announcement_daily
  DueFrom, DueTo,                                     \* the window of a reminder
  MaxAttempts,                                        \* 8 in the code
  MaxFaults, MaxChoices

VARIABLES
  now,          \* hours since the beginning
  source,       \* outbox_events, announcements, registrations with a reminder: none, written, handled
  notice,       \* notification.notifications
  delivery,     \* notification.deliveries
  muted,        \* notification.preferences: push switched off
  token,        \* notification.device_tokens: there is one that is not disabled
  holding,      \* the delivery a worker is sending
  faults, choices

vars == <<now, source, notice, delivery, muted, token, holding, faults, choices>>

Sources == Announcements \cup Cancellations \cup Changes \cup Reminders
Channels == {"in_app", "push", "email"}
Nothing == [of |-> "none", by |-> "none"]

ASSUME DeliveryAssumption ==
  /\ DayLength \in Nat \ {0} /\ MaxTime \in Nat /\ Cap \in Nat
  /\ QuietStart \in 0 .. DayLength - 1 /\ QuietEnd \in 0 .. DayLength - 1
  /\ Scenarios \subseteq SUBSET (Announcements \cup Cancellations \cup Changes \cup Reminders)
  /\ MaxFaults \in Nat /\ MaxAttempts \in Nat /\ MaxFaults < MaxAttempts
  /\ IsFiniteSet(Announcements)
  /\ Announcements \cap (Cancellations \cup Changes \cup Reminders) = {}
  /\ Cancellations \cap (Changes \cup Reminders) = {} /\ Changes \cap Reminders = {}

Today == now \div DayLength
Hour == now % DayLength

TypeOK ==
  /\ now \in 0 .. MaxTime /\ faults \in 0 .. MaxFaults /\ choices \in 0 .. MaxChoices
  /\ source \in [Sources -> {"never", "none", "written", "handled"}]
  /\ notice \in [Sources -> [state : {"none", "new", "planned"}, day : -1 .. MaxTime, planned : -1 .. MaxTime]]
  /\ delivery \in [Sources -> [Channels -> [attempts : 0 .. MaxAttempts, due : BOOLEAN,
       state : {"none", "queued", "sending", "failed", "delivered", "suppressed"}]]]
  /\ muted \in BOOLEAN /\ token \in BOOLEAN
  /\ holding \in [Workers -> {Nothing} \cup [of : Sources, by : Channels]]

DeliveryInit ==
  /\ now = 0 /\ faults = 0
  /\ \E scenario \in Scenarios :
       source = [s \in Sources |-> IF s \in scenario THEN "none" ELSE "never"]
  /\ notice = [s \in Sources |-> [state |-> "none", day |-> -1, planned |-> -1]]
  /\ delivery = [s \in Sources |-> [c \in Channels |-> [state |-> "none", attempts |-> 0, due |-> TRUE]]]
  /\ muted = FALSE /\ token = TRUE
  /\ choices = 0 /\ holding = [w \in Workers |-> Nothing]

-----------------------------------------------------------------------------
(* Notices *)

\* What a kind of notice may use: its channels, and the rules on its push.
Policy(s) ==
  CASE s \in Announcements -> [push |-> TRUE, email |-> FALSE, closable |-> TRUE, bypass |-> FALSE, capped |-> TRUE]
    [] s \in Cancellations -> [push |-> TRUE, email |-> TRUE, closable |-> FALSE, bypass |-> TRUE, capped |-> FALSE]
    [] s \in Changes -> [push |-> TRUE, email |-> FALSE, closable |-> FALSE, bypass |-> FALSE, capped |-> FALSE]
    [] s \in Reminders -> [push |-> TRUE, email |-> FALSE, closable |-> TRUE, bypass |-> FALSE, capped |-> FALSE]

\* (user, type, dedupe_key) is unique: a notice that is there is left alone.
WithNotice(s) ==
  IF notice[s].state # "none" THEN notice
  ELSE [notice EXCEPT ![s] = [state |-> "new", day |-> Today, planned |-> -1]]

\* A member, a host or an operation writes what others are to be told about.
Happens(s) ==
  /\ source[s] = "none" /\ source' = [source EXCEPT ![s] = "written"]
  /\ UNCHANGED <<now, notice, delivery, muted, token, holding, faults, choices>>

\* dispatchOutbox and fanoutAnnouncements: an item is handled in one transaction with its notices.
\* A handler whose SQL fails aborts that transaction, the record of its attempt with it.
Handle(s) ==
  /\ source[s] = "written" /\ source' = [source EXCEPT ![s] = "handled"]
  /\ notice' = WithNotice(s)
  /\ UNCHANGED <<now, delivery, muted, token, holding, faults, choices>>

DispatchOutbox == \E s \in Cancellations \cup Changes : Handle(s)
FanoutAnnouncements == \E s \in Announcements : Handle(s)

\* A reminder is made while its window lasts, and once.
ScheduleEventReminders ==
  /\ now >= DueFrom /\ now < DueTo
  /\ \E s \in Reminders : Handle(s)

-----------------------------------------------------------------------------
(* Planning *)

\* isWithinQuietWindow: [start, end), over midnight when it ends before it starts.
InQuietWindow(hour, start, end) ==
  CASE start = end -> FALSE
    [] start < end -> hour >= start /\ hour < end
    [] OTHER -> hour >= start \/ hour < end

\* A mutant: only what has reached the provider counts.
OverCapOfDelivered(s) ==
  Cardinality({t \in Announcements : notice[t].day = Today /\ delivery[t]["push"].state = "delivered"}) >= Cap

\* More notices of this group were made today than the cap allows, this one included.
OverCap(s) ==
  Cardinality({t \in Announcements : notice[t].state # "none" /\ notice[t].day = Today}) > Cap

\* The state in which the push of s is planned; "none" when the member switched it off.
PushPlan(s) ==
  CASE ~Policy(s).push \/ (Policy(s).closable /\ muted) -> "none"
    [] Policy(s).push /\ ~(Policy(s).closable /\ muted)
         /\ \/ InQuietWindow(Hour, QuietStart, QuietEnd) /\ ~Policy(s).bypass
            \/ Policy(s).capped /\ OverCap(s) -> "suppressed"
    [] OTHER -> "queued"

Planned(s) ==
  [c \in Channels |->
     [delivery[s][c] EXCEPT !.state =
        CASE c = "in_app" -> "queued"
          [] c = "push" -> PushPlan(s)
          [] c = "email" -> IF Policy(s).email THEN "queued" ELSE "none"]]

OrchestrateNotifications(s) ==
  /\ notice[s].state = "new"
  /\ notice' = [notice EXCEPT ![s].state = "planned", ![s].planned = Today]
  /\ delivery' = [delivery EXCEPT ![s] = Planned(s)]
  /\ UNCHANGED <<now, source, muted, token, holding, faults, choices>>

-----------------------------------------------------------------------------
(* Sending *)

\* A mutant: a delivery in sending is left to the worker that took it.
ClaimableWhenIdle(d) == d.state \in {"queued", "failed"} /\ d.due /\ d.attempts < MaxAttempts

\* What claimDelivery picks from: also a delivery left in sending when its lease ended.
Claimable(d) == d.state \in {"queued", "failed", "sending"} /\ d.due /\ d.attempts < MaxAttempts

\* claimDelivery: an attempt is counted and the row is leased.
ClaimDelivery(w, s, c) ==
  /\ holding[w] = Nothing /\ Claimable(delivery[s][c])
  /\ holding' = [holding EXCEPT ![w] = [of |-> s, by |-> c]]
  /\ delivery' = [delivery EXCEPT ![s][c] = [state |-> "sending", attempts |-> @.attempts + 1, due |-> FALSE]]
  /\ UNCHANGED <<now, source, notice, muted, token, faults, choices>>

\* The states an attempt of the channel may leave the delivery in, and whether the token is left.
\* APNs may refuse the token for good, refuse the push, or fail for the moment; SMTP only the last.
Outcomes(c) ==
  CASE c = "in_app" -> {<<"delivered", token>>}
    [] c = "email" -> {<<"delivered", token>>, <<"failed", token>>}
    [] c = "push" /\ ~token -> {<<"suppressed", token>>}
    [] c = "push" /\ token -> {<<"delivered", TRUE>>, <<"failed", TRUE>>, <<"suppressed", TRUE>>, <<"suppressed", FALSE>>}

Faulty == faults < MaxFaults /\ faults' = faults + 1

\* deliverOne: the provider is called and the outcome written by id, whoever holds the lease now.
DeliverOne(w) ==
  LET s == holding[w].of c == holding[w].by IN
  /\ holding[w] # Nothing /\ holding' = [holding EXCEPT ![w] = Nothing]
  /\ \E o \in Outcomes(c) :
       /\ token' = o[2]
       /\ delivery' = [delivery EXCEPT ![s][c].state = o[1], ![s][c].due = IF o[1] = "failed" THEN FALSE ELSE @]
       /\ IF o[1] = "failed" THEN Faulty ELSE UNCHANGED faults
  /\ UNCHANGED <<now, source, notice, muted, choices>>

\* A lease ends or a retry falls due.
Elapses(s, c) ==
  /\ delivery[s][c].state \in {"sending", "failed"} /\ ~delivery[s][c].due
  /\ delivery' = [delivery EXCEPT ![s][c].due = TRUE]
  /\ IF [of |-> s, by |-> c] \in {holding[w] : w \in Workers} THEN Faulty ELSE UNCHANGED faults
  /\ UNCHANGED <<now, source, notice, muted, token, holding, choices>>

\* A worker dies while it sends, or cannot record what it sent.
Fail(w) ==
  /\ holding[w] # Nothing /\ holding' = [holding EXCEPT ![w] = Nothing]
  /\ Faulty
  /\ UNCHANGED <<now, source, notice, delivery, muted, token, choices>>

-----------------------------------------------------------------------------
(* The member *)

Chooses == choices < MaxChoices /\ choices' = choices + 1

\* updatePreference, for the closable kinds.
UpdatePreference ==
  /\ Chooses /\ muted' = ~muted
  /\ UNCHANGED <<now, source, notice, delivery, token, holding, faults>>

\* registerDevice brings the token back; disableDevice ends it.
RegisterDevice ==
  /\ Chooses /\ ~token /\ token' = TRUE
  /\ UNCHANGED <<now, source, notice, delivery, muted, holding, faults>>
DisableDevice ==
  /\ Chooses /\ token /\ token' = FALSE
  /\ UNCHANGED <<now, source, notice, delivery, muted, holding, faults>>

Tick ==
  /\ now < MaxTime /\ now' = now + 1
  /\ UNCHANGED <<source, notice, delivery, muted, token, holding, faults, choices>>

-----------------------------------------------------------------------------
DeliveryNext ==
  \/ \E s \in Sources : Happens(s) \/ OrchestrateNotifications(s)
  \/ DispatchOutbox \/ FanoutAnnouncements \/ ScheduleEventReminders
  \/ \E w \in Workers, s \in Sources, c \in Channels : ClaimDelivery(w, s, c)
  \/ \E w \in Workers : DeliverOne(w) \/ Fail(w)
  \/ \E s \in Sources, c \in Channels : Elapses(s, c)
  \/ UpdatePreference \/ RegisterDevice \/ DisableDevice \/ Tick

\* cycle: every job runs again and again and takes some item that is there; leases end.
Fairness ==
  /\ WF_vars(DispatchOutbox) /\ WF_vars(FanoutAnnouncements)
  /\ WF_vars(\E s \in Sources : OrchestrateNotifications(s))
  /\ WF_vars(\E s \in Sources, c \in Channels : Elapses(s, c))
  /\ WF_vars(\E w \in Workers, s \in Sources, c \in Channels : ClaimDelivery(w, s, c))
  /\ \A w \in Workers : WF_vars(DeliverOne(w))

DeliverySpec == DeliveryInit /\ [][DeliveryNext]_vars /\ Fairness

-----------------------------------------------------------------------------
(* Properties *)

\* Of the announcements of one day that are planned on that day, at most the cap are pushed,
\* whatever the order in which several workers make and plan them.
PushesWithinCap ==
  \A d \in 0 .. MaxTime \div DayLength :
    Cardinality({s \in Announcements :
      /\ notice[s].day = d /\ notice[s].planned = d
      /\ delivery[s]["push"].state \notin {"none", "suppressed"}}) <= Cap

\* A push that does not bypass the quiet hours is planned outside them: more hours have passed
\* since they began than they last.
PlannedByDay ==
  \A s \in Sources :
    delivery[s]["push"].state = "none" /\ delivery'[s]["push"].state = "queued" /\ s \notin Cancellations
      => (Hour - QuietStart) % DayLength >= (QuietEnd - QuietStart) % DayLength

\* No step pushes at a recipient more often than the cap says, nor at night.
PushesAreSparing == [][PushesWithinCap' /\ PlannedByDay]_vars

\* What happened reaches its recipient in the app, over workers that die at any point: again and
\* again nothing is on its way (a source happens once, and what has arrived stays).
EveryNoticeArrives ==
  []<>(\A s \in Sources \ Reminders :
         source[s] \in {"written", "handled"} => delivery[s]["in_app"].state = "delivered")

=============================================================================
