--------------------------- MODULE Registrations ---------------------------
(***************************************************************************)
(* The seats of ONE published event: the rows of events.registrations, the *)
(* counters of events.event_capacity, the tiers of events.ticket_types,    *)
(* the offers of events.waitlist_promotions, and what each registration    *)
(* holds or has paid in points.                                            *)
(*                                                                         *)
(* Every API operation (services/api/src/modules/registrations, .../events)*)
(* and every job of the worker (services/worker/src/jobs.ts) is one        *)
(* database transaction that first locks the registration row and/or the   *)
(* event and capacity rows it is about to change, so it is ONE action      *)
(* here; an operation that throws rolls back and is no step.  Time is      *)
(* abstracted to what the guards compare it with.                          *)
(***************************************************************************)
EXTENDS Naturals, FiniteSets

CONSTANTS
  Regs,         \* registration ids; "none" is an id no INSERT has used yet
  Users,        \* the people who register
  UserOf,       \* the user each registration id belongs to
  Tiers,        \* ticket tier ids of the event
  NoTier,       \* ticket_type_id IS NULL
  MaxParty,     \* largest party_size (10 in the code)
  MaxCapacity,  \* bound on the capacity an organiser may set
  MaxQuota,     \* bound on the quota of a tier
  Deadline,     \* the clock value from which registration is closed
  MaxEdits      \* bound on the number of organiser edits

ASSUME RegistrationsAssumption ==
  /\ IsFiniteSet(Regs)
  /\ UserOf \in [Regs -> Users]
  /\ NoTier \notin Tiers
  /\ MaxParty \in Nat \ {0}
  /\ MaxCapacity \in Nat \ {0}
  /\ MaxQuota \in Nat \ {0}
  /\ Deadline \in 1..3
  /\ MaxEdits \in Nat

VARIABLES
  evStatus,      \* events.status
  capacity,      \* events.capacity
  mode,          \* events.registration_mode
  clock,         \* 0: 24 h or more before starts_at, 1: less, 2: started, 3: ended
  edits,         \* organiser edits so far (bounded by MaxEdits)
  status,        \* registrations.status
  party,         \* registrations.party_size
  tier,          \* registrations.ticket_type_id
  joined,        \* rank of registrations.waitlist_joined_at, 0 for NULL
  promo,         \* the latest waitlist_promotions row of a registration
  hold,          \* the point_holds row registration_hold:<id>
  charged,       \* registrations with a posted registration_fee:<id>
  refunded,      \* the refunds posted for a registration
  confirmedCount, pendingCount, offeredCount, waitlistCount,  \* event_capacity
  soldCount,     \* ticket_types.sold_count
  quota,         \* ticket_types.quota
  activeTiers    \* tiers with ticket_types.active

eventVars == <<evStatus, capacity, mode, clock, edits>>
pointVars == <<hold, charged, refunded>>
counters  == <<confirmedCount, pendingCount, offeredCount, waitlistCount>>
tierVars  == <<soldCount, quota, activeTiers>>
rowVars   == <<status, party, tier, joined, promo>>
vars == <<eventVars, pointVars, counters, tierVars, rowVars>>

-----------------------------------------------------------------------------
(* Vocabulary *)

Statuses == {"none", "pending", "confirmed", "waitlisted", "offered",
             "checked_in", "rejected", "cancelled", "event_cancelled"}

\* The statuses of the unique index uq_active_registration.
Active == {"pending", "confirmed", "waitlisted", "offered", "checked_in"}

\* What E.cancel closes and R.cancel may leave.
Cancellable == {"pending", "confirmed", "waitlisted", "offered"}

Live(S) == {r \in Regs : status[r] \in S}

\* The people of a set of registrations: one pair per head, so that the head
\* count is a cardinality.
SeatsOf(R, p) == {s \in R \X (1..MaxParty) : s[2] <= p[s[1]]}
Heads(R) == Cardinality(SeatsOf(R, party))

\* SQL's GREATEST(0, a - b)
Minus(a, b) == IF a >= b THEN a - b ELSE 0

\* Mutant: the admission check forgets the seats that are only offered.
Occupied_ForgetsOffers == confirmedCount + pendingCount

\* The seats the counters call taken.
Occupied == confirmedCount + pendingCount + offeredCount

\* Mutant: only the deadline is looked at, not the event's status.
RegistrationOpen_AnyStatus == clock < Deadline

\* Before deadline_at, which is ends_at (3) for an event that sets none.
RegistrationOpen == evStatus = "published" /\ clock < Deadline

TypeOK ==
  /\ evStatus \in {"published", "cancelled", "removed"}
  /\ capacity \in 1..MaxCapacity
  /\ mode \in {"automatic", "approval", "invite_only"}
  /\ clock \in 0..3
  /\ edits \in 0..MaxEdits
  /\ status \in [Regs -> Statuses]
  /\ party \in [Regs -> 1..MaxParty]
  /\ tier \in [Regs -> Tiers \cup {NoTier}]
  /\ joined \in [Regs -> Nat]
  /\ promo \in [Regs -> {"none", "open", "lapsed", "accepted", "expired"}]
  /\ hold \in [Regs -> {"none", "active", "lapsed", "captured", "released", "expired"}]
  /\ charged \in SUBSET Regs
  /\ refunded \in [Regs -> SUBSET {"registration_cancel_refund", "event_cancel_refund"}]
  /\ confirmedCount \in Nat /\ pendingCount \in Nat
  /\ offeredCount \in Nat /\ waitlistCount \in Nat
  /\ soldCount \in [Tiers -> Nat]
  /\ quota \in [Tiers -> 1..MaxQuota]
  /\ activeTiers \in SUBSET Tiers

\* A freshly published event: nobody has registered, the counters are zero.
Init ==
  /\ evStatus = "published"
  /\ capacity \in 1..MaxCapacity
  /\ mode \in {"automatic", "approval"}
  /\ clock = 0
  /\ edits = 0
  /\ status = [r \in Regs |-> "none"]
  /\ party = [r \in Regs |-> 1]
  /\ tier = [r \in Regs |-> NoTier]
  /\ joined = [r \in Regs |-> 0]
  /\ promo = [r \in Regs |-> "none"]
  /\ hold = [r \in Regs |-> "none"]
  /\ charged = {}
  /\ refunded = [r \in Regs |-> {}]
  /\ confirmedCount = 0 /\ pendingCount = 0
  /\ offeredCount = 0 /\ waitlistCount = 0
  /\ soldCount = [t \in Tiers |-> 0]
  /\ quota = [t \in Tiers |-> MaxQuota]
  /\ activeTiers \in SUBSET Tiers

-----------------------------------------------------------------------------
(* RegistrationsService.register *)

\* Mutant: the tier is asked for one place, whatever the party.
TierAdmits_OnePlace(t, n) ==
  \/ t = NoTier /\ activeTiers = {}
  \/ t \in activeTiers /\ soldCount[t] < quota[t]

\* The tier the registrant names must be active and have room for the party
\* (even when the registration is only going to be waitlisted); an event
\* without active tiers takes none.
TierAdmits(t, n) ==
  \/ t = NoTier /\ activeTiers = {}
  \/ t \in activeTiers /\ soldCount[t] + n <= quota[t]

\* soldCount after n heads are added to tier t, or taken from it.
Sell(t, n)   == [u \in Tiers |-> IF u = t THEN soldCount[u] + n ELSE soldCount[u]]
Unsell(t, n) == [u \in Tiers |-> IF u = t THEN Minus(soldCount[u], n) ELSE soldCount[u]]

\* What every successful registration checks and writes, whatever its status.
Enter(r, n, t, st) ==
  /\ RegistrationOpen
  /\ mode # "invite_only"
  /\ status[r] = "none"
  /\ \A q \in Regs : UserOf[q] = UserOf[r] => status[q] \notin Active
  /\ TierAdmits(t, n)
  /\ status' = [status EXCEPT ![r] = st]
  /\ party' = [party EXCEPT ![r] = n]
  /\ tier' = [tier EXCEPT ![r] = t]
  /\ UNCHANGED <<eventVars, promo, refunded, offeredCount, quota, activeTiers>>

\* Automatic mode with room: the fee is spent and the seat taken at once.
RegisterConfirmed(r, n, t) ==
  /\ Occupied + n <= capacity
  /\ mode = "automatic"
  /\ Enter(r, n, t, "confirmed")
  /\ charged' = charged \cup {r}
  /\ confirmedCount' = confirmedCount + n
  /\ soldCount' = Sell(t, n)
  /\ UNCHANGED <<joined, hold, pendingCount, waitlistCount>>

\* Mutant: a pending party is let in when there is room for one person.
RegisterPending_OnePlace(r, n, t) ==
  /\ Occupied < capacity
  /\ mode # "automatic"
  /\ Enter(r, n, t, "pending")
  /\ hold' = [hold EXCEPT ![r] = "active"]
  /\ pendingCount' = pendingCount + n
  /\ soldCount' = Sell(t, n)
  /\ UNCHANGED <<joined, charged, confirmedCount, waitlistCount>>

\* Approval mode with room: the seat is held by a 15 minute point hold.
RegisterPending(r, n, t) ==
  /\ Occupied + n <= capacity
  /\ mode # "automatic"
  /\ Enter(r, n, t, "pending")
  /\ hold' = [hold EXCEPT ![r] = "active"]
  /\ pendingCount' = pendingCount + n
  /\ soldCount' = Sell(t, n)
  /\ UNCHANGED <<joined, charged, confirmedCount, waitlistCount>>

\* No room: the registrant, if she asked for it, joins the end of the waitlist.
RegisterWaitlisted(r, n, t) ==
  /\ Occupied + n > capacity
  /\ Enter(r, n, t, "waitlisted")
  /\ joined' = [joined EXCEPT ![r] = 1 + Cardinality({q \in Regs : joined[q] # 0})]
  /\ waitlistCount' = waitlistCount + 1
  /\ UNCHANGED <<hold, charged, confirmedCount, pendingCount, soldCount>>

-----------------------------------------------------------------------------
(* RegistrationsService.decide: nothing here looks at the event's status. *)

\* Mutant: a pending party holds its seats already, so they are not looked at.
Approve_Unchecked(r) ==
  /\ status[r] = "pending"
  /\ hold[r] = "active"
  /\ hold' = [hold EXCEPT ![r] = "captured"]
  /\ charged' = charged \cup {r}
  /\ status' = [status EXCEPT ![r] = "confirmed"]
  /\ pendingCount' = Minus(pendingCount, party[r])
  /\ confirmedCount' = confirmedCount + party[r]
  /\ UNCHANGED <<eventVars, tierVars, refunded, offeredCount, waitlistCount,
                 party, tier, joined, promo>>

\* Pending heads already hold their seats, so only confirmed and offered ones
\* are compared with the capacity; a lapsed hold cannot be captured.
Approve(r) ==
  /\ status[r] = "pending"
  /\ confirmedCount + offeredCount + party[r] <= capacity
  /\ hold[r] = "active"
  /\ hold' = [hold EXCEPT ![r] = "captured"]
  /\ charged' = charged \cup {r}
  /\ status' = [status EXCEPT ![r] = "confirmed"]
  /\ pendingCount' = Minus(pendingCount, party[r])
  /\ confirmedCount' = confirmedCount + party[r]
  /\ UNCHANGED <<eventVars, tierVars, refunded, offeredCount, waitlistCount,
                 party, tier, joined, promo>>

\* Mutant: the hold gets a state point_holds does not have.
Released_UnknownState(h) == IF h \in {"active", "lapsed"} THEN "cancelled" ELSE h

\* releaseHold only touches a hold whose state is still active.
Released(h) == IF h \in {"active", "lapsed"} THEN "released" ELSE h

Reject(r) ==
  /\ status[r] = "pending"
  /\ hold' = [hold EXCEPT ![r] = Released(@)]
  /\ status' = [status EXCEPT ![r] = "rejected"]
  /\ pendingCount' = Minus(pendingCount, party[r])
  /\ soldCount' = Unsell(tier[r], party[r])
  /\ UNCHANGED <<eventVars, quota, activeTiers, charged, refunded, confirmedCount,
                 offeredCount, waitlistCount, party, tier, joined, promo>>

-----------------------------------------------------------------------------
(* RegistrationsService.acceptWaitlist: the offered seat is paid and taken. *)
AcceptWaitlist(r) ==
  /\ RegistrationOpen
  /\ status[r] = "offered"
  /\ promo[r] = "open"
  /\ confirmedCount + party[r] <= capacity
  /\ tier[r] # NoTier => soldCount[tier[r]] + party[r] <= quota[tier[r]]
  /\ charged' = charged \cup {r}
  /\ status' = [status EXCEPT ![r] = "confirmed"]
  /\ promo' = [promo EXCEPT ![r] = "accepted"]
  /\ confirmedCount' = confirmedCount + party[r]
  /\ offeredCount' = Minus(offeredCount, party[r])
  /\ soldCount' = Sell(tier[r], party[r])
  /\ UNCHANGED <<eventVars, quota, activeTiers, hold, refunded, pendingCount,
                 waitlistCount, party, tier, joined>>

\* Mutant: the open offer of a cancelled registration stays open.
Closed_Never(p) == p

\* UPDATE waitlist_promotions SET expired_at: closes an open offer only.
Closed(p) == IF p \in {"open", "lapsed"} THEN "expired" ELSE p

(* RegistrationsService.cancel: open until the event starts; the fee comes   *)
(* back only 24 hours or more before that.                                   *)
Cancel(r) ==
  LET n == party[r]
      of(st, k) == IF status[r] = st THEN k ELSE 0
  IN
  /\ status[r] \in Cancellable
  /\ evStatus = "published" /\ clock < 2
  /\ status' = [status EXCEPT ![r] = "cancelled"]
  /\ promo' = [promo EXCEPT ![r] = Closed(@)]
  /\ confirmedCount' = Minus(confirmedCount, of("confirmed", n))
  /\ pendingCount' = Minus(pendingCount, of("pending", n))
  /\ waitlistCount' = Minus(waitlistCount, of("waitlisted", 1))
  /\ offeredCount' = Minus(offeredCount, of("offered", n))
  /\ soldCount' = IF status[r] \in {"pending", "confirmed"}
                    THEN Unsell(tier[r], n) ELSE soldCount
  /\ refunded' = IF r \in charged /\ clock = 0
                   THEN [refunded EXCEPT ![r] = @ \cup {"registration_cancel_refund"}]
                   ELSE refunded
  /\ hold' = IF status[r] = "pending" THEN [hold EXCEPT ![r] = Released(@)] ELSE hold
  /\ UNCHANGED <<eventVars, quota, activeTiers, charged, party, tier, joined>>

(* RegistrationsService.checkIn and manualCheckIn of a confirmed             *)
(* registration, from an hour before the start; the event's status is not    *)
(* looked at and the seat stays counted in confirmed_count.                  *)
CheckIn(r) ==
  /\ status[r] = "confirmed"
  /\ clock >= 1
  /\ status' = [status EXCEPT ![r] = "checked_in"]
  /\ UNCHANGED <<eventVars, pointVars, counters, tierVars, party, tier, joined, promo>>

-----------------------------------------------------------------------------
(* The worker's jobs *)

\* Registrations whose offer has run out.
DueOffers == {r \in Regs : status[r] = "offered" /\ promo[r] = "lapsed"}

\* Mutant: the job takes any row, without ORDER BY waitlist_joined_at.
First_Unordered(R) == R

\* Of a set of waitlisted registrations, the one that joined first.
First(R) == {r \in R : \A q \in R : joined[r] <= joined[q]}

\* The parties the job may promote, given the statuses and the offered_count
\* that the expiry of the due offers has left.
Promotable(locked, st, offered) ==
  {r \in Regs \ locked :
     /\ evStatus = "published"
     /\ st[r] = "waitlisted"
     /\ confirmedCount + pendingCount + offered + party[r] <= capacity}

(* Jobs.expireAndPromoteWaitlist, one transaction: every due offer goes back *)
(* to the waitlist AT ITS OLD RANK, then, if the event is published and has  *)
(* room, the first waitlisted party that fits gets a new two hour offer.     *)
(* locked: the rows other transactions hold right now (SKIP LOCKED).         *)
WaitlistJob(locked) ==
  LET due      == DueOffers \ locked
      offered1 == Minus(offeredCount, Heads(due))
      wait1    == waitlistCount + Cardinality(due)
      status1  == [r \in Regs |-> IF r \in due THEN "waitlisted" ELSE status[r]]
      promo1   == [r \in Regs |-> IF r \in due THEN "expired" ELSE promo[r]]
      fits     == Promotable(locked, status1, offered1)
  IN
  /\ \/ /\ fits = {}
        /\ due # {}
        /\ status' = status1
        /\ promo' = promo1
        /\ offeredCount' = offered1
        /\ waitlistCount' = wait1
     \/ \E r \in First(fits) :
        /\ promo1[r] \notin {"open", "lapsed"}       \* uq_active_waitlist_offer
        /\ status' = [status1 EXCEPT ![r] = "offered"]
        /\ promo' = [promo1 EXCEPT ![r] = "open"]
        /\ offeredCount' = offered1 + party[r]
        /\ waitlistCount' = Minus(wait1, 1)
  /\ UNCHANGED <<eventVars, pointVars, tierVars, confirmedCount, pendingCount,
                 party, tier, joined>>

\* Mutant: the registration is closed and its seat stays counted as pending.
ReleaseLapsed_KeepsSeat(r) ==
  /\ status[r] = "pending"
  /\ hold[r] = "lapsed"
  /\ hold' = [hold EXCEPT ![r] = "expired"]
  /\ status' = [status EXCEPT ![r] = "cancelled"]
  /\ UNCHANGED <<eventVars, tierVars, counters, charged, refunded, party, tier, joined, promo>>

(* Jobs.releaseLapsedPendingRegistration: the hold of a pending registration *)
(* ran out, so the seat goes back; the tier's sold_count is left alone.      *)
ReleaseLapsed(r) ==
  /\ status[r] = "pending"
  /\ hold[r] = "lapsed"
  /\ hold' = [hold EXCEPT ![r] = "expired"]
  /\ status' = [status EXCEPT ![r] = "cancelled"]
  /\ pendingCount' = Minus(pendingCount, party[r])
  /\ UNCHANGED <<eventVars, tierVars, charged, refunded, confirmedCount, offeredCount,
                 waitlistCount, party, tier, joined, promo>>

\* Mutant: the sweep also takes the holds of pending registrations.
SweepHolds_All ==
  LET swept == {r \in Regs : hold[r] = "lapsed"}
  IN
  /\ swept # {}
  /\ hold' = [r \in Regs |-> IF r \in swept THEN "expired" ELSE hold[r]]
  /\ UNCHANGED <<eventVars, tierVars, counters, rowVars, charged, refunded>>

(* Jobs.expireHoldsAndQuotes, the bulk sweep that follows: lapsed holds that *)
(* no pending registration rests on.                                         *)
SweepHolds ==
  LET swept == {r \in Regs : hold[r] = "lapsed" /\ status[r] # "pending"}
  IN
  /\ swept # {}
  /\ hold' = [r \in Regs |-> IF r \in swept THEN "expired" ELSE hold[r]]
  /\ UNCHANGED <<eventVars, tierVars, counters, rowVars, charged, refunded>>

\* Mutants: registrants who had cancelled are refunded too; the rows are looked
\* for in the status that cancelling the event took from them.
RefundDue_AlsoCancelled ==
  {r \in charged : /\ status[r] \in {"cancelled", "event_cancelled"}
                   /\ "event_cancel_refund" \notin refunded[r]}
RefundDue_Confirmed ==
  {r \in charged : status[r] = "confirmed" /\ evStatus = "cancelled"}

\* The charges Jobs.refundCancelledEvent selects.
RefundDue == {r \in charged : /\ status[r] = "event_cancelled"
                              /\ "event_cancel_refund" \notin refunded[r]}

(* Jobs.dispatchOutbox on event.registration_refunds_requested, one          *)
(* transaction for all the charges of the event.                             *)
RefundCancelledEvent ==
  /\ RefundDue # {}
  /\ refunded' = [r \in Regs |-> IF r \in RefundDue
                                   THEN refunded[r] \cup {"event_cancel_refund"}
                                   ELSE refunded[r]]
  /\ UNCHANGED <<eventVars, tierVars, counters, rowVars, hold, charged>>

-----------------------------------------------------------------------------
(* The organiser, the operator and time *)

\* EventsService.update of a published event: capacity, mode and schedule are
\* written as sent, the counters are not consulted.  k is where the new schedule
\* puts the clock: an event brought forward is one whose time passes (Tick).
EditEvent(c, m, k) ==
  /\ evStatus = "published" /\ edits < MaxEdits
  /\ k <= clock /\ <<c, m, k>> # <<capacity, mode, clock>>
  /\ capacity' = c
  /\ mode' = m
  /\ clock' = k
  /\ edits' = edits + 1
  /\ UNCHANGED <<evStatus, pointVars, counters, tierVars, rowVars>>

\* TicketsService.update: a quota never drops below the heads sold.
EditTier(t, q, on) ==
  /\ edits < MaxEdits
  /\ q >= soldCount[t]
  /\ <<q, on>> # <<quota[t], t \in activeTiers>>
  /\ quota' = [quota EXCEPT ![t] = q]
  /\ activeTiers' = IF on THEN activeTiers \cup {t} ELSE activeTiers \ {t}
  /\ edits' = edits + 1
  /\ UNCHANGED <<evStatus, capacity, mode, clock, pointVars, counters, soldCount, rowVars>>

\* EventsService.cancel: closes every cancellable row; counters, tiers, holds
\* and offers stay as they are.
CancelEvent ==
  /\ evStatus = "published"
  /\ evStatus' = "cancelled"
  /\ status' = [r \in Regs |-> IF status[r] \in Cancellable
                                 THEN "event_cancelled" ELSE status[r]]
  /\ UNCHANGED <<capacity, mode, clock, edits, pointVars, counters, tierVars,
                 party, tier, joined, promo>>

\* OpsService.moderationDecision hides or removes the event: its status is the
\* only thing of this module that changes.
RemoveEvent ==
  /\ evStatus # "removed"
  /\ evStatus' = "removed"
  /\ UNCHANGED <<capacity, mode, clock, edits, pointVars, counters, tierVars, rowVars>>

LapseHold(r) ==
  /\ hold[r] = "active"
  /\ hold' = [hold EXCEPT ![r] = "lapsed"]
  /\ UNCHANGED <<eventVars, charged, refunded, counters, tierVars, rowVars>>

LapseOffer(r) ==
  /\ promo[r] = "open"
  /\ promo' = [promo EXCEPT ![r] = "lapsed"]
  /\ UNCHANGED <<eventVars, pointVars, counters, tierVars, status, party, tier, joined>>

\* No guard compares the time with anything later than the start or the deadline.
Tick ==
  /\ clock < 2 \/ clock < Deadline
  /\ clock' = clock + 1
  /\ UNCHANGED <<evStatus, capacity, mode, edits, pointVars, counters, tierVars, rowVars>>

-----------------------------------------------------------------------------
Register(r) ==
  \E n \in 1..MaxParty, t \in Tiers \cup {NoTier} :
    \/ RegisterConfirmed(r, n, t)
    \/ RegisterPending(r, n, t)
    \/ RegisterWaitlisted(r, n, t)

Worker ==
  \/ \E locked \in SUBSET Regs : WaitlistJob(locked)
  \/ \E r \in Regs : ReleaseLapsed(r)
  \/ SweepHolds
  \/ RefundCancelledEvent

Organiser ==
  \/ \E c \in 1..MaxCapacity, m \in {"automatic", "approval", "invite_only"}, k \in 0..3 :
       EditEvent(c, m, k)
  \/ \E t \in Tiers, q \in 1..MaxQuota, on \in BOOLEAN : EditTier(t, q, on)
  \/ CancelEvent
  \/ RemoveEvent

Time ==
  \/ \E r \in Regs : LapseHold(r) \/ LapseOffer(r)
  \/ Tick

Next ==
  \/ \E r \in Regs :
       \/ Register(r)
       \/ Approve(r)
       \/ Reject(r)
       \/ AcceptWaitlist(r)
       \/ Cancel(r)
       \/ CheckIn(r)
  \/ Worker
  \/ Organiser
  \/ Time

Spec == Init /\ [][Next]_vars

\* The clock advances, and the worker's loop runs every job again and again:
\* nothing else is fair, neither registrants nor hosts have to act.
Fairness ==
  /\ \A r \in Regs : WF_vars(LapseHold(r)) /\ WF_vars(ReleaseLapsed(r))
  /\ WF_vars(WaitlistJob({}))
  /\ WF_vars(SweepHolds)
  /\ WF_vars(RefundCancelledEvent)

FairSpec == Spec /\ Fairness
-----------------------------------------------------------------------------
(* Safety *)

\* A seat that is taken: confirmed_count keeps it through check-in.
Seated == {"confirmed", "checked_in"}

\* The statuses that occupy capacity for the admission checks.
Holding == Seated \cup {"pending", "offered"}

\* Once the event is cancelled its counters are abandoned.
NotCancelled == \A r \in Regs : status[r] # "event_cancelled"

\* That is sound because cancelling is final: from then on no registration is
\* left in a status an admission, a decision or a job could still move, and
\* none comes back (a cancelled event never becomes published again).
CancellationIsFinal ==
  ~NotCancelled => evStatus # "published" /\ Live(Cancellable) = {}

\* The counters of event_capacity, which every admission check trusts instead
\* of the rows, say exactly what the rows say, so that no GREATEST(0, ...) of
\* the code ever hides a lost decrement.
CountersMatchRows ==
  NotCancelled =>
    /\ confirmedCount = Heads(Live(Seated))
    /\ pendingCount = Heads(Live({"pending"}))
    /\ offeredCount = Heads(Live({"offered"}))
    /\ waitlistCount = Cardinality(Live({"waitlisted"}))

\* The registrations that count against a tier.
TierHolders(t) == {r \in Live(Seated \cup {"pending"}) : tier[r] = t}

\* A tier never has more live holders than it has sold, nor sells more than
\* its quota, over edits of the quota, lapsed holds and accepted offers.
TierNeverOversold ==
  \A t \in Tiers : Heads(TierHolders(t)) <= soldCount[t] /\ soldCount[t] <= quota[t]

\* A pending registration rests on a hold that is still in state active, so
\* that the expiry job finds it: no seat is stranded in pending. Of the other
\* registrations only an event-cancelled one still has an active hold.
PendingIsBacked ==
  \A r \in Regs :
    /\ status[r] = "pending" => hold[r] \in {"active", "lapsed"}
    /\ hold[r] \in {"active", "lapsed"} => status[r] \in {"pending", "event_cancelled"}

\* An offered registration has exactly one offer that is neither accepted nor
\* closed, and only an event-cancelled one keeps such an offer.
OfferIsBacked ==
  \A r \in Regs :
    /\ status[r] = "offered" => promo[r] \in {"open", "lapsed"}
    /\ promo[r] \in {"open", "lapsed"} => status[r] \in {"offered", "event_cancelled"}

\* A registration that waits for a decision or for its registrant has what it waits with.
SeatsAreBacked == PendingIsBacked /\ OfferIsBacked

\* Nobody sits for free and nobody pays for nothing: a taken seat is charged
\* and not refunded, a charge belongs to a seat that is or was taken, and each
\* refund path serves its own way of closing, so no fee comes back twice.
FeesFollowSeats ==
  \A r \in Regs :
    /\ status[r] \in Seated => r \in charged
    /\ r \in charged => status[r] \in Seated \cup {"cancelled", "event_cancelled"}
    /\ refunded[r] # {} => r \in charged
    /\ "registration_cancel_refund" \in refunded[r] => status[r] = "cancelled"
    /\ "event_cancel_refund" \in refunded[r] => status[r] = "event_cancelled"

-----------------------------------------------------------------------------
(* Action properties *)

\* No step of registrants, hosts or jobs lets the people who hold a seat, or
\* those who are seated, grow past the capacity of that moment. An organiser
\* may lower the capacity under them, and nobody is let in until it fits again.
AdmitsWithin ==
  /\ Heads(Live(Holding))' > Heads(Live(Holding)) => Heads(Live(Holding))' <= capacity'
  /\ Heads(Live(Seated))' > Heads(Live(Seated)) => Heads(Live(Seated))' <= capacity'

NeverOverfill == [][AdmitsWithin]_vars

\* Nobody jumps the queue: whoever is newly offered a seat joined the waitlist
\* before every other registration that waits and whose party is no larger,
\* unless that row was locked; stated for the job that saw every row.
OffersInOrder ==
  [][ \A r, q \in Regs :
        /\ status[r] = "waitlisted" /\ status'[r] = "offered"
        /\ WaitlistJob({})
        /\ status[q] = "waitlisted" /\ party[q] <= party[r]
        => joined[r] <= joined[q] ]_vars

-----------------------------------------------------------------------------
(* Refinement: who holds a seat, forgetting how *)

Seats == INSTANCE SeatAllocation
           WITH Claims <- Regs, MaxSize <- MaxParty, holders <- Live(Holding), size <- party

\* Registrants, hosts and jobs together do no more than allocate seats: each
\* transaction, whatever it does to statuses, counters and holds, admits at
\* most one registration, and only when everyone who then holds a seat fits.
AllocatesSeats == Seats!Spec

-----------------------------------------------------------------------------
(* Liveness *)

\* No seat stays in pending for ever: the host decides, the registrant or the
\* organiser cancels, or the hold lapses and the job gives the seat back.
PendingIsResolved ==
  \A r \in Regs : status[r] = "pending" ~> status[r] # "pending"

Fits(r) == /\ evStatus = "published"
           /\ status[r] = "waitlisted"
           /\ Occupied + party[r] <= capacity

\* The head of the queue, when a seat is free for it, is offered the seat or
\* stops being the one to offer it to.
HeadIsOffered ==
  \A r \in Regs :
    Fits(r) /\ r \in First(Live({"waitlisted"}))
      ~> ~(Fits(r) /\ r \in First(Live({"waitlisted"})))

\* A registration that waits for a decision, or at the head of the queue for a seat that is
\* there, does not wait for ever.
WaitingEnds == PendingIsResolved /\ HeadIsOffered

\* After the organiser cancels, every fee paid for the event comes back.
CancelledEventIsRefunded ==
  \A r \in Regs :
    status[r] = "event_cancelled" /\ r \in charged
      ~> "event_cancel_refund" \in refunded[r]

-----------------------------------------------------------------------------
(* What the repository says of itself and the code does not do             *)

\* services/worker/src/jobs.ts:1273: oversell "must be impossible under the DB
\* constraints"; the metric counts confirmed_count > capacity.
NoOversell == confirmedCount <= capacity

=============================================================================
