------------------------ MODULE Registrations_proofs ------------------------
(* Theorems about Registrations, for every value of its constants: that the *)
(* counters are exact, what follows from it for the seats, the tiers and the *)
(* order of offers, and that seats are allocated as SeatAllocation says; and *)
(* about the web pages through which members find events and register       *)
(* (Pages).                                                                  *)
EXTENDS Registrations, Pages, Integers, Sequences, SequenceTheorems, FiniteSetTheorems, TLAPS

-----------------------------------------------------------------------------
(* Head counts *)

\* The pairs a set of registrations is counted by are finitely many.
LEMMA HeadsType ==
  ASSUME NEW R \in SUBSET Regs, NEW p
  PROVE  IsFiniteSet(SeatsOf(R, p)) /\ Cardinality(SeatsOf(R, p)) \in Nat
<1>1. IsFiniteSet(R)
  BY FS_Subset, RegistrationsAssumption
<1>2. IsFiniteSet(1..MaxParty)
  BY FS_Interval, RegistrationsAssumption
<1>3. IsFiniteSet(R \X (1..MaxParty))
  BY <1>1, <1>2, FS_Product
<1>4. SeatsOf(R, p) \in SUBSET (R \X (1..MaxParty))
  BY DEF SeatsOf
<1>5. IsFiniteSet(SeatsOf(R, p))
  BY <1>3, <1>4, FS_Subset
<1> QED
  BY <1>5, FS_CardinalityType

\* Sets of registrations are finite.
LEMMA RegsFinite ==
  ASSUME NEW R \in SUBSET Regs
  PROVE  IsFiniteSet(R) /\ Cardinality(R) \in Nat
BY FS_Subset, FS_CardinalityType, RegistrationsAssumption

LEMMA MinusType ==
  ASSUME NEW a \in Nat, NEW b \in Nat
  PROVE  Minus(a, b) \in Nat
BY DEF Minus

-----------------------------------------------------------------------------
(* Types *)

LEMMA InitTypeOK == Init => TypeOK
BY RegistrationsAssumption DEF Init, TypeOK, Statuses

LEMMA SellType ==
  ASSUME TypeOK, NEW t, NEW n \in Nat
  PROVE  Sell(t, n) \in [Tiers -> Nat] /\ Unsell(t, n) \in [Tiers -> Nat]
BY DEF TypeOK, Sell, Unsell, Minus

LEMMA RegisterTypeOK ==
  ASSUME TypeOK, NEW r \in Regs, Register(r)
  PROVE  TypeOK'
<1>1. PICK n \in 1..MaxParty, t \in Tiers \cup {NoTier} :
        \/ RegisterConfirmed(r, n, t)
        \/ RegisterPending(r, n, t)
        \/ RegisterWaitlisted(r, n, t)
  BY DEF Register
<1>2. n \in Nat /\ Sell(t, n) \in [Tiers -> Nat]
  BY SellType, RegistrationsAssumption
<1>3. Cardinality({q \in Regs : joined[q] # 0}) \in Nat
  BY RegsFinite
<1>4. CASE RegisterConfirmed(r, n, t)
  BY <1>2, <1>4 DEF RegisterConfirmed, Enter, TypeOK, Statuses, eventVars
<1>5. CASE RegisterPending(r, n, t)
  BY <1>2, <1>5 DEF RegisterPending, Enter, TypeOK, Statuses, eventVars
<1>6. CASE RegisterWaitlisted(r, n, t)
  BY <1>2, <1>3, <1>6 DEF RegisterWaitlisted, Enter, TypeOK, Statuses, eventVars
<1> QED
  BY <1>1, <1>4, <1>5, <1>6

LEMMA RowTypeOK ==
  ASSUME TypeOK, NEW r \in Regs,
         Approve(r) \/ Reject(r) \/ AcceptWaitlist(r) \/ CheckIn(r) \/ ReleaseLapsed(r)
  PROVE  TypeOK'
<1>1. party[r] \in Nat
  BY RegistrationsAssumption DEF TypeOK
<1>2. Minus(pendingCount, party[r]) \in Nat /\ Minus(offeredCount, party[r]) \in Nat
  BY <1>1, MinusType DEF TypeOK
<1>3. /\ Sell(tier[r], party[r]) \in [Tiers -> Nat]
      /\ Unsell(tier[r], party[r]) \in [Tiers -> Nat]
  BY <1>1, SellType
<1>4. CASE Approve(r)
  BY <1>1, <1>2, <1>4 DEF Approve, TypeOK, Statuses, eventVars, tierVars
<1>5. CASE Reject(r)
  BY <1>2, <1>3, <1>5 DEF Reject, Released, TypeOK, Statuses, eventVars
<1>6. CASE AcceptWaitlist(r)
  BY <1>1, <1>2, <1>3, <1>6 DEF AcceptWaitlist, TypeOK, Statuses, eventVars
<1>7. CASE CheckIn(r)
  BY <1>7 DEF CheckIn, TypeOK, Statuses, eventVars, pointVars, counters, tierVars
<1>8. CASE ReleaseLapsed(r)
  BY <1>2, <1>8 DEF ReleaseLapsed, TypeOK, Statuses, eventVars, tierVars
<1> QED
  BY <1>4, <1>5, <1>6, <1>7, <1>8

LEMMA CancelTypeOK ==
  ASSUME TypeOK, NEW r \in Regs, Cancel(r)
  PROVE  TypeOK'
<1> DEFINE of(st, k) == IF status[r] = st THEN k ELSE 0
<1>1. party[r] \in Nat
  BY RegistrationsAssumption DEF TypeOK
<1>2. /\ Minus(confirmedCount, of("confirmed", party[r])) \in Nat
      /\ Minus(pendingCount, of("pending", party[r])) \in Nat
      /\ Minus(waitlistCount, of("waitlisted", 1)) \in Nat
      /\ Minus(offeredCount, of("offered", party[r])) \in Nat
  BY <1>1, MinusType DEF TypeOK
<1>3. Unsell(tier[r], party[r]) \in [Tiers -> Nat]
  BY <1>1, SellType
<1>4. /\ confirmedCount' \in Nat /\ pendingCount' \in Nat
      /\ offeredCount' \in Nat /\ waitlistCount' \in Nat
  BY <1>2 DEF Cancel
<1>5. /\ status' \in [Regs -> Statuses]
      /\ promo' \in [Regs -> {"none", "open", "lapsed", "accepted", "expired"}]
  BY DEF Cancel, Closed, TypeOK, Statuses
<1>6. /\ hold' \in [Regs -> {"none", "active", "lapsed", "captured", "released", "expired"}]
      /\ refunded' \in [Regs -> SUBSET {"registration_cancel_refund", "event_cancel_refund"}]
  BY DEF Cancel, Released, TypeOK
<1>7. soldCount' \in [Tiers -> Nat]
  BY <1>3 DEF Cancel, TypeOK
<1> QED
  BY <1>4, <1>5, <1>6, <1>7 DEF Cancel, TypeOK, eventVars

LEMMA WaitlistJobTypeOK ==
  ASSUME TypeOK, NEW locked \in SUBSET Regs, WaitlistJob(locked)
  PROVE  TypeOK'
<1> DEFINE due      == DueOffers \ locked
           offered1 == Minus(offeredCount, Heads(due))
           wait1    == waitlistCount + Cardinality(due)
           status1  == [r \in Regs |-> IF r \in due THEN "waitlisted" ELSE status[r]]
           promo1   == [r \in Regs |-> IF r \in due THEN "expired" ELSE promo[r]]
<1>1. due \in SUBSET Regs
  BY DEF DueOffers
<1>2. Heads(due) \in Nat /\ Cardinality(due) \in Nat
  BY <1>1, HeadsType, RegsFinite DEF Heads
<1>3. offered1 \in Nat /\ wait1 \in Nat
  <2> HIDE DEF due
  <2>1. offeredCount \in Nat /\ waitlistCount \in Nat
    BY DEF TypeOK
  <2>2. offered1 \in Nat
    BY <1>2, <2>1 DEF Minus
  <2>3. wait1 \in Nat
    BY <1>2, <2>1
  <2> QED
    BY <2>2, <2>3
<1>4. /\ status1 \in [Regs -> Statuses]
      /\ promo1 \in [Regs -> {"none", "open", "lapsed", "accepted", "expired"}]
  BY DEF TypeOK, Statuses
<1>5. \/ /\ status' = status1 /\ promo' = promo1
         /\ offeredCount' = offered1 /\ waitlistCount' = wait1
      \/ \E r \in Regs :
           /\ status' = [status1 EXCEPT ![r] = "offered"]
           /\ promo' = [promo1 EXCEPT ![r] = "open"]
           /\ offeredCount' = offered1 + party[r]
           /\ waitlistCount' = Minus(wait1, 1)
  BY DEF WaitlistJob, First, Promotable
<1>6. /\ status' \in [Regs -> Statuses]
      /\ promo' \in [Regs -> {"none", "open", "lapsed", "accepted", "expired"}]
      /\ offeredCount' \in Nat /\ waitlistCount' \in Nat
  <2> HIDE DEF offered1, wait1, status1, promo1
  <2>1. \A r \in Regs : party[r] \in Nat
    BY RegistrationsAssumption DEF TypeOK
  <2>2. Minus(wait1, 1) \in Nat
    BY <1>3, MinusType
  <2> QED
    BY <1>3, <1>4, <1>5, <2>1, <2>2 DEF Statuses
<1> QED
  BY <1>6 DEF WaitlistJob, TypeOK, eventVars, pointVars, tierVars

LEMMA OtherTypeOK ==
  ASSUME TypeOK, SweepHolds \/ RefundCancelledEvent \/ Organiser \/ Time
  PROVE  TypeOK'
<1>1. CASE SweepHolds
  BY <1>1 DEF SweepHolds, TypeOK, Statuses, eventVars, tierVars, counters, rowVars
<1>2. CASE RefundCancelledEvent
  BY <1>2 DEF RefundCancelledEvent, TypeOK, Statuses, eventVars, tierVars, counters, rowVars
<1>3. CASE Organiser
  <2>1. ASSUME NEW c \in 1..MaxCapacity,
               NEW m \in {"automatic", "approval", "invite_only"}, NEW k \in 0..3,
               EditEvent(c, m, k)
        PROVE  TypeOK'
    BY <2>1, RegistrationsAssumption
       DEF EditEvent, TypeOK, Statuses, pointVars, counters, tierVars, rowVars
  <2>2. ASSUME NEW t \in Tiers, NEW q \in 1..MaxQuota, NEW on \in BOOLEAN, EditTier(t, q, on)
        PROVE  TypeOK'
    BY <2>2, RegistrationsAssumption
       DEF EditTier, TypeOK, Statuses, pointVars, counters, rowVars
  <2>3. CASE CancelEvent
    BY <2>3 DEF CancelEvent, TypeOK, Statuses, pointVars, counters, tierVars
  <2>4. CASE RemoveEvent
    BY <2>4 DEF RemoveEvent, TypeOK, Statuses, pointVars, counters, tierVars, rowVars
  <2> QED
    BY <1>3, <2>1, <2>2, <2>3, <2>4 DEF Organiser
<1>4. CASE Time
  <2>1. ASSUME NEW r \in Regs, LapseHold(r)
        PROVE  TypeOK'
    BY <2>1 DEF LapseHold, TypeOK, Statuses, eventVars, counters, tierVars, rowVars
  <2>2. ASSUME NEW r \in Regs, LapseOffer(r)
        PROVE  TypeOK'
    BY <2>2 DEF LapseOffer, TypeOK, Statuses, eventVars, pointVars, counters, tierVars
  <2>3. CASE Tick
    BY <2>3, RegistrationsAssumption
       DEF Tick, TypeOK, Statuses, pointVars, counters, tierVars, rowVars
  <2> QED
    BY <1>4, <2>1, <2>2, <2>3 DEF Time
<1> QED
  BY <1>1, <1>2, <1>3, <1>4

LEMMA StepTypeOK == TypeOK /\ [Next]_vars => TypeOK'
<1> SUFFICES ASSUME TypeOK, [Next]_vars
             PROVE  TypeOK'
  OBVIOUS
<1>1. ASSUME NEW r \in Regs, Register(r)
      PROVE  TypeOK'
  BY <1>1, RegisterTypeOK
<1>2. ASSUME NEW r \in Regs,
             Approve(r) \/ Reject(r) \/ AcceptWaitlist(r) \/ CheckIn(r) \/ ReleaseLapsed(r)
      PROVE  TypeOK'
  BY <1>2, RowTypeOK
<1>3. ASSUME NEW r \in Regs, Cancel(r)
      PROVE  TypeOK'
  BY <1>3, CancelTypeOK
<1>4. ASSUME NEW locked \in SUBSET Regs, WaitlistJob(locked)
      PROVE  TypeOK'
  BY <1>4, WaitlistJobTypeOK
<1>5. CASE SweepHolds \/ RefundCancelledEvent \/ Organiser \/ Time
  BY <1>5, OtherTypeOK
<1>6. CASE UNCHANGED vars
  BY <1>6 DEF TypeOK, Statuses, vars, eventVars, pointVars, counters, tierVars, rowVars
<1> QED
  BY <1>1, <1>2, <1>3, <1>4, <1>5, <1>6 DEF Next, Worker

\* Every variable keeps its type: the rows their statuses, the counters of
\* event_capacity and ticket_types never negative.
THEOREM TypeCorrect == Spec => []TypeOK
<1>1. Init => TypeOK
  BY InitTypeOK
<1>2. TypeOK /\ [Next]_vars => TypeOK'
  BY StepTypeOK
<1> QED
  BY <1>1, <1>2, PTL DEF Spec

-----------------------------------------------------------------------------
(* Holds, offers and fees follow the status *)

Backing == PendingIsBacked /\ OfferIsBacked /\ FeesFollowSeats /\ CancellationIsFinal

LEMMA InitBacking == Init => Backing
BY DEF Init, Backing, PendingIsBacked, OfferIsBacked, FeesFollowSeats, Seated,
       CancellationIsFinal, NotCancelled, Live

LEMMA RegisterBacking ==
  ASSUME TypeOK, Backing, NEW r \in Regs, Register(r)
  PROVE  Backing'
<1>1. PICK n \in 1..MaxParty, t \in Tiers \cup {NoTier} :
        \/ RegisterConfirmed(r, n, t)
        \/ RegisterPending(r, n, t)
        \/ RegisterWaitlisted(r, n, t)
  BY DEF Register
<1>2. /\ status[r] = "none" /\ evStatus = "published" /\ evStatus' = evStatus
      /\ promo' = promo /\ refunded' = refunded
  BY <1>1 DEF RegisterConfirmed, RegisterPending, RegisterWaitlisted, Enter,
              RegistrationOpen, eventVars
<1>3. \/ /\ status' = [status EXCEPT ![r] = "confirmed"]
         /\ charged' = charged \cup {r} /\ hold' = hold
      \/ /\ status' = [status EXCEPT ![r] = "pending"]
         /\ charged' = charged /\ hold' = [hold EXCEPT ![r] = "active"]
      \/ /\ status' = [status EXCEPT ![r] = "waitlisted"]
         /\ charged' = charged /\ hold' = hold
  BY <1>1 DEF RegisterConfirmed, RegisterPending, RegisterWaitlisted, Enter
<1>4. PendingIsBacked' /\ OfferIsBacked'
  BY <1>2, <1>3 DEF Backing, PendingIsBacked, OfferIsBacked, TypeOK
<1>5. FeesFollowSeats'
  BY <1>2, <1>3 DEF Backing, FeesFollowSeats, Seated, TypeOK
<1>6. CancellationIsFinal'
  BY <1>2, <1>3 DEF Backing, CancellationIsFinal, NotCancelled, Live, TypeOK
<1> QED
  BY <1>4, <1>5, <1>6 DEF Backing

LEMMA RowBacking ==
  ASSUME TypeOK, Backing, NEW r \in Regs,
         \/ Approve(r) \/ Reject(r) \/ AcceptWaitlist(r)
         \/ CheckIn(r) \/ ReleaseLapsed(r) \/ Cancel(r)
  PROVE  Backing'
<1> USE DEF Backing, TypeOK
<1>1. CASE Approve(r)
  <2>1. PendingIsBacked' /\ OfferIsBacked'
    BY <1>1 DEF Approve, PendingIsBacked, OfferIsBacked
  <2>2. FeesFollowSeats'
    BY <1>1 DEF Approve, FeesFollowSeats, Seated
  <2>3. CancellationIsFinal'
    BY <1>1 DEF Approve, CancellationIsFinal, NotCancelled, Live, Cancellable, eventVars
  <2> QED
    BY <2>1, <2>2, <2>3
<1>2. CASE Reject(r)
  <2>1. PendingIsBacked' /\ OfferIsBacked'
    BY <1>2 DEF Reject, Released, PendingIsBacked, OfferIsBacked
  <2>2. FeesFollowSeats'
    BY <1>2 DEF Reject, FeesFollowSeats, Seated
  <2>3. CancellationIsFinal'
    BY <1>2 DEF Reject, CancellationIsFinal, NotCancelled, Live, Cancellable, eventVars
  <2> QED
    BY <2>1, <2>2, <2>3
<1>3. CASE AcceptWaitlist(r)
  <2>1. PendingIsBacked' /\ OfferIsBacked'
    BY <1>3 DEF AcceptWaitlist, PendingIsBacked, OfferIsBacked
  <2>2. FeesFollowSeats'
    BY <1>3 DEF AcceptWaitlist, FeesFollowSeats, Seated
  <2>3. CancellationIsFinal'
    BY <1>3 DEF AcceptWaitlist, CancellationIsFinal, NotCancelled, Live, Cancellable, eventVars
  <2> QED
    BY <2>1, <2>2, <2>3
<1>4. CASE CheckIn(r)
  <2>1. PendingIsBacked' /\ OfferIsBacked'
    BY <1>4 DEF CheckIn, PendingIsBacked, OfferIsBacked, pointVars
  <2>2. FeesFollowSeats'
    BY <1>4 DEF CheckIn, FeesFollowSeats, Seated, pointVars
  <2>3. CancellationIsFinal'
    BY <1>4 DEF CheckIn, CancellationIsFinal, NotCancelled, Live, Cancellable, eventVars
  <2> QED
    BY <2>1, <2>2, <2>3
<1>5. CASE ReleaseLapsed(r)
  <2>1. PendingIsBacked' /\ OfferIsBacked'
    BY <1>5 DEF ReleaseLapsed, PendingIsBacked, OfferIsBacked
  <2>2. FeesFollowSeats'
    BY <1>5 DEF ReleaseLapsed, FeesFollowSeats, Seated
  <2>3. CancellationIsFinal'
    BY <1>5 DEF ReleaseLapsed, CancellationIsFinal, NotCancelled, Live, Cancellable, eventVars
  <2> QED
    BY <2>1, <2>2, <2>3
<1>6. CASE Cancel(r)
  <2>1. PendingIsBacked' /\ OfferIsBacked'
    BY <1>6 DEF Cancel, Closed, Released, PendingIsBacked, OfferIsBacked, Cancellable
  <2>2. FeesFollowSeats'
    BY <1>6 DEF Cancel, FeesFollowSeats, Seated, Cancellable
  <2>3. CancellationIsFinal'
    BY <1>6 DEF Cancel, CancellationIsFinal, NotCancelled, Live, Cancellable, eventVars
  <2> QED
    BY <2>1, <2>2, <2>3
<1> QED
  BY <1>1, <1>2, <1>3, <1>4, <1>5, <1>6

\* What a run of the waitlist job does to the rows: the due offers go back to
\* the waitlist with their offer closed, and then at most one of the waitlisted
\* registrations of a published event is offered a seat.
LEMMA WaitlistJobRows ==
  ASSUME TypeOK, NEW locked \in SUBSET Regs, WaitlistJob(locked)
  PROVE  \E R \in SUBSET Regs :
           /\ \A q \in R : evStatus = "published" /\ status[q] \in {"waitlisted", "offered"}
           /\ \A q \in Regs \ R :
                \/ status'[q] = status[q] /\ promo'[q] = promo[q]
                \/ /\ status[q] = "offered" /\ status'[q] = "waitlisted"
                   /\ promo'[q] = "expired"
           /\ \A q \in R : status'[q] = "offered" /\ promo'[q] = "open"
<1> DEFINE due     == DueOffers \ locked
           status1 == [r \in Regs |-> IF r \in due THEN "waitlisted" ELSE status[r]]
           promo1  == [r \in Regs |-> IF r \in due THEN "expired" ELSE promo[r]]
<1>1. \A q \in Regs :
        \/ status1[q] = status[q] /\ promo1[q] = promo[q]
        \/ /\ status[q] = "offered" /\ status1[q] = "waitlisted" /\ promo1[q] = "expired"
  BY DEF DueOffers
<1>2. \/ status' = status1 /\ promo' = promo1
      \/ \E r \in Regs :
           /\ evStatus = "published" /\ status1[r] = "waitlisted"
           /\ status' = [status1 EXCEPT ![r] = "offered"]
           /\ promo' = [promo1 EXCEPT ![r] = "open"]
  BY DEF WaitlistJob, First, Promotable
<1>3. CASE status' = status1 /\ promo' = promo1
  <2>1. WITNESS {} \in SUBSET Regs
  <2> QED
    BY <1>1, <1>3
<1>4. ASSUME NEW r \in Regs,
             evStatus = "published", status1[r] = "waitlisted",
             status' = [status1 EXCEPT ![r] = "offered"],
             promo' = [promo1 EXCEPT ![r] = "open"]
      PROVE  \E R \in SUBSET Regs :
               /\ \A q \in R : evStatus = "published" /\ status[q] \in {"waitlisted", "offered"}
               /\ \A q \in Regs \ R :
                    \/ status'[q] = status[q] /\ promo'[q] = promo[q]
                    \/ /\ status[q] = "offered" /\ status'[q] = "waitlisted"
                       /\ promo'[q] = "expired"
               /\ \A q \in R : status'[q] = "offered" /\ promo'[q] = "open"
  <2>1. status[r] \in {"waitlisted", "offered"}
    BY <1>1, <1>4
  <2>2. WITNESS {r} \in SUBSET Regs
  <2> QED
    BY <1>1, <1>4, <2>1
<1> QED
  BY <1>2, <1>3, <1>4

LEMMA WaitlistJobBacking ==
  ASSUME TypeOK, Backing, NEW locked \in SUBSET Regs, WaitlistJob(locked)
  PROVE  Backing'
<1>1. PICK R \in SUBSET Regs :
           /\ \A q \in R : evStatus = "published" /\ status[q] \in {"waitlisted", "offered"}
           /\ \A q \in Regs \ R :
                \/ status'[q] = status[q] /\ promo'[q] = promo[q]
                \/ /\ status[q] = "offered" /\ status'[q] = "waitlisted"
                   /\ promo'[q] = "expired"
           /\ \A q \in R : status'[q] = "offered" /\ promo'[q] = "open"
  BY WaitlistJobRows
<1>2. hold' = hold /\ charged' = charged /\ refunded' = refunded /\ evStatus' = evStatus
  BY DEF WaitlistJob, pointVars, eventVars
<1>3. PendingIsBacked'
  BY <1>1, <1>2 DEF Backing, PendingIsBacked
<1>4. OfferIsBacked'
  BY <1>1 DEF Backing, OfferIsBacked
<1>5. FeesFollowSeats'
  BY <1>1, <1>2 DEF Backing, FeesFollowSeats, Seated
<1>6. CancellationIsFinal'
  BY <1>1, <1>2 DEF Backing, CancellationIsFinal, NotCancelled, Live, Cancellable
<1> QED
  BY <1>3, <1>4, <1>5, <1>6 DEF Backing

LEMMA OtherBacking ==
  ASSUME TypeOK, Backing, SweepHolds \/ RefundCancelledEvent \/ Organiser \/ Time
  PROVE  Backing'
<1> USE DEF Backing, PendingIsBacked, OfferIsBacked, FeesFollowSeats, Seated,
            CancellationIsFinal, NotCancelled, Live, Cancellable, TypeOK
<1>1. CASE SweepHolds
  BY <1>1 DEF SweepHolds, rowVars, eventVars
<1>2. CASE RefundCancelledEvent
  BY <1>2 DEF RefundCancelledEvent, RefundDue, rowVars, eventVars
<1>3. CASE Organiser
  <2>1. CASE CancelEvent
    BY <2>1 DEF CancelEvent, pointVars
  <2>2. CASE RemoveEvent
    BY <2>2 DEF RemoveEvent, pointVars, rowVars
  <2>3. ASSUME NEW c \in 1..MaxCapacity,
               NEW m \in {"automatic", "approval", "invite_only"}, NEW k \in 0..3,
               EditEvent(c, m, k)
        PROVE  Backing'
    BY <2>3 DEF EditEvent, pointVars, rowVars
  <2>4. ASSUME NEW t \in Tiers, NEW q \in 1..MaxQuota, NEW on \in BOOLEAN, EditTier(t, q, on)
        PROVE  Backing'
    BY <2>4 DEF EditTier, pointVars, rowVars
  <2> QED
    BY <1>3, <2>1, <2>2, <2>3, <2>4 DEF Organiser
<1>4. CASE Time
  BY <1>4 DEF Time, LapseHold, LapseOffer, Tick, eventVars, pointVars, rowVars
<1> QED
  BY <1>1, <1>2, <1>3, <1>4

LEMMA StepBacking == TypeOK /\ Backing /\ [Next]_vars => Backing'
<1> SUFFICES ASSUME TypeOK, Backing, [Next]_vars
             PROVE  Backing'
  OBVIOUS
<1>1. ASSUME NEW r \in Regs, Register(r)
      PROVE  Backing'
  BY <1>1, RegisterBacking
<1>2. ASSUME NEW r \in Regs,
             \/ Approve(r) \/ Reject(r) \/ AcceptWaitlist(r)
             \/ CheckIn(r) \/ ReleaseLapsed(r) \/ Cancel(r)
      PROVE  Backing'
  BY <1>2, RowBacking
<1>3. ASSUME NEW locked \in SUBSET Regs, WaitlistJob(locked)
      PROVE  Backing'
  BY <1>3, WaitlistJobBacking
<1>4. CASE SweepHolds \/ RefundCancelledEvent \/ Organiser \/ Time
  BY <1>4, OtherBacking
<1>5. CASE UNCHANGED vars
  BY <1>5 DEF Backing, PendingIsBacked, OfferIsBacked, FeesFollowSeats, CancellationIsFinal,
              NotCancelled, Live, vars, eventVars, pointVars, rowVars
<1> QED
  BY <1>1, <1>2, <1>3, <1>4, <1>5 DEF Next, Worker

LEMMA BackingAlways == Spec => [](TypeOK /\ Backing)
<1>1. Init => TypeOK /\ Backing
  BY InitTypeOK, InitBacking
<1>2. TypeOK /\ Backing /\ [Next]_vars => (TypeOK /\ Backing)'
  BY StepTypeOK, StepBacking
<1> QED
  BY <1>1, <1>2, PTL DEF Spec

\* No seat is stranded in pending and no offer is lost: whatever interleaves, a
\* pending registration has a hold the expiry job will find, an offered one its
\* one open offer, and no other live registration has either.
THEOREM SeatsBackedAlways == Spec => []SeatsAreBacked
<1>1. TypeOK /\ Backing => SeatsAreBacked
  BY DEF Backing, SeatsAreBacked
<1> QED
  BY <1>1, BackingAlways, PTL

\* A taken seat has been paid, and no fee is refunded through both paths.
THEOREM FeesFollowSeatsAlways == Spec => []FeesFollowSeats
<1>1. TypeOK /\ Backing => FeesFollowSeats
  BY DEF Backing
<1> QED
  BY <1>1, BackingAlways, PTL

\* Nothing moves again in an event the organiser has cancelled.
THEOREM CancellationFinalAlways == Spec => []CancellationIsFinal
<1>1. TypeOK /\ Backing => CancellationIsFinal
  BY DEF Backing
<1> QED
  BY <1>1, BackingAlways, PTL

-----------------------------------------------------------------------------
(* Counting heads: what moving one row, or several, does to a count *)

\* The heads of the rows whose status is in S, for any table of rows.
RowHeads(s, p, S) == Cardinality(SeatsOf({r \in Regs : s[r] \in S}, p))

\* One registration stands for as many pairs as its party has heads.
LEMMA OneParty ==
  ASSUME NEW r \in Regs, NEW p \in [Regs -> 1..MaxParty]
  PROVE  IsFiniteSet(SeatsOf({r}, p)) /\ Cardinality(SeatsOf({r}, p)) = p[r]
<1>1. p[r] \in 1..MaxParty /\ p[r] \in Nat
  BY RegistrationsAssumption
<1>2. IsFiniteSet({r}) /\ Cardinality({r}) = 1
  BY FS_Singleton
<1>3. IsFiniteSet(1..p[r]) /\ Cardinality(1..p[r]) = p[r]
  BY <1>1, FS_Interval
<1>4. IsFiniteSet({r} \X (1..p[r])) /\ Cardinality({r} \X (1..p[r])) = 1 * p[r]
  BY <1>2, <1>3, FS_Product
<1>5. SeatsOf({r}, p) = {r} \X (1..p[r])
  BY <1>1, RegistrationsAssumption DEF SeatsOf
<1>6. /\ IsFiniteSet(SeatsOf({r}, p))
      /\ Cardinality(SeatsOf({r}, p)) = Cardinality({r} \X (1..p[r]))
  BY <1>4, <1>5, Zenon
<1> QED
  BY <1>1, <1>4, <1>6

\* Disjoint sets of registrations are counted separately.
LEMMA DisjointHeads ==
  ASSUME NEW A \in SUBSET Regs, NEW B \in SUBSET Regs, A \cap B = {}, NEW p
  PROVE  /\ Cardinality(SeatsOf(A, p)) \in Nat /\ Cardinality(SeatsOf(B, p)) \in Nat
         /\ Cardinality(SeatsOf(A \cup B, p)) =
              Cardinality(SeatsOf(A, p)) + Cardinality(SeatsOf(B, p))
<1>1. SeatsOf(A \cup B, p) = SeatsOf(A, p) \cup SeatsOf(B, p)
  BY DEF SeatsOf
<1>2. SeatsOf(A, p) \cap SeatsOf(B, p) = {}
  BY DEF SeatsOf
<1>3. /\ IsFiniteSet(SeatsOf(A, p)) /\ Cardinality(SeatsOf(A, p)) \in Nat
      /\ IsFiniteSet(SeatsOf(B, p)) /\ Cardinality(SeatsOf(B, p)) \in Nat
  BY HeadsType
<1>4. Cardinality(SeatsOf(A, p) \cap SeatsOf(B, p)) = 0
  BY <1>2, FS_EmptySet, Zenon
<1>5. Cardinality(SeatsOf(A, p) \cup SeatsOf(B, p)) =
        Cardinality(SeatsOf(A, p)) + Cardinality(SeatsOf(B, p))
          - Cardinality(SeatsOf(A, p) \cap SeatsOf(B, p))
  BY <1>3, FS_Union
<1>6. Cardinality(SeatsOf(A \cup B, p)) = Cardinality(SeatsOf(A, p) \cup SeatsOf(B, p))
  BY <1>1, Zenon
<1> QED
  BY <1>3, <1>4, <1>5, <1>6

\* Two tables of rows that differ in row r at most.
OneMoved(s, s2, p, p2, r) ==
  \A q \in Regs \ {r} : s2[q] = s[q] /\ p2[q] = p[q]

HeadsMoved(s, s2, p, p2, r, S) ==
  /\ RowHeads(s, p, S) \in Nat
  /\ s[r] \in S => p[r] <= RowHeads(s, p, S)
  /\ RowHeads(s2, p2, S) = RowHeads(s, p, S)
       - (IF s[r] \in S THEN p[r] ELSE 0) + (IF s2[r] \in S THEN p2[r] ELSE 0)

\* Moving row r (to another status, with another party) moves its heads from
\* one count to the other and touches no other count.
LEMMA MoveOne ==
  ASSUME NEW s, NEW s2, NEW S, NEW r \in Regs,
         NEW p \in [Regs -> 1..MaxParty], NEW p2 \in [Regs -> 1..MaxParty],
         OneMoved(s, s2, p, p2, r)
  PROVE  HeadsMoved(s, s2, p, p2, r, S)
<1> DEFINE rest == {q \in Regs \ {r} : s[q] \in S}
           old  == {q \in Regs : s[q] \in S}
           new  == {q \in Regs : s2[q] \in S}
<1>1. SeatsOf(rest, p2) = SeatsOf(rest, p)
  BY DEF SeatsOf, OneMoved
<1>2. /\ IsFiniteSet(SeatsOf({r}, p)) /\ Cardinality(SeatsOf({r}, p)) = p[r]
      /\ IsFiniteSet(SeatsOf({r}, p2)) /\ Cardinality(SeatsOf({r}, p2)) = p2[r]
  BY OneParty
<1>3. /\ Cardinality(SeatsOf(rest, p)) \in Nat
      /\ Cardinality(SeatsOf(rest \cup {r}, p)) = Cardinality(SeatsOf(rest, p)) + p[r]
      /\ Cardinality(SeatsOf(rest \cup {r}, p2)) = Cardinality(SeatsOf(rest, p2)) + p2[r]
  <2>1. rest \in SUBSET Regs /\ {r} \in SUBSET Regs /\ rest \cap {r} = {}
    OBVIOUS
  <2> HIDE DEF rest
  <2>2. ASSUME NEW f
        PROVE  /\ Cardinality(SeatsOf(rest, f)) \in Nat
               /\ Cardinality(SeatsOf(rest \cup {r}, f)) =
                    Cardinality(SeatsOf(rest, f)) + Cardinality(SeatsOf({r}, f))
    BY <2>1, DisjointHeads, ZenonT(60)
  <2> QED
    BY <1>2, <2>2
<1>4. old = IF s[r] \in S THEN rest \cup {r} ELSE rest
  OBVIOUS
<1>5. new = IF s2[r] \in S THEN rest \cup {r} ELSE rest
  BY DEF OneMoved
<1>6. p[r] \in Nat /\ p2[r] \in Nat
  BY RegistrationsAssumption
<1>7. /\ RowHeads(s, p, S) = Cardinality(SeatsOf(old, p))
      /\ RowHeads(s2, p2, S) = Cardinality(SeatsOf(new, p2))
  BY DEF RowHeads
<1> HIDE DEF rest, old, new
<1> QED
  BY <1>1, <1>3, <1>4, <1>5, <1>6, <1>7 DEF HeadsMoved

\* Moving a set D of rows out of the statuses S, or within or outside them.
LEMMA MoveMany ==
  ASSUME NEW s, NEW s2, NEW S, NEW p, NEW D \in SUBSET Regs,
         \A q \in Regs \ D : s2[q] = s[q]
  PROVE  /\ (\A q \in D : s[q] \in S /\ s2[q] \notin S) =>
               RowHeads(s2, p, S) = RowHeads(s, p, S) - Cardinality(SeatsOf(D, p))
         /\ (\A q \in D : s[q] \notin S /\ s2[q] \notin S) =>
               RowHeads(s2, p, S) = RowHeads(s, p, S)
<1> DEFINE old == {q \in Regs : s[q] \in S}
           new == {q \in Regs : s2[q] \in S}
<1>1. /\ RowHeads(s, p, S) = Cardinality(SeatsOf(old, p))
      /\ RowHeads(s2, p, S) = Cardinality(SeatsOf(new, p))
  BY DEF RowHeads
<1>2. ASSUME \A q \in D : s[q] \in S /\ s2[q] \notin S
      PROVE  RowHeads(s2, p, S) = RowHeads(s, p, S) - Cardinality(SeatsOf(D, p))
  <2>1. old = new \cup D /\ new \cap D = {} /\ new \in SUBSET Regs
    BY <1>2
  <2> HIDE DEF old, new
  <2>2. /\ Cardinality(SeatsOf(new, p)) \in Nat /\ Cardinality(SeatsOf(D, p)) \in Nat
        /\ Cardinality(SeatsOf(new \cup D, p)) =
             Cardinality(SeatsOf(new, p)) + Cardinality(SeatsOf(D, p))
    BY ZenonT(60), <2>1, DisjointHeads
  <2> QED
    BY <1>1, <2>1, <2>2
<1>3. ASSUME \A q \in D : s[q] \notin S /\ s2[q] \notin S
      PROVE  RowHeads(s2, p, S) = RowHeads(s, p, S)
  <2>1. old = new
    BY <1>3
  <2> QED
    BY <1>1, <2>1
<1> QED
  BY <1>2, <1>3

\* The same for the number of rows.
RowCount(s, S) == Cardinality({r \in Regs : s[r] \in S})

LEMMA MoveOneRow ==
  ASSUME NEW s, NEW s2, NEW S, NEW r \in Regs,
         NEW p, NEW p2, OneMoved(s, s2, p, p2, r)
  PROVE  /\ RowCount(s, S) \in Nat
         /\ s[r] \in S => 1 <= RowCount(s, S)
         /\ RowCount(s2, S) = RowCount(s, S)
              - (IF s[r] \in S THEN 1 ELSE 0) + (IF s2[r] \in S THEN 1 ELSE 0)
<1> DEFINE old == {q \in Regs : s[q] \in S}
           new == {q \in Regs : s2[q] \in S}
           rest == {q \in Regs \ {r} : s[q] \in S}
<1>1. /\ old = IF s[r] \in S THEN rest \cup {r} ELSE rest
      /\ new = IF s2[r] \in S THEN rest \cup {r} ELSE rest
      /\ r \notin rest /\ rest \in SUBSET Regs
  BY DEF OneMoved
<1> HIDE DEF old, new, rest
<1>2. IsFiniteSet(rest) /\ Cardinality(rest) \in Nat
  BY <1>1, RegsFinite
<1>3. Cardinality(rest \cup {r}) = Cardinality(rest) + 1
  BY <1>1, <1>2, FS_AddElement
<1>4. /\ Cardinality(old) \in Nat
      /\ s[r] \in S => 1 <= Cardinality(old)
      /\ Cardinality(new) = Cardinality(old)
           - (IF s[r] \in S THEN 1 ELSE 0) + (IF s2[r] \in S THEN 1 ELSE 0)
  BY <1>1, <1>2, <1>3
<1>5. RowCount(s, S) = Cardinality(old) /\ RowCount(s2, S) = Cardinality(new)
  BY DEF RowCount, old, new
<1> QED
  BY <1>4, <1>5

\* Moving a set D of rows into the status set {v}, none of them there before.
Entered(s, s2, v, D) == /\ \A q \in Regs \ D : s2[q] = s[q]
                        /\ \A q \in D : s[q] # v /\ s2[q] = v

LEMMA EnterMany ==
  ASSUME NEW s, NEW s2, NEW v, NEW D \in SUBSET Regs, Entered(s, s2, v, D)
  PROVE  RowCount(s2, {v}) = RowCount(s, {v}) + Cardinality(D)
<1> DEFINE old == {q \in Regs : s[q] \in {v}}
           new == {q \in Regs : s2[q] \in {v}}
<1>1. new = old \cup D /\ old \cap D = {} /\ old \in SUBSET Regs
  BY DEF Entered
<1>2. RowCount(s, {v}) = Cardinality(old) /\ RowCount(s2, {v}) = Cardinality(new)
  BY DEF RowCount
<1> HIDE DEF old, new
<1>3. /\ IsFiniteSet(old) /\ Cardinality(old) \in Nat
      /\ IsFiniteSet(D) /\ Cardinality(D) \in Nat
  BY <1>1, RegsFinite
<1>4. Cardinality(old \cup D) = Cardinality(old) + Cardinality(D) - Cardinality(old \cap D)
  BY <1>3, FS_Union
<1>5. Cardinality(old \cap D) = 0
  BY <1>1, FS_EmptySet, Zenon
<1>6. Cardinality(new) = Cardinality(old \cup D)
  BY <1>1, Zenon
<1> QED
  BY <1>2, <1>3, <1>4, <1>5, <1>6

-----------------------------------------------------------------------------
(* The counters of event_capacity *)

\* CountersMatchRows in terms of the counts above.
LEMMA CountersInRows ==
  /\ CountersMatchRows <=>
       (NotCancelled => /\ confirmedCount = RowHeads(status, party, Seated)
                        /\ pendingCount = RowHeads(status, party, {"pending"})
                        /\ offeredCount = RowHeads(status, party, {"offered"})
                        /\ waitlistCount = RowCount(status, {"waitlisted"}))
  /\ CountersMatchRows' <=>
       (NotCancelled' => /\ confirmedCount' = RowHeads(status', party', Seated)
                         /\ pendingCount' = RowHeads(status', party', {"pending"})
                         /\ offeredCount' = RowHeads(status', party', {"offered"})
                         /\ waitlistCount' = RowCount(status', {"waitlisted"}))
BY Zenon DEF CountersMatchRows, Heads, Live, RowHeads, RowCount

LEMMA InitCounters == Init => CountersMatchRows
<1> SUFFICES ASSUME Init
             PROVE  CountersMatchRows
  OBVIOUS
<1>1. \A S : (S \in SUBSET (Statuses \ {"none"})) => Live(S) = {}
  BY DEF Init, Live
<1>2. SeatsOf({}, party) = {}
  BY DEF SeatsOf
<1>3. Cardinality({}) = 0
  BY FS_EmptySet
<1>4. Heads({}) = 0
  BY <1>2, <1>3, Zenon DEF Heads
<1>5. /\ Live(Seated) = {} /\ Live({"pending"}) = {}
      /\ Live({"offered"}) = {} /\ Live({"waitlisted"}) = {}
  BY <1>1 DEF Seated, Statuses
<1>6. /\ Heads(Live(Seated)) = 0 /\ Heads(Live({"pending"})) = 0
      /\ Heads(Live({"offered"})) = 0 /\ Cardinality(Live({"waitlisted"})) = 0
  BY <1>3, <1>4, <1>5, Zenon
<1> QED
  BY <1>6 DEF Init, CountersMatchRows

\* What the counters must become, given what they were, when row r moves.
CountsMoved(r) ==
  /\ RowHeads(status', party', Seated) = confirmedCount
       - (IF status[r] \in Seated THEN party[r] ELSE 0)
       + (IF status'[r] \in Seated THEN party'[r] ELSE 0)
  /\ RowHeads(status', party', {"pending"}) = pendingCount
       - (IF status[r] = "pending" THEN party[r] ELSE 0)
       + (IF status'[r] = "pending" THEN party'[r] ELSE 0)
  /\ RowHeads(status', party', {"offered"}) = offeredCount
       - (IF status[r] = "offered" THEN party[r] ELSE 0)
       + (IF status'[r] = "offered" THEN party'[r] ELSE 0)
  /\ RowCount(status', {"waitlisted"}) = waitlistCount
       - (IF status[r] = "waitlisted" THEN 1 ELSE 0)
       + (IF status'[r] = "waitlisted" THEN 1 ELSE 0)
  /\ status[r] \in Seated => party[r] <= confirmedCount
  /\ status[r] = "pending" => party[r] <= pendingCount
  /\ status[r] = "offered" => party[r] <= offeredCount
  /\ status[r] = "waitlisted" => 1 <= waitlistCount

LEMMA OneRowCounts ==
  ASSUME TypeOK, TypeOK', CountersMatchRows, NotCancelled, NEW r \in Regs,
         OneMoved(status, status', party, party', r)
  PROVE  CountsMoved(r)
<1>1. party \in [Regs -> 1..MaxParty] /\ party' \in [Regs -> 1..MaxParty]
  BY DEF TypeOK
<1>2. ASSUME NEW S
      PROVE  /\ status[r] \in S => party[r] <= RowHeads(status, party, S)
             /\ RowHeads(status', party', S) = RowHeads(status, party, S)
                  - (IF status[r] \in S THEN party[r] ELSE 0)
                  + (IF status'[r] \in S THEN party'[r] ELSE 0)
  BY <1>1, MoveOne DEF HeadsMoved
<1>3. ASSUME NEW S
      PROVE  /\ status[r] \in S => 1 <= RowCount(status, S)
             /\ RowCount(status', S) = RowCount(status, S)
                  - (IF status[r] \in S THEN 1 ELSE 0)
                  + (IF status'[r] \in S THEN 1 ELSE 0)
  BY MoveOneRow
<1>4. /\ confirmedCount = RowHeads(status, party, Seated)
      /\ pendingCount = RowHeads(status, party, {"pending"})
      /\ offeredCount = RowHeads(status, party, {"offered"})
      /\ waitlistCount = RowCount(status, {"waitlisted"})
  BY CountersInRows
<1>5. \A v, w : v \in {w} <=> v = w
  OBVIOUS
<1>6. /\ status[r] \in Seated => party[r] <= confirmedCount
      /\ RowHeads(status', party', Seated) = confirmedCount
           - (IF status[r] \in Seated THEN party[r] ELSE 0)
           + (IF status'[r] \in Seated THEN party'[r] ELSE 0)
  BY <1>2, <1>4
<1>7. /\ status[r] = "pending" => party[r] <= pendingCount
      /\ RowHeads(status', party', {"pending"}) = pendingCount
           - (IF status[r] = "pending" THEN party[r] ELSE 0)
           + (IF status'[r] = "pending" THEN party'[r] ELSE 0)
  BY <1>2, <1>4, <1>5, Zenon
<1>8. /\ status[r] = "offered" => party[r] <= offeredCount
      /\ RowHeads(status', party', {"offered"}) = offeredCount
           - (IF status[r] = "offered" THEN party[r] ELSE 0)
           + (IF status'[r] = "offered" THEN party'[r] ELSE 0)
  BY <1>2, <1>4, <1>5, Zenon
<1>9. /\ status[r] = "waitlisted" => 1 <= waitlistCount
      /\ RowCount(status', {"waitlisted"}) = waitlistCount
           - (IF status[r] = "waitlisted" THEN 1 ELSE 0)
           + (IF status'[r] = "waitlisted" THEN 1 ELSE 0)
  BY <1>3, <1>4, <1>5, Zenon
<1> QED
  BY <1>6, <1>7, <1>8, <1>9 DEF CountsMoved

RowsExact == /\ confirmedCount' = RowHeads(status', party', Seated)
             /\ pendingCount' = RowHeads(status', party', {"pending"})
             /\ offeredCount' = RowHeads(status', party', {"offered"})
             /\ waitlistCount' = RowCount(status', {"waitlisted"})

LEMMA RowCounters ==
  ASSUME TypeOK, TypeOK', CountersMatchRows, NEW r \in Regs,
         \/ Approve(r) \/ Reject(r) \/ AcceptWaitlist(r)
         \/ CheckIn(r) \/ ReleaseLapsed(r) \/ Cancel(r)
  PROVE  CountersMatchRows'
<1> SUFFICES ASSUME NotCancelled'
             PROVE  RowsExact
  BY CountersInRows DEF RowsExact
<1>1. OneMoved(status, status', party, party', r) /\ party' = party
  BY DEF TypeOK, OneMoved, Approve, Reject, AcceptWaitlist, CheckIn, ReleaseLapsed, Cancel
<1>2. status[r] # "event_cancelled"
  BY DEF Approve, Reject, AcceptWaitlist, CheckIn, ReleaseLapsed, Cancel, Cancellable
<1>3. NotCancelled
  BY <1>1, <1>2 DEF NotCancelled, OneMoved
<1>4. /\ party[r] \in Nat /\ confirmedCount \in Nat /\ pendingCount \in Nat
      /\ offeredCount \in Nat /\ waitlistCount \in Nat
  BY RegistrationsAssumption DEF TypeOK
<1>11. CountsMoved(r)
  BY <1>1, <1>3, OneRowCounts
<1>5. CASE Approve(r)
  <2>1. status[r] = "pending" /\ status'[r] = "confirmed"
    BY <1>5 DEF Approve, TypeOK
  <2> QED
    BY <1>1, <1>4, <1>11, <1>5, <2>1 DEF CountsMoved, Approve, RowsExact, Minus, Seated
<1>6. CASE Reject(r)
  <2>1. status[r] = "pending" /\ status'[r] = "rejected"
    BY <1>6 DEF Reject, TypeOK
  <2> QED
    BY <1>1, <1>4, <1>11, <1>6, <2>1 DEF CountsMoved, Reject, RowsExact, Minus, Seated
<1>7. CASE AcceptWaitlist(r)
  <2>1. status[r] = "offered" /\ status'[r] = "confirmed"
    BY <1>7 DEF AcceptWaitlist, TypeOK
  <2> QED
    BY <1>1, <1>4, <1>11, <1>7, <2>1 DEF CountsMoved, AcceptWaitlist, RowsExact, Minus, Seated
<1>8. CASE CheckIn(r)
  <2>1. status[r] = "confirmed" /\ status'[r] = "checked_in"
    BY <1>8 DEF CheckIn, TypeOK
  <2> QED
    BY <1>1, <1>4, <1>11, <1>8, <2>1 DEF CountsMoved, CheckIn, RowsExact, counters, Seated
<1>9. CASE ReleaseLapsed(r)
  <2>1. status[r] = "pending" /\ status'[r] = "cancelled"
    BY <1>9 DEF ReleaseLapsed, TypeOK
  <2> QED
    BY <1>1, <1>4, <1>11, <1>9, <2>1 DEF CountsMoved, ReleaseLapsed, RowsExact, Minus, Seated
<1>10. CASE Cancel(r)
  <2>1. status[r] \in Cancellable /\ status'[r] = "cancelled"
    BY <1>10 DEF Cancel, TypeOK
  <2> QED
    BY <1>1, <1>4, <1>11, <1>10, <2>1
       DEF CountsMoved, Cancel, Cancellable, RowsExact, Minus, Seated
<1> QED
  BY <1>5, <1>6, <1>7, <1>8, <1>9, <1>10

LEMMA RegisterCounters ==
  ASSUME TypeOK, TypeOK', CountersMatchRows, NEW r \in Regs, Register(r)
  PROVE  CountersMatchRows'
<1> SUFFICES ASSUME NotCancelled'
             PROVE  RowsExact
  BY CountersInRows DEF RowsExact
<1>1. PICK n \in 1..MaxParty, t \in Tiers \cup {NoTier} :
        \/ RegisterConfirmed(r, n, t)
        \/ RegisterPending(r, n, t)
        \/ RegisterWaitlisted(r, n, t)
  BY DEF Register
<1>2. /\ OneMoved(status, status', party, party', r)
      /\ status[r] = "none" /\ party'[r] = n
      /\ offeredCount' = offeredCount
  BY <1>1 DEF TypeOK, OneMoved, RegisterConfirmed, RegisterPending, RegisterWaitlisted, Enter
<1>3. \/ /\ status'[r] = "confirmed" /\ confirmedCount' = confirmedCount + n
         /\ pendingCount' = pendingCount /\ waitlistCount' = waitlistCount
      \/ /\ status'[r] = "pending" /\ pendingCount' = pendingCount + n
         /\ confirmedCount' = confirmedCount /\ waitlistCount' = waitlistCount
      \/ /\ status'[r] = "waitlisted" /\ waitlistCount' = waitlistCount + 1
         /\ confirmedCount' = confirmedCount /\ pendingCount' = pendingCount
  BY <1>1 DEF TypeOK, RegisterConfirmed, RegisterPending, RegisterWaitlisted, Enter
<1>4. NotCancelled
  BY <1>2 DEF NotCancelled, OneMoved
<1>5. /\ confirmedCount \in Nat /\ pendingCount \in Nat
      /\ offeredCount \in Nat /\ waitlistCount \in Nat /\ n \in Nat
  BY RegistrationsAssumption DEF TypeOK
<1>6. CountsMoved(r)
  BY <1>2, <1>4, OneRowCounts
<1> QED
  BY <1>2, <1>3, <1>5, <1>6 DEF CountsMoved, RowsExact, Seated

\* The worker's job: the due offers go back together, then one row moves on.
LEMMA WaitlistJobCounters ==
  ASSUME TypeOK, CountersMatchRows, NEW locked \in SUBSET Regs, WaitlistJob(locked)
  PROVE  CountersMatchRows'
<1> SUFFICES ASSUME NotCancelled'
             PROVE  RowsExact
  BY CountersInRows DEF RowsExact
<1> DEFINE due      == DueOffers \ locked
           status1  == [q \in Regs |-> IF q \in due THEN "waitlisted" ELSE status[q]]
           offered1 == Minus(offeredCount, Heads(due))
           wait1    == waitlistCount + Cardinality(due)
<1>1. /\ due \in SUBSET Regs
      /\ \A q \in due : status[q] = "offered" /\ status1[q] = "waitlisted"
      /\ \A q \in Regs \ due : status1[q] = status[q]
  BY DEF DueOffers
<1>2. /\ party' = party /\ confirmedCount' = confirmedCount /\ pendingCount' = pendingCount
      /\ party \in [Regs -> 1..MaxParty]
  BY DEF WaitlistJob, TypeOK
<1>3. \/ status' = status1 /\ offeredCount' = offered1 /\ waitlistCount' = wait1
      \/ \E r \in Regs : /\ status1[r] = "waitlisted"
                         /\ status' = [status1 EXCEPT ![r] = "offered"]
                         /\ offeredCount' = offered1 + party[r]
                         /\ waitlistCount' = Minus(wait1, 1)
  BY DEF WaitlistJob, First, Promotable
<1>4. /\ status \in [Regs -> Statuses] /\ status1 \in [Regs -> Statuses]
      /\ offeredCount \in Nat /\ waitlistCount \in Nat
  BY DEF TypeOK, Statuses
<1>5. NotCancelled
  <2>1. \A q \in Regs : status[q] = "event_cancelled" => status1[q] = "event_cancelled"
    BY <1>1
  <2> HIDE DEF status1
  <2> QED
    BY <1>3, <1>4, <2>1 DEF NotCancelled
<1>6. Heads(due) \in Nat /\ Cardinality(due) \in Nat
  BY <1>1, HeadsType, RegsFinite DEF Heads
<1>7. /\ confirmedCount = RowHeads(status, party, Seated)
      /\ pendingCount = RowHeads(status, party, {"pending"})
      /\ offeredCount = RowHeads(status, party, {"offered"})
      /\ waitlistCount = RowCount(status, {"waitlisted"})
  BY <1>5, CountersInRows
<1> HIDE DEF due, status1, offered1, wait1
<1>8. /\ RowHeads(status1, party, Seated) = confirmedCount
      /\ RowHeads(status1, party, {"pending"}) = pendingCount
      /\ RowHeads(status1, party, {"offered"}) = offeredCount - Heads(due)
      /\ RowCount(status1, {"waitlisted"}) = wait1
  <2>1. ASSUME NEW S
        PROVE  /\ (\A q \in due : status[q] \in S /\ status1[q] \notin S) =>
                     RowHeads(status1, party, S)
                       = RowHeads(status, party, S) - Cardinality(SeatsOf(due, party))
               /\ (\A q \in due : status[q] \notin S /\ status1[q] \notin S) =>
                     RowHeads(status1, party, S) = RowHeads(status, party, S)
    BY <1>1, MoveMany
  <2>2. /\ \A q \in due : status[q] \notin Seated /\ status1[q] \notin Seated
        /\ \A q \in due : status[q] \notin {"pending"} /\ status1[q] \notin {"pending"}
        /\ \A q \in due : status[q] \in {"offered"} /\ status1[q] \notin {"offered"}
        /\ \A q \in due : status[q] # "waitlisted" /\ status1[q] = "waitlisted"
    BY <1>1 DEF Seated
  <2>3. RowHeads(status1, party, Seated) = RowHeads(status, party, Seated)
    BY <2>1, <2>2, Zenon
  <2>4. RowHeads(status1, party, {"pending"}) = RowHeads(status, party, {"pending"})
    BY <2>1, <2>2, Zenon
  <2>5. RowHeads(status1, party, {"offered"})
          = RowHeads(status, party, {"offered"}) - Cardinality(SeatsOf(due, party))
    BY <2>1, <2>2, Zenon
  <2>6. RowCount(status1, {"waitlisted"})
          = RowCount(status, {"waitlisted"}) + Cardinality(due)
    <3>1. Entered(status, status1, "waitlisted", due) /\ due \in SUBSET Regs
      BY <1>1, <2>2 DEF Entered
    <3> QED
      BY <3>1, EnterMany
  <2> QED
    BY <1>7, <2>3, <2>4, <2>5, <2>6 DEF Heads, wait1
<1>9. offered1 = RowHeads(status1, party, {"offered"})
  <2>1. {q \in Regs : status1[q] \in {"offered"}} \in SUBSET Regs
    OBVIOUS
  <2>2. RowHeads(status1, party, {"offered"}) \in Nat
    BY <2>1, HeadsType, Zenon DEF RowHeads
  <2> QED
    BY <1>4, <1>6, <1>8, <2>2 DEF offered1, Minus
<1>10. CASE status' = status1 /\ offeredCount' = offered1 /\ waitlistCount' = wait1
  BY <1>2, <1>8, <1>9, <1>10 DEF RowsExact
<1>11. ASSUME NEW r \in Regs, status1[r] = "waitlisted",
              status' = [status1 EXCEPT ![r] = "offered"],
              offeredCount' = offered1 + party[r], waitlistCount' = Minus(wait1, 1)
       PROVE  RowsExact
  <2>1. OneMoved(status1, status', party, party', r) /\ status'[r] = "offered"
    BY <1>2, <1>4, <1>11 DEF OneMoved
  <2>2. ASSUME NEW S
        PROVE  RowHeads(status', party', S) = RowHeads(status1, party, S)
                 - (IF status1[r] \in S THEN party[r] ELSE 0)
                 + (IF status'[r] \in S THEN party'[r] ELSE 0)
    <3>1. party \in [Regs -> 1..MaxParty] /\ party' \in [Regs -> 1..MaxParty]
      BY <1>2
    <3>2. OneMoved(status1, status', party, party', r)
      BY <2>1
    <3>3. HeadsMoved(status1, status', party, party', r, S)
      BY <3>1, <3>2, MoveOne
    <3> QED
      BY <3>3 DEF HeadsMoved
  <2>3. ASSUME NEW S
        PROVE  /\ status1[r] \in S => 1 <= RowCount(status1, S)
               /\ RowCount(status', S) = RowCount(status1, S)
                    - (IF status1[r] \in S THEN 1 ELSE 0)
                    + (IF status'[r] \in S THEN 1 ELSE 0)
    BY <1>2, <2>1, MoveOneRow
  <2>4. \A v, w : v \in {w} <=> v = w
    OBVIOUS
  <2>5. RowHeads(status', party', Seated) = confirmedCount - 0 + 0
    BY <1>8, <1>11, <2>1, <2>2 DEF Seated
  <2>6. RowHeads(status', party', {"pending"}) = pendingCount - 0 + 0
    <3>1. "waitlisted" \notin {"pending"} /\ "offered" \notin {"pending"}
      OBVIOUS
    <3> QED
      BY <1>8, <1>11, <2>1, <2>2, <3>1, Zenon
  <2>7. RowHeads(status', party', {"offered"}) = offered1 - 0 + party[r]
    <3>1. "waitlisted" \notin {"offered"} /\ "offered" \in {"offered"}
      OBVIOUS
    <3> QED
      BY <1>2, <1>9, <1>11, <2>1, <2>2, <3>1, Zenon
  <2>8. 1 <= wait1 /\ RowCount(status', {"waitlisted"}) = wait1 - 1 + 0
    <3>1. "waitlisted" \in {"waitlisted"} /\ "offered" \notin {"waitlisted"}
      OBVIOUS
    <3> QED
      BY <1>8, <1>11, <2>1, <2>3, <3>1, Zenon
  <2>9. /\ confirmedCount \in Nat /\ pendingCount \in Nat /\ wait1 \in Nat
        /\ offered1 \in Nat /\ party[r] \in Nat
    BY <1>4, <1>6, RegistrationsAssumption DEF TypeOK, wait1, offered1, Minus
  <2> QED
    BY <1>2, <1>11, <2>5, <2>6, <2>7, <2>8, <2>9 DEF RowsExact, Minus
<1> QED
  BY <1>3, <1>10, <1>11

LEMMA OtherCounters ==
  ASSUME TypeOK, CountersMatchRows, SweepHolds \/ RefundCancelledEvent \/ Organiser \/ Time
  PROVE  CountersMatchRows'
<1>1. ASSUME UNCHANGED <<status, party, counters>>
      PROVE  CountersMatchRows'
  BY <1>1, CountersInRows DEF NotCancelled, counters
<1>2. CASE SweepHolds
  BY <1>1, <1>2 DEF SweepHolds, rowVars
<1>3. CASE RefundCancelledEvent
  BY <1>1, <1>3 DEF RefundCancelledEvent, rowVars
<1>4. CASE Organiser
  <2>1. CASE CancelEvent
    <3> SUFFICES ASSUME NotCancelled'
                 PROVE  UNCHANGED <<status, party, counters>>
      BY <1>1 DEF CountersMatchRows
    <3>1. \A r \in Regs : status[r] \notin Cancellable
      BY <2>1 DEF CancelEvent, NotCancelled
    <3>2. status' = status
      BY <2>1, <3>1 DEF CancelEvent, TypeOK
    <3> QED
      BY <2>1, <3>2 DEF CancelEvent
  <2>2. CASE RemoveEvent
    BY <1>1, <2>2 DEF RemoveEvent, rowVars
  <2>3. ASSUME NEW c \in 1..MaxCapacity,
               NEW m \in {"automatic", "approval", "invite_only"}, NEW k \in 0..3,
               EditEvent(c, m, k)
        PROVE  CountersMatchRows'
    BY <1>1, <2>3 DEF EditEvent, rowVars
  <2>4. ASSUME NEW t \in Tiers, NEW q \in 1..MaxQuota, NEW on \in BOOLEAN, EditTier(t, q, on)
        PROVE  CountersMatchRows'
    BY <1>1, <2>4 DEF EditTier, rowVars
  <2> QED
    BY <1>4, <2>1, <2>2, <2>3, <2>4 DEF Organiser
<1>5. CASE Time
  BY <1>1, <1>5 DEF Time, LapseHold, LapseOffer, Tick, rowVars
<1> QED
  BY <1>2, <1>3, <1>4, <1>5

LEMMA StepCounters == TypeOK /\ CountersMatchRows /\ [Next]_vars => CountersMatchRows'
<1> SUFFICES ASSUME TypeOK, CountersMatchRows, [Next]_vars
             PROVE  CountersMatchRows'
  OBVIOUS
<1> USE StepTypeOK
<1>1. ASSUME NEW r \in Regs, Register(r)
      PROVE  CountersMatchRows'
  BY <1>1, RegisterCounters DEF Next
<1>2. ASSUME NEW r \in Regs,
             \/ Approve(r) \/ Reject(r) \/ AcceptWaitlist(r)
             \/ CheckIn(r) \/ ReleaseLapsed(r) \/ Cancel(r)
      PROVE  CountersMatchRows'
  BY <1>2, RowCounters DEF Next, Worker
<1>3. ASSUME NEW locked \in SUBSET Regs, WaitlistJob(locked)
      PROVE  CountersMatchRows'
  BY <1>3, WaitlistJobCounters
<1>4. CASE SweepHolds \/ RefundCancelledEvent \/ Organiser \/ Time
  BY <1>4, OtherCounters
<1>5. CASE UNCHANGED vars
  BY <1>5, CountersInRows DEF NotCancelled, vars, counters, rowVars
<1> QED
  BY <1>1, <1>2, <1>3, <1>4, <1>5 DEF Next, Worker

\* The counters every admission check trusts are exact, for any number of
\* registrations of any party size: confirmed_count the people seated,
\* pending_count and offered_count the people held a seat, waitlist_count the
\* registrations that wait.
THEOREM CountersExact == Spec => []CountersMatchRows
<1>1. TypeOK /\ CountersMatchRows /\ [Next]_vars => (TypeOK /\ CountersMatchRows)'
  BY StepTypeOK, StepCounters
<1>2. Init => TypeOK /\ CountersMatchRows
  BY InitTypeOK, InitCounters
<1>3. Spec => [](TypeOK /\ CountersMatchRows)
  BY <1>1, <1>2, PTL DEF Spec
<1> QED
  BY <1>3, PTL

-----------------------------------------------------------------------------
(* Admission *)

\* Everyone who holds a seat is seated, pending or offered, and only one of these.
LEMMA HoldingHeads ==
  ASSUME NEW s, NEW p
  PROVE  /\ RowHeads(s, p, Holding) = RowHeads(s, p, Seated)
              + RowHeads(s, p, {"pending"}) + RowHeads(s, p, {"offered"})
         /\ RowHeads(s, p, Seated) \in Nat
<1> DEFINE A == {r \in Regs : s[r] \in Seated}
           B == {r \in Regs : s[r] \in {"pending"}}
           C == {r \in Regs : s[r] \in {"offered"}}
           H == {r \in Regs : s[r] \in Holding}
<1>1. /\ A \in SUBSET Regs /\ B \in SUBSET Regs /\ C \in SUBSET Regs
      /\ A \cap B = {} /\ (A \cup B) \cap C = {} /\ A \cup B \in SUBSET Regs
      /\ H = (A \cup B) \cup C
  BY DEF Seated, Holding
<1>2. /\ RowHeads(s, p, Seated) = Cardinality(SeatsOf(A, p))
      /\ RowHeads(s, p, {"pending"}) = Cardinality(SeatsOf(B, p))
      /\ RowHeads(s, p, {"offered"}) = Cardinality(SeatsOf(C, p))
      /\ RowHeads(s, p, Holding) = Cardinality(SeatsOf(H, p))
  BY DEF RowHeads
<1> HIDE DEF A, B, C, H
<1>3. /\ Cardinality(SeatsOf(A, p)) \in Nat /\ Cardinality(SeatsOf(B, p)) \in Nat
      /\ Cardinality(SeatsOf(A \cup B, p)) =
           Cardinality(SeatsOf(A, p)) + Cardinality(SeatsOf(B, p))
  <2>1. A \in SUBSET Regs /\ B \in SUBSET Regs /\ A \cap B = {}
    BY <1>1
  <2> QED
    BY ZenonT(60), <2>1, DisjointHeads
<1>4. Cardinality(SeatsOf((A \cup B) \cup C, p)) =
        Cardinality(SeatsOf(A \cup B, p)) + Cardinality(SeatsOf(C, p))
  <2> DEFINE D == A \cup B
  <2>1. D \in SUBSET Regs /\ C \in SUBSET Regs /\ D \cap C = {}
    BY <1>1
  <2> HIDE DEF D
  <2>2. Cardinality(SeatsOf(D \cup C, p)) = Cardinality(SeatsOf(D, p)) + Cardinality(SeatsOf(C, p))
    BY <2>1, DisjointHeads
  <2> QED
    BY <2>2 DEF D
<1>5. Cardinality(SeatsOf(H, p)) = Cardinality(SeatsOf((A \cup B) \cup C, p))
  BY <1>1, Zenon
<1> QED
  BY <1>2, <1>3, <1>4, <1>5

\* As long as the event is not cancelled, the counters stand for the people.
LEMMA HeadsAreCounted ==
  /\ CountersMatchRows /\ NotCancelled =>
       Heads(Live(Holding)) = Occupied /\ Heads(Live(Seated)) = confirmedCount
  /\ CountersMatchRows' /\ NotCancelled' =>
       Heads(Live(Holding))' = Occupied' /\ Heads(Live(Seated))' = confirmedCount'
<1>1. /\ Heads(Live(Holding)) = RowHeads(status, party, Holding)
      /\ Heads(Live(Seated)) = RowHeads(status, party, Seated)
      /\ Heads(Live(Holding))' = RowHeads(status', party', Holding)
      /\ Heads(Live(Seated))' = RowHeads(status', party', Seated)
  BY DEF Heads, Live, RowHeads
<1>2. /\ RowHeads(status, party, Holding) = RowHeads(status, party, Seated)
           + RowHeads(status, party, {"pending"}) + RowHeads(status, party, {"offered"})
      /\ RowHeads(status', party', Holding) = RowHeads(status', party', Seated)
           + RowHeads(status', party', {"pending"}) + RowHeads(status', party', {"offered"})
  BY HoldingHeads
<1> QED
  BY <1>1, <1>2, CountersInRows DEF Occupied

LEMMA SmallerSum ==
  ASSUME NEW a \in Nat, NEW b \in Nat, NEW c \in Nat,
         NEW x \in Nat, NEW y \in Nat, NEW z \in Nat,
         a <= x, b <= y, c <= z
  PROVE  ~(a + b + c > x + y + z)
OBVIOUS

\* What the admission checks say of the counters, step by step.
CountsWithin ==
  /\ Occupied' > Occupied => Occupied' <= capacity'
  /\ confirmedCount' > confirmedCount => confirmedCount' <= capacity'

LEMMA StepCountsWithin ==
  ASSUME TypeOK, TypeOK', CountersMatchRows, NotCancelled, [Next]_vars
  PROVE  CountsWithin
<1>1. /\ confirmedCount \in Nat /\ pendingCount \in Nat /\ offeredCount \in Nat
      /\ capacity \in Nat /\ \A r \in Regs : party[r] \in Nat
  BY RegistrationsAssumption DEF TypeOK
<1> USE DEF CountsWithin, Occupied, Minus
<1>2. ASSUME NEW r \in Regs, Register(r)
      PROVE  CountsWithin
  <2>1. PICK n \in 1..MaxParty, t \in Tiers \cup {NoTier} :
          \/ RegisterConfirmed(r, n, t)
          \/ RegisterPending(r, n, t)
          \/ RegisterWaitlisted(r, n, t)
    BY <1>2 DEF Register
  <2>2. n \in Nat
    BY RegistrationsAssumption
  <2> QED
    BY <1>1, <2>1, <2>2
       DEF RegisterConfirmed, RegisterPending, RegisterWaitlisted, Enter, eventVars
<1>3. ASSUME NEW r \in Regs, AcceptWaitlist(r)
      PROVE  CountsWithin
  <2>1. OneMoved(status, status', party, party', r)
    BY <1>3 DEF AcceptWaitlist, OneMoved, TypeOK
  <2>2. party[r] <= offeredCount
    BY <1>3, <2>1, OneRowCounts DEF AcceptWaitlist, CountsMoved
  <2> QED
    BY <1>1, <1>3, <2>2 DEF AcceptWaitlist, eventVars
<1>4. ASSUME NEW r \in Regs,
             Approve(r) \/ Reject(r) \/ CheckIn(r) \/ ReleaseLapsed(r)
      PROVE  CountsWithin
  BY <1>1, <1>4 DEF Approve, Reject, CheckIn, ReleaseLapsed, eventVars, counters
<1>5. ASSUME NEW r \in Regs, Cancel(r)
      PROVE  CountsWithin
  <2>1. confirmedCount' <= confirmedCount /\ pendingCount' <= pendingCount
    BY <1>1, <1>5 DEF Cancel
  <2>2. offeredCount' <= offeredCount
    BY <1>1, <1>5 DEF Cancel
  <2>3. confirmedCount' \in Nat /\ pendingCount' \in Nat /\ offeredCount' \in Nat
    BY DEF TypeOK
  <2>4. ~(confirmedCount' > confirmedCount)
    BY <1>1, <2>1, <2>3
  <2>5. ~(Occupied' > Occupied)
    BY <1>1, <2>1, <2>2, <2>3, SmallerSum
  <2> QED
    BY <2>4, <2>5
<1>6. ASSUME NEW locked \in SUBSET Regs, WaitlistJob(locked)
      PROVE  CountsWithin
  <2> DEFINE offered1 == Minus(offeredCount, Heads(DueOffers \ locked))
  <2>1. /\ confirmedCount' = confirmedCount /\ pendingCount' = pendingCount
        /\ capacity' = capacity
        /\ \/ offeredCount' = offered1
           \/ \E r \in Regs :
                /\ confirmedCount + pendingCount + offered1 + party[r] <= capacity
                /\ offeredCount' = offered1 + party[r]
    BY <1>6 DEF WaitlistJob, First, Promotable, eventVars
  <2>2. DueOffers \ locked \in SUBSET Regs
    BY DEF DueOffers
  <2>3. Heads(DueOffers \ locked) \in Nat
    BY <2>2, HeadsType, Zenon DEF Heads
  <2>4. offered1 \in Nat /\ offered1 <= offeredCount
    BY <1>1, <2>3
  <2> HIDE DEF offered1
  <2> QED
    BY <1>1, <2>1, <2>4
<1>7. CASE SweepHolds \/ RefundCancelledEvent \/ Organiser \/ Time
  BY <1>1, <1>7 DEF SweepHolds, RefundCancelledEvent, Organiser, EditEvent, EditTier, CancelEvent,
                    RemoveEvent, Time, LapseHold, LapseOffer, Tick, counters
<1>8. CASE UNCHANGED vars
  BY <1>1, <1>8 DEF vars, counters
<1> QED
  BY <1>2, <1>3, <1>4, <1>5, <1>6, <1>7, <1>8 DEF Next, Worker

\* Of a cancelled event the rows stand still.
LEMMA CancelledStands ==
  ASSUME TypeOK, CancellationIsFinal, ~NotCancelled, [Next]_vars
  PROVE  status' = status /\ party' = party
<1>1. evStatus # "published" /\ \A r \in Regs : status[r] \notin Cancellable
  BY DEF CancellationIsFinal, Live
<1>2. ASSUME NEW r \in Regs, Register(r)
      PROVE  FALSE
  BY <1>1, <1>2 DEF Register, RegisterConfirmed, RegisterPending, RegisterWaitlisted, Enter,
                    RegistrationOpen
<1>3. ASSUME NEW r \in Regs,
             \/ Approve(r) \/ Reject(r) \/ AcceptWaitlist(r)
             \/ CheckIn(r) \/ ReleaseLapsed(r) \/ Cancel(r)
      PROVE  FALSE
  BY <1>1, <1>3 DEF Approve, Reject, AcceptWaitlist, CheckIn, ReleaseLapsed, Cancel, Cancellable
<1>4. ASSUME NEW locked \in SUBSET Regs, WaitlistJob(locked)
      PROVE  FALSE
  <2>1. DueOffers = {}
    BY <1>1 DEF DueOffers, Cancellable
  <2> QED
    BY <1>1, <1>4, <2>1 DEF WaitlistJob, First, Promotable
<1>5. CASE SweepHolds \/ RefundCancelledEvent \/ Organiser \/ Time
  BY <1>1, <1>5 DEF SweepHolds, RefundCancelledEvent, Organiser, EditEvent, EditTier,
                    CancelEvent, RemoveEvent, Time, LapseHold, LapseOffer, Tick, rowVars
<1>6. CASE UNCHANGED vars
  BY <1>6 DEF vars, rowVars
<1> QED
  BY <1>2, <1>3, <1>4, <1>5, <1>6 DEF Next, Worker

\* Cancelling the event takes seats away and gives none.
LEMMA CancellationEmpties ==
  ASSUME TypeOK, NotCancelled, ~NotCancelled', [Next]_vars, NEW S,
         "event_cancelled" \notin S
  PROVE  Heads(Live(S))' <= Heads(Live(S))
<1>1. CASE CancelEvent
  <2> DEFINE old == {r \in Regs : status[r] \in S}
             new == {r \in Regs : status'[r] \in S}
  <2>1. new \in SUBSET old /\ old \in SUBSET Regs /\ new \in SUBSET Regs /\ party' = party
    BY <1>1 DEF CancelEvent
  <2>2. Heads(Live(S)) = Cardinality(SeatsOf(old, party))
    BY DEF Heads, Live
  <2>3. Heads(Live(S))' = Cardinality(SeatsOf(new, party'))
    BY DEF Heads, Live
  <2> HIDE DEF old, new
  <2>4. SeatsOf(new, party) \in SUBSET SeatsOf(old, party)
    BY <2>1 DEF SeatsOf
  <2>5. IsFiniteSet(SeatsOf(old, party))
    BY <2>1, HeadsType
  <2>6. Cardinality(SeatsOf(new, party)) <= Cardinality(SeatsOf(old, party))
    BY <2>4, <2>5, FS_Subset
  <2> QED
    BY <2>1, <2>2, <2>3, <2>6
<1>2. ASSUME ~CancelEvent
      PROVE  FALSE
  <2>1. ASSUME NEW r \in Regs, Register(r)
        PROVE  FALSE
    <3>1. \E st \in {"confirmed", "pending", "waitlisted"} : status' = [status EXCEPT ![r] = st]
      BY <2>1 DEF Register, RegisterConfirmed, RegisterPending, RegisterWaitlisted, Enter
    <3> QED
      BY <3>1 DEF NotCancelled, TypeOK
  <2>2. ASSUME NEW r \in Regs,
               \/ Approve(r) \/ Reject(r) \/ AcceptWaitlist(r)
               \/ CheckIn(r) \/ ReleaseLapsed(r) \/ Cancel(r)
        PROVE  FALSE
    <3>1. \E st \in Statuses \ {"event_cancelled"} : status' = [status EXCEPT ![r] = st]
      BY <2>2 DEF Approve, Reject, AcceptWaitlist, CheckIn, ReleaseLapsed, Cancel, Statuses
    <3> QED
      BY <3>1 DEF NotCancelled, TypeOK
  <2>3. ASSUME NEW locked \in SUBSET Regs, WaitlistJob(locked)
        PROVE  FALSE
    <3>1. \A q \in Regs : status'[q] = "event_cancelled" => status[q] = "event_cancelled"
      BY <2>3, WaitlistJobRows
    <3> QED
      BY <3>1 DEF NotCancelled
  <2>4. CASE SweepHolds \/ RefundCancelledEvent \/ Organiser \/ Time
    BY <1>2, <2>4 DEF NotCancelled, SweepHolds, RefundCancelledEvent, Organiser, EditEvent,
         EditTier, RemoveEvent, Time, LapseHold, LapseOffer, Tick, rowVars
  <2>5. CASE UNCHANGED vars
    BY <2>5 DEF NotCancelled, vars, rowVars
  <2> QED
    BY <2>1, <2>2, <2>3, <2>4, <2>5 DEF Next, Worker
<1> QED
  BY <1>1, <1>2

LEMMA StepAdmitsWithin ==
  ASSUME TypeOK, TypeOK', Backing, CountersMatchRows, CountersMatchRows', [Next]_vars
  PROVE  AdmitsWithin
<1>1. ASSUME NEW S
      PROVE  Heads(Live(S)) \in Nat /\ Heads(Live(S))' \in Nat
  <2>1. Live(S) \in SUBSET Regs /\ Live(S)' \in SUBSET Regs
    BY DEF Live
  <2> QED
    BY <2>1, HeadsType, Zenon DEF Heads
<1>2. CASE NotCancelled /\ NotCancelled'
  <2>1. CountsWithin
    BY <1>2, StepCountsWithin
  <2>2. /\ Heads(Live(Holding)) = Occupied /\ Heads(Live(Seated)) = confirmedCount
        /\ Heads(Live(Holding))' = Occupied' /\ Heads(Live(Seated))' = confirmedCount'
    BY <1>2, HeadsAreCounted
  <2> QED
    BY <2>1, <2>2 DEF AdmitsWithin, CountsWithin
<1>3. CASE NotCancelled /\ ~NotCancelled'
  <2>1. /\ Heads(Live(Holding))' <= Heads(Live(Holding))
        /\ Heads(Live(Seated))' <= Heads(Live(Seated))
    BY <1>3, CancellationEmpties DEF Holding, Seated
  <2>2. /\ Heads(Live(Holding)) \in Nat /\ Heads(Live(Seated)) \in Nat
        /\ Heads(Live(Holding))' \in Nat /\ Heads(Live(Seated))' \in Nat
    BY <1>1
  <2> QED
    BY <2>1, <2>2 DEF AdmitsWithin
<1>4. CASE ~NotCancelled
  <2>1. status' = status /\ party' = party
    BY <1>4, CancelledStands DEF Backing
  <2>2. /\ Heads(Live(Holding))' = Heads(Live(Holding))
        /\ Heads(Live(Seated))' = Heads(Live(Seated))
    BY <2>1 DEF Heads, Live
  <2>3. Heads(Live(Holding)) \in Nat /\ Heads(Live(Seated)) \in Nat
    BY <1>1
  <2> QED
    BY <2>2, <2>3 DEF AdmitsWithin
<1> QED
  BY <1>2, <1>3, <1>4

\* No transaction lets anybody in beyond the capacity of that moment, whatever
\* the capacity is lowered to, whoever holds, is offered or takes a seat.
THEOREM NeverOverfilled == Spec => NeverOverfill
<1>1. Init => TypeOK /\ Backing /\ CountersMatchRows
  BY InitTypeOK, InitBacking, InitCounters
<1>2. TypeOK /\ Backing /\ CountersMatchRows /\ [Next]_vars
        => (TypeOK /\ Backing /\ CountersMatchRows)'
  BY StepTypeOK, StepBacking, StepCounters
<1>3. TypeOK /\ Backing /\ CountersMatchRows /\ [Next]_vars
      /\ (TypeOK /\ Backing /\ CountersMatchRows)' => [AdmitsWithin]_vars
  BY StepAdmitsWithin
<1> QED
  BY <1>1, <1>2, <1>3, PTL DEF Spec, NeverOverfill


-----------------------------------------------------------------------------
(* Tiers *)

\* The statuses that count against a tier.
Taking == Seated \cup {"pending"}

\* A row as its status and its tier, so that the holders of a tier are counted
\* as the heads of one status are.
TierRows(st, ti) == [r \in Regs |-> <<st[r], ti[r]>>]

LEMMA TierHeads ==
  ASSUME NEW t
  PROVE  /\ Heads(TierHolders(t)) = RowHeads(TierRows(status, tier), party, Taking \X {t})
         /\ Heads(TierHolders(t))' = RowHeads(TierRows(status', tier'), party', Taking \X {t})
<1>1. TierHolders(t) = {r \in Regs : TierRows(status, tier)[r] \in Taking \X {t}}
  BY DEF TierHolders, Live, Taking, TierRows
<1>2. TierHolders(t)' = {r \in Regs : TierRows(status', tier')[r] \in Taking \X {t}}
  BY DEF TierHolders, Live, Taking, TierRows
<1> QED
  BY <1>1, <1>2, Zenon DEF Heads, RowHeads

\* What a step that touches row r alone does to the heads of a tier.
LEMMA TierMoved ==
  ASSUME TypeOK, TypeOK', NEW r \in Regs, NEW t,
         \A q \in Regs \ {r} : status'[q] = status[q] /\ tier'[q] = tier[q] /\ party'[q] = party[q]
  PROVE  /\ Heads(TierHolders(t)) \in Nat
         /\ r \in TierHolders(t) => party[r] <= Heads(TierHolders(t))
         /\ Heads(TierHolders(t))' = Heads(TierHolders(t))
              - (IF r \in TierHolders(t) THEN party[r] ELSE 0)
              + (IF r \in TierHolders(t)' THEN party'[r] ELSE 0)
<1> DEFINE s  == TierRows(status, tier)
           s2 == TierRows(status', tier')
           S  == Taking \X {t}
<1>1. party \in [Regs -> 1..MaxParty] /\ party' \in [Regs -> 1..MaxParty]
  BY DEF TypeOK
<1>2. OneMoved(s, s2, party, party', r)
  BY DEF OneMoved, TierRows
<1>3. /\ r \in TierHolders(t) <=> s[r] \in S
      /\ r \in TierHolders(t)' <=> s2[r] \in S
  BY DEF TierHolders, Live, Taking, TierRows
<1>4. /\ Heads(TierHolders(t)) = RowHeads(s, party, S)
      /\ Heads(TierHolders(t))' = RowHeads(s2, party', S)
  BY TierHeads
<1> HIDE DEF s, s2, S
<1>5. HeadsMoved(s, s2, party, party', r, S)
  BY <1>1, <1>2, MoveOne
<1> QED
  BY <1>3, <1>4, <1>5 DEF HeadsMoved

\* Rows that leave a tier, or none that enter it, add no heads to it.
LEMMA TierShrinks ==
  ASSUME party' = party, NEW t, TierHolders(t)' \in SUBSET TierHolders(t)
  PROVE  /\ Heads(TierHolders(t)) \in Nat /\ Heads(TierHolders(t))' \in Nat
         /\ Heads(TierHolders(t))' <= Heads(TierHolders(t))
<1> DEFINE old == TierHolders(t)
           new == TierHolders(t)'
<1>1. old \in SUBSET Regs /\ new \in SUBSET old /\ new \in SUBSET Regs
  BY DEF TierHolders, Live
<1>2. Heads(TierHolders(t)) = Cardinality(SeatsOf(old, party))
  BY DEF Heads
<1>3. Heads(TierHolders(t))' = Cardinality(SeatsOf(new, party))
  BY DEF Heads, SeatsOf
<1> HIDE DEF old, new
<1>4. SeatsOf(new, party) \in SUBSET SeatsOf(old, party)
  BY <1>1 DEF SeatsOf
<1>5. /\ IsFiniteSet(SeatsOf(old, party)) /\ Cardinality(SeatsOf(old, party)) \in Nat
      /\ Cardinality(SeatsOf(new, party)) \in Nat
  BY <1>1, HeadsType
<1>6. Cardinality(SeatsOf(new, party)) <= Cardinality(SeatsOf(old, party))
  BY <1>4, <1>5, FS_Subset
<1> QED
  BY <1>2, <1>3, <1>5, <1>6

\* One tier: no more holders than sold, no more sold than there is.
TierWithin(t) == Heads(TierHolders(t)) <= soldCount[t] /\ soldCount[t] <= quota[t]

LEMMA InitTiers == Init => TierNeverOversold
<1> SUFFICES ASSUME Init, NEW t \in Tiers
             PROVE  TierWithin(t)
  BY DEF TierNeverOversold, TierWithin
<1>1. TierHolders(t) = {}
  BY DEF Init, TierHolders, Live, Seated
<1>2. SeatsOf({}, party) = {}
  BY DEF SeatsOf
<1>3. Heads(TierHolders(t)) = 0
  BY <1>1, <1>2, FS_EmptySet, Zenon DEF Heads
<1> QED
  BY <1>3, RegistrationsAssumption DEF Init, TierWithin

LEMMA RegisterTiers ==
  ASSUME TypeOK, TypeOK', NEW t \in Tiers, TierWithin(t), NEW r \in Regs, Register(r)
  PROVE  TierWithin(t)'
<1>1. PICK n \in 1..MaxParty, u \in Tiers \cup {NoTier} :
        \/ RegisterConfirmed(r, n, u)
        \/ RegisterPending(r, n, u)
        \/ RegisterWaitlisted(r, n, u)
  BY DEF Register
<1>2. /\ \A q \in Regs \ {r} : status'[q] = status[q] /\ tier'[q] = tier[q] /\ party'[q] = party[q]
      /\ status[r] = "none" /\ party'[r] = n /\ tier'[r] = u /\ quota' = quota
      /\ TierAdmits(u, n)
  BY <1>1 DEF TypeOK, RegisterConfirmed, RegisterPending, RegisterWaitlisted, Enter
<1>3. \/ status'[r] \in {"confirmed", "pending"} /\ soldCount' = Sell(u, n)
      \/ status'[r] = "waitlisted" /\ soldCount' = soldCount
  BY <1>1 DEF TypeOK, RegisterConfirmed, RegisterPending, RegisterWaitlisted, Enter
<1>4. /\ r \notin TierHolders(t)
      /\ r \in TierHolders(t)' <=> status'[r] # "waitlisted" /\ u = t
  BY <1>2, <1>3 DEF TierHolders, Live, Seated
<1>5. n \in Nat /\ soldCount[t] \in Nat /\ quota[t] \in Nat
  BY RegistrationsAssumption DEF TypeOK
<1>6. /\ Heads(TierHolders(t)) \in Nat
      /\ Heads(TierHolders(t))' = Heads(TierHolders(t)) - 0
           + (IF r \in TierHolders(t)' THEN n ELSE 0)
  BY <1>2, <1>4, TierMoved
<1>7. \/ soldCount'[t] = soldCount[t] /\ (status'[r] = "waitlisted" \/ u # t)
      \/ soldCount'[t] = soldCount[t] + n /\ u = t /\ status'[r] # "waitlisted"
  BY <1>3 DEF Sell
<1>8. u = t => soldCount[t] + n <= quota[t]
  BY <1>2, RegistrationsAssumption DEF TierAdmits
<1> HIDE DEF TierHolders
<1> QED
  BY <1>2, <1>4, <1>5, <1>6, <1>7, <1>8 DEF TierWithin

LEMMA RowTiers ==
  ASSUME TypeOK, TypeOK', NEW t \in Tiers, TierWithin(t), NEW r \in Regs,
         \/ Approve(r) \/ Reject(r) \/ AcceptWaitlist(r)
         \/ CheckIn(r) \/ ReleaseLapsed(r) \/ Cancel(r)
  PROVE  TierWithin(t)'
<1>1. /\ \A q \in Regs \ {r} : status'[q] = status[q] /\ tier'[q] = tier[q] /\ party'[q] = party[q]
      /\ party' = party /\ tier' = tier /\ quota' = quota
  BY DEF TypeOK, Approve, Reject, AcceptWaitlist, CheckIn, ReleaseLapsed, Cancel, tierVars
<1>2. /\ Heads(TierHolders(t)) \in Nat
      /\ r \in TierHolders(t) => party[r] <= Heads(TierHolders(t))
      /\ Heads(TierHolders(t))' = Heads(TierHolders(t))
           - (IF r \in TierHolders(t) THEN party[r] ELSE 0)
           + (IF r \in TierHolders(t)' THEN party[r] ELSE 0)
  BY <1>1, TierMoved
<1>3. party[r] \in Nat /\ soldCount[t] \in Nat /\ quota[t] \in Nat
  BY RegistrationsAssumption DEF TypeOK
<1>4. /\ r \in TierHolders(t) <=> status[r] \in Taking /\ tier[r] = t
      /\ r \in TierHolders(t)' <=> status'[r] \in Taking /\ tier[r] = t
  BY <1>1 DEF TierHolders, Live, Taking
<1>5. \/ soldCount'[t] = soldCount[t] /\ (r \in TierHolders(t)' => r \in TierHolders(t))
      \/ /\ soldCount'[t] = IF tier[r] = t THEN Minus(soldCount[t], party[r]) ELSE soldCount[t]
         /\ status[r] \in Taking /\ status'[r] \notin Taking
      \/ /\ soldCount'[t] = IF tier[r] = t THEN soldCount[t] + party[r] ELSE soldCount[t]
         /\ tier[r] = t => soldCount[t] + party[r] <= quota[t]
         /\ status[r] \notin Taking /\ status'[r] \in Taking
  <2>1. CASE Approve(r) \/ CheckIn(r) \/ ReleaseLapsed(r)
    BY <1>4, <2>1 DEF TypeOK, Approve, CheckIn, ReleaseLapsed, tierVars, Taking, Seated
  <2>2. CASE Reject(r)
    BY <2>2 DEF TypeOK, Reject, Unsell, Taking, Seated
  <2>3. CASE AcceptWaitlist(r)
    BY <2>3, RegistrationsAssumption DEF TypeOK, AcceptWaitlist, Sell, Taking, Seated
  <2>4. CASE Cancel(r)
    <3>1. status'[r] = "cancelled" /\ status[r] \in Cancellable
      BY <2>4 DEF TypeOK, Cancel
    <3>2. CASE status[r] \in {"pending", "confirmed"}
      <4>1. soldCount' = Unsell(tier[r], party[r])
        BY <2>4, <3>2 DEF Cancel
      <4> QED
        BY <3>1, <3>2, <4>1 DEF Unsell, Taking, Seated
    <3>3. CASE status[r] \notin {"pending", "confirmed"}
      <4>1. soldCount' = soldCount
        BY <2>4, <3>3 DEF Cancel
      <4> QED
        BY <1>4, <3>1, <4>1 DEF Taking, Seated
    <3> QED
      BY <3>2, <3>3
  <2> QED
    BY <2>1, <2>2, <2>3, <2>4
<1> QED
  BY <1>1, <1>2, <1>3, <1>4, <1>5 DEF TierWithin, Minus

LEMMA OtherTiers ==
  ASSUME TypeOK, NEW t \in Tiers, TierWithin(t),
         \/ \E locked \in SUBSET Regs : WaitlistJob(locked)
         \/ SweepHolds \/ RefundCancelledEvent \/ Organiser \/ Time \/ UNCHANGED vars
  PROVE  TierWithin(t)'
<1>1. party' = party /\ tier' = tier
  BY DEF WaitlistJob, SweepHolds, RefundCancelledEvent, Organiser, EditEvent, EditTier,
         CancelEvent, RemoveEvent, Time, LapseHold, LapseOffer, Tick, vars, rowVars
<1>2. \A q \in Regs : status'[q] \in Taking => status'[q] = status[q]
  <2>1. CASE \E locked \in SUBSET Regs : WaitlistJob(locked)
    <3>1. PICK locked \in SUBSET Regs : WaitlistJob(locked)
      BY <2>1
    <3>2. PICK R \in SUBSET Regs :
           /\ \A q \in R : evStatus = "published" /\ status[q] \in {"waitlisted", "offered"}
           /\ \A q \in Regs \ R :
                \/ status'[q] = status[q] /\ promo'[q] = promo[q]
                \/ /\ status[q] = "offered" /\ status'[q] = "waitlisted"
                   /\ promo'[q] = "expired"
           /\ \A q \in R : status'[q] = "offered" /\ promo'[q] = "open"
      BY <3>1, WaitlistJobRows
    <3> QED
      BY <3>2 DEF Taking, Seated
  <2>2. CASE CancelEvent
    BY <2>2 DEF CancelEvent, Taking, Seated
  <2>3. CASE SweepHolds \/ RefundCancelledEvent \/ Time \/ UNCHANGED vars
    BY <2>3 DEF SweepHolds, RefundCancelledEvent, Time, LapseHold, LapseOffer, Tick, vars, rowVars
  <2>4. CASE Organiser /\ ~CancelEvent
    BY <2>4 DEF Organiser, EditEvent, EditTier, RemoveEvent, rowVars
  <2> QED
    BY <2>1, <2>2, <2>3, <2>4
<1>3. TierHolders(t)' \in SUBSET TierHolders(t)
  BY <1>1, <1>2 DEF TierHolders, Live, Taking
<1>4. /\ Heads(TierHolders(t)) \in Nat /\ Heads(TierHolders(t))' \in Nat
      /\ Heads(TierHolders(t))' <= Heads(TierHolders(t))
  BY <1>1, <1>3, TierShrinks
<1>5. soldCount' = soldCount
  BY DEF WaitlistJob, SweepHolds, RefundCancelledEvent, Organiser, EditEvent, EditTier,
         CancelEvent, RemoveEvent, Time, LapseHold, LapseOffer, Tick, vars, tierVars
<1>6. soldCount[t] <= quota'[t]
  <2>1. CASE \E u \in Tiers, q \in 1..MaxQuota, on \in BOOLEAN : EditTier(u, q, on)
    <3>1. PICK u \in Tiers, q \in 1..MaxQuota, on \in BOOLEAN : EditTier(u, q, on)
      BY <2>1
    <3>2. q >= soldCount[u] /\ quota' = [quota EXCEPT ![u] = q]
      BY <3>1 DEF EditTier
    <3> QED
      BY <3>2, RegistrationsAssumption DEF TypeOK, TierWithin
  <2>2. CASE quota' = quota
    BY <2>2 DEF TierWithin
  <2> QED
    BY <2>1, <2>2 DEF WaitlistJob, SweepHolds, RefundCancelledEvent, Organiser, EditEvent,
         CancelEvent, RemoveEvent, Time, LapseHold, LapseOffer, Tick, vars, tierVars
<1>7. soldCount[t] \in Nat
  BY DEF TypeOK
<1> QED
  BY <1>4, <1>5, <1>6, <1>7 DEF TierWithin

LEMMA StepTiers == TypeOK /\ TierNeverOversold /\ [Next]_vars => TierNeverOversold'
<1> SUFFICES ASSUME TypeOK, TierNeverOversold, [Next]_vars, NEW t \in Tiers
             PROVE  TierWithin(t)'
  BY DEF TierNeverOversold, TierWithin
<1>1. TypeOK' /\ TierWithin(t)
  BY StepTypeOK DEF TierNeverOversold, TierWithin
<1>2. ASSUME NEW r \in Regs, Register(r)
      PROVE  TierWithin(t)'
  BY <1>1, <1>2, RegisterTiers
<1>3. ASSUME NEW r \in Regs,
             \/ Approve(r) \/ Reject(r) \/ AcceptWaitlist(r)
             \/ CheckIn(r) \/ ReleaseLapsed(r) \/ Cancel(r)
      PROVE  TierWithin(t)'
  BY <1>1, <1>3, RowTiers
<1>4. CASE \/ \E locked \in SUBSET Regs : WaitlistJob(locked)
           \/ SweepHolds \/ RefundCancelledEvent \/ Organiser \/ Time \/ UNCHANGED vars
  BY <1>1, <1>4, OtherTiers
<1> QED
  BY <1>2, <1>3, <1>4 DEF Next, Worker

\* Whatever is edited, accepted, cancelled or lapses, a tier never has more
\* people than sold_count says, nor sells beyond its quota.
THEOREM TiersNeverOversold == Spec => []TierNeverOversold
<1>1. Init => TypeOK /\ TierNeverOversold
  BY InitTypeOK, InitTiers
<1>2. TypeOK /\ TierNeverOversold /\ [Next]_vars => (TypeOK /\ TierNeverOversold)'
  BY StepTypeOK, StepTiers
<1>3. Spec => [](TypeOK /\ TierNeverOversold)
  BY <1>1, <1>2, PTL DEF Spec
<1> QED
  BY <1>3, PTL

-----------------------------------------------------------------------------
(* The order of offers *)

\* What OffersInOrder asks of a step.
InOrder ==
  \A r, q \in Regs :
    /\ status[r] = "waitlisted" /\ status'[r] = "offered"
    /\ WaitlistJob({})
    /\ status[q] = "waitlisted" /\ party[q] <= party[r]
    => joined[r] <= joined[q]

\* Whoever is newly offered a seat is first among those who fit, and everyone
\* who waits with no larger a party fits too.
LEMMA StepInOrder ==
  ASSUME TypeOK
  PROVE  InOrder
<1> SUFFICES ASSUME NEW r \in Regs, NEW q \in Regs,
                    status[r] = "waitlisted", status'[r] = "offered", WaitlistJob({}),
                    status[q] = "waitlisted", party[q] <= party[r]
             PROVE  joined[r] <= joined[q]
  BY DEF InOrder
<1> DEFINE due      == DueOffers \ {}
           offered1 == Minus(offeredCount, Heads(due))
           status1  == [x \in Regs |-> IF x \in due THEN "waitlisted" ELSE status[x]]
           fits     == Promotable({}, status1, offered1)
<1>1. status1[r] = "waitlisted" /\ status1[q] = "waitlisted" /\ status1 \in [Regs -> Statuses]
  BY DEF DueOffers, TypeOK, Statuses
<1>2. \/ status' = status1
      \/ \E x \in First(fits) : status' = [status1 EXCEPT ![x] = "offered"]
  BY DEF WaitlistJob
<1>3. r \in First(fits)
  BY <1>1, <1>2
<1>4. r \in fits
  BY <1>3 DEF First
<1>5. q \in fits
  <2>1. due \in SUBSET Regs
    BY DEF DueOffers
  <2>2. Heads(due) \in Nat
    BY <2>1, HeadsType, Zenon DEF Heads
  <2>3. /\ offered1 \in Nat /\ confirmedCount \in Nat /\ pendingCount \in Nat
        /\ capacity \in Nat /\ party[q] \in Nat /\ party[r] \in Nat
    BY <2>2, RegistrationsAssumption DEF TypeOK, Minus
  <2> HIDE DEF offered1
  <2> QED
    BY <1>1, <1>4, <2>3 DEF Promotable
<1> QED
  BY <1>3, <1>5 DEF First

\* Nobody jumps the queue: a seat is offered to whoever has waited longest among
\* the parties that are no larger.
THEOREM OffersAreInOrder == Spec => OffersInOrder
<1>1. TypeOK /\ [Next]_vars => [InOrder]_vars
  BY StepInOrder
<1> QED
  BY <1>1, TypeCorrect, PTL DEF Spec, OffersInOrder, InOrder

-----------------------------------------------------------------------------
(* Seats are allocated *)

\* The invariants of Registrations_proofs that the refinement rests on.
Exact == TypeOK /\ Backing /\ CountersMatchRows

\* An admission of SeatAllocation, in the words of Registrations.
LEMMA Admitted ==
  ASSUME NEW r \in Regs, NEW gone \in SUBSET Live(Holding),
         Live(Holding)' = (Live(Holding) \ gone) \cup {r},
         \E n \in 1..MaxParty : /\ r \in Live(Holding) => n = party[r]
                                /\ party' = [party EXCEPT ![r] = n],
         Heads(Live(Holding))' <= capacity, capacity' = capacity
  PROVE  Seats!Admit(r)
<1>1. Seats!SeatsTaken(Live(Holding)', party') = Heads(Live(Holding))'
  BY Zenon DEF Seats!SeatsTaken, Seats!Cardinality, Cardinality, Heads, SeatsOf
<1> QED
  BY <1>1 DEF Seats!Admit

\* A step that leaves sizes and capacity alone and admits nobody.
LEMMA Left ==
  ASSUME Live(Holding)' \in SUBSET Live(Holding), party' = party, capacity' = capacity
  PROVE  Seats!Next
BY DEF Seats!Next, Seats!Leave

LEMMA RegisterAllocates ==
  ASSUME Exact, Exact', NEW r \in Regs, Register(r)
  PROVE  Seats!Next
<1>1. PICK n \in 1..MaxParty, t \in Tiers \cup {NoTier} :
        \/ RegisterConfirmed(r, n, t)
        \/ RegisterPending(r, n, t)
        \/ RegisterWaitlisted(r, n, t)
  BY DEF Register
<1>2. /\ evStatus = "published" /\ status[r] = "none"
      /\ party' = [party EXCEPT ![r] = n] /\ capacity' = capacity
  BY <1>1 DEF RegisterConfirmed, RegisterPending, RegisterWaitlisted, Enter,
              RegistrationOpen, eventVars
<1>3. r \notin Live(Holding)
  BY <1>2 DEF Live, Holding, Seated
<1>4. CASE RegisterWaitlisted(r, n, t)
  <2>1. status' = [status EXCEPT ![r] = "waitlisted"]
    BY <1>4 DEF RegisterWaitlisted, Enter
  <2>2. Live(Holding)' = Live(Holding)
    BY <1>2, <2>1 DEF Exact, TypeOK, Live, Holding, Seated
  <2> QED
    BY <1>2, <1>3, <2>2 DEF Seats!Next, Seats!Ask
<1>5. CASE RegisterConfirmed(r, n, t) \/ RegisterPending(r, n, t)
  <2>1. \E st \in {"confirmed", "pending"} : status' = [status EXCEPT ![r] = st]
    BY <1>5 DEF RegisterConfirmed, RegisterPending, Enter
  <2>2. Live(Holding)' = (Live(Holding) \ {}) \cup {r}
    BY <1>2, <2>1 DEF Exact, TypeOK, Live, Holding, Seated
  <2>3. NotCancelled
    BY <1>2 DEF Exact, Backing, CancellationIsFinal
  <2>4. NotCancelled'
    BY <2>1, <2>3 DEF NotCancelled, Exact, TypeOK
  <2>5. Heads(Live(Holding))' = Occupied'
    BY <2>4, HeadsAreCounted DEF Exact
  <2>6. Occupied' = Occupied + n
    <3>1. /\ n \in Nat /\ confirmedCount \in Nat
          /\ pendingCount \in Nat /\ offeredCount \in Nat
      BY RegistrationsAssumption DEF Exact, TypeOK
    <3>2. CASE RegisterConfirmed(r, n, t)
      <4>1. /\ confirmedCount' = confirmedCount + n
            /\ pendingCount' = pendingCount /\ offeredCount' = offeredCount
        BY <3>2 DEF RegisterConfirmed, Enter
      <4> QED
        BY <3>1, <4>1 DEF Occupied
    <3>3. CASE RegisterPending(r, n, t)
      <4>1. /\ pendingCount' = pendingCount + n
            /\ confirmedCount' = confirmedCount /\ offeredCount' = offeredCount
        BY <3>3 DEF RegisterPending, Enter
      <4> QED
        BY <3>1, <4>1 DEF Occupied
    <3> QED
      BY <1>5, <3>2, <3>3
  <2>7. Occupied + n <= capacity
    BY <1>5 DEF RegisterConfirmed, RegisterPending
  <2>8. Heads(Live(Holding))' <= capacity
    BY <2>5, <2>6, <2>7
  <2>9. /\ r \in Live(Holding) => n = party[r]
        /\ party' = [party EXCEPT ![r] = n] /\ capacity' = capacity
        /\ {} \in SUBSET Live(Holding)
    BY <1>2, <1>3
  <2>10. Seats!Admit(r)
    BY <2>2, <2>8, <2>9, Admitted, Zenon
  <2> QED
    BY <2>10 DEF Seats!Next
<1> QED
  BY <1>1, <1>4, <1>5

LEMMA RowAllocates ==
  ASSUME Exact, NEW r \in Regs,
         \/ Approve(r) \/ Reject(r) \/ AcceptWaitlist(r)
         \/ CheckIn(r) \/ ReleaseLapsed(r) \/ Cancel(r)
  PROVE  Seats!Next
<1>1. party' = party /\ capacity' = capacity
  BY DEF Approve, Reject, AcceptWaitlist, CheckIn, ReleaseLapsed, Cancel, eventVars
<1>2. \E st \in Statuses : /\ status' = [status EXCEPT ![r] = st]
                           /\ st \in Holding => status[r] \in Holding
  BY DEF Approve, Reject, AcceptWaitlist, CheckIn, ReleaseLapsed, Cancel, Statuses,
         Holding, Seated
<1>3. Live(Holding)' \in SUBSET Live(Holding)
  BY <1>2 DEF Exact, TypeOK, Live
<1> QED
  BY <1>1, <1>3, Left

LEMMA WaitlistJobAllocates ==
  ASSUME Exact, Exact', NEW locked \in SUBSET Regs, WaitlistJob(locked)
  PROVE  Seats!Next
<1> DEFINE due      == DueOffers \ locked
           offered1 == Minus(offeredCount, Heads(due))
           status1  == [q \in Regs |-> IF q \in due THEN "waitlisted" ELSE status[q]]
<1>1. party' = party /\ capacity' = capacity /\ confirmedCount' = confirmedCount
      /\ pendingCount' = pendingCount
  BY DEF WaitlistJob, eventVars
<1>2. \/ status' = status1
      \/ \E r \in Regs : /\ evStatus = "published" /\ status1[r] = "waitlisted"
                         /\ confirmedCount + pendingCount + offered1 + party[r] <= capacity
                         /\ status' = [status1 EXCEPT ![r] = "offered"]
                         /\ offeredCount' = offered1 + party[r]
  BY DEF WaitlistJob, First, Promotable
<1>3. /\ status1 \in [Regs -> Statuses]
      /\ due \in SUBSET Live(Holding)
      /\ \A q \in Regs : status1[q] \in Holding <=> q \in Live(Holding) \ due
  BY DEF Exact, TypeOK, Statuses, DueOffers, Live, Holding, Seated
<1> HIDE DEF due, status1
<1>4. CASE status' = status1
  <2>1. Live(Holding)' \in SUBSET Live(Holding)
    BY <1>3, <1>4 DEF Live
  <2> QED
    BY <1>1, <2>1, Left
<1>5. ASSUME NEW r \in Regs, evStatus = "published", status1[r] = "waitlisted",
             confirmedCount + pendingCount + offered1 + party[r] <= capacity,
             status' = [status1 EXCEPT ![r] = "offered"],
             offeredCount' = offered1 + party[r]
      PROVE  Seats!Next
  <2>1. Live(Holding)' = (Live(Holding) \ due) \cup {r}
    BY <1>3, <1>5 DEF Live, Holding, Seated
  <2>2. party[r] \in 1..MaxParty /\ party' = [party EXCEPT ![r] = party[r]]
    BY <1>1 DEF Exact, TypeOK
  <2>3. NotCancelled
    BY <1>5 DEF Exact, Backing, CancellationIsFinal
  <2>4. NotCancelled'
    <3>1. \A q \in Regs : status1[q] # "event_cancelled"
      BY <2>3 DEF NotCancelled, status1
    <3> QED
      BY <1>3, <1>5, <3>1 DEF NotCancelled
  <2>5. Heads(Live(Holding))' = Occupied'
    BY <2>4, HeadsAreCounted DEF Exact
  <2>6. /\ party[r] \in Nat /\ confirmedCount \in Nat /\ pendingCount \in Nat
        /\ offered1 \in Nat /\ capacity \in Nat
    <3>1. due \in SUBSET Regs
      BY DEF due, DueOffers
    <3>2. Heads(due) \in Nat
      BY <3>1, HeadsType, Zenon DEF Heads
    <3> QED
      BY <2>2, <3>2, RegistrationsAssumption DEF Exact, TypeOK, Minus
  <2> HIDE DEF offered1
  <2>7. Occupied' <= capacity
    BY <1>1, <1>5, <2>6 DEF Occupied
  <2>8. Seats!Admit(r)
    BY <1>1, <1>3, <2>1, <2>2, <2>5, <2>7, Admitted
  <2> QED
    BY <2>8 DEF Seats!Next
<1> QED
  BY <1>2, <1>4, <1>5

LEMMA OtherAllocates ==
  ASSUME Exact, Exact', SweepHolds \/ RefundCancelledEvent \/ Organiser \/ Time \/ UNCHANGED vars
  PROVE  Seats!Next
<1>1. party' = party
  BY DEF SweepHolds, RefundCancelledEvent, Organiser, EditEvent, EditTier,
         CancelEvent, RemoveEvent, Time, LapseHold, LapseOffer, Tick, vars, rowVars
<1>2. CASE CancelEvent
  <2>1. Live(Holding)' \in SUBSET Live(Holding) /\ capacity' = capacity
    BY <1>2 DEF CancelEvent, Live, Holding, Seated
  <2> QED
    BY <1>1, <2>1, Left
<1>3. CASE ~CancelEvent
  <2>1. status' = status
    BY <1>3 DEF SweepHolds, RefundCancelledEvent, Organiser, EditEvent, EditTier,
         RemoveEvent, Time, LapseHold, LapseOffer, Tick, vars, rowVars
  <2>2. Live(Holding)' = Live(Holding)
    BY <2>1 DEF Live
  <2>3. capacity' \in 1..MaxCapacity
    BY DEF Exact, TypeOK
  <2> QED
    BY <1>1, <2>2, <2>3 DEF Seats!Next, Seats!SetCapacity
<1> QED
  BY <1>2, <1>3

LEMMA StepAllocates == Exact /\ Exact' /\ [Next]_vars => [Seats!Next]_Seats!vars
<1> SUFFICES ASSUME Exact, Exact', [Next]_vars
             PROVE  Seats!Next
  OBVIOUS
<1>1. ASSUME NEW r \in Regs, Register(r)
      PROVE  Seats!Next
  BY <1>1, RegisterAllocates
<1>2. ASSUME NEW r \in Regs,
             \/ Approve(r) \/ Reject(r) \/ AcceptWaitlist(r)
             \/ CheckIn(r) \/ ReleaseLapsed(r) \/ Cancel(r)
      PROVE  Seats!Next
  BY <1>2, RowAllocates
<1>3. ASSUME NEW locked \in SUBSET Regs, WaitlistJob(locked)
      PROVE  Seats!Next
  BY <1>3, WaitlistJobAllocates
<1>4. CASE SweepHolds \/ RefundCancelledEvent \/ Organiser \/ Time \/ UNCHANGED vars
  BY <1>4, OtherAllocates
<1> QED
  BY <1>1, <1>2, <1>3, <1>4 DEF Next, Worker

LEMMA InitAllocates == Init => Seats!Init
<1> SUFFICES ASSUME Init
             PROVE  Seats!Init
  OBVIOUS
<1>1. Live(Holding) = {}
  BY DEF Init, Live, Holding, Seated
<1> QED
  BY <1>1, RegistrationsAssumption DEF Init, Seats!Init

\* Registrants, hosts, the organiser and the jobs together allocate seats as
\* SeatAllocation says: every transaction admits at most one registration, and
\* only when everyone who then holds a seat fits.
THEOREM SeatsAreAllocated == Spec => AllocatesSeats
<1>1. Init => Exact
  BY InitTypeOK, InitBacking, InitCounters DEF Exact
<1>2. Exact /\ [Next]_vars => Exact'
  BY StepTypeOK, StepBacking, StepCounters DEF Exact
<1> QED
  BY <1>1, <1>2, InitAllocates, StepAllocates, PTL DEF Spec, AllocatesSeats, Seats!Spec

-----------------------------------------------------------------------------
(* The pages of the web on which a member finds, opens and follows events *)

-----------------------------------------------------------------------------
(* Sets in order *)

\* What comes before what, of a finite set: below[e] are the elements before e.
Ordering(S, below) ==
  /\ IsFiniteSet(S) /\ below \in [S -> SUBSET S]
  /\ \A a \in S : a \notin below[a]
  /\ \A a, b \in S : a \in below[b] => below[a] \subseteq below[b]
  /\ \A a, b \in S : a = b \/ a \in below[b] \/ b \in below[a]

\* How many come before an element grows along the order, and takes every number up to the size.
LEMMA Ranked ==
  ASSUME NEW S, NEW below, Ordering(S, below)
  PROVE  /\ \A a, b \in S : a \in below[b] <=> Cardinality(below[a]) < Cardinality(below[b])
         /\ \A a, b \in S : Cardinality(below[a]) = Cardinality(below[b]) => a = b
         /\ \A n \in 0 .. Cardinality(S) - 1 : \E e \in S : Cardinality(below[e]) = n
         /\ \A e \in S : Cardinality(below[e]) \in 0 .. Cardinality(S) - 1
         /\ Cardinality(S) \in Nat
<1>1. Cardinality(S) \in Nat
  BY FS_CardinalityType DEF Ordering
<1>2. ASSUME NEW e \in S
      PROVE  /\ IsFiniteSet(below[e]) /\ Cardinality(below[e]) \in 0 .. Cardinality(S) - 1
  <2>1. /\ below[e] \in SUBSET (S \ {e}) /\ IsFiniteSet(S \ {e})
        /\ Cardinality(S \ {e}) = Cardinality(S) - 1
    BY FS_RemoveElement DEF Ordering
  <2>2. IsFiniteSet(below[e]) /\ Cardinality(below[e]) <= Cardinality(S \ {e})
    BY <2>1, FS_Subset
  <2>3. Cardinality(below[e]) \in Nat
    BY <2>2, FS_CardinalityType
  <2> QED
    BY <1>1, <2>1, <2>2, <2>3
<1>3. ASSUME NEW a \in S, NEW b \in S, a \in below[b]
      PROVE  Cardinality(below[a]) < Cardinality(below[b])
  <2>1. below[a] \in SUBSET below[b] /\ below[a] # below[b]
    BY <1>3 DEF Ordering
  <2>2. Cardinality(below[a]) <= Cardinality(below[b]) /\ Cardinality(below[a]) # Cardinality(below[b])
    BY <1>2, <2>1, FS_Subset
  <2> QED
    BY <1>2, <2>2
<1>4. \A a, b \in S : a \in below[b] <=> Cardinality(below[a]) < Cardinality(below[b])
  <2> SUFFICES ASSUME NEW a \in S, NEW b \in S, Cardinality(below[a]) < Cardinality(below[b]), a \notin below[b]
               PROVE  FALSE
    BY <1>3
  <2>1. a # b /\ b \in below[a]
    BY <1>2 DEF Ordering
  <2> QED
    BY <1>2, <1>3, <2>1
<1>5. \A a, b \in S : Cardinality(below[a]) = Cardinality(below[b]) => a = b
  <2> SUFFICES ASSUME NEW a \in S, NEW b \in S, Cardinality(below[a]) = Cardinality(below[b]), a # b
               PROVE  FALSE
    OBVIOUS
  <2>1. a \in below[b] \/ b \in below[a]
    BY DEF Ordering
  <2> QED
    BY <1>2, <1>3, <2>1
<1> DEFINE f == [e \in S |-> Cardinality(below[e])]
           T == 0 .. Cardinality(S) - 1
<1>6. f \in Injection(S, T)
  BY <1>2, <1>5 DEF Injection, IsInjective
<1>7. IsFiniteSet(T) /\ Cardinality(T) = Cardinality(S)
  BY SMTT(30), <1>1, FS_Interval
<1>8. f \in Surjection(S, T)
  BY <1>6, <1>7, FS_Injection
<1>9. \A n \in T : \E e \in S : Cardinality(below[e]) = n
  BY <1>8 DEF Surjection
<1> QED
  BY <1>1, <1>2, <1>4, <1>5, <1>9

\* A sequence that lists a set: every element, once.
Lists(s, S) ==
  /\ Len(s) \in Nat /\ s \in [1 .. Len(s) -> S]
  /\ \A i, j \in 1 .. Len(s) : s[i] = s[j] => i = j
  /\ \A e \in S : \E i \in 1 .. Len(s) : s[i] = e

\* Of a set in order, an element stands at the place that those before it leave.
Placed(s, S, below) ==
  /\ Len(s) = Cardinality(S)
  /\ s = [k \in 1 .. Cardinality(S) |-> s[k]]
  /\ \A k \in 1 .. Cardinality(S) :
       (\E e \in S : Cardinality(below[e]) = k - 1) => s[k] \in S /\ Cardinality(below[s[k]]) = k - 1

LEMMA InPlace ==
  ASSUME NEW S, NEW below, Ordering(S, below), NEW s, Placed(s, S, below)
  PROVE  /\ Lists(s, S) /\ Len(s) = Cardinality(S)
         /\ \A i, j \in 1 .. Len(s) : i < j <=> s[i] \in below[s[j]]
         /\ \A i \in 1 .. Len(s) : Cardinality(below[s[i]]) = i - 1
<1>1. Cardinality(S) \in Nat /\ Len(s) = Cardinality(S)
  BY Ranked DEF Placed
<1>2. ASSUME NEW k \in 1 .. Cardinality(S)
      PROVE  s[k] \in S /\ Cardinality(below[s[k]]) = k - 1
  <2>1. k - 1 \in 0 .. Cardinality(S) - 1
    BY <1>1
  <2>2. \E e \in S : Cardinality(below[e]) = k - 1
    BY <2>1, Ranked
  <2> QED
    BY <2>2 DEF Placed
<1>3. s \in [1 .. Cardinality(S) -> S]
  BY <1>2 DEF Placed
<1>4. \A i, j \in 1 .. Cardinality(S) : s[i] = s[j] => i = j
  BY <1>2
<1>5. ASSUME NEW e \in S
      PROVE  \E i \in 1 .. Cardinality(S) : s[i] = e
  <2>1. Cardinality(below[e]) \in 0 .. Cardinality(S) - 1
    BY Ranked
  <2> DEFINE i == Cardinality(below[e]) + 1
  <2>2. i \in 1 .. Cardinality(S) /\ i - 1 = Cardinality(below[e])
    BY <1>1, <2>1
  <2>3. s[i] \in S /\ Cardinality(below[s[i]]) = Cardinality(below[e])
    BY <1>2, <2>2
  <2>4. s[i] = e
    BY <2>3, Ranked
  <2> QED
    BY <2>2, <2>4
<1>6. \A i, j \in 1 .. Cardinality(S) : i < j <=> s[i] \in below[s[j]]
  <2> SUFFICES ASSUME NEW i \in 1 .. Cardinality(S), NEW j \in 1 .. Cardinality(S)
               PROVE  i < j <=> s[i] \in below[s[j]]
    OBVIOUS
  <2>1. s[i] \in below[s[j]] <=> Cardinality(below[s[i]]) < Cardinality(below[s[j]])
    BY <1>2, Ranked
  <2> QED
    BY <1>2, <2>1
<1> QED
  BY <1>1, <1>2, <1>3, <1>4, <1>5, <1>6 DEF Lists

LEMMA SameCount == ASSUME NEW S PROVE Finding!Cardinality(S) = Cardinality(S)
BY DEF Cardinality, Finding!Cardinality


\* A list by the numbers of how many come before.
LEMMA ByPlace ==
  ASSUME NEW S, NEW below, Ordering(S, below), NEW s, DOMAIN s = 1 .. Cardinality(S),
         s = [k \in DOMAIN s |-> s[k]],
         \A k \in 1 .. Cardinality(S) :
           (\E e \in S : Cardinality(below[e]) = k - 1) => s[k] \in S /\ Cardinality(below[s[k]]) = k - 1
  PROVE  /\ Lists(s, S) /\ Len(s) = Cardinality(S)
         /\ \A i, j \in 1 .. Len(s) : i < j <=> s[i] \in below[s[j]]
         /\ \A i \in 1 .. Len(s) : Cardinality(below[s[i]]) = i - 1
<1>1. Cardinality(S) \in Nat
  BY Ranked
<1>2. \A k \in 1 .. Cardinality(S) : s[k] \in S
  <2> TAKE k \in 1 .. Cardinality(S)
  <2>1. k - 1 \in 0 .. Cardinality(S) - 1
    BY <1>1
  <2> QED
    BY <2>1, Ranked
<1>3. s \in [1 .. Cardinality(S) -> S]
  BY <1>2
<1>4. s \in Seq(S)
  BY <1>1, <1>3, SeqDef
<1>5. Len(s) = Cardinality(S)
  BY <1>1, <1>3, <1>4, LenProperties
<1>6. Placed(s, S, below)
  BY <1>5 DEF Placed
<1> QED
  BY <1>6, InPlace

LEMMA ListsOfSeq ==
  ASSUME NEW s, NEW S, Lists(s, S)
  PROVE  s \in Seq(S) /\ Len(s) \in Nat /\ DOMAIN s = 1 .. Len(s) /\ S = {s[i] : i \in 1 .. Len(s)}
<1>1. s \in Seq(S)
  BY SeqDef DEF Lists
<1> QED
  BY <1>1 DEF Lists

\* Two lists, one after the other.
LEMMA Both ==
  ASSUME NEW s, NEW S, NEW t, NEW T, Lists(s, S), Lists(t, T), S \cap T = {}
  PROVE  Lists(s \o t, S \cup T) /\ Len(s \o t) = Len(s) + Len(t)
<1>1. s \in Seq(S \cup T) /\ t \in Seq(S \cup T) /\ Len(s) \in Nat /\ Len(t) \in Nat
  BY ListsOfSeq, SeqMonotonic
<1> DEFINE u == s \o t
<1>2. /\ u \in Seq(S \cup T) /\ Len(u) = Len(s) + Len(t)
      /\ \A i \in 1 .. Len(s) + Len(t) : u[i] = IF i <= Len(s) THEN s[i] ELSE t[i - Len(s)]
  BY <1>1, ConcatProperties
<1> HIDE DEF u
<1>3. \A i \in 1 .. Len(s) : u[i] = s[i] /\ u[i] \in S
  BY SMTT(30), <1>1, <1>2 DEF Lists
<1>4. \A i \in 1 .. Len(t) : u[Len(s) + i] = t[i] /\ u[Len(s) + i] \in T /\ Len(s) + i \in 1 .. Len(u)
  <2> TAKE i \in 1 .. Len(t)
  <2> DEFINE k == Len(s) + i
  <2>1. k \in 1 .. Len(s) + Len(t) /\ ~(k <= Len(s)) /\ k - Len(s) = i
    BY <1>1
  <2>2. u[k] = t[i] /\ t[i] \in T
    BY <1>2, <2>1 DEF Lists
  <2> QED
    BY <1>2, <2>1, <2>2
<1>5. \A i \in 1 .. Len(u) : i \in 1 .. Len(s) \/ (i - Len(s) \in 1 .. Len(t) /\ u[i] = t[i - Len(s)] /\ u[i] \in T)
  <2> TAKE i \in 1 .. Len(u)
  <2> DEFINE k == i - Len(s)
  <2>3. i \in 1 .. Len(s) + Len(t)
    BY <1>2
  <2>1. i \in 1 .. Len(s) + Len(t) /\ (i \in 1 .. Len(s) \/ (~(i <= Len(s)) /\ k \in 1 .. Len(t)))
    BY <1>1, <2>3
  <2>2. CASE ~(i <= Len(s)) /\ k \in 1 .. Len(t)
    <3>1. u[i] = t[k] /\ t[k] \in T
      BY <1>2, <2>1, <2>2 DEF Lists
    <3> QED
      BY <2>2, <3>1
  <2> QED
    BY <2>1, <2>2
<1>6. u \in [1 .. Len(u) -> S \cup T] /\ Len(u) \in Nat
  BY <1>2, LenProperties
<1>7. ASSUME NEW i \in 1 .. Len(u), NEW j \in 1 .. Len(u), u[i] = u[j]
      PROVE  i = j
  <2>1. CASE i \in 1 .. Len(s) /\ j \in 1 .. Len(s)
    BY <1>3, <1>7, <2>1 DEF Lists
  <2>2. CASE i \notin 1 .. Len(s) /\ j \notin 1 .. Len(s)
    <3>1. t[i - Len(s)] = t[j - Len(s)] /\ i - Len(s) \in 1 .. Len(t) /\ j - Len(s) \in 1 .. Len(t)
      BY <1>5, <1>7, <2>2
    <3>2. i - Len(s) = j - Len(s)
      BY <3>1 DEF Lists
    <3> QED
      BY <1>1, <1>6, <3>2
  <2> QED
    BY <1>3, <1>5, <1>7, <2>1, <2>2
<1>8. \A e \in S \cup T : \E i \in 1 .. Len(u) : u[i] = e
  <2> TAKE e \in S \cup T
  <2>1. CASE e \in S
    BY <1>1, <1>2, <1>3, <2>1 DEF Lists
  <2>2. CASE e \in T
    BY <1>4, <2>2 DEF Lists
  <2> QED
    BY <2>1, <2>2
<1>9. Lists(u, S \cup T)
  BY <1>6, <1>7, <1>8 DEF Lists
<1> QED
  BY <1>2, <1>9 DEF u

\* The entries at the first places, and those at the others.
Cut(s, m, n) == {s[i] : i \in m .. n}

LEMMA Part ==
  ASSUME NEW s, NEW S, Lists(s, S), NEW m \in 1 .. Len(s) + 1, NEW n \in m - 1 .. Len(s)
  PROVE  /\ Lists(SubSeq(s, m, n), Cut(s, m, n)) /\ Len(SubSeq(s, m, n)) = n - m + 1
         /\ \A i \in 1 .. n - m + 1 : SubSeq(s, m, n)[i] = s[m + i - 1]
         /\ Cut(s, m, n) \subseteq S
<1> DEFINE u == SubSeq(s, m, n)
<1>0. Len(s) \in Nat /\ s \in [1 .. Len(s) -> S]
  BY DEF Lists
<1>1. m \in Int /\ n \in Int /\ (m <= n => n - m + 1 \in Nat) /\ (~(m <= n) => n - m + 1 = 0)
  BY <1>0
<1>2. \A i \in m .. n : s[i] \in Cut(s, m, n) /\ i \in 1 .. Len(s)
  BY <1>0 DEF Cut
<1>3. /\ u \in Seq(Cut(s, m, n)) /\ Len(u) = n - m + 1
      /\ \A i \in 1 .. n - m + 1 : u[i] = s[m + i - 1]
  BY <1>0, <1>1, <1>2, SubSeqProperties
<1> HIDE DEF u
<1>4. u \in [1 .. Len(u) -> Cut(s, m, n)] /\ Len(u) \in Nat
  BY <1>3, LenProperties
<1>5. \A i \in 1 .. Len(u) : m + i - 1 \in m .. n
  BY <1>0, <1>3, <1>4
<1>6. \A i, j \in 1 .. Len(u) : u[i] = u[j] => i = j
  <2> TAKE i, j \in 1 .. Len(u)
  <2> HAVE u[i] = u[j]
  <2> DEFINE k == m + i - 1
             l == m + j - 1
  <2>2. k \in 1 .. Len(s) /\ l \in 1 .. Len(s)
    BY <1>2, <1>5
  <2>3. u[i] = s[k] /\ u[j] = s[l]
    BY <1>3
  <2>4. s[k] = s[l]
    BY <2>3
  <2> HIDE DEF k, l
  <2>5. k = l
    BY <2>2, <2>4 DEF Lists
  <2>1. m + i - 1 = m + j - 1
    BY <2>5 DEF k, l
  <2> QED
    BY <1>0, <1>4, <2>1
<1>7. \A e \in Cut(s, m, n) : \E i \in 1 .. Len(u) : u[i] = e
  <2> SUFFICES ASSUME NEW k \in m .. n PROVE \E i \in 1 .. Len(u) : u[i] = s[k]
    BY DEF Cut
  <2>1. k - m + 1 \in 1 .. Len(u) /\ m + (k - m + 1) - 1 = k
    BY <1>0, <1>3
  <2> QED
    BY <1>3, <2>1
<1>8. Cut(s, m, n) \subseteq S
  BY <1>0, <1>2 DEF Cut
<1>9. Lists(u, Cut(s, m, n))
  BY <1>4, <1>6, <1>7 DEF Lists
<1> QED
  BY <1>3, <1>8, <1>9 DEF u

\* A list cut in two.
LEMMA Halves ==
  ASSUME NEW s, NEW S, Lists(s, S), NEW n \in 0 .. Len(s)
  PROVE  S = Cut(s, 1, n) \cup Cut(s, n + 1, Len(s)) /\ Cut(s, 1, n) \cap Cut(s, n + 1, Len(s)) = {}
BY DEF Lists, Cut

LEMMA NumbersOrdered ==
  ASSUME NEW places \in SUBSET Nat, IsFiniteSet(places)
  PROVE  /\ Ordering(places, [e \in places |-> {d \in places : d < e}])
         /\ Cardinality(places) \in Nat
<1>1. IsFiniteSet(places)
  OBVIOUS
<1>2. Cardinality(places) \in Nat
  BY <1>1, FS_CardinalityType
<1> DEFINE below == [e \in places |-> {d \in places : d < e}]
<1>3. \A a, b \in places : a \in below[b] <=> a < b
  OBVIOUS
<1>4. below \in [places -> SUBSET places] /\ places \subseteq Int
  OBVIOUS
<1>5. ASSUME NEW a \in places, NEW b \in places, a \in below[b]
      PROVE  below[a] \subseteq below[b]
  <2> SUFFICES ASSUME NEW d \in below[a] PROVE d \in below[b]
    OBVIOUS
  <2>1. d \in places /\ d < a /\ a < b /\ d \in Int /\ a \in Int /\ b \in Int
    BY <1>3, <1>4, <1>5
  <2> QED
    BY <2>1
<1> HIDE DEF below
<1>6. Ordering(places, below)
  BY <1>1, <1>3, <1>4, <1>5 DEF Ordering
<1> QED
  BY <1>1, <1>2, <1>6 DEF below

InNumber(S) ==
  [k \in 1 .. Finding!Cardinality(S) |-> CHOOSE e \in S : Finding!Cardinality({d \in S : d < e}) = k - 1]

\* Numbers in order.
LEMMA NumbersListed ==
  ASSUME NEW S \in SUBSET Nat, IsFiniteSet(S)
  PROVE  /\ Lists(InNumber(S), S) /\ Len(InNumber(S)) = Cardinality(S) /\ Cardinality(S) \in Nat
         /\ \A i \in 1 .. Len(InNumber(S)) : Cardinality({d \in S : d < InNumber(S)[i]}) = i - 1
<1> DEFINE below == [e \in S |-> {d \in S : d < e}]
           at(k) == CHOOSE e \in S : Finding!Cardinality({d \in S : d < e}) = k - 1
           o == InNumber(S)
<1>1. Ordering(S, below) /\ Cardinality(S) \in Nat
  BY NumbersOrdered
<1>2. o = [k \in 1 .. Cardinality(S) |-> at(k)]
  <2>1. o = [k \in 1 .. Finding!Cardinality(S) |-> at(k)]
    BY DEF InNumber
  <2> HIDE DEF at, o
  <2> QED
    BY <2>1, SameCount
<1>3. ASSUME NEW k \in 1 .. Cardinality(S), NEW e \in S, Cardinality(below[e]) = k - 1
      PROVE  at(k) \in S /\ Cardinality(below[at(k)]) = k - 1
  <2>1. Finding!Cardinality({d \in S : d < e}) = k - 1
    BY <1>3, SameCount
  <2>2. at(k) \in S /\ Finding!Cardinality({d \in S : d < at(k)}) = k - 1
    BY <2>1
  <2> HIDE DEF at
  <2> QED
    BY <2>2, SameCount
<1>4. \A e \in S : below[e] = {d \in S : d < e}
  OBVIOUS
<1> HIDE DEF below, at, o
<1>5. DOMAIN o = 1 .. Cardinality(S) /\ o = [k \in DOMAIN o |-> o[k]]
  BY <1>2
<1>6. \A k \in 1 .. Cardinality(S) : o[k] = at(k)
  BY <1>2
<1>7. \A k \in 1 .. Cardinality(S) :
        (\E e \in S : Cardinality(below[e]) = k - 1) => o[k] \in S /\ Cardinality(below[o[k]]) = k - 1
  BY <1>3, <1>6
<1>8. /\ Lists(o, S) /\ Len(o) = Cardinality(S)
      /\ \A i \in 1 .. Len(o) : Cardinality(below[o[i]]) = i - 1
  BY <1>1, <1>5, <1>7, ByPlace
<1>9. \A i \in 1 .. Len(o) : o[i] \in S
  BY <1>8 DEF Lists
<1>10. \A i \in 1 .. Len(o) : Cardinality({d \in S : d < o[i]}) = i - 1
  BY <1>4, <1>8, <1>9
<1> QED
  BY <1>1, <1>8, <1>10 DEF o

\* The entries at some of the places.
LEMMA Picked ==
  ASSUME NEW s, NEW S, Lists(s, S), NEW places \in SUBSET (1 .. Len(s))
  PROVE  /\ Lists(Finding!At(s, places), {s[i] : i \in places})
         /\ Len(Finding!At(s, places)) = Cardinality(places)
         /\ {s[i] : i \in places} \subseteq S
<1> DEFINE o == InNumber(places)
           a == Finding!At(s, places)
           C == {s[i] : i \in places}
<1>0. Len(s) \in Nat /\ s \in [1 .. Len(s) -> S]
  BY DEF Lists
<1>1. IsFiniteSet(places) /\ places \in SUBSET Nat
  <2>1. IsFiniteSet(1 .. Len(s))
    BY <1>0, FS_Interval
  <2>2. IsFiniteSet(places)
    BY <2>1, FS_Subset
  <2> QED
    BY <2>2
<1>2. Lists(o, places) /\ Len(o) = Cardinality(places) /\ Cardinality(places) \in Nat
  BY <1>1, NumbersListed
<1>3. a = [k \in 1 .. Cardinality(places) |-> s[o[k]]]
  <2>1. a = [k \in 1 .. Finding!Cardinality(places) |-> s[o[k]]]
    BY DEF Finding!At, Finding!InOrder, InNumber
  <2> HIDE DEF o, a
  <2> QED
    BY <2>1, SameCount
<1> HIDE DEF o, a
<1>6. \A k \in 1 .. Cardinality(places) : o[k] \in places /\ a[k] = s[o[k]] /\ a[k] \in C
  BY <1>3, <1>2 DEF Lists
<1>7. a \in [1 .. Cardinality(places) -> C]
  BY <1>3, <1>6
<1>8. a \in Seq(C) /\ Len(a) = Cardinality(places)
  <2>1. a \in Seq(C)
    BY <1>2, <1>7, SeqDef
  <2> QED
    BY <1>2, <1>7, <2>1, LenProperties
<1>9. \A i, j \in 1 .. Len(a) : a[i] = a[j] => i = j
  <2> TAKE i, j \in 1 .. Len(a)
  <2> HAVE a[i] = a[j]
  <2>1. s[o[i]] = s[o[j]] /\ o[i] \in 1 .. Len(s) /\ o[j] \in 1 .. Len(s)
    BY <1>6, <1>8
  <2>2. o[i] = o[j]
    BY <2>1 DEF Lists
  <2> QED
    BY <1>2, <1>8, <2>2 DEF Lists
<1>10. \A e \in C : \E k \in 1 .. Len(a) : a[k] = e
  <2> SUFFICES ASSUME NEW i \in places PROVE \E k \in 1 .. Len(a) : a[k] = s[i]
    OBVIOUS
  <2>1. PICK k \in 1 .. Len(o) : o[k] = i
    BY <1>2 DEF Lists
  <2> QED
    BY <1>2, <1>6, <1>8, <2>1
<1>11. C \subseteq S
  BY <1>0
<1>12. Lists(a, C)
  <2> HIDE DEF C
  <2>1. a \in [1 .. Len(a) -> C] /\ Len(a) \in Nat
    BY <1>2, <1>7, <1>8
  <2> QED
    BY <1>9, <1>10, <2>1 DEF Lists
<1> QED
  BY <1>8, <1>11, <1>12 DEF a

\* How often an element stands in a sequence.
Often(s, e) == Cardinality({i \in DOMAIN s : s[i] = e})

LEMMA OnceInList ==
  ASSUME NEW s, NEW S, Lists(s, S), NEW e
  PROVE  Often(s, e) = IF e \in S THEN 1 ELSE 0
<1>1. DOMAIN s = 1 .. Len(s)
  BY DEF Lists
<1>2. CASE e \in S
  <2>1. PICK i \in 1 .. Len(s) : s[i] = e
    BY <1>2 DEF Lists
  <2>2. {j \in DOMAIN s : s[j] = e} = {i}
    BY <1>1, <2>1 DEF Lists
  <2> QED
    BY <1>2, <2>2, FS_Singleton DEF Often
<1>3. CASE e \notin S
  <2>1. {j \in DOMAIN s : s[j] = e} = {}
    BY <1>1, <1>3 DEF Lists
  <2> QED
    BY <1>3, <2>1, FS_EmptySet DEF Often
<1> QED
  BY <1>2, <1>3

LEMMA OftenInBoth ==
  ASSUME NEW S, NEW s \in Seq(S), NEW t \in Seq(S), NEW e
  PROVE  /\ Often(s \o t, e) = Often(s, e) + Often(t, e)
         /\ Often(s, e) \in Nat /\ Often(t, e) \in Nat
<1> DEFINE u == s \o t
           A == {i \in DOMAIN s : s[i] = e}
           B == {i \in DOMAIN t : t[i] = e}
           f == [i \in B |-> Len(s) + i]
           D == {Len(s) + i : i \in B}
<1>1. Len(s) \in Nat /\ Len(t) \in Nat /\ DOMAIN s = 1 .. Len(s) /\ DOMAIN t = 1 .. Len(t)
  BY LenProperties
<1>2. /\ DOMAIN u = 1 .. Len(s) + Len(t)
      /\ \A i \in 1 .. Len(s) + Len(t) : u[i] = IF i <= Len(s) THEN s[i] ELSE t[i - Len(s)]
  BY ConcatProperties, LenProperties
<1>3. IsFiniteSet(A) /\ IsFiniteSet(B)
  <2>1. IsFiniteSet(1 .. Len(s)) /\ IsFiniteSet(1 .. Len(t))
    BY <1>1, FS_Interval
  <2>2. A \in SUBSET (1 .. Len(s)) /\ B \in SUBSET (1 .. Len(t))
    BY <1>1
  <2> HIDE DEF A, B
  <2> QED
    BY <2>1, <2>2, FS_Subset
<1> HIDE DEF u
<1>4. {i \in DOMAIN u : u[i] = e} = A \cup D
  <2>1. ASSUME NEW i \in DOMAIN u, u[i] = e
        PROVE  i \in A \cup D
    <3>1. i \in 1 .. Len(s) + Len(t) /\ u[i] = IF i <= Len(s) THEN s[i] ELSE t[i - Len(s)]
      BY <1>2
    <3>2. CASE i <= Len(s)
      <4>1. i \in 1 .. Len(s) /\ s[i] = e
        BY <1>1, <2>1, <3>1, <3>2
      <4> QED
        BY <1>1, <4>1
    <3>3. CASE ~(i <= Len(s))
      <4>1. i - Len(s) \in 1 .. Len(t) /\ Len(s) + (i - Len(s)) = i /\ t[i - Len(s)] = e
        BY <1>1, <2>1, <3>1, <3>3
      <4>2. i - Len(s) \in B
        BY <1>1, <4>1
      <4> QED
        BY <4>1, <4>2
    <3> QED
      BY <3>2, <3>3
  <2>2. ASSUME NEW i \in A
        PROVE  i \in DOMAIN u /\ u[i] = e
    <3>1. i \in 1 .. Len(s) + Len(t) /\ i <= Len(s) /\ s[i] = e
      BY <1>1
    <3> QED
      BY <1>2, <3>1
  <2>3. ASSUME NEW i \in B
        PROVE  Len(s) + i \in DOMAIN u /\ u[Len(s) + i] = e
    <3> DEFINE k == Len(s) + i
    <3>1. k \in 1 .. Len(s) + Len(t) /\ ~(k <= Len(s)) /\ k - Len(s) = i /\ t[i] = e
      BY <1>1
    <3> QED
      BY <1>2, <3>1
  <2> QED
    BY <2>1, <2>2, <2>3
<1>5. A \cap D = {}
  BY <1>1
<1>6. IsFiniteSet(D) /\ Cardinality(D) = Cardinality(B)
  <2>1. f \in Bijection(B, D)
    BY <1>1 DEF Bijection, Injection, Surjection, IsInjective
  <2> QED
    BY <1>3, <2>1, FS_Bijection DEF ExistsBijection
<1>7. Cardinality(A \cup D) = Cardinality(A) + Cardinality(D) - Cardinality(A \cap D)
  BY <1>3, <1>6, FS_Union
<1>8. Cardinality(A \cap D) = 0
  BY <1>5, FS_EmptySet
<1>9. Cardinality(A) \in Nat /\ Cardinality(D) \in Nat
  BY <1>3, <1>6, FS_CardinalityType
<1>10. Often(u, e) = Cardinality(A \cup D) /\ Often(s, e) = Cardinality(A) /\ Often(t, e) = Cardinality(B)
  BY <1>4 DEF Often
<1> HIDE DEF A, B, D
<1> QED
  BY <1>6, <1>7, <1>8, <1>9, <1>10 DEF u

-----------------------------------------------------------------------------
(* What a search finds *)

IsRow(r) ==
  /\ DOMAIN r = {"rank", "meets", "promoted", "limited"} /\ r = [x \in DOMAIN r |-> r[x]]
  /\ r.rank \in Ranks

IsTable == rows \in [Events -> {rows[e] : e \in Events}] /\ \A e \in Events : IsRow(rows[e])

LEMMA RankType ==
  ASSUME IsTable, NEW e \in Events PROVE rows[e].rank \in Nat /\ e \in Nat \ {0}
BY SmallPages DEF IsTable, IsRow

\* By rank, up or down, then by number.
LEMMA RankOrders ==
  ASSUME IsTable, NEW S \in SUBSET Events, NEW down \in BOOLEAN, NEW below \in [S -> SUBSET S],
         \A a, b \in S : a \in below[b] <=>
           IF rows[a].rank = rows[b].rank THEN a < b
           ELSE IF down THEN rows[a].rank > rows[b].rank ELSE rows[a].rank < rows[b].rank
  PROVE  Ordering(S, below)
<1>1. IsFiniteSet(S)
  BY SmallPages, FS_Subset
<1>2. \A a \in S : rows[a].rank \in Nat /\ a \in Nat
  BY RankType
<1>3. \A a \in S : a \notin below[a]
  BY <1>2
<1>4. \A a, b \in S : a = b \/ a \in below[b] \/ b \in below[a]
  BY <1>2
<1>5. ASSUME NEW a \in S, NEW b \in S, a \in below[b]
      PROVE  below[a] \subseteq below[b]
  <2> SUFFICES ASSUME NEW d \in below[a] PROVE d \in below[b]
    OBVIOUS
  <2>1. d \in S /\ d \in below[a] /\ a \in below[b]
    BY <1>5
  <2> QED
    BY <1>2, <2>1
<1> QED
  BY <1>1, <1>3, <1>4, <1>5 DEF Ordering

\* What a query finds behind a cursor.
Matching(q, c) == {e \in Events : q \in rows[e].meets /\ Finding!After(e, c)}

LEMMA OrderedLists ==
  ASSUME IsTable, NEW S \in SUBSET Events
  PROVE  /\ Lists(Finding!Ordered(S), S)
         /\ \A i, j \in 1 .. Len(Finding!Ordered(S)) :
              i < j <=> Finding!Before(Finding!Ordered(S)[i], Finding!Ordered(S)[j])
<1> DEFINE below == [e \in S |-> {d \in S : Finding!Before(d, e)}]
           at(k) == CHOOSE e \in S : Finding!Cardinality({d \in S : Finding!Before(d, e)}) = k - 1
           o == Finding!Ordered(S)
<1>1. Ordering(S, below)
  <2> DEFINE down == Finding!Descending
  <2>1. down \in BOOLEAN
    BY DEF Finding!Descending
  <2>2. \A a, b \in S : a \in below[b] <=>
          IF rows[a].rank = rows[b].rank THEN a < b
          ELSE IF down THEN rows[a].rank > rows[b].rank ELSE rows[a].rank < rows[b].rank
    BY DEF Finding!Before
  <2>3. below \in [S -> SUBSET S]
    OBVIOUS
  <2> HIDE DEF below, down
  <2> QED
    BY <2>1, <2>2, <2>3, RankOrders
<1>2. o = [k \in 1 .. Cardinality(S) |-> at(k)]
  <2>1. o = [k \in 1 .. Finding!Cardinality(S) |-> at(k)]
    BY DEF Finding!Ordered, Finding!InOrder
  <2> HIDE DEF at, o
  <2> QED
    BY <2>1, SameCount
<1>3. ASSUME NEW k \in 1 .. Cardinality(S), NEW e \in S, Cardinality(below[e]) = k - 1
      PROVE  at(k) \in S /\ Cardinality(below[at(k)]) = k - 1
  <2>1. Finding!Cardinality({d \in S : Finding!Before(d, e)}) = k - 1
    BY <1>3, SameCount
  <2>2. at(k) \in S /\ Finding!Cardinality({d \in S : Finding!Before(d, at(k))}) = k - 1
    BY <2>1
  <2> HIDE DEF at
  <2> QED
    BY <2>2, SameCount
<1>4. \A a, b \in S : a \in below[b] <=> Finding!Before(a, b)
  OBVIOUS
<1> HIDE DEF below, at, o
<1>5. DOMAIN o = 1 .. Cardinality(S) /\ o = [k \in DOMAIN o |-> o[k]]
  BY <1>2
<1>6. \A k \in 1 .. Cardinality(S) : o[k] = at(k)
  BY <1>2
<1>7. \A k \in 1 .. Cardinality(S) :
        (\E e \in S : Cardinality(below[e]) = k - 1) => o[k] \in S /\ Cardinality(below[o[k]]) = k - 1
  BY <1>3, <1>6
<1>8. Lists(o, S) /\ \A i, j \in 1 .. Len(o) : i < j <=> o[i] \in below[o[j]]
  BY <1>1, <1>5, <1>7, ByPlace
<1>9. \A i \in 1 .. Len(o) : o[i] \in S
  BY <1>8 DEF Lists
<1>10. \A i, j \in 1 .. Len(o) : i < j <=> Finding!Before(o[i], o[j])
  BY <1>4, <1>8, <1>9
<1> QED
  BY <1>8, <1>10 DEF o

LEMMA FirstSome ==
  ASSUME NEW s, NEW S, Lists(s, S), NEW n \in Nat
  PROVE  LET k == IF Len(s) < n THEN Len(s) ELSE n IN
         /\ k \in 0 .. Len(s) /\ Finding!Some(s, n) = SubSeq(s, 1, k)
         /\ Lists(Finding!Some(s, n), Cut(s, 1, k)) /\ Len(Finding!Some(s, n)) = k
         /\ \A i \in 1 .. k : Finding!Some(s, n)[i] = s[i]
<1> DEFINE k == IF Len(s) < n THEN Len(s) ELSE n
<1>1. Len(s) \in Nat
  BY DEF Lists
<1>2. k \in 0 .. Len(s) /\ 1 \in 1 .. Len(s) + 1 /\ k \in 1 - 1 .. Len(s) /\ k - 1 + 1 = k
  BY <1>1
<1>3. Finding!Some(s, n) = SubSeq(s, 1, k)
  BY DEF Finding!Some
<1> HIDE DEF k
<1>4. /\ Lists(SubSeq(s, 1, k), Cut(s, 1, k)) /\ Len(SubSeq(s, 1, k)) = k - 1 + 1
      /\ \A i \in 1 .. k - 1 + 1 : SubSeq(s, 1, k)[i] = s[1 + i - 1]
  BY <1>2, Part
<1>5. \A i \in 1 .. k : SubSeq(s, 1, k)[i] = s[i]
  BY <1>2, <1>4
<1>6. /\ k \in 0 .. Len(s) /\ Finding!Some(s, n) = SubSeq(s, 1, k)
      /\ Lists(Finding!Some(s, n), Cut(s, 1, k)) /\ Len(Finding!Some(s, n)) = k
      /\ \A i \in 1 .. k : Finding!Some(s, n)[i] = s[i]
  BY <1>2, <1>3, <1>4, <1>5
<1> QED
  BY <1>6 DEF k

LEMMA Share ==
  ASSUME NEW n \in Nat PROVE (n * (100 - MinNatural)) \div 100 \in Nat
<1>1. 100 - MinNatural \in Nat
  BY SmallPages
<1>2. \A x \in Nat : x \div 100 \in Nat
  OBVIOUS
<1>3. \A x, y \in Nat : x * y \in Nat
  OBVIOUS
<1> QED
  BY <1>1, <1>2, <1>3

\* Promotion moves the events of a page, and neither adds nor drops one.
LEMMA PromotionKeeps ==
  ASSUME NEW results, NEW S, Lists(results, S)
  PROVE  Lists(Finding!RankByPromotion(results), S)
<1> DEFINE I == {i \in DOMAIN results : Finding!Promoted(results[i])}
           J == {i \in DOMAIN results : Finding!Natural(results[i])}
           promoted == Finding!At(results, I)
           natural == Finding!At(results, J)
           cap == (Len(results) * (100 - MinNatural)) \div 100
           top == Finding!Some(promoted, cap)
           rest == SubSeq(promoted, Len(top) + 1, Len(promoted))
           A == {results[i] : i \in I}
           B == {results[i] : i \in J}
<1>1. Finding!RankByPromotion(results) = IF cap = 0 THEN results ELSE top \o natural \o rest
  BY DEF Finding!RankByPromotion
<1>2. /\ Len(results) \in Nat /\ DOMAIN results = 1 .. Len(results) /\ results \in [1 .. Len(results) -> S]
      /\ \A i, j \in 1 .. Len(results) : results[i] = results[j] => i = j
      /\ \A e \in S : \E i \in 1 .. Len(results) : results[i] = e
  BY DEF Lists
<1>3. cap \in Nat
  BY <1>2, Share
<1>4. I \in SUBSET (1 .. Len(results)) /\ J \in SUBSET (1 .. Len(results)) /\ I \cup J = 1 .. Len(results) /\ I \cap J = {}
  BY <1>2 DEF Finding!Promoted, Finding!Natural
<1> HIDE DEF I, J
<1>5. Lists(promoted, A) /\ Lists(natural, B)
  BY <1>4, Picked
<1>6. A \cup B = S /\ A \cap B = {}
  BY <1>2, <1>4
<1> HIDE DEF promoted, natural, cap, A, B
<1> DEFINE k == IF Len(promoted) < cap THEN Len(promoted) ELSE cap
<1>7. k \in 0 .. Len(promoted) /\ Lists(top, Cut(promoted, 1, k)) /\ Len(top) = k
  BY <1>3, <1>5, FirstSome
<1> HIDE DEF top, k
<1>8. Len(promoted) \in Nat
  BY <1>5 DEF Lists
<1>9. Lists(rest, Cut(promoted, k + 1, Len(promoted)))
  <2>1. k + 1 \in 1 .. Len(promoted) + 1 /\ Len(promoted) \in (k + 1) - 1 .. Len(promoted)
    BY <1>7, <1>8
  <2> QED
    BY <1>5, <1>7, <2>1, Part
<1>10. /\ A = Cut(promoted, 1, k) \cup Cut(promoted, k + 1, Len(promoted))
       /\ Cut(promoted, 1, k) \cap Cut(promoted, k + 1, Len(promoted)) = {}
  BY <1>5, <1>7, Halves
<1> HIDE DEF rest
<1> DEFINE T == Cut(promoted, 1, k)
           R == Cut(promoted, k + 1, Len(promoted))
<1> HIDE DEF T, R
<1>11. /\ Lists(top, T) /\ Lists(natural, B) /\ Lists(rest, R)
       /\ T \cap B = {} /\ (T \cup B) \cap R = {} /\ (T \cup B) \cup R = S
  BY <1>5, <1>6, <1>7, <1>9, <1>10 DEF T, R
<1>12. Lists(top \o natural, T \cup B)
  BY <1>11, Both
<1>13. Lists((top \o natural) \o rest, (T \cup B) \cup R)
  BY <1>11, <1>12, Both
<1>14. Lists((top \o natural) \o rest, S)
  BY <1>11, <1>13
<1> QED
  BY <1>1, <1>14

\* The greatest of the numbers of the events.
LEMMA GreatestOf ==
  ASSUME NEW t \in [Events -> Nat]
  PROVE  LET most == Finding!Max({t[e] : e \in Events}) IN
         most \in Nat /\ \A e \in Events : t[e] <= most
<1> DEFINE S == {t[e] : e \in Events}
           most == Finding!Max(S)
           below == [x \in S |-> {y \in S : y < x}]
<1>1. S \in SUBSET Nat /\ S # {} /\ IsFiniteSet(S)
  <2>1. t \in Surjection(Events, S)
    BY DEF Surjection
  <2>2. IsFiniteSet(S)
    BY <2>1, SmallPages, FS_Surjection
  <2>3. S \in SUBSET Nat
    OBVIOUS
  <2>4. PICK e \in Events : TRUE
    BY SmallPages
  <2>5. t[e] \in S
    OBVIOUS
  <2> QED
    BY <2>2, <2>3, <2>5
<1> HIDE DEF S, most
<1>2. \A x, y \in S : x \in below[y] <=> x < y
  OBVIOUS
<1>3. below \in [S -> SUBSET S] /\ S \subseteq Int
  BY <1>1
<1> HIDE DEF below
<1>4. ASSUME NEW x \in S, NEW y \in S, x \in below[y]
      PROVE  below[x] \subseteq below[y]
  <2> SUFFICES ASSUME NEW d \in below[x] PROVE d \in below[y]
    OBVIOUS
  <2>1. d \in S /\ d < x /\ x < y /\ d \in Int /\ x \in Int /\ y \in Int
    BY <1>2, <1>3, <1>4
  <2> QED
    BY <1>2, <2>1
<1>5. Ordering(S, below)
  BY <1>1, <1>2, <1>3, <1>4 DEF Ordering
<1>6. Cardinality(S) \in Nat \ {0}
  BY <1>1, FS_CardinalityType, FS_EmptySet
<1>7. Cardinality(S) - 1 \in 0 .. Cardinality(S) - 1
  BY <1>6
<1>8. PICK x \in S : Cardinality(below[x]) = Cardinality(S) - 1
  BY <1>5, <1>7, Ranked
<1>9. \A y \in S : x >= y
  <2> TAKE y \in S
  <2>1. Cardinality(below[y]) \in 0 .. Cardinality(S) - 1
    BY <1>5, Ranked
  <2>2. ~(Cardinality(below[x]) < Cardinality(below[y]))
    BY <1>6, <1>8, <2>1
  <2>3. ~(x < y)
    BY <1>2, <1>5, <2>2, Ranked
  <2> QED
    BY <1>1, <2>3
<1>10. most = CHOOSE z \in S : \A y \in S : z >= y
  BY DEF Finding!Max, most
<1>11. most \in S /\ \A y \in S : most >= y
  BY <1>9, <1>10
<1>12. \A e \in Events : t[e] \in S
  BY DEF S
<1> QED
  BY <1>1, <1>11, <1>12 DEF S, most

\* The clock of the changes is not behind any of them.
LEMMA NowIsLatest ==
  ASSUME touched \in [Events -> Nat]
  PROVE  Finding!Now \in Nat /\ \A e \in Events : touched[e] <= Finding!Now
BY GreatestOf DEF Finding!Now

-----------------------------------------------------------------------------
(* The list of the search *)

\* The fields of the list that a page shown changes.
IsList(l) ==
  DOMAIN l = {"items", "answers", "next", "more", "since", "error"} /\ l = [x \in DOMAIN l |-> l[x]]

IsSearch(r) ==
  DOMAIN r = {"number", "query", "append", "cursor", "answer"} /\ r = [x \in DOMAIN r |-> r[x]]

\* The latest request asks for what the address says; when it is no longer on its way, its answer is
\* the last page shown or the list says that it failed.
SearchInv ==
  /\ latest \in Nat /\ query \in Queries
  /\ \A r \in inflight :
       IsSearch(r) /\ r.number \in 0 .. latest /\ r.query \in Queries /\ (r.number = latest => r.query = query)
  /\ IsList(list) /\ list.answers \in Seq(Queries)
  /\ latest = 0 => inflight = {}
  /\ latest > 0 =>
       \/ \E r \in inflight : r.number = latest
       \/ list.error
       \/ list.answers # <<>> /\ list.answers[Len(list.answers)] = query

LEMMA SearchBegins ==
  ASSUME Finding!Init, Queries # {} PROVE SearchInv
<1>1. latest = 0 /\ inflight = {} /\ query \in Queries /\ list = Finding!NothingShown
  BY DEF Finding!Init
<1>2. IsList(Finding!NothingShown) /\ Finding!NothingShown.answers = <<>>
  BY DEF IsList, Finding!NothingShown
<1> QED
  BY <1>1, <1>2 DEF SearchInv

\* A request is sent and takes the place of the one before it.
LEMMA SearchSent ==
  ASSUME SearchInv, NEW append, NEW cursor, NEW q \in Queries, Finding!Load(q, append, cursor), query' = q
  PROVE  SearchInv'
<1> DEFINE r == [number |-> latest + 1, query |-> q, append |-> append, cursor |-> cursor, answer |-> <<>>]
<1>1. /\ latest' = latest + 1 /\ inflight' = inflight \cup {r} /\ list' = [list EXCEPT !.error = FALSE]
  BY DEF Finding!Load
<1>2. IsSearch(r) /\ r.number = latest + 1 /\ r.query = q
  BY DEF IsSearch
<1> HIDE DEF r
<1> DEFINE no == FALSE
<1>3. list' = [list EXCEPT !.error = no]
  BY <1>1
<1> HIDE DEF no
<1>4. IsList(list') /\ list'.answers = list.answers
  BY <1>3 DEF SearchInv, IsList
<1> QED
  BY <1>1, <1>2, <1>4 DEF SearchInv

\* An answer is made by the server, shown, or lost on its way.
LEMMA SearchServed ==
  ASSUME SearchInv, NEW r \in inflight, Finding!Serve(r)
  PROVE  SearchInv'
<1> DEFINE answer == <<Finding!Answer(r.query, r.cursor)>>
           s == [r EXCEPT !.answer = answer]
<1>1. inflight' = (inflight \ {r}) \cup {s} /\ UNCHANGED <<query, list, latest>>
  BY DEF Finding!Serve
<1> HIDE DEF answer
<1>2. IsSearch(s) /\ s.number = r.number /\ s.query = r.query
  BY DEF SearchInv, IsSearch
<1> HIDE DEF s
<1> QED
  BY <1>1, <1>2 DEF SearchInv

LEMMA SearchArrived ==
  ASSUME SearchInv, NEW r \in inflight, Finding!Arrive(r)
  PROVE  SearchInv'
<1>1. inflight' = inflight \ {r} /\ UNCHANGED <<query, latest>>
  BY DEF Finding!Arrive
<1>2. CASE r.number # latest
  BY <1>1, <1>2 DEF Finding!Arrive, Finding!Current, SearchInv
<1>3. CASE r.number = latest
  <2>1. list' = Finding!Show(r) /\ r.query = query /\ query \in Queries
    BY <1>3 DEF Finding!Arrive, Finding!Current, SearchInv
  <2>2. IsList(list')
    BY <2>1 DEF IsList, Finding!Show
  <2>3. list'.answers = Append(list.answers, query) \/ list'.answers = <<query>>
    BY <2>1 DEF Finding!Show
  <2>4. /\ list'.answers \in Seq(Queries) /\ list'.answers # <<>>
        /\ list'.answers[Len(list'.answers)] = query
    <3>1. list.answers \in Seq(Queries)
      BY DEF SearchInv
    <3>2. CASE list'.answers = Append(list.answers, query)
      BY <2>1, <3>1, <3>2
    <3>3. CASE list'.answers = <<query>>
      BY <2>1, <3>3
    <3> QED
      BY <2>3, <3>2, <3>3
  <2> QED
    BY <1>1, <2>1, <2>2, <2>4 DEF SearchInv
<1> QED
  BY <1>2, <1>3

LEMMA SearchFailed ==
  ASSUME SearchInv, NEW r \in inflight, Finding!RequestFails(r)
  PROVE  SearchInv'
<1>1. inflight' = inflight \ {r} /\ UNCHANGED <<query, latest>>
  BY DEF Finding!RequestFails
<1>2. CASE r.number # latest
  BY <1>1, <1>2 DEF Finding!RequestFails, Finding!Current, SearchInv
<1>3. CASE r.number = latest
  <2> DEFINE yes == TRUE
  <2>1. list' = [list EXCEPT !.error = yes]
    BY <1>3 DEF Finding!RequestFails, Finding!Current
  <2> HIDE DEF yes
  <2>2. IsList(list') /\ list'.answers = list.answers /\ list'.error = yes
    BY <2>1 DEF SearchInv, IsList
  <2> QED
    BY <1>1, <2>2 DEF SearchInv, yes
<1> QED
  BY <1>2, <1>3

LEMMA SearchStep ==
  ASSUME SearchInv, Finding!Next
  PROVE  SearchInv'
<1>1. ASSUME NEW q \in Queries, Finding!CommitQuery(q)
      PROVE  SearchInv'
  BY <1>1, SearchSent DEF Finding!CommitQuery
<1>2. CASE Finding!LoadMore
  BY <1>2, SearchSent DEF Finding!LoadMore, SearchInv
<1>3. ASSUME UNCHANGED <<query, list, latest, inflight>>
      PROVE  SearchInv'
  BY <1>3 DEF SearchInv
<1>4. ASSUME NEW e \in Events, NEW row, Finding!Touch(e, row)
      PROVE  SearchInv'
  BY <1>3, <1>4 DEF Finding!Touch
<1>5. CASE Finding!AssembleFeed
  BY <1>3, <1>5 DEF Finding!AssembleFeed
<1> QED
  BY <1>1, <1>2, <1>4, <1>5, SearchServed, SearchArrived, SearchFailed
  DEF Finding!Next, Finding!RankMoves, Finding!Edited, Finding!PromotionChanges,
      Finding!HostLimited

-----------------------------------------------------------------------------
(* The pages of a walk *)

IsMark(c) == c \in [id : Events, rank : Nat]

IsCursor(c) == c = Finding!None \/ IsMark(c)

\* What a mark is not: the place before everything.
LEMMA MarkIsSome ==
  ASSUME NEW c, IsMark(c) PROVE c # Finding!None /\ c.id \in Nat \ {0} /\ c.rank \in Nat
<1>1. c.id \in Nat \ {0} /\ c.rank \in Nat
  BY SmallPages DEF IsMark
<1>2. Finding!None.id = 0
  BY DEF Finding!None
<1> QED
  BY <1>1, <1>2

LEMMA MarkOf ==
  ASSUME IsTable, NEW p \in Events
  PROVE  /\ IsMark(Finding!CursorOf(p)) /\ Finding!CursorOf(p).id = p
         /\ Finding!CursorOf(p).rank <= rows[p].rank
         /\ sort # "newest" => Finding!CursorOf(p).rank = rows[p].rank
<1>1. rows[p].rank \in Nat
  BY RankType
<1>2. \A n \in Nat : 2 * (n \div 2) \in Nat /\ 2 * (n \div 2) <= n
  OBVIOUS
<1> QED
  BY <1>1, <1>2 DEF IsMark, Finding!CursorOf

\* An event up to a mark is not behind it; one past it is, unless the mark lost a part of its time.
LEMMA UpToMark ==
  ASSUME IsTable, NEW e \in Events, NEW p \in Events
  PROVE  /\ (e = p \/ Finding!Before(e, p)) => ~Finding!After(e, Finding!CursorOf(p))
         /\ (Finding!Before(p, e) /\ sort # "newest") => Finding!After(e, Finding!CursorOf(p))
<1> DEFINE c == Finding!CursorOf(p)
<1>1. /\ c # Finding!None /\ c.id = p /\ c.rank \in Nat /\ c.rank <= rows[p].rank
      /\ sort # "newest" => c.rank = rows[p].rank
  BY MarkOf, MarkIsSome
<1>2. rows[p].rank \in Nat /\ rows[e].rank \in Nat /\ p \in Nat /\ e \in Nat
  BY RankType
<1> HIDE DEF c
<1>3. (e = p \/ Finding!Before(e, p)) => ~Finding!After(e, c)
  BY <1>1, <1>2 DEF Finding!Before, Finding!After, Finding!Descending
<1>4. (Finding!Before(p, e) /\ sort # "newest") => Finding!After(e, c)
  BY <1>1, <1>2 DEF Finding!Before, Finding!After, Finding!Descending
<1> QED
  BY <1>3, <1>4 DEF c

\* A walk goes one way.
LEMMA MarkAdvances ==
  ASSUME IsTable, NEW e \in Events, NEW p \in Events, NEW c, IsCursor(c),
         ~Finding!After(e, c), Finding!After(p, c)
  PROVE  ~Finding!After(e, Finding!CursorOf(p))
<1> DEFINE d == Finding!CursorOf(p)
<1>1. /\ d # Finding!None /\ d.id = p /\ d.rank \in Nat /\ d.rank <= rows[p].rank
      /\ sort # "newest" => d.rank = rows[p].rank
  BY MarkOf, MarkIsSome
<1>2. rows[p].rank \in Nat /\ rows[e].rank \in Nat /\ p \in Nat /\ e \in Nat
  BY RankType
<1>3. c # Finding!None /\ c.id \in Nat /\ c.rank \in Nat
  <2>1. c # Finding!None
    BY DEF Finding!After
  <2> QED
    BY <2>1, MarkIsSome DEF IsCursor
<1> HIDE DEF d
<1>4. ~Finding!After(e, d)
  BY <1>1, <1>2, <1>3 DEF Finding!After, Finding!Descending
<1> QED
  BY <1>4 DEF d

\* Being behind a cursor, of a table and a sort.
Past(R, by, e, c) ==
  \/ c = Finding!None
  \/ IF by \in {"newest", "almost_full", "recommended"} THEN R[e].rank < c.rank ELSE R[e].rank > c.rank
  \/ R[e].rank = c.rank /\ e > c.id

LEMMA AfterIsPast ==
  ASSUME NEW e, NEW c PROVE Finding!After(e, c) <=> Past(rows, sort, e, c)
BY DEF Finding!After, Finding!Descending, Past

\* A page of a query behind a cursor: of an event that did not change since, what the page and the
\* cursor of the next one say.
Told(R, by, items, more, next, q, c, e) ==
  LET n == Often(items, e) IN
  /\ n \in {0, 1}
  /\ n = 1 => q \in R[e].meets /\ Past(R, by, e, c) /\ (more => ~Past(R, by, e, next))
  /\ (n = 0 /\ by # "newest" /\ q \in R[e].meets /\ Past(R, by, e, c)) => more /\ Past(R, by, e, next)
  /\ (more /\ ~Past(R, by, e, c)) => ~Past(R, by, e, next)

Tells(R, T, by, items, more, next, q, c, since) ==
  /\ items \in Seq(Events) /\ since \in Nat
  /\ more => IsMark(next)
  /\ \A e \in Events : T[e] <= since => Told(R, by, items, more, next, q, c, e)

\* An answer says of every event what is true of it.
LEMMA AnswerTells ==
  ASSUME IsTable, touched \in [Events -> Nat], NEW q, NEW c, IsCursor(c)
  PROVE  LET a == Finding!Answer(q, c) IN
         /\ Tells(rows, touched, sort, a.items, a.more, a.next, q, c, a.at) /\ a.at = Finding!Now
         /\ a.more \in BOOLEAN
<1> DEFINE a == Finding!Answer(q, c)
           F == Matching(q, c)
           f == Finding!Found(q, c)
           found == Finding!Some(f, Limit)
           k == IF Len(f) < Limit THEN Len(f) ELSE Limit
<1>1. Limit \in Nat \ {0}
  BY SmallPages
<1>2. F \in SUBSET Events /\ f = Finding!Ordered(F)
  BY DEF Matching, Finding!Found
<1>3. /\ Lists(f, F)
      /\ \A i, j \in 1 .. Len(f) : i < j <=> Finding!Before(f[i], f[j])
  BY <1>2, OrderedLists
<1>4. /\ a.items = IF c = Finding!None THEN Finding!RankByPromotion(found) ELSE found
      /\ a.more = (Len(f) > Limit) /\ a.at = Finding!Now
      /\ Len(f) > Limit => a.next = Finding!CursorOf(found[Limit])
  BY DEF Finding!Answer
<1>5. \A e \in Events : e \in F <=> q \in rows[e].meets /\ Finding!After(e, c)
  BY DEF Matching
<1> HIDE DEF a, f, F
<1>6. Len(f) \in Nat
  BY <1>3 DEF Lists
<1>7. /\ k \in 0 .. Len(f) /\ Lists(found, Cut(f, 1, k))
      /\ \A i \in 1 .. k : found[i] = f[i]
  BY <1>1, <1>3, FirstSome
<1>8. Cut(f, 1, k) \subseteq F
  BY <1>3, <1>7 DEF Cut, Lists
<1> HIDE DEF found
<1>9. Lists(a.items, Cut(f, 1, k))
  BY <1>4, <1>7, PromotionKeeps
<1>10. a.items \in Seq(Events)
  BY <1>2, <1>8, <1>9, ListsOfSeq, SeqMonotonic
<1>11. ASSUME Len(f) > Limit
       PROVE  /\ k = Limit /\ f[Limit] \in F /\ f[Limit] \in Events /\ Limit \in 1 .. Len(f)
              /\ a.next = Finding!CursorOf(f[Limit])
  <2>1. k = Limit /\ Limit \in 1 .. Len(f) /\ Limit \in 1 .. k
    BY SMTT(30), <1>1, <1>6, <1>11
  <2>2. f[Limit] \in F
    BY <1>3, <2>1 DEF Lists
  <2> HIDE DEF k
  <2> QED
    BY <1>2, <1>4, <1>7, <1>11, <2>1, <2>2
<1>12. a.more => IsMark(a.next)
  BY <1>4, <1>11, MarkOf
<1>13. ASSUME NEW e \in Events
       PROVE  Told(rows, sort, a.items, a.more, a.next, q, c, e)
  <2>1. Often(a.items, e) = IF e \in Cut(f, 1, k) THEN 1 ELSE 0
    BY <1>9, OnceInList
  <2>2. ASSUME e \in Cut(f, 1, k), Len(f) > Limit
        PROVE  ~Finding!After(e, a.next)
    <3>1. PICK i \in 1 .. k : e = f[i]
      BY <2>2 DEF Cut
    <3>2. i \in 1 .. Len(f) /\ (i = Limit \/ i < Limit)
      BY <1>1, <1>11, <2>2, <3>1
    <3>3. e = f[Limit] \/ Finding!Before(e, f[Limit])
      BY <1>3, <1>11, <2>2, <3>1, <3>2
    <3> QED
      BY <1>11, <2>2, <3>3, UpToMark
  <2>3. ASSUME e \in F, e \notin Cut(f, 1, k), sort # "newest"
        PROVE  Len(f) > Limit /\ Finding!After(e, a.next)
    <3>1. PICK i \in 1 .. Len(f) : e = f[i]
      BY <1>3, <2>3 DEF Lists
    <3>2. ~(i <= k) /\ i \in Nat
      BY <2>3, <3>1 DEF Cut
    <3>3. Len(f) > Limit /\ Limit < i
      BY <1>1, <1>6, <3>1, <3>2
    <3>4. Finding!Before(f[Limit], e)
      BY <1>3, <1>11, <3>1, <3>3
    <3> QED
      BY <1>11, <2>3, <3>3, <3>4, UpToMark
  <2>4. ASSUME Len(f) > Limit, ~Finding!After(e, c)
        PROVE  ~Finding!After(e, a.next)
    <3>1. Finding!After(f[Limit], c)
      BY <1>5, <1>11, <2>4
    <3> QED
      BY <1>11, <2>4, <3>1, MarkAdvances
  <2>5. e \in Cut(f, 1, k) => e \in F
    BY <1>8
  <2>6. a.more <=> Len(f) > Limit
    BY <1>4
  <2> DEFINE n == Often(a.items, e)
  <2>7. (e \in Cut(f, 1, k) /\ n = 1) \/ (e \notin Cut(f, 1, k) /\ n = 0)
    BY <2>1
  <2> HIDE DEF k, n
  <2>8. n \in {0, 1} /\ (n = 1 => n # 0)
    BY <2>7
  <2>9. /\ n = 1 => q \in rows[e].meets /\ Finding!After(e, c) /\ (a.more => ~Finding!After(e, a.next))
        /\ (n = 0 /\ sort # "newest" /\ q \in rows[e].meets /\ Finding!After(e, c)) =>
             a.more /\ Finding!After(e, a.next)
        /\ (a.more /\ ~Finding!After(e, c)) => ~Finding!After(e, a.next)
    BY <1>5, <2>2, <2>3, <2>4, <2>5, <2>6, <2>7, <2>8, Zenon
  <2>10. /\ Finding!After(e, c) <=> Past(rows, sort, e, c)
         /\ Finding!After(e, a.next) <=> Past(rows, sort, e, a.next)
    BY AfterIsPast
  <2> QED
    BY <2>8, <2>9, <2>10 DEF Told, n
<1>14. Finding!Now \in Nat
  BY NowIsLatest
<1>15. /\ Tells(rows, touched, sort, a.items, a.more, a.next, q, c, a.at) /\ a.at = Finding!Now
       /\ a.more \in BOOLEAN
  BY <1>4, <1>10, <1>12, <1>13, <1>14 DEF Tells
<1> QED
  BY <1>15 DEF a

\* Two pages, the second behind the cursor of the first and not older.
LEMMA TellsBoth ==
  ASSUME NEW s, NEW m, NEW d, NEW t, NEW n, NEW x, NEW q, NEW c, NEW at, NEW later,
         NEW R, NEW T \in [Events -> Nat], NEW by,
         Tells(R, T, by, s, m, d, q, c, at), Tells(R, T, by, t, n, x, q, d, later), m, at <= later
  PROVE  Tells(R, T, by, s \o t, n, x, q, c, at)
<1>1. /\ s \in Seq(Events) /\ t \in Seq(Events) /\ s \o t \in Seq(Events) /\ at \in Nat /\ later \in Nat
      /\ n => IsMark(x)
  BY ConcatProperties DEF Tells
<1>2. ASSUME NEW e \in Events, T[e] <= at
      PROVE  Told(R, by, s \o t, n, x, q, c, e)
  <2>1. T[e] <= later
    BY <1>1, <1>2
  <2>2. Told(R, by, s, m, d, q, c, e) /\ Told(R, by, t, n, x, q, d, e)
    BY <1>2, <2>1 DEF Tells
  <2> DEFINE a == Often(s, e)
             b == Often(t, e)
             o == Often(s \o t, e)
  <2>3. o = a + b /\ a \in {0, 1} /\ b \in {0, 1}
    BY <1>1, <2>2, OftenInBoth DEF Told
  <2>4. /\ (a = 1 /\ b = 0 /\ o = 1) \/ (a = 0 /\ b = 1 /\ o = 1) \/ (a = 0 /\ b = 0 /\ o = 0) \/ (a = 1 /\ b = 1)
        /\ 0 # 1
    BY <2>3
  <2> DEFINE newest == by = "newest"
             belongs == q \in R[e].meets
  <2>5. /\ a = 1 => belongs /\ Past(R, by, e, c) /\ ~Past(R, by, e, d)
        /\ (a = 0 /\ ~newest /\ belongs /\ Past(R, by, e, c)) => Past(R, by, e, d)
        /\ ~Past(R, by, e, c) => ~Past(R, by, e, d)
    BY <2>2 DEF Told
  <2>6. /\ b = 1 => belongs /\ Past(R, by, e, d) /\ (n => ~Past(R, by, e, x))
        /\ (b = 0 /\ ~newest /\ belongs /\ Past(R, by, e, d)) => n /\ Past(R, by, e, x)
        /\ (n /\ ~Past(R, by, e, d)) => ~Past(R, by, e, x)
    BY <2>2 DEF Told
  <2> HIDE DEF a, b, o, newest, belongs
  <2>7. /\ o \in {0, 1}
        /\ o = 1 => belongs /\ Past(R, by, e, c) /\ (n => ~Past(R, by, e, x))
        /\ (o = 0 /\ ~newest /\ belongs /\ Past(R, by, e, c)) => n /\ Past(R, by, e, x)
        /\ (n /\ ~Past(R, by, e, c)) => ~Past(R, by, e, x)
    BY <2>4, <2>5, <2>6
  <2> QED
    BY <2>7 DEF Told, o, newest, belongs
<1> QED
  BY <1>1, <1>2 DEF Tells

\* What a page tells of an event that did not change stays true.
LEMMA TellsStill ==
  ASSUME NEW R, NEW T, NEW Q, NEW U, NEW by, NEW items, NEW more, NEW next, NEW q, NEW c, NEW since,
         \A e \in Events : U[e] <= since => Q[e] = R[e] /\ T[e] <= since,
         Tells(R, T, by, items, more, next, q, c, since)
  PROVE  Tells(Q, U, by, items, more, next, q, c, since)
<1>1. ASSUME NEW e \in Events, U[e] <= since
      PROVE  Told(Q, by, items, more, next, q, c, e)
  <2>1. Told(R, by, items, more, next, q, c, e) /\ Q[e] = R[e]
    BY <1>1 DEF Tells
  <2>2. \A d : Past(Q, by, e, d) <=> Past(R, by, e, d)
    BY <2>1 DEF Past
  <2> QED
    BY <2>1, <2>2 DEF Told
<1> QED
  BY <1>1 DEF Tells

\* The list, whose pages may all answer one query.
ListInv ==
  /\ list.more => IsMark(list.next) /\ list.answers # <<>>
  /\ list.since \in Nat /\ list.since <= Finding!Now
  /\ \A q \in Queries :
       (list.answers # <<>> /\ \A i \in 1 .. Len(list.answers) : list.answers[i] = q) =>
         Tells(rows, touched, sort, list.items, list.more, list.next, q, Finding!None, list.since)

\* An answer on its way tells what was true when it was given.
AnswersInv ==
  \A r \in inflight : r.answer # <<>> =>
    /\ Tells(rows, touched, sort, r.answer[1].items, r.answer[1].more, r.answer[1].next, r.query, r.cursor,
             r.answer[1].at)
    /\ r.answer[1].at <= Finding!Now

\* A request for more that may still be shown continues the list that is shown.
RequestsInv ==
  /\ \A r \in inflight :
       /\ IsCursor(r.cursor) /\ (~r.append => r.cursor = Finding!None)
       /\ (r.number = latest /\ r.append) =>
            /\ list.more /\ r.cursor = list.next
            /\ r.answer # <<>> => list.since <= r.answer[1].at
  /\ \A r, s \in inflight : r.number = s.number => r = s

TableInv == IsTable /\ touched \in [Events -> Nat]

WalkInv == TableInv /\ ListInv /\ AnswersInv /\ RequestsInv

LEMMA WalkBegins ==
  ASSUME Finding!Init PROVE WalkInv
<1>1. /\ list = Finding!NothingShown /\ inflight = {} /\ touched = [e \in Events |-> 0]
  BY DEF Finding!Init
<1>2. /\ Finding!NothingShown.more = FALSE /\ Finding!NothingShown.since = 0
      /\ Finding!NothingShown.answers = <<>>
  BY DEF Finding!NothingShown
<1>3. touched \in [Events -> Nat]
  BY <1>1
<1>4. Finding!Now \in Nat
  BY <1>3, NowIsLatest
<1>5. IsTable
  <2>1. PICK rank \in [Events -> Ranks], boosted \in SUBSET Events :
          rows = [e \in Events |->
                   [rank |-> rank[e], meets |-> Queries, promoted |-> e \in boosted, limited |-> FALSE]]
    BY DEF Finding!Init
  <2> DEFINE top(e) == e \in boosted
             no == FALSE
             row(e) == [rank |-> rank[e], meets |-> Queries, promoted |-> top(e), limited |-> no]
  <2>2. rows = [e \in Events |-> row(e)]
    BY <2>1
  <2> HIDE DEF top, no
  <2>3. \A e \in Events : IsRow(row(e))
    BY DEF IsRow
  <2> HIDE DEF row
  <2> QED
    BY <2>2, <2>3 DEF IsTable
<1>6. ListInv
  BY <1>1, <1>2, <1>4 DEF ListInv
<1> QED
  BY <1>1, <1>3, <1>5, <1>6 DEF WalkInv, TableInv, AnswersInv, RequestsInv

SameList ==
  /\ list'.items = list.items /\ list'.answers = list.answers /\ list'.next = list.next
  /\ list'.more = list.more /\ list'.since = list.since

\* What does not change an event keeps what was told.
LEMMA ListUnmoved ==
  ASSUME WalkInv, UNCHANGED <<rows, touched, sort>>
  PROVE  TableInv' /\ Finding!Now' = Finding!Now /\ (SameList => ListInv')
<1>1. TableInv'
  BY DEF WalkInv, TableInv, IsTable
<1>2. Finding!Now' = Finding!Now
  BY DEF Finding!Now
<1>3. SameList => ListInv'
  BY <1>2 DEF WalkInv, ListInv, SameList
<1> QED
  BY <1>1, <1>2, <1>3

LEMMA WalkSent ==
  ASSUME SearchInv, WalkInv, NEW append, NEW cursor, NEW q \in Queries, Finding!Load(q, append, cursor),
         UNCHANGED <<rows, touched, sort>>, IsCursor(cursor), ~append => cursor = Finding!None,
         append => list.more /\ cursor = list.next
  PROVE  WalkInv'
<1> DEFINE r == [number |-> latest + 1, query |-> q, append |-> append, cursor |-> cursor, answer |-> <<>>]
<1>1. /\ latest' = latest + 1 /\ inflight' = inflight \cup {r} /\ list' = [list EXCEPT !.error = FALSE]
  BY DEF Finding!Load
<1>2. r.number = latest + 1 /\ r.append = append /\ r.cursor = cursor /\ r.answer = <<>>
  OBVIOUS
<1> HIDE DEF r
<1> DEFINE no == FALSE
<1>3. list' = [list EXCEPT !.error = no]
  BY <1>1
<1> HIDE DEF no
<1>4. SameList
  BY <1>3 DEF SearchInv, IsList, SameList
<1>5. TableInv' /\ ListInv' /\ Finding!Now' = Finding!Now
  BY <1>4, ListUnmoved
<1>6. AnswersInv'
  BY <1>1, <1>2, <1>5 DEF WalkInv, AnswersInv
<1>7. \A p \in inflight : p.number \in Int /\ p.number # latest + 1
  BY DEF SearchInv
<1>8. RequestsInv'
  BY <1>1, <1>2, <1>4, <1>7 DEF WalkInv, RequestsInv, SameList
<1> QED
  BY <1>5, <1>6, <1>8 DEF WalkInv

LEMMA WalkServed ==
  ASSUME SearchInv, WalkInv, NEW r \in inflight, Finding!Serve(r)
  PROVE  WalkInv'
<1> DEFINE a == Finding!Answer(r.query, r.cursor)
           answer == <<a>>
           s == [r EXCEPT !.answer = answer]
<1>1. inflight' = (inflight \ {r}) \cup {s} /\ UNCHANGED <<query, list, latest, rows, touched, sort>> /\ r.answer = <<>>
  BY DEF Finding!Serve
<1>2. answer[1] = a
  OBVIOUS
<1> HIDE DEF answer
<1>3. /\ s.number = r.number /\ s.query = r.query /\ s.append = r.append /\ s.cursor = r.cursor
      /\ s.answer = answer
  BY DEF SearchInv, IsSearch
<1> HIDE DEF s
<1>4. /\ Tells(rows, touched, sort, a.items, a.more, a.next, r.query, r.cursor, a.at)
      /\ a.at = Finding!Now
  BY AnswerTells DEF WalkInv, TableInv, RequestsInv
<1> HIDE DEF a
<1>5. SameList
  BY <1>1 DEF SameList
<1>6. TableInv' /\ ListInv' /\ Finding!Now' = Finding!Now
  BY <1>1, <1>5, ListUnmoved
<1>7. Finding!Now \in Nat /\ list.since <= Finding!Now
  BY NowIsLatest DEF WalkInv, TableInv, ListInv
<1>8. /\ Tells(rows, touched, sort, s.answer[1].items, s.answer[1].more, s.answer[1].next, s.query, s.cursor,
               s.answer[1].at)
      /\ s.answer[1].at <= Finding!Now /\ list.since <= s.answer[1].at
  BY <1>2, <1>3, <1>4, <1>7
<1>9. AnswersInv'
  BY <1>1, <1>6, <1>8 DEF WalkInv, AnswersInv
<1>10. RequestsInv'
  BY <1>1, <1>3, <1>8 DEF WalkInv, RequestsInv
<1> QED
  BY <1>6, <1>9, <1>10 DEF WalkInv

LEMMA WalkFailed ==
  ASSUME SearchInv, WalkInv, NEW r \in inflight, Finding!RequestFails(r)
  PROVE  WalkInv'
<1>1. inflight' = inflight \ {r} /\ UNCHANGED <<query, latest, rows, touched, sort>>
  BY DEF Finding!RequestFails
<1>2. SameList
  <2>1. CASE r.number # latest
    BY <2>1 DEF Finding!RequestFails, Finding!Current, SameList
  <2>2. CASE r.number = latest
    <3> DEFINE yes == TRUE
    <3>1. list' = [list EXCEPT !.error = yes]
      BY <2>2 DEF Finding!RequestFails, Finding!Current
    <3> HIDE DEF yes
    <3> QED
      BY <3>1 DEF SearchInv, IsList, SameList
  <2> QED
    BY <2>1, <2>2
<1>3. TableInv' /\ ListInv' /\ Finding!Now' = Finding!Now
  BY <1>1, <1>2, ListUnmoved
<1>4. AnswersInv' /\ RequestsInv'
  BY <1>1, <1>2, <1>3 DEF WalkInv, AnswersInv, RequestsInv, SameList
<1> QED
  BY <1>3, <1>4 DEF WalkInv

LEMMA WalkTouched ==
  ASSUME WalkInv, NEW e \in Events, NEW row, IsRow(row), Finding!Touch(e, row)
  PROVE  WalkInv'
<1>1. /\ rows' = [rows EXCEPT ![e] = row] /\ touched' = [touched EXCEPT ![e] = Finding!Now + 1]
      /\ UNCHANGED <<sort, list, latest, inflight>>
  BY DEF Finding!Touch
<1>2. Finding!Now \in Nat /\ \A d \in Events : touched[d] <= Finding!Now
  BY NowIsLatest DEF WalkInv, TableInv
<1>3. touched' \in [Events -> Nat] /\ touched'[e] = Finding!Now + 1
  BY <1>1, <1>2 DEF WalkInv, TableInv
<1>4. \A d \in Events : d # e => rows'[d] = rows[d] /\ touched'[d] = touched[d]
  BY <1>1 DEF WalkInv, TableInv, IsTable
<1>5. TableInv'
  <2>1. rows'[e] = row /\ rows' \in [Events -> {rows'[d] : d \in Events}]
    BY <1>1 DEF WalkInv, TableInv, IsTable
  <2> QED
    BY <1>3, <1>4, <2>1 DEF WalkInv, TableInv, IsTable
<1>6. Finding!Now' \in Nat /\ Finding!Now < Finding!Now'
  <2>1. Finding!Now' \in Nat /\ \A d \in Events : touched'[d] <= Finding!Now'
    BY <1>3, GreatestOf DEF Finding!Now
  <2> QED
    BY <1>2, <1>3, <2>1
<1>7. ASSUME NEW since \in Nat, since <= Finding!Now
      PROVE  \A d \in Events : touched'[d] <= since => rows'[d] = rows[d] /\ touched[d] <= since
  BY <1>2, <1>3, <1>4, <1>7
<1>8. ListInv'
  <2>1. list.since \in Nat /\ list.since <= Finding!Now
    BY DEF WalkInv, ListInv
  <2>2. ASSUME NEW q \in Queries, list.answers # <<>>, \A i \in 1 .. Len(list.answers) : list.answers[i] = q
        PROVE  Tells(rows', touched', sort, list.items, list.more, list.next, q, Finding!None, list.since)
    <3>1. Tells(rows, touched, sort, list.items, list.more, list.next, q, Finding!None, list.since)
      BY <2>2 DEF WalkInv, ListInv
    <3> QED
      BY <1>7, <2>1, <3>1, TellsStill
  <2>3. list.since <= Finding!Now'
    BY <1>2, <1>6, <2>1
  <2> QED
    BY <1>1, <2>1, <2>2, <2>3 DEF WalkInv, ListInv
<1>9. AnswersInv'
  <2> SUFFICES ASSUME NEW r \in inflight, r.answer # <<>>
               PROVE  /\ Tells(rows', touched', sort, r.answer[1].items, r.answer[1].more, r.answer[1].next,
                               r.query, r.cursor, r.answer[1].at)
                      /\ r.answer[1].at <= Finding!Now'
    BY <1>1 DEF AnswersInv
  <2> DEFINE a == r.answer[1]
  <2>1. /\ Tells(rows, touched, sort, a.items, a.more, a.next, r.query, r.cursor, a.at)
        /\ a.at <= Finding!Now
    BY DEF WalkInv, AnswersInv
  <2> HIDE DEF a
  <2>2. a.at \in Nat
    BY <2>1 DEF Tells
  <2>3. Tells(rows', touched', sort, a.items, a.more, a.next, r.query, r.cursor, a.at)
    BY <1>7, <2>1, <2>2, TellsStill
  <2>4. a.at <= Finding!Now'
    BY <1>2, <1>6, <2>1, <2>2
  <2> QED
    BY <2>3, <2>4 DEF a
<1>10. RequestsInv'
  BY <1>1 DEF WalkInv, RequestsInv
<1> QED
  BY <1>5, <1>8, <1>9, <1>10 DEF WalkInv

LEMMA WalkShown ==
  ASSUME SearchInv, WalkInv, NEW r \in inflight, r.answer # <<>>, r.number = latest,
         list' = Finding!Show(r), UNCHANGED <<rows, touched, sort>>
  PROVE  ListInv'
<1> DEFINE a == r.answer[1]
           appended == r.append /\ list.answers # <<>>
<1>1. /\ Tells(rows, touched, sort, a.items, a.more, a.next, r.query, r.cursor, a.at)
      /\ a.at <= Finding!Now
  BY DEF WalkInv, AnswersInv
<1>2. /\ list'.more = a.more /\ list'.next = a.next
      /\ list'.items = IF appended THEN list.items \o a.items ELSE a.items
      /\ list'.answers = IF appended THEN Append(list.answers, r.query) ELSE <<r.query>>
      /\ list'.since = IF appended THEN list.since ELSE a.at
  BY DEF Finding!Show
<1>3. r.append => list.more /\ r.cursor = list.next /\ list.since <= a.at /\ list.answers # <<>>
  BY DEF WalkInv, RequestsInv, ListInv
<1>4. ~r.append => r.cursor = Finding!None
  BY DEF WalkInv, RequestsInv
<1>5. r.query \in Queries /\ list.answers \in Seq(Queries)
  BY DEF SearchInv
<1>6. Finding!Now' = Finding!Now /\ touched \in [Events -> Nat] /\ list.since \in Nat /\ list.since <= Finding!Now
  BY ListUnmoved DEF WalkInv, TableInv, ListInv
<1> HIDE DEF a
<1>7. (a.more => IsMark(a.next)) /\ a.at \in Nat
  BY <1>1 DEF Tells
<1>8. CASE appended
  <2>1. /\ list'.items = list.items \o a.items /\ list'.answers = Append(list.answers, r.query)
        /\ list'.since = list.since /\ r.append
    BY <1>2, <1>8
  <2> HIDE DEF appended
  <2>2. list'.answers # <<>>
    BY <1>5, <2>1
  <2>3. ASSUME NEW q \in Queries, \A i \in 1 .. Len(list'.answers) : list'.answers[i] = q
        PROVE  q = r.query /\ \A i \in 1 .. Len(list.answers) : list.answers[i] = q
    <3>1. /\ Len(list'.answers) = Len(list.answers) + 1 /\ Len(list.answers) \in Nat
          /\ list'.answers[Len(list.answers) + 1] = r.query
          /\ \A i \in 1 .. Len(list.answers) : list'.answers[i] = list.answers[i]
      BY <1>5, <2>1
    <3> QED
      BY <2>3, <3>1
  <2>4. ASSUME NEW q \in Queries, \A i \in 1 .. Len(list'.answers) : list'.answers[i] = q
        PROVE  Tells(rows, touched, sort, list'.items, a.more, a.next, q, Finding!None, list.since)
    <3>1. q = r.query /\ Tells(rows, touched, sort, list.items, list.more, list.next, q, Finding!None, list.since)
      BY <1>3, <2>1, <2>3, <2>4 DEF WalkInv, ListInv
    <3>2. Tells(rows, touched, sort, a.items, a.more, a.next, q, list.next, a.at)
      BY <1>1, <1>3, <2>1, <3>1
    <3> QED
      BY <1>3, <1>6, <2>1, <3>1, <3>2, TellsBoth
  <2> QED
    BY <1>2, <1>6, <1>7, <2>1, <2>2, <2>4 DEF ListInv
<1>9. CASE ~appended
  <2>1. list'.items = a.items /\ list'.answers = <<r.query>> /\ list'.since = a.at /\ r.cursor = Finding!None
    BY <1>2, <1>3, <1>4, <1>9
  <2> HIDE DEF appended
  <2>2. ASSUME NEW q \in Queries, \A i \in 1 .. Len(list'.answers) : list'.answers[i] = q
        PROVE  q = r.query
    BY <2>1, <2>2
  <2>3. list'.answers # <<>>
    BY <2>1
  <2> QED
    BY <1>1, <1>2, <1>6, <1>7, <2>1, <2>2, <2>3 DEF ListInv
<1> QED
  BY <1>8, <1>9

LEMMA WalkArrived ==
  ASSUME SearchInv, WalkInv, NEW r \in inflight, Finding!Arrive(r)
  PROVE  WalkInv'
<1>1. inflight' = inflight \ {r} /\ UNCHANGED <<query, latest, rows, touched, sort>> /\ r.answer # <<>>
  BY DEF Finding!Arrive
<1>2. CASE r.number # latest
  <2>1. SameList
    BY <1>2 DEF Finding!Arrive, Finding!Current, SameList
  <2>2. TableInv' /\ ListInv' /\ Finding!Now' = Finding!Now
    BY <1>1, <2>1, ListUnmoved
  <2>3. AnswersInv' /\ RequestsInv'
    BY <1>1, <2>1, <2>2 DEF WalkInv, AnswersInv, RequestsInv, SameList
  <2> QED
    BY <2>2, <2>3 DEF WalkInv
<1>3. CASE r.number = latest
  <2>1. list' = Finding!Show(r)
    BY <1>3 DEF Finding!Arrive, Finding!Current
  <2>2. TableInv' /\ ListInv' /\ Finding!Now' = Finding!Now
    BY <1>1, <1>3, <2>1, ListUnmoved, WalkShown
  <2>3. \A s \in inflight \ {r} : s.number # latest
    BY <1>3 DEF WalkInv, RequestsInv
  <2>4. AnswersInv' /\ RequestsInv'
    BY <1>1, <2>2, <2>3 DEF WalkInv, AnswersInv, RequestsInv
  <2> QED
    BY <2>2, <2>4 DEF WalkInv
<1> QED
  BY <1>2, <1>3

LEMMA WalkStep ==
  ASSUME SearchInv, WalkInv, Finding!Next
  PROVE  WalkInv'
<1>1. ASSUME NEW q \in Queries, Finding!CommitQuery(q)
      PROVE  WalkInv'
  <2> DEFINE no == FALSE
  <2>1. /\ Finding!Load(q, no, Finding!None) /\ UNCHANGED <<rows, touched, sort>>
        /\ IsCursor(Finding!None) /\ ~no
    BY <1>1 DEF Finding!CommitQuery, IsCursor
  <2> HIDE DEF no
  <2> QED
    BY <2>1, WalkSent
<1>2. CASE Finding!LoadMore
  <2> DEFINE yes == TRUE
  <2>1. /\ Finding!Load(query, yes, list.next) /\ UNCHANGED <<rows, touched, sort>> /\ list.more /\ yes
    BY <1>2 DEF Finding!LoadMore
  <2>2. IsCursor(list.next) /\ query \in Queries
    BY <2>1 DEF WalkInv, ListInv, IsCursor, SearchInv
  <2> HIDE DEF yes
  <2> QED
    BY <2>1, <2>2, WalkSent
<1>3. CASE Finding!AssembleFeed
  <2>1. UNCHANGED <<rows, touched, sort, list, inflight, latest>>
    BY <1>3 DEF Finding!AssembleFeed
  <2>2. TableInv' /\ ListInv' /\ Finding!Now' = Finding!Now
    BY <2>1, ListUnmoved DEF SameList
  <2> QED
    BY <2>1, <2>2 DEF WalkInv, AnswersInv, RequestsInv
<1>4. ASSUME NEW e \in Events PROVE IsRow(rows[e])
  BY DEF WalkInv, TableInv, IsTable
<1>5. ASSUME NEW e \in Events, Finding!RankMoves(e) PROVE WalkInv'
  <2>1. PICK rank \in Ranks : Finding!Touch(e, [rows[e] EXCEPT !.rank = rank])
    BY <1>5 DEF Finding!RankMoves
  <2> DEFINE row == [rows[e] EXCEPT !.rank = rank]
  <2>2. IsRow(row)
    BY <1>4 DEF IsRow
  <2> HIDE DEF row
  <2> QED
    BY <2>1, <2>2, WalkTouched DEF row
<1>6. ASSUME NEW e \in Events, Finding!Edited(e) PROVE WalkInv'
  <2>1. PICK q \in Queries :
          Finding!Touch(e, [rows[e] EXCEPT !.meets = IF q \in @ THEN @ \ {q} ELSE @ \cup {q}])
    BY <1>6 DEF Finding!Edited
  <2> DEFINE meets == IF q \in rows[e].meets THEN rows[e].meets \ {q} ELSE rows[e].meets \cup {q}
             row == [rows[e] EXCEPT !.meets = meets]
  <2>2. Finding!Touch(e, row)
    BY <2>1
  <2> HIDE DEF meets
  <2>3. IsRow(row)
    BY <1>4 DEF IsRow
  <2> HIDE DEF row
  <2> QED
    BY <2>2, <2>3, WalkTouched
<1>7. ASSUME NEW e \in Events, Finding!PromotionChanges(e) PROVE WalkInv'
  <2> DEFINE other == ~rows[e].promoted
             row == [rows[e] EXCEPT !.promoted = other]
  <2>2. Finding!Touch(e, row)
    BY <1>7 DEF Finding!PromotionChanges
  <2> HIDE DEF other
  <2>3. IsRow(row)
    BY <1>4 DEF IsRow
  <2> HIDE DEF row
  <2> QED
    BY <2>2, <2>3, WalkTouched
<1>8. ASSUME NEW e \in Events, Finding!HostLimited(e) PROVE WalkInv'
  <2> DEFINE yes == TRUE
             row == [rows[e] EXCEPT !.limited = yes]
  <2>2. Finding!Touch(e, row)
    BY <1>8 DEF Finding!HostLimited
  <2> HIDE DEF yes
  <2>3. IsRow(row)
    BY <1>4 DEF IsRow
  <2> HIDE DEF row
  <2> QED
    BY <2>2, <2>3, WalkTouched
<1> QED
  BY <1>1, <1>2, <1>3, <1>5, <1>6, <1>7, <1>8, WalkServed, WalkArrived, WalkFailed DEF Finding!Next

\* What the invariant says of a walk.
LEMMA WalkShows ==
  ASSUME SearchInv, WalkInv PROVE Finding!WalkShowsEveryEventOnce
<1> SUFFICES ASSUME Finding!OneQuery, NEW e \in Events, Finding!Untouched(e)
             PROVE  LET belongs == Finding!Last(list.answers) \in rows[e].meets IN
                    /\ Finding!Times(e) <= IF belongs THEN 1 ELSE 0
                    /\ (~list.more /\ sort # "newest" /\ belongs) => Finding!Times(e) = 1
  BY DEF Finding!WalkShowsEveryEventOnce
<1> DEFINE A == {list.answers[i] : i \in 1 .. Len(list.answers)}
           q == Finding!Last(list.answers)
           n == Finding!Times(e)
<1>1. list.answers \in Seq(Queries) /\ Len(list.answers) \in Nat /\ DOMAIN list.answers = 1 .. Len(list.answers)
  BY DEF SearchInv
<1>2. Finding!Cardinality(A) = 1
  BY <1>1 DEF Finding!OneQuery, Finding!ToSet
<1>3. Cardinality(A) = 1
  BY <1>2, SameCount
<1>4. IsFiniteSet(A)
  <2> DEFINE f == [i \in 1 .. Len(list.answers) |-> list.answers[i]]
  <2>1. f \in Surjection(1 .. Len(list.answers), A)
    BY DEF Surjection
  <2>2. IsFiniteSet(1 .. Len(list.answers))
    BY <1>1, FS_Interval
  <2> QED
    BY <2>1, <2>2, FS_Surjection
<1>5. PICK x : A = {x}
  BY <1>3, <1>4, FS_Singleton
<1>6. \A i \in 1 .. Len(list.answers) : list.answers[i] = x
  BY <1>5
<1>7. Len(list.answers) > 0
  BY <1>1, <1>5
<1>8. q = x /\ x \in Queries /\ list.answers # <<>>
  BY <1>1, <1>6, <1>7 DEF Finding!Last
<1>9. Tells(rows, touched, sort, list.items, list.more, list.next, x, Finding!None, list.since)
  BY <1>6, <1>8 DEF WalkInv, ListInv
<1>10. Told(rows, sort, list.items, list.more, list.next, x, Finding!None, e)
  BY <1>9 DEF Tells, Finding!Untouched
<1>11. n = Often(list.items, e)
  BY SameCount DEF Finding!Times, Often
<1>12. Past(rows, sort, e, Finding!None)
  BY DEF Past
<1> HIDE DEF n, q
<1> DEFINE belongs == x \in rows[e].meets
<1>13. n \in {0, 1} /\ (n = 1 => belongs) /\ ((n = 0 /\ sort # "newest" /\ belongs) => list.more)
  BY <1>10, <1>11, <1>12 DEF Told
<1> HIDE DEF belongs
<1>14. /\ n <= IF belongs THEN 1 ELSE 0
       /\ (~list.more /\ sort # "newest" /\ belongs) => n = 1
  BY <1>13
<1> QED
  BY <1>8, <1>14 DEF n, q, belongs

-----------------------------------------------------------------------------
(* The home feed *)

LEMMA ScoreLists ==
  ASSUME IsTable, NEW S \in SUBSET Events
  PROVE  Lists(Finding!ByScore(S), S)
<1> DEFINE before(a, b) == rows[a].rank > rows[b].rank \/ (rows[a].rank = rows[b].rank /\ a < b)
           below == [e \in S |-> {d \in S : before(d, e)}]
           at(k) == CHOOSE e \in S : Finding!Cardinality({d \in S : before(d, e)}) = k - 1
           o == Finding!ByScore(S)
           down == TRUE
<1>1. o = [k \in 1 .. Cardinality(S) |-> at(k)]
  <2>1. o = [k \in 1 .. Finding!Cardinality(S) |-> at(k)]
    BY DEF Finding!ByScore, Finding!InOrder
  <2> HIDE DEF at, o
  <2> QED
    BY <2>1, SameCount
<1>2. \A a, b \in S : a \in below[b] <=>
        IF rows[a].rank = rows[b].rank THEN a < b
        ELSE IF down THEN rows[a].rank > rows[b].rank ELSE rows[a].rank < rows[b].rank
  <2>1. \A a, b \in S : a \in below[b] <=> before(a, b)
    <3> HIDE DEF before
    <3> QED
      OBVIOUS
  <2>2. \A a \in S : rows[a].rank \in Nat /\ a \in Nat
    BY RankType
  <2> HIDE DEF below
  <2> QED
    BY <2>1, <2>2
<1> HIDE DEF before
<1>3. ASSUME NEW k \in 1 .. Cardinality(S), NEW e \in S, Cardinality(below[e]) = k - 1
      PROVE  at(k) \in S /\ Cardinality(below[at(k)]) = k - 1
  <2>1. Finding!Cardinality({d \in S : before(d, e)}) = k - 1
    BY <1>3, SameCount
  <2>2. at(k) \in S /\ Finding!Cardinality({d \in S : before(d, at(k))}) = k - 1
    BY <2>1
  <2> HIDE DEF at
  <2> QED
    BY <2>2, SameCount
<1>4. below \in [S -> SUBSET S] /\ down \in BOOLEAN
  OBVIOUS
<1> HIDE DEF below, at, o, down
<1>5. Ordering(S, below)
  BY <1>2, <1>4, RankOrders
<1>6. DOMAIN o = 1 .. Cardinality(S) /\ o = [k \in DOMAIN o |-> o[k]]
  BY <1>1
<1>7. \A k \in 1 .. Cardinality(S) : o[k] = at(k)
  BY <1>1
<1>8. \A k \in 1 .. Cardinality(S) :
        (\E e \in S : Cardinality(below[e]) = k - 1) => o[k] \in S /\ Cardinality(below[o[k]]) = k - 1
  BY <1>3, <1>7
<1>9. Lists(o, S)
  BY <1>5, <1>6, <1>8, ByPlace
<1> QED
  BY <1>9 DEF o

\* What a module of the feed may show: the earliest events of hosts that are not limited, where they
\* meet what it asks for.
Eligible(R) == {e \in Events : ~R[e].limited}
ModuleOf(R, m) ==
  {e \in Eligible(R) : Cardinality({d \in Eligible(R) : d < e}) < PoolSize /\ m \in R[e].meets}

LEMMA PoolIs ==
  ASSUME NEW m
  PROVE  {e \in Finding!Pool : m \in rows[e].meets} = ModuleOf(rows, m)
<1> DEFINE E == Eligible(rows)
           o == InNumber(E)
           s == Finding!Some(o, PoolSize)
<1>1. E \in SUBSET Nat /\ IsFiniteSet(E)
  BY SmallPages, FS_Subset DEF Eligible
<1>2. Finding!Pool = Finding!ToSet(s)
  BY DEF Finding!Pool, Finding!InOrder, InNumber, Eligible
<1> HIDE DEF E
<1>3. /\ Lists(o, E) /\ \A i \in 1 .. Len(o) : Cardinality({d \in E : d < o[i]}) = i - 1
  BY <1>1, NumbersListed
<1> DEFINE k == IF Len(o) < PoolSize THEN Len(o) ELSE PoolSize
<1>4. /\ k \in 0 .. Len(o) /\ Lists(s, Cut(o, 1, k))
  BY <1>3, SmallPages, FirstSome
<1> HIDE DEF o, s
<1>5. Finding!Pool = Cut(o, 1, k)
  BY <1>2, <1>4, ListsOfSeq DEF Finding!ToSet
<1>6. Len(o) \in Nat /\ PoolSize \in Nat
  BY <1>3, SmallPages DEF Lists
<1>7. ASSUME NEW e \in Cut(o, 1, k)
      PROVE  e \in E /\ Cardinality({d \in E : d < e}) < PoolSize
  <2>1. PICK i \in 1 .. k : e = o[i]
    BY DEF Cut
  <2>2. i \in 1 .. Len(o) /\ i - 1 < PoolSize
    BY <1>4, <1>6
  <2> QED
    BY <1>3, <2>1, <2>2 DEF Lists
<1>8. ASSUME NEW e \in E, Cardinality({d \in E : d < e}) < PoolSize
      PROVE  e \in Cut(o, 1, k)
  <2>1. PICK i \in 1 .. Len(o) : e = o[i]
    BY <1>3 DEF Lists
  <2>2. i - 1 < PoolSize
    BY <1>3, <1>8, <2>1
  <2>3. i \in 1 .. k
    BY <1>6, <2>2
  <2> QED
    BY <2>1, <2>3 DEF Cut
<1> HIDE DEF k
<1> QED
  BY <1>5, <1>7, <1>8 DEF ModuleOf, E

\* The share of the promoted, of a size.
LEMMA FewBoosted ==
  LET b == Finding!MaxBoosted(Limit) IN b \in Nat /\ 100 * b <= (100 - MinNatural) * Limit
<1> DEFINE x == Limit * MinNatural
           y == (x + 99) \div 100
<1>1. Limit \in Nat /\ MinNatural \in 0 .. 100
  BY SmallPages
<1>2. x \in Nat /\ x <= 100 * Limit /\ (100 - MinNatural) * Limit = 100 * Limit - x
  BY <1>1
<1> HIDE DEF x
<1>3. y \in Nat /\ 100 * y >= x /\ 100 * y <= x + 99
  BY <1>2
<1> HIDE DEF y
<1>4. Limit - y \in Nat /\ 100 * (Limit - y) <= 100 * Limit - x
  BY <1>1, <1>2, <1>3
<1> QED
  BY <1>2, <1>4 DEF x, y, Finding!MaxBoosted

\* Among the entries that keep to a share, no more than it are promoted.
LEMMA KeptFew ==
  ASSUME NEW s, NEW S, Lists(s, S), NEW b \in Nat
  PROVE  LET K == {s[i] : i \in Finding!WithinShare(s, b)}
             P == {e \in K : rows[e].promoted}
         IN IsFiniteSet(P) /\ Cardinality(P) <= b
<1> DEFINE W == Finding!WithinShare(s, b)
           boosted(i) == rows[s[i]].promoted
           upto(i) == {j \in 1 .. i : boosted(j)}
           I == {i \in W : boosted(i)}
           P == {e \in {s[i] : i \in W} : rows[e].promoted}
           g == [i \in I |-> Cardinality(upto(i))]
           h == [i \in I |-> s[i]]
<1>1. Len(s) \in Nat /\ DOMAIN s = 1 .. Len(s)
  BY DEF Lists
<1>2. I \in SUBSET (1 .. Len(s)) /\ \A i \in I : Finding!Cardinality(upto(i)) <= b
  BY <1>1 DEF Finding!WithinShare, Finding!Natural, Finding!Promoted
<1>3. \A i \in I : boosted(i) /\ Cardinality(upto(i)) <= b
  BY <1>2, SameCount
<1>4. h \in Surjection(I, P)
  BY DEF Surjection
<1> HIDE DEF W, I, P, boosted
<1>5. ASSUME NEW i \in I
      PROVE  /\ IsFiniteSet(upto(i)) /\ Cardinality(upto(i)) \in 1 .. b
             /\ i \in upto(i)
  <2>1. i \in 1 .. Len(s) /\ i \in Nat
    BY <1>1, <1>2
  <2>2. IsFiniteSet(1 .. i)
    BY <2>1, FS_Interval
  <2>3. IsFiniteSet(upto(i))
    BY <2>2, FS_Subset
  <2>4. i \in upto(i)
    <3>1. i \in 1 .. i
      BY <2>1
    <3> QED
      BY <1>3, <3>1, Zenon
  <2>5. Cardinality(upto(i)) \in Nat /\ Cardinality(upto(i)) # 0
    <3> HIDE DEF upto
    <3> QED
      BY <2>3, <2>4, FS_CardinalityType, FS_EmptySet
  <2> QED
    BY <1>3, <2>3, <2>4, <2>5
<1>6. ASSUME NEW i \in I, NEW j \in I, i < j
      PROVE  Cardinality(upto(i)) # Cardinality(upto(j))
  <2>1. i \in Int /\ j \in Int
    BY <1>1, <1>2
  <2>2. upto(i) \in SUBSET upto(j) /\ j \notin upto(i)
    BY <1>6, <2>1
  <2>3. j \in upto(j) /\ IsFiniteSet(upto(j))
    BY <1>5
  <2> HIDE DEF upto
  <2> QED
    BY <2>2, <2>3, FS_Subset
<1> HIDE DEF upto
<1>7. g \in Injection(I, 1 .. b)
  <2>1. \A i, j \in I : i \in Int /\ j \in Int
    BY <1>1, <1>2
  <2>2. \A i, j \in I : g[i] = g[j] => i = j
    BY <1>6, <2>1
  <2>3. g \in [I -> 1 .. b]
    BY <1>5
  <2> QED
    BY <2>2, <2>3 DEF Injection, IsInjective
<1>8. IsFiniteSet(1 .. b) /\ Cardinality(1 .. b) = b
  BY FS_Interval
<1>9. IsFiniteSet(I) /\ Cardinality(I) <= b
  BY <1>7, <1>8, FS_Injection
<1>10. IsFiniteSet(P) /\ Cardinality(P) <= Cardinality(I)
  BY <1>4, <1>9, FS_Surjection
<1>11. IsFiniteSet(P) /\ Cardinality(P) <= b
  BY <1>9, <1>10, FS_CardinalityType
<1> QED
  BY <1>11 DEF P, W

\* A module that keeps to the conditions: nobody limited, and an organic event gives way only where
\* the promoted ones keep to their share.
Organic(R, s, m) ==
  LET shown == {s[i] : i \in DOMAIN s} IN
  /\ \A e \in shown : ~R[e].limited /\ m \in R[e].meets
  /\ 100 * Cardinality({e \in shown : R[e].promoted}) > (100 - MinNatural) * Limit =>
       \A e \in ModuleOf(R, m) : ~R[e].promoted => e \in shown

LEMMA AssembledOrganic ==
  ASSUME IsTable, NEW m
  PROVE  Organic(rows, Finding!ApplyOrganicFloor(Finding!InModule(m), Limit), m)
<1> DEFINE M == ModuleOf(rows, m)
           members == Finding!InModule(m)
           b == Finding!MaxBoosted(Limit)
           kept == Finding!WithinShare(members, b)
           others == DOMAIN members \ kept
           first == Finding!At(members, kept)
           rest == Finding!At(members, others)
           K == {members[i] : i \in kept}
           O == {members[i] : i \in others}
           u == first \o rest
           s == Finding!Some(u, Limit)
           shown == {s[i] : i \in DOMAIN s}
           k == IF Len(u) < Limit THEN Len(u) ELSE Limit
<1>1. Limit \in Nat \ {0}
  BY SmallPages
<1>2. Finding!ApplyOrganicFloor(members, Limit) = s
  BY DEF Finding!ApplyOrganicFloor
<1>3. M \in SUBSET Events /\ \A e \in M : ~rows[e].limited /\ m \in rows[e].meets
  BY DEF ModuleOf, Eligible
<1>4. Lists(members, M)
  <2>1. members = Finding!ByScore(M)
    BY PoolIs DEF Finding!InModule
  <2> HIDE DEF M, members
  <2> QED
    BY <1>3, <2>1, ScoreLists
<1>5. b \in Nat /\ 100 * b <= (100 - MinNatural) * Limit
  BY FewBoosted
<1>6. \A i \in DOMAIN members : ~rows[members[i]].promoted => i \in kept
  BY DEF Finding!WithinShare, Finding!Natural
<1>7. kept \in SUBSET DOMAIN members
  BY DEF Finding!WithinShare
<1> HIDE DEF M, members
<1>8. IsFiniteSet({e \in K : rows[e].promoted}) /\ Cardinality({e \in K : rows[e].promoted}) <= b
  <2> HIDE DEF b
  <2> QED
    BY <1>4, <1>5, KeptFew
<1> HIDE DEF b, kept
<1>9. /\ DOMAIN members = 1 .. Len(members) /\ members \in [1 .. Len(members) -> M]
      /\ \A i, j \in 1 .. Len(members) : members[i] = members[j] => i = j
      /\ \A e \in M : \E i \in 1 .. Len(members) : members[i] = e
  BY <1>4 DEF Lists
<1>10. kept \in SUBSET (1 .. Len(members)) /\ others \in SUBSET (1 .. Len(members))
  BY <1>7, <1>9
<1>11. K \cup O = M /\ K \cap O = {}
  BY <1>7, <1>9
<1> HIDE DEF others
<1>12. Lists(first, K) /\ Lists(rest, O)
  BY <1>4, <1>10, Picked
<1> HIDE DEF first, rest
<1>13. \A e \in M : ~rows[e].promoted => e \in K
  BY <1>6, <1>9
<1> HIDE DEF K, O
<1>14. Lists(u, M)
  BY <1>11, <1>12, Both
<1>15. /\ first \in Seq(M) /\ rest \in Seq(M) /\ Len(first) \in Nat
       /\ first \in [1 .. Len(first) -> K]
  BY <1>11, <1>12, ListsOfSeq, SeqMonotonic DEF Lists
<1>16. /\ Len(u) = Len(first) + Len(rest) /\ Len(rest) \in Nat
       /\ \A i \in 1 .. Len(first) : i \in 1 .. Len(first) + Len(rest) /\ u[i] = first[i]
  <2>1. /\ Len(u) = Len(first) + Len(rest) /\ Len(rest) \in Nat
        /\ \A i \in 1 .. Len(first) + Len(rest) : u[i] = IF i <= Len(first) THEN first[i] ELSE rest[i - Len(first)]
    BY <1>15, ConcatProperties, LenProperties
  <2> HIDE DEF u
  <2> QED
    BY <1>15, <2>1
<1> HIDE DEF u
<1>17. k \in 0 .. Len(u) /\ Lists(s, Cut(u, 1, k))
  BY <1>1, <1>14, FirstSome
<1> HIDE DEF s
<1>18. shown = Cut(u, 1, k) /\ shown \subseteq M
  <2>1. shown = Cut(u, 1, k)
    BY <1>17, ListsOfSeq
  <2>2. Cut(u, 1, k) \subseteq M
    BY <1>14, <1>17 DEF Cut, Lists
  <2> QED
    BY <2>1, <2>2
<1> HIDE DEF shown
<1>19. ASSUME NEW e \in M, ~rows[e].promoted, e \notin shown
       PROVE  ~(100 * Cardinality({d \in shown : rows[d].promoted}) > (100 - MinNatural) * Limit)
  <2>1. PICK j \in 1 .. Len(first) : first[j] = e
    BY <1>12, <1>13, <1>19 DEF Lists
  <2>2. u[j] = e /\ j \in 1 .. Len(u)
    BY <1>16, <2>1
  <2>3. j \notin 1 .. k
    BY <1>18, <1>19, <2>2 DEF Cut
  <2>4. k = Limit /\ Limit <= Len(first)
    BY <1>1, <1>15, <1>16, <2>1, <2>2, <2>3
  <2>5. shown \subseteq K
    <3> SUFFICES ASSUME NEW i \in 1 .. k PROVE u[i] \in K
      BY <1>18 DEF Cut
    <3>1. i \in 1 .. Len(first)
      BY <1>1, <1>15, <2>4
    <3> QED
      BY <1>15, <1>16, <3>1
  <2> DEFINE P == {d \in shown : rows[d].promoted}
             Q == {d \in K : rows[d].promoted}
  <2>6. P \in SUBSET Q
    BY <2>5
  <2> HIDE DEF P
  <2>7. IsFiniteSet(P) /\ Cardinality(P) <= Cardinality(Q)
    BY <1>8, <2>6, FS_Subset
  <2>8. Cardinality(P) \in Nat /\ Cardinality(Q) \in Nat
    BY <1>8, <2>7, FS_CardinalityType
  <2>9. 100 * Cardinality(P) <= 100 * b
    BY <1>5, <1>8, <2>7, <2>8
  <2> DEFINE most == (100 - MinNatural) * Limit
  <2>10. 100 * b <= most /\ most \in Int
    BY <1>1, <1>5, SmallPages
  <2> HIDE DEF most
  <2>11. ~(100 * Cardinality(P) > most)
    BY <1>5, <2>8, <2>9, <2>10
  <2> QED
    BY <2>11 DEF P, most
<1>20. Organic(rows, s, m)
  <2>1. \A e \in shown : ~rows[e].limited /\ m \in rows[e].meets
    BY <1>3, <1>18
  <2>2. 100 * Cardinality({e \in shown : rows[e].promoted}) > (100 - MinNatural) * Limit =>
          \A e \in M : ~rows[e].promoted => e \in shown
    BY <1>19
  <2> QED
    BY <2>1, <2>2 DEF Organic, shown, M
<1> QED
  BY <1>2, <1>20 DEF members

\* A feed stays as it was made until an event changes, and then it is gone.
FeedInv == \A m \in Queries : Organic(rows, feed[m], m)

LEMMA NothingOrganic ==
  ASSUME NEW R, NEW m PROVE Organic(R, <<>>, m)
<1>1. {(<<>>)[i] : i \in DOMAIN <<>>} = {}
  OBVIOUS
<1>2. Cardinality({}) = 0 /\ (100 - MinNatural) * Limit >= 0
  <2>1. 100 - MinNatural \in Nat /\ Limit \in Nat
    BY SmallPages
  <2>2. \A x, y \in Nat : x * y >= 0
    OBVIOUS
  <2> QED
    BY <2>1, <2>2, FS_EmptySet
<1> DEFINE shown == {(<<>>)[i] : i \in DOMAIN <<>>}
<1>3. {e \in shown : R[e].promoted} = {}
  BY <1>1
<1>4. ~(100 * Cardinality({e \in shown : R[e].promoted}) > (100 - MinNatural) * Limit)
  <2> DEFINE most == (100 - MinNatural) * Limit
  <2> HIDE DEF most, shown
  <2>1. Cardinality({e \in shown : R[e].promoted}) = 0
    BY <1>2, <1>3
  <2>2. most \in Int
    BY SmallPages DEF most
  <2>3. most >= 0
    BY <1>2 DEF most
  <2>4. ~(100 * Cardinality({e \in shown : R[e].promoted}) > most)
    BY <2>1, <2>2, <2>3
  <2> QED
    BY <2>4 DEF most
<1> QED
  BY <1>1, <1>4 DEF Organic

LEMMA FeedStep ==
  ASSUME WalkInv, FeedInv, Finding!Next
  PROVE  FeedInv'
<1>1. CASE UNCHANGED <<rows, feed>>
  BY <1>1 DEF FeedInv
<1>2. ASSUME NEW e \in Events, NEW row, Finding!Touch(e, row)
      PROVE  FeedInv'
  BY <1>2, NothingOrganic DEF Finding!Touch, FeedInv
<1>3. CASE Finding!AssembleFeed
  <2>1. /\ feed' = [m \in Queries |-> Finding!ApplyOrganicFloor(Finding!InModule(m), Limit)]
        /\ rows' = rows
    BY <1>3 DEF Finding!AssembleFeed
  <2>2. \A m \in Queries : Organic(rows, feed'[m], m)
    BY <2>1, AssembledOrganic DEF WalkInv, TableInv
  <2> QED
    BY <2>1, <2>2 DEF FeedInv
<1>4. CASE \/ \E q \in Queries : Finding!CommitQuery(q)
           \/ Finding!LoadMore
           \/ \E r \in inflight : Finding!Serve(r) \/ Finding!Arrive(r) \/ Finding!RequestFails(r)
  BY <1>1, <1>4 DEF Finding!CommitQuery, Finding!LoadMore, Finding!Serve, Finding!Arrive, Finding!RequestFails
<1> QED
  BY <1>2, <1>3, <1>4
  DEF Finding!Next, Finding!RankMoves, Finding!Edited, Finding!PromotionChanges, Finding!HostLimited

LEMMA FeedStays ==
  ASSUME WalkInv, FeedInv PROVE Finding!FeedStaysOrganic
<1> SUFFICES ASSUME NEW m \in Queries
             PROVE  LET shown == Finding!ToSet(feed[m]) IN
                    /\ \A e \in shown : ~rows[e].limited /\ m \in rows[e].meets
                    /\ 100 * Finding!Cardinality({e \in shown : Finding!Promoted(e)}) > (100 - MinNatural) * Limit =>
                         \A e \in Finding!ToSet(Finding!InModule(m)) : Finding!Natural(e) => e \in shown
  BY DEF Finding!FeedStaysOrganic
<1> DEFINE shown == {feed[m][i] : i \in DOMAIN feed[m]}
<1>1. Organic(rows, feed[m], m)
  BY DEF FeedInv
<1>2. Finding!ToSet(feed[m]) = shown
  BY DEF Finding!ToSet
<1>3. Finding!ToSet(Finding!InModule(m)) = ModuleOf(rows, m)
  <2> DEFINE M == ModuleOf(rows, m)
  <2>1. M \in SUBSET Events
    BY DEF ModuleOf, Eligible
  <2>2. Finding!InModule(m) = Finding!ByScore(M)
    BY PoolIs DEF Finding!InModule
  <2> HIDE DEF M
  <2>3. Lists(Finding!InModule(m), M)
    BY <2>1, <2>2, ScoreLists DEF WalkInv, TableInv
  <2> QED
    BY <2>3, ListsOfSeq DEF Finding!ToSet, M
<1>4. Finding!Cardinality({e \in shown : Finding!Promoted(e)}) = Cardinality({e \in shown : rows[e].promoted})
  BY SameCount DEF Finding!Promoted
<1> QED
  BY <1>1, <1>2, <1>3, <1>4 DEF Organic, Finding!Natural

\* Whatever changes between the pages of a search, and however late an answer arrives, a walk shows
\* every event that stays as it is once, the list answers what the address asks for, and the modules
\* of the home feed stay organic.
THEOREM FoundAlwaysWell ==
  PagesSpec => []FoundWell
<1> DEFINE Inv == SearchInv /\ WalkInv /\ FeedInv
<1>1. PagesInit => Inv
  <2> SUFFICES ASSUME Finding!Init PROVE Inv
    BY DEF PagesInit
  <2>1. feed = [m \in Queries |-> <<>>]
    BY DEF Finding!Init
  <2>2. FeedInv
    BY <2>1, NothingOrganic DEF FeedInv
  <2> QED
    BY <2>2, SmallPages, SearchBegins, WalkBegins
<1>2. Inv /\ [PagesNext]_(pagesVars) => Inv'
  <2> SUFFICES ASSUME Inv, [PagesNext]_(pagesVars)
               PROVE  Inv'
    OBVIOUS
  <2>1. CASE UNCHANGED findPart
    <3>1. UNCHANGED <<rows, touched, sort, query, list, latest, inflight, feed>>
      BY <2>1 DEF findPart
    <3>2. TableInv' /\ ListInv' /\ Finding!Now' = Finding!Now
      BY <3>1, ListUnmoved DEF SameList
    <3> QED
      BY <3>1, <3>2 DEF SearchInv, WalkInv, AnswersInv, RequestsInv, FeedInv
  <2>2. CASE Finding!Next
    BY <2>2, SearchStep, WalkStep, FeedStep
  <2> QED
    BY <2>1, <2>2 DEF PagesNext, pagesVars
<1>3. Inv => FoundWell
  <2> SUFFICES ASSUME Inv PROVE Finding!FoundWell
    BY DEF FoundWell
  <2>1. Finding!ListAnswersTheAddress
    BY DEF SearchInv, Finding!ListAnswersTheAddress, Finding!Last
  <2> QED
    BY <2>1, WalkShows, FeedStays DEF Finding!FoundWell
<1> QED
  BY <1>1, <1>2, <1>3, PTL DEF PagesSpec

-----------------------------------------------------------------------------
(* The itinerary *)

Facts == [version : Nat, status : {"none", "offered", "confirmed", "lapsed"}]

Stages == {"sent", "served", "failed"}

Loads == [kind : {"load"}, number : Nat, user : {Owner, Other}, stage : Stages, answer : Facts,
          critical : BOOLEAN, generation : Nat]

ListPages == [shown : Facts, owner : {Owner, Other}, noticed : Nat, generation : Nat, critical : Nat,
              refreshing : BOOLEAN]

\* A call of the card; an acceptance carries the version its dialog showed.
IsCardCall(c) ==
  /\ c = [kind |-> c.kind, number |-> c.number, user |-> c.user, stage |-> c.stage, answer |-> c.answer,
          card |-> c.card, body |-> c.body]
  /\ c.kind \in {"quote", "accept"}
  /\ c.kind = "accept" => c.body.version = c.body.shown

MyLoads == {c \in myCalls : c.kind = "load"}

\* What is shown is not ahead of the server, and the answer of the load that may still be shown is
\* not behind what is shown.
LoadsInv ==
  /\ mySession \in [user : {Owner, Other}, number : Nat]
  /\ facts \in Facts
  /\ myPage \in ListPages /\ myPage.shown.version <= facts.version
  /\ \A c \in myCalls : c.kind # "load" => IsCardCall(c)
  /\ \A c \in MyLoads :
       /\ c \in Loads /\ c.generation <= myPage.generation /\ c.answer.version <= facts.version
       /\ c.stage = "served" /\ c.generation = myPage.generation => myPage.shown.version <= c.answer.version
       /\ \A d \in MyLoads : d.generation = c.generation => d = c

\* The offer is there to be accepted until it was.
OfferInv ==
  /\ \A r \in accepted : r.version = r.shown
  /\ facts.status = "offered" => accepted = {}
  /\ accepted = {} \/ \E r : accepted = {r}

ItineraryInv == LoadsInv /\ OfferInv

LEMMA ItineraryBegins ==
  ASSUME Following!Init PROVE ItineraryInv
<1>1. /\ mySession \in [user : {Owner, Other}, number : Nat] /\ facts \in Facts /\ myPage.generation = 1
      /\ myPage.shown = Following!Nothing /\ Following!Nothing \in Facts
  BY DEF Following!Init, Following!Nothing, Facts
<1> DEFINE load == Following!Load(FALSE, 1)
<1>2. /\ load \in Loads /\ load.generation = 1 /\ load.answer = Following!Nothing
      /\ load.stage = "sent" /\ load.kind = "load"
  BY <1>1 DEF Following!Load, Loads, Stages
<1>3. myCalls = {load} /\ facts.version = 1
  BY DEF Following!Init
<1>5. myPage \in ListPages
  BY <1>1 DEF Following!Init, ListPages
<1> HIDE DEF load
<1>6. MyLoads = {load} /\ Following!Nothing.version = 0
  BY <1>2, <1>3 DEF MyLoads, Following!Nothing
<1>7. LoadsInv
  BY <1>1, <1>2, <1>3, <1>5, <1>6 DEF LoadsInv, ListPages
<1>4. OfferInv
  BY DEF Following!Init, OfferInv
<1> QED
  BY <1>4, <1>7 DEF ItineraryInv

\* Calls that are no load change nothing for the loads.
LEMMA OtherCalls ==
  ASSUME ItineraryInv, UNCHANGED <<mySession, facts, accepted, myPage>>,
         \A c \in myCalls' : c \in myCalls \/ IsCardCall(c)
  PROVE  ItineraryInv'
<1>1. MyLoads' \subseteq MyLoads
  BY DEF MyLoads, IsCardCall
<1>2. LoadsInv'
  BY <1>1 DEF ItineraryInv, LoadsInv, ListPages, MyLoads, IsCardCall
<1> QED
  BY <1>2 DEF ItineraryInv, OfferInv

\* A load begins under a new number.
LEMMA LoadBegins ==
  ASSUME ItineraryInv, NEW p, NEW critical \in BOOLEAN, NEW refresh, NEW others \in SUBSET myCalls,
         Following!Begin(p, critical, refresh, others), UNCHANGED <<mySession, facts, accepted>>,
         p \in ListPages, refresh \in BOOLEAN, p.generation >= myPage.generation, p.shown \in {myPage.shown, Following!Nothing}
  PROVE  ItineraryInv'
<1> DEFINE load == Following!Load(critical, p.generation + 1)
<1>1. load \in Loads /\ load.generation = p.generation + 1 /\ load.stage = "sent" /\ load.answer.version = 0
      /\ load.kind = "load"
  BY DEF Following!Load, Following!Nothing, ItineraryInv, LoadsInv, ListPages, Loads, Facts, Stages
<1>2. /\ myPage'.shown = p.shown /\ myPage'.generation = p.generation + 1 /\ myCalls' = others \cup {load}
      /\ myPage' \in ListPages
  <2> DEFINE spins == p.refreshing \/ refresh
             awaited == IF critical THEN p.generation + 1 ELSE p.critical
  <2>1. spins \in BOOLEAN /\ awaited \in Nat /\ p.generation + 1 \in Nat
    BY DEF ListPages
  <2>2. /\ myPage' = [p EXCEPT !.generation = p.generation + 1, !.owner = mySession.user, !.critical = awaited,
                               !.refreshing = spins]
        /\ myCalls' = others \cup {load}
    BY DEF Following!Begin
  <2>3. mySession.user \in {Owner, Other}
    BY DEF ItineraryInv, LoadsInv
  <2> HIDE DEF spins, awaited, load
  <2>4. myPage' \in ListPages
    BY <2>1, <2>2, <2>3 DEF ListPages
  <2>5. myPage'.shown = p.shown /\ myPage'.generation = p.generation + 1
    BY <2>2 DEF ListPages
  <2> QED
    BY <2>2, <2>4, <2>5
<1>3. p.shown \in Facts /\ p.shown.version <= facts.version
  BY DEF ItineraryInv, LoadsInv, ListPages, Facts, Following!Nothing
<1>4. MyLoads' \subseteq MyLoads \cup {load}
  BY <1>2 DEF MyLoads
<1>5. ASSUME NEW c \in MyLoads'
      PROVE  /\ c \in Loads /\ c.generation <= myPage'.generation /\ c.answer.version <= facts'.version
             /\ c.stage = "served" /\ c.generation = myPage'.generation => myPage'.shown.version <= c.answer.version
             /\ \A d \in MyLoads' : d.generation = c.generation => d = c
  <2> HIDE DEF load
  <2>1. \A d \in MyLoads : d \in Loads /\ d.generation \in Nat /\ d.generation < p.generation + 1
    BY DEF ItineraryInv, LoadsInv, ListPages, Loads
  <2>2. CASE c = load
    BY <1>1, <1>2, <1>4, <2>1, <2>2 DEF ItineraryInv, LoadsInv, ListPages, Facts
  <2>3. CASE c \in MyLoads
    BY <1>1, <1>2, <1>4, <2>1, <2>3 DEF ItineraryInv, LoadsInv, ListPages, Facts
  <2> QED
    BY <1>4, <2>2, <2>3
<1>6. \A c \in myCalls' : c.kind # "load" => IsCardCall(c)
  <2> HIDE DEF load
  <2> QED
    BY <1>1, <1>2 DEF ItineraryInv, LoadsInv, ListPages
<1>7. LoadsInv'
  BY <1>2, <1>3, <1>5, <1>6 DEF ItineraryInv, LoadsInv, ListPages
<1> QED
  BY <1>7 DEF ItineraryInv, OfferInv

\* A load is answered or lost, or the server moves on.
LEMMA LoadChanges ==
  ASSUME ItineraryInv, NEW c \in myCalls, NEW d, c.kind = "load" => d \in Loads,
         c.kind # "load" => IsCardCall(d), myCalls' = (myCalls \ {c}) \cup {d},
         c.kind = "load" => /\ d.generation = c.generation
                            /\ d.answer.version <= facts.version
                            /\ d.stage # "served" \/ d.answer.version = facts.version,
         UNCHANGED <<mySession, facts, accepted, myPage>>
  PROVE  ItineraryInv'
<1>1. CASE c.kind # "load"
  BY <1>1, OtherCalls
<1>2. CASE c.kind = "load"
  <2>1. MyLoads' = (MyLoads \ {c}) \cup {d} /\ c \in MyLoads /\ d \in Loads
    BY <1>2 DEF MyLoads, Loads
  <2>2. \A e \in myCalls' : e.kind # "load" => IsCardCall(e)
    BY <2>1 DEF ItineraryInv, LoadsInv, ListPages, Loads
  <2>3. LoadsInv'
    BY <1>2, <2>1, <2>2 DEF ItineraryInv, LoadsInv, ListPages, Loads, Facts
  <2> QED
    BY <2>3 DEF ItineraryInv, OfferInv
<1> QED
  BY <1>1, <1>2

LEMMA PageStays ==
  ASSUME ItineraryInv, UNCHANGED myPage
  PROVE  Following!ShownMovesForward
BY DEF Following!ShownMovesForward, ItineraryInv, LoadsInv, ListPages, Facts

\* A load of what is shown.
LEMMA PageBegins ==
  ASSUME ItineraryInv, UNCHANGED <<mySession, facts, accepted>>, NEW critical \in BOOLEAN,
         NEW refresh \in BOOLEAN, NEW others \in SUBSET myCalls, Following!Begin(myPage, critical, refresh, others)
  PROVE  ItineraryInv' /\ Following!ShownMovesForward
<1>1. myPage \in ListPages /\ myPage.generation >= myPage.generation
  BY DEF ItineraryInv, LoadsInv, ListPages
<1>2. ItineraryInv'
  BY <1>1, LoadBegins
<1>3. myPage'.shown = myPage.shown
  BY <1>1 DEF Following!Begin, ListPages
<1>4. myPage.shown.version \in Nat
  BY DEF ItineraryInv, LoadsInv, ListPages, Facts
<1> QED
  BY <1>2, <1>3, <1>4 DEF Following!ShownMovesForward


LEMMA LoadEndsWell ==
  ASSUME ItineraryInv, NEW c \in myCalls, Following!LoadEnds(c)
  PROVE  ItineraryInv' /\ Following!ShownMovesForward
<1>1. c \in MyLoads /\ c \in Loads /\ c.stage \in {"served", "failed"} /\ myCalls' = myCalls \ {c}
      /\ UNCHANGED <<mySession, facts, accepted>>
  BY DEF Following!LoadEnds, Following!server, ItineraryInv, LoadsInv, ListPages, MyLoads
<1> DEFINE shown == myPage'.shown
<1>2. /\ myPage'.generation = myPage.generation /\ myPage'.owner = myPage.owner
      /\ myPage' \in ListPages
      /\ \/ shown = myPage.shown
         \/ c.generation = myPage.generation /\ c.stage = "served" /\ shown = c.answer
  BY <1>1 DEF Following!LoadEnds, Following!LoadCurrent, ItineraryInv, LoadsInv, ListPages, Loads
<1>3. MyLoads' = MyLoads \ {c}
  BY <1>1 DEF MyLoads
<1>4. shown \in Facts /\ shown.version <= facts.version /\ shown.version >= myPage.shown.version
  BY <1>1, <1>2 DEF ItineraryInv, LoadsInv, ListPages, Loads, Facts
<1>5. \A d \in MyLoads' : d.stage = "served" /\ d.generation = myPage.generation
                            => shown.version <= d.answer.version
  BY <1>1, <1>2, <1>3 DEF ItineraryInv, LoadsInv, ListPages, Loads
<1>6. LoadsInv'
  <2> HIDE DEF shown
  <2>1. myPage'.shown = shown
    BY DEF shown
  <2> QED
    BY <1>1, <1>2, <1>3, <1>4, <1>5, <2>1 DEF ItineraryInv, LoadsInv, ListPages
<1>7. OfferInv'
  BY <1>1 DEF ItineraryInv, OfferInv
<1> QED
  BY <1>4, <1>6, <1>7 DEF ItineraryInv, Following!ShownMovesForward

\* Another account: everything shown is dropped.
LEMMA NoticeKeeps ==
  ASSUME ItineraryInv, Following!Notice
  PROVE  ItineraryInv' /\ Following!ShownMovesForward
<1> DEFINE p == [myPage EXCEPT !.noticed = mySession.number]
           q == [p EXCEPT !.shown = Following!Nothing, !.critical = 0, !.refreshing = FALSE,
                          !.generation = @ + 1]
<1>1. UNCHANGED <<mySession, facts, accepted>>
  BY DEF Following!Notice, Following!server
<1>2. CASE myPage' = p /\ UNCHANGED myCalls
  <2>1. p.shown = myPage.shown /\ p.generation = myPage.generation /\ p \in ListPages
    BY DEF ItineraryInv, LoadsInv, ListPages
  <2> HIDE DEF p
  <2>2. LoadsInv'
    BY <1>1, <1>2, <2>1 DEF ItineraryInv, LoadsInv, ListPages, MyLoads
  <2>3. myPage'.shown.version >= myPage.shown.version
    BY <1>2, <2>1 DEF ItineraryInv, LoadsInv, ListPages, Facts
  <2> QED
    BY <1>1, <2>2, <2>3 DEF ItineraryInv, OfferInv, Following!ShownMovesForward
<1>3. CASE Following!Begin(q, FALSE, FALSE, myCalls)
  <2>1. p.generation = myPage.generation /\ p \in ListPages /\ p.generation \in Nat
    BY DEF ItineraryInv, LoadsInv, ListPages
  <2>4. q \in ListPages /\ q.shown = Following!Nothing /\ q.generation >= myPage.generation
    <3> HIDE DEF p
    <3>1. Following!Nothing \in Facts /\ p.generation + 1 \in Nat
      BY <2>1 DEF Following!Nothing, Facts
    <3>2. q \in ListPages
      BY <2>1, <3>1 DEF ListPages
    <3>3. q.shown = Following!Nothing /\ q.generation = p.generation + 1
      BY <2>1 DEF ListPages
    <3> QED
      BY <2>1, <3>2, <3>3
  <2> HIDE DEF q
  <2>2. ItineraryInv'
    BY <1>1, <1>3, <2>1, <2>4, LoadBegins
  <2>3. myPage'.shown = q.shown
    BY <1>3, <2>4 DEF Following!Begin, ListPages
  <2> QED
    BY <2>2, <2>3, <2>4 DEF Following!ShownMovesForward
<1> QED
  BY <1>2, <1>3 DEF Following!Notice

\* The facts are read again.
LEMMA FactsAwaited ==
  ASSUME ItineraryInv, NEW c, Following!AwaitFacts(c), UNCHANGED <<mySession, facts, accepted>>
  PROVE  ItineraryInv' /\ Following!ShownMovesForward
<1>1. CASE UNCHANGED myPage /\ myCalls' = myCalls \ {c}
  BY <1>1, OtherCalls, PageStays
<1>2. CASE Following!Begin(myPage, TRUE, FALSE, myCalls \ {c})
  BY <1>2, PageBegins
<1> QED
  BY <1>1, <1>2 DEF Following!AwaitFacts

LEMMA CardCallStage ==
  ASSUME NEW c, IsCardCall(c), NEW stage
  PROVE  IsCardCall([c EXCEPT !.stage = stage]) /\ [c EXCEPT !.stage = stage].kind = c.kind
BY DEF IsCardCall

LEMMA LoadStage ==
  ASSUME NEW c \in Loads, NEW stage \in Stages, NEW answer \in Facts
  PROVE  /\ [c EXCEPT !.stage = stage, !.answer = answer] \in Loads
         /\ [c EXCEPT !.stage = stage, !.answer = answer].generation = c.generation
         /\ [c EXCEPT !.stage = stage, !.answer = answer].answer = answer
<1>1. [c EXCEPT !.stage = stage, !.answer = answer] \in Loads
  BY DEF Loads
<1>2. [c EXCEPT !.stage = stage, !.answer = answer].generation = c.generation
  BY DEF Loads
<1>3. [c EXCEPT !.stage = stage, !.answer = answer].answer = answer
  BY DEF Loads
<1> QED
  BY <1>1, <1>2, <1>3

LEMMA NewCardCall ==
  ASSUME NEW asked \in {"quote", "accept"}, NEW body, asked = "accept" => body.version = body.shown
  PROVE  IsCardCall(Following!CardCall(asked, body))
BY DEF IsCardCall, Following!CardCall

\* A step that leaves the page and changes one call.
LEMMA CallSteps ==
  ASSUME ItineraryInv, NEW c \in myCalls,
         Following!ServeLoad(c) \/ Following!ServeQuote(c) \/ Following!Lost(c)
  PROVE  ItineraryInv' /\ Following!ShownMovesForward
<1>1. UNCHANGED <<mySession, facts, accepted, myPage>>
  BY DEF Following!ServeLoad, Following!ServeQuote, Following!Lost, Following!server
<1>2. c.kind = "load" => c \in Loads /\ c.answer.version <= facts.version
  BY DEF ItineraryInv, LoadsInv, ListPages, MyLoads
<1>3. c.kind # "load" => IsCardCall(c)
  BY DEF ItineraryInv, LoadsInv, ListPages
<1>4. facts \in Facts /\ [facts EXCEPT !.status = "none"] \in Facts
      /\ [facts EXCEPT !.status = "none"].version = facts.version
  BY DEF ItineraryInv, LoadsInv, ListPages, Facts
<1>5. CASE Following!ServeLoad(c)
  <2>1. PICK a \in Facts : /\ a.version = facts.version
                           /\ myCalls' = (myCalls \ {c}) \cup {[c EXCEPT !.stage = "served", !.answer = a]}
    <3>1. CASE c.user = Owner
      BY <1>4, <1>5, <3>1 DEF Following!ServeLoad, Following!Replace
    <3>2. CASE c.user # Owner
      BY <1>4, <1>5, <3>2 DEF Following!ServeLoad, Following!Replace
    <3> QED
      BY <3>1, <3>2
  <2> DEFINE d == [c EXCEPT !.stage = "served", !.answer = a]
  <2>2. c.kind = "load" /\ c \in Loads /\ facts.version \in Nat
    BY <1>2, <1>4, <1>5 DEF Following!ServeLoad, Facts
  <2>3. d \in Loads /\ d.generation = c.generation /\ d.answer = a
    BY <2>2, LoadStage DEF Stages
  <2> HIDE DEF d
  <2>4. myCalls' = (myCalls \ {c}) \cup {d}
    BY <2>1 DEF d
  <2> QED
    BY <1>1, <2>1, <2>2, <2>3, <2>4, LoadChanges, PageStays
<1>6. CASE Following!ServeQuote(c)
  <2>1. IsCardCall(c) /\ c.kind = "quote"
        /\ myCalls' = (myCalls \ {c}) \cup {[c EXCEPT !.stage = "served"]}
    BY <1>3, <1>6 DEF Following!ServeQuote, Following!Replace
  <2> QED
    BY <1>1, <2>1, CardCallStage, OtherCalls, PageStays
<1>7. CASE Following!Lost(c)
  <2> DEFINE d == [c EXCEPT !.stage = "failed"]
  <2>1. myCalls' = (myCalls \ {c}) \cup {d}
    BY <1>7 DEF Following!Lost, Following!Replace
  <2>2. CASE c.kind # "load"
    BY <1>1, <1>3, <2>1, <2>2, CardCallStage, OtherCalls, PageStays
  <2>3. CASE c.kind = "load"
    <3>1. d \in Loads /\ d.generation = c.generation /\ d.answer = c.answer /\ d.stage = "failed"
      BY <1>2, <2>3 DEF Loads, Stages
    <3> HIDE DEF d
    <3> QED
      BY <1>1, <1>2, <2>1, <2>3, <3>1, LoadChanges, PageStays
  <2> QED
    BY <2>2, <2>3
<1> QED
  BY <1>5, <1>6, <1>7

\* An acceptance that is carried out takes the offer as its dialog showed it.
LEMMA AcceptServed ==
  ASSUME ItineraryInv, NEW c \in myCalls, Following!ServeAccept(c)
  PROVE  ItineraryInv' /\ Following!ShownMovesForward
<1>1. /\ IsCardCall(c) /\ c.kind = "accept" /\ c.body.version = c.body.shown
      /\ UNCHANGED <<mySession, myPage>>
  BY DEF Following!ServeAccept, ItineraryInv, LoadsInv, ListPages, IsCardCall
<1>2. PICK stage : myCalls' = (myCalls \ {c}) \cup {[c EXCEPT !.stage = stage]}
  BY DEF Following!ServeAccept, Following!Replace
<1>3. IsCardCall([c EXCEPT !.stage = stage]) /\ [c EXCEPT !.stage = stage].kind = "accept"
  BY <1>1, CardCallStage
<1>4. CASE UNCHANGED <<facts, accepted>>
  <2>1. ItineraryInv'
    BY <1>1, <1>2, <1>3, <1>4, OtherCalls
  <2> QED
    BY <1>1, <2>1, PageStays
<1>5. CASE /\ c.body.version = facts.version /\ facts.status = "offered"
           /\ facts' = [version |-> facts.version + 1, status |-> "confirmed"]
           /\ accepted' = accepted \cup {[version |-> facts.version, shown |-> c.body.shown]}
  <2>1. MyLoads' = MyLoads
    BY <1>1, <1>2, <1>3 DEF MyLoads
  <2>2. /\ facts \in Facts /\ facts' \in Facts /\ facts'.version = facts.version + 1 /\ facts.version \in Nat
        /\ facts'.status = "confirmed"
    BY <1>5 DEF ItineraryInv, LoadsInv, ListPages, Facts
  <2>3. \A d \in MyLoads : d.answer.version \in Nat
    BY DEF ItineraryInv, LoadsInv, ListPages, Loads, Facts
  <2>6. myPage.shown.version \in Nat
    BY DEF ItineraryInv, LoadsInv, ListPages, Facts
  <2>7. \A d \in myCalls' : d.kind # "load" => IsCardCall(d)
    BY <1>2, <1>3 DEF ItineraryInv, LoadsInv, ListPages
  <2>4. LoadsInv'
    BY <1>1, <2>1, <2>2, <2>3, <2>6, <2>7 DEF ItineraryInv, LoadsInv, ListPages
  <2>5. OfferInv'
    <3> DEFINE r == [version |-> facts.version, shown |-> c.body.shown]
    <3>1. accepted = {} /\ accepted' = {r} /\ r.version = r.shown
      BY <1>1, <1>5 DEF ItineraryInv, OfferInv
    <3> QED
      BY <2>2, <3>1 DEF OfferInv
  <2> QED
    BY <1>1, <2>4, <2>5, PageStays DEF ItineraryInv
<1> QED
  BY <1>4, <1>5 DEF Following!ServeAccept, Following!VersionMatches, Following!server

LEMMA FactsChanged ==
  ASSUME ItineraryInv, Following!FactsChange
  PROVE  ItineraryInv' /\ Following!ShownMovesForward
<1>1. /\ facts \in Facts /\ facts' \in Facts /\ facts'.version = facts.version + 1 /\ facts.version \in Nat
      /\ facts.status = "offered" /\ UNCHANGED <<mySession, accepted, myPage, myCalls>>
  BY DEF Following!FactsChange, ItineraryInv, LoadsInv, ListPages, Facts
<1>2. \A d \in MyLoads : d.answer.version \in Nat
  BY DEF ItineraryInv, LoadsInv, ListPages, Loads, Facts
<1>3. myPage.shown.version \in Nat
  BY DEF ItineraryInv, LoadsInv, ListPages, Facts
<1>4. LoadsInv'
  BY <1>1, <1>2, <1>3 DEF ItineraryInv, LoadsInv, ListPages, MyLoads
<1> QED
  BY <1>1, <1>4, PageStays DEF ItineraryInv, OfferInv

\* Steps of the card, and of the other tab.
LEMMA CardSteps ==
  ASSUME ItineraryInv,
         \/ Following!ReviewOffer \/ Following!CloseReview \/ Following!ConfirmOffer
         \/ \E c \in myCalls : Following!QuoteEnds(c)
  PROVE  ItineraryInv' /\ Following!ShownMovesForward
<1>1. UNCHANGED <<mySession, facts, accepted, myPage>>
  BY DEF Following!ReviewOffer, Following!CloseReview, Following!ConfirmOffer,
     Following!QuoteEnds, Following!server
<1>2. \A c \in myCalls' : c \in myCalls \/ IsCardCall(c)
  <2>1. CASE Following!ReviewOffer
    BY <2>1, NewCardCall DEF Following!ReviewOffer
  <2>2. CASE Following!ConfirmOffer
    BY SMTT(30), <2>2, NewCardCall DEF Following!ConfirmOffer, Following!VersionSent
  <2>3. CASE Following!CloseReview \/ \E c \in myCalls : Following!QuoteEnds(c)
    BY <2>3 DEF Following!CloseReview, Following!QuoteEnds
  <2> QED
    BY <2>1, <2>2, <2>3
<1> QED
  BY <1>1, <1>2, OtherCalls, PageStays

LEMMA SessionMoves ==
  ASSUME ItineraryInv, Following!SessionChanges
  PROVE  ItineraryInv' /\ Following!ShownMovesForward
<1>1. mySession' \in [user : {Owner, Other}, number : Nat]
      /\ UNCHANGED <<facts, accepted, myPage, myCalls>>
  BY DEF Following!SessionChanges, Following!server, ItineraryInv, LoadsInv, ListPages
<1>2. LoadsInv'
  BY <1>1 DEF ItineraryInv, LoadsInv, ListPages, MyLoads
<1> QED
  BY <1>1, <1>2, PageStays DEF ItineraryInv, OfferInv

LEMMA ItineraryStep ==
  ASSUME ItineraryInv, Following!Next
  PROVE  ItineraryInv' /\ Following!ShownMovesForward
<1>1. CASE Following!HeaderRefresh \/ Following!SyncHint
  BY <1>1, PageBegins DEF Following!HeaderRefresh, Following!SyncHint, Following!server
<1>2. CASE Following!RetryRefresh
  BY <1>2, FactsAwaited DEF Following!RetryRefresh, Following!server
<1>3. ASSUME NEW c \in myCalls, Following!AcceptanceEnds(c)
      PROVE  ItineraryInv' /\ Following!ShownMovesForward
  <2>1. UNCHANGED <<mySession, facts, accepted>>
    BY <1>3 DEF Following!AcceptanceEnds, Following!server
  <2>2. CASE Following!AwaitFacts(c)
    BY <2>1, <2>2, FactsAwaited
  <2>3. CASE UNCHANGED myPage /\ myCalls' = myCalls \ {c}
    BY <2>1, <2>3, OtherCalls, PageStays
  <2> QED
    BY <1>3, <2>2, <2>3 DEF Following!AcceptanceEnds
<1> QED
  BY <1>1, <1>2, <1>3, NoticeKeeps, LoadEndsWell, CallSteps, AcceptServed, FactsChanged, CardSteps, SessionMoves
     DEF Following!Next

\* The itinerary keeps its invariant whatever a behaviour is about.
LEMMA ItineraryAlways ==
  PagesSpec => []ItineraryInv /\ [][Following!ShownMovesForward]_(pagesVars)
<1>1. PagesInit => ItineraryInv
  BY ItineraryBegins DEF PagesInit
<1>2. ItineraryInv /\ [PagesNext]_(pagesVars) => ItineraryInv' /\ [Following!ShownMovesForward]_(pagesVars)
  <2> SUFFICES ASSUME ItineraryInv, [PagesNext]_(pagesVars)
               PROVE  ItineraryInv' /\ Following!ShownMovesForward
    OBVIOUS
  <2>1. CASE UNCHANGED followPart
    BY <2>1, OtherCalls, PageStays DEF followPart
  <2>2. CASE Following!Next
    BY <2>2, ItineraryStep
  <2> QED
    BY <2>1, <2>2 DEF PagesNext, pagesVars
<1> QED
  BY <1>1, <1>2, PTL DEF PagesSpec


-----------------------------------------------------------------------------
(* The page of an event *)

IsEventPage(p) ==
  DOMAIN p = {"view", "viewer", "noticed", "generation"} /\ p = [x \in DOMAIN p |-> p[x]]

IsLoad(l) ==
  DOMAIN l = {"user", "generation", "answer", "served"} /\ l = [x \in DOMAIN l |-> l[x]]

\* Whoever takes part has had a place.
SeatsInv ==
  /\ kind \in Kinds /\ eventStatus \in {"published", "cancelled", "removed"} /\ time \in Nat
  /\ DOMAIN regs = Guests
  /\ \A u \in Guests : regs[u] \in {"confirmed", "checked_in"} => u \in seated

\* A private address is in the answers of those only who have had a place, and so are the comments.
PrivateInv ==
  /\ \A l \in loads : l.answer.address => kind.public \/ l.user \in seated \cup {Host}
  /\ eventPage.view.address => kind.public \/ eventPage.viewer \in seated \cup {Host}
  /\ \A u \in (writing \cup comments) \ {Host} :
       IF kind.permission = "participants" THEN u \in seated ELSE u \in Members

\* A page shows the view of its viewer or the public one, once it has noticed who that is.
ViewerInv ==
  /\ IsEventPage(eventPage) /\ \A l \in loads : IsLoad(l) /\ l.user # Viewing!Visitor
  /\ seenBy.number \in Nat /\ eventPage.noticed \in Nat /\ eventPage.noticed <= seenBy.number
  /\ eventPage.noticed = seenBy.number => eventPage.viewer \in {Viewing!Visitor, seenBy.user}
  /\ eventPage.viewer = Viewing!Visitor => eventPage.view = Viewing!Rendered

ViewInv == SeatsInv /\ PrivateInv /\ ViewerInv

LEMMA ViewsBegin ==
  ASSUME Viewing!Init PROVE ViewInv
<1>1. SeatsInv
  BY DEF Viewing!Init, SeatsInv
<1>2. PrivateInv
  BY DEF Viewing!Init, PrivateInv, Viewing!Rendered
<1>3. ViewerInv
  BY DEF Viewing!Init, ViewerInv, IsEventPage
<1> QED
  BY <1>1, <1>2, <1>3 DEF ViewInv

\* The page offers what the service accepts.
LEMMA ButtonsAgree ==
  ASSUME ViewInv
  PROVE  Viewing!ButtonsAgreeWithServer
<1> DEFINE u == eventPage.viewer
           v == Viewing!ViewOf(u)
           button == Viewing!PrimaryAction(v, u)
           open == eventStatus = "published" /\ Viewing!DeadlineAhead
           free == u \notin Unverified \cup Barred /\ kind.mode # "invite_only"
<1> SUFFICES ASSUME u \in Guests, eventPage.view = v, kind.deadline \/ time < 3,
                    Viewing!Registration(u) = "none"
             PROVE  /\ Viewing!Admits(u) <=> button \in {"register", "apply", "join_waitlist"}
                    /\ button = "join_waitlist" <=> Viewing!Admits(u) /\ Viewing!Full
  BY DEF Viewing!ButtonsAgreeWithServer
<1>1. /\ v.status = eventStatus /\ v.available = Viewing!Available /\ v.registration = "none"
      /\ v.actions = Viewing!AvailableActions(u)
  BY DEF Viewing!ViewOf
<1>2. u # Viewing!Visitor /\ eventStatus \in {"published", "cancelled", "removed"}
      /\ kind.mode \in {"automatic", "approval", "invite_only"} /\ kind.waitlist \in BOOLEAN
  BY SmallPages DEF ViewInv, SeatsInv, Viewing!Visitor
<1>3. /\ "register" \in v.actions <=> free /\ open /\ ~Viewing!Full
      /\ "joinWaitlist" \in v.actions <=> free /\ open /\ Viewing!Full /\ kind.waitlist
  BY <1>1, <1>2 DEF Viewing!AvailableActions, Viewing!RegistrationOpen
<1>4. Viewing!Admits(u) <=> free /\ open /\ (Viewing!Full => kind.waitlist)
  <2>1. time \in Nat
    BY DEF ViewInv, SeatsInv
  <2>2. Viewing!DeadlineAhead => time < 3
    BY <2>1 DEF Viewing!DeadlineAhead
  <2> QED
    BY <2>2 DEF Viewing!Admits
<1> HIDE DEF v
<1>5. CASE eventStatus # "published"
  BY <1>1, <1>2, <1>4, <1>5 DEF Viewing!PrimaryAction
<1>6. CASE eventStatus = "published"
  BY <1>1, <1>2, <1>3, <1>4, <1>6 DEF Viewing!PrimaryAction, Viewing!Full
<1> QED
  BY <1>5, <1>6

\* A registration changes in one step, and who has had a place stays somebody who had one.
LEMMA ChangeKeeps ==
  ASSUME ViewInv, NEW u \in Guests, NEW s, Viewing!Change(u, s),
         s = "checked_in" => u \in seated
  PROVE  ViewInv'
<1>1. /\ regs' = [regs EXCEPT ![u] = s] /\ seated \subseteq seated' /\ (s = "confirmed" => u \in seated')
      /\ UNCHANGED <<kind, eventStatus, time, writing, comments, seenBy, eventPage, loads>>
  BY DEF Viewing!Change, Viewing!page_
<1>2. SeatsInv'
  BY <1>1 DEF ViewInv, SeatsInv
<1>3. PrivateInv'
  BY <1>1 DEF ViewInv, PrivateInv
<1>4. ViewerInv'
  BY <1>1 DEF ViewInv, ViewerInv, Viewing!Rendered
<1> QED
  BY <1>2, <1>3, <1>4 DEF ViewInv

\* Registrations, the life of the event and the clock.
LEMMA EventSteps ==
  ASSUME ViewInv,
         \/ \E u \in Guests : \/ Viewing!Register(u) \/ Viewing!Decide(u)
                              \/ Viewing!CancelRegistration(u) \/ Viewing!Promote(u)
                              \/ Viewing!AcceptElsewhere(u) \/ Viewing!SweepOffer(u)
                              \/ Viewing!CheckIn(u) \/ Viewing!LapseOffer(u)
         \/ \E s \in {"cancelled", "removed"} : Viewing!End(s)
         \/ Viewing!TimePasses
  PROVE  ViewInv'
<1>1. ASSUME NEW u \in Guests,
             \/ Viewing!Register(u) \/ Viewing!Decide(u) \/ Viewing!CancelRegistration(u)
             \/ Viewing!Promote(u) \/ Viewing!AcceptElsewhere(u) \/ Viewing!SweepOffer(u)
             \/ Viewing!CheckIn(u)
      PROVE  ViewInv'
  <2>1. \E s : Viewing!Change(u, s) /\ (s = "checked_in" => u \in seated)
    BY <1>1 DEF Viewing!Register, Viewing!Decide, Viewing!CancelRegistration, Viewing!Promote,
       Viewing!AcceptElsewhere, Viewing!SweepOffer, Viewing!CheckIn, ViewInv, SeatsInv
  <2> QED
    BY <2>1, ChangeKeeps
<1>2. ASSUME NEW u \in Guests, Viewing!LapseOffer(u)
      PROVE  ViewInv'
  BY <1>2 DEF Viewing!LapseOffer, Viewing!page_, ViewInv, SeatsInv, PrivateInv, ViewerInv, Viewing!Rendered
<1>3. ASSUME NEW s \in {"cancelled", "removed"}, Viewing!End(s)
      PROVE  ViewInv'
  <2>1. /\ eventStatus' = s /\ UNCHANGED <<kind, time, seated, writing, comments, seenBy, eventPage, loads>>
        /\ DOMAIN regs' = Guests /\ \A u \in Guests : regs'[u] \in {"none", regs[u]}
    BY <1>3 DEF Viewing!End
  <2>2. SeatsInv'
    BY <2>1 DEF ViewInv, SeatsInv
  <2> QED
    BY <2>1, <2>2 DEF ViewInv, PrivateInv, ViewerInv, Viewing!Rendered
<1>4. CASE Viewing!TimePasses
  <2>1. time' \in Nat /\ UNCHANGED <<kind, eventStatus, regs, seated, writing, comments, seenBy, eventPage, loads>>
    BY <1>4 DEF Viewing!TimePasses, Viewing!page_, ViewInv, SeatsInv
  <2> QED
    BY <2>1 DEF ViewInv, SeatsInv, PrivateInv, ViewerInv, Viewing!Rendered
<1> QED
  BY <1>1, <1>2, <1>3, <1>4

\* Only those write a comment who may when it is let through.
LEMMA CommentSteps ==
  ASSUME ViewInv, NEW u, Viewing!BeginComment(u) \/ Viewing!InsertComment(u), u \in Guests \cup {Host}
  PROVE  ViewInv'
<1>1. UNCHANGED <<kind, eventStatus, time, regs, seated, seenBy, eventPage, loads>>
  BY DEF Viewing!BeginComment, Viewing!InsertComment, Viewing!page_
<1>2. ASSUME NEW w \in (writing' \cup comments') \ {Host}
      PROVE  IF kind.permission = "participants" THEN w \in seated ELSE w \in Members
  <2>1. CASE w \in writing \cup comments
    BY <2>1, <1>2 DEF ViewInv, PrivateInv
  <2>2. CASE w \notin writing \cup comments
    <3>1. w = u /\ Viewing!MayComment(u) /\ u # Host /\ u \in Guests
      BY <1>2, <2>2 DEF Viewing!BeginComment, Viewing!InsertComment
    <3>2. \/ kind.permission = "participants" /\ regs[u] \in {"confirmed", "checked_in"}
          \/ kind.permission = "group_members" /\ u \in Members
      BY <3>1 DEF Viewing!MayComment, Viewing!Registration
    <3> QED
      BY <3>1, <3>2 DEF ViewInv, SeatsInv
  <2> QED
    BY <2>1, <2>2
<1>3. PrivateInv'
  BY <1>1, <1>2 DEF ViewInv, PrivateInv
<1> QED
  BY <1>1, <1>3 DEF ViewInv, SeatsInv, ViewerInv, Viewing!Rendered

\* An answer shows a private address to those only who take part.
LEMMA ServedView ==
  ASSUME ViewInv, NEW l \in loads, Viewing!ServeLoad(l)
  PROVE  ViewInv'
<1> DEFINE v == Viewing!ViewOf(l.user)
           d == [l EXCEPT !.served = TRUE, !.answer = v]
<1>1. /\ loads' = (loads \ {l}) \cup {d}
      /\ UNCHANGED <<kind, eventStatus, time, regs, seated, writing, comments, seenBy, eventPage>>
  BY DEF Viewing!ServeLoad, Viewing!server
<1>2. v.address => kind.public \/ l.user \in seated \cup {Host}
  BY DEF Viewing!ViewOf, Viewing!MayReadAddress, Viewing!Registration, ViewInv, SeatsInv
<1> HIDE DEF v
<1>3. d.answer = v /\ d.user = l.user /\ IsLoad(d)
  BY DEF ViewInv, ViewerInv, Viewing!Rendered, IsLoad
<1> HIDE DEF d
<1>4. PrivateInv'
  BY <1>1, <1>2, <1>3 DEF ViewInv, PrivateInv
<1>5. ViewerInv'
  BY <1>1, <1>3 DEF ViewInv, ViewerInv, Viewing!Rendered
<1> QED
  BY <1>1, <1>4, <1>5 DEF ViewInv, SeatsInv

\* An answer is shown to the account it was made for.
LEMMA AnswerTaken ==
  ASSUME ViewInv, NEW l \in loads, Viewing!TakeAnswer(l)
  PROVE  ViewInv'
<1> DEFINE p == [eventPage EXCEPT !.view = l.answer, !.viewer = seenBy.user]
<1>1. /\ loads' = loads \ {l} /\ eventPage' = IF Viewing!Fits(l) THEN p ELSE eventPage
      /\ UNCHANGED <<kind, eventStatus, time, regs, seated, writing, comments, seenBy>>
  BY DEF Viewing!TakeAnswer, Viewing!server
<1>2. p.view = l.answer /\ p.viewer = seenBy.user /\ p.noticed = eventPage.noticed /\ IsEventPage(p)
  BY DEF ViewInv, ViewerInv, Viewing!Rendered, IsEventPage
<1> HIDE DEF p
<1>3. CASE Viewing!Fits(l)
  <2>1. l.user = seenBy.user /\ seenBy.user # Viewing!Visitor /\ eventPage' = p
    BY <1>1, <1>3 DEF Viewing!Fits, ViewInv, ViewerInv, Viewing!Rendered
  <2>2. PrivateInv'
    BY <1>1, <1>2, <2>1 DEF ViewInv, PrivateInv
  <2>3. ViewerInv'
    BY <1>1, <1>2, <2>1 DEF ViewInv, ViewerInv, Viewing!Rendered
  <2> QED
    BY <1>1, <2>2, <2>3 DEF ViewInv, SeatsInv
<1>4. CASE ~Viewing!Fits(l)
  BY <1>1, <1>4 DEF ViewInv, SeatsInv, PrivateInv, ViewerInv, Viewing!Rendered
<1> QED
  BY <1>3, <1>4

\* Sessions, loads that begin or are lost, and the button that changes nothing.
LEMMA ViewerSteps ==
  ASSUME ViewInv,
         \/ \E u : Viewing!ChangeSession(u)
         \/ Viewing!SynchronizeViewer \/ Viewing!AcceptOffer
         \/ \E l \in loads : Viewing!LoseLoad(l)
  PROVE  ViewInv'
<1>1. ASSUME NEW u, Viewing!ChangeSession(u)
      PROVE  ViewInv'
  <2>1. /\ seenBy'.number = seenBy.number + 1
        /\ UNCHANGED <<kind, eventStatus, time, regs, seated, writing, comments, eventPage, loads>>
    BY <1>1 DEF Viewing!ChangeSession, Viewing!server
  <2> QED
    BY <2>1 DEF ViewInv, SeatsInv, PrivateInv, ViewerInv, Viewing!Rendered
<1>2. CASE Viewing!SynchronizeViewer
  <2>1. /\ eventPage' = [view |-> Viewing!Rendered, viewer |-> Viewing!Visitor,
                         noticed |-> seenBy.number, generation |-> eventPage.generation + 1]
        /\ UNCHANGED <<kind, eventStatus, time, regs, seated, writing, comments, seenBy>>
    BY <1>2 DEF Viewing!SynchronizeViewer, Viewing!server
  <2>2. \A l \in loads' : l \in loads \/ (IsLoad(l) /\ l.user # Viewing!Visitor /\ l.answer = Viewing!Rendered)
    BY <1>2 DEF Viewing!SynchronizeViewer, IsLoad
  <2>3. Viewing!Rendered.address => kind.public
    BY DEF Viewing!Rendered
  <2>4. Viewing!Rendered' = Viewing!Rendered
    BY <2>1 DEF Viewing!Rendered
  <2>5. PrivateInv'
    BY <2>1, <2>2, <2>3 DEF ViewInv, PrivateInv
  <2>7. /\ IsEventPage(eventPage') /\ eventPage'.view = Viewing!Rendered
        /\ eventPage'.viewer = Viewing!Visitor /\ eventPage'.noticed = seenBy.number
    BY <2>1 DEF IsEventPage
  <2>6. ViewerInv'
    BY <2>1, <2>2, <2>4, <2>7 DEF ViewInv, ViewerInv
  <2> QED
    BY <2>1, <2>5, <2>6 DEF ViewInv, SeatsInv
<1>3. CASE Viewing!AcceptOffer
  BY <1>3 DEF Viewing!AcceptOffer, Viewing!pageVars, ViewInv, SeatsInv, PrivateInv, ViewerInv, Viewing!Rendered
<1>4. ASSUME NEW l \in loads, Viewing!LoseLoad(l)
      PROVE  ViewInv'
  BY <1>4 DEF Viewing!LoseLoad, Viewing!server, ViewInv, SeatsInv, PrivateInv, ViewerInv, Viewing!Rendered
<1> QED
  BY <1>1, <1>2, <1>3, <1>4

\* The page of an event keeps its invariant whatever a behaviour is about.
LEMMA ViewAlways ==
  PagesSpec => []ViewInv
<1>1. PagesInit => ViewInv
  BY ViewsBegin DEF PagesInit
<1>2. ViewInv /\ [PagesNext]_(pagesVars) => ViewInv'
  <2> SUFFICES ASSUME ViewInv, [PagesNext]_(pagesVars)
               PROVE  ViewInv'
    OBVIOUS
  <2>1. CASE UNCHANGED viewPart
    BY <2>1 DEF viewPart, ViewInv, SeatsInv, PrivateInv, ViewerInv, Viewing!Rendered
  <2>2. CASE Viewing!Next
    BY <2>2, EventSteps, CommentSteps, ServedView, AnswerTaken, ViewerSteps DEF Viewing!Next
  <2> QED
    BY <2>1, <2>2 DEF PagesNext, pagesVars
<1> QED
  BY <1>1, <1>2, PTL DEF PagesSpec

\* The page of an event offers what the server accepts, to each account its own view, and private
\* things to those who take part: whatever the event, the guests and the order of loads.
THEOREM ShownAlwaysAllowed ==
  PagesSpec => []ShownAsAllowed
<1>1. ViewInv => ShownAsAllowed
  BY ButtonsAgree DEF ShownAsAllowed, Viewing!ShownAsAllowed, Viewing!PageIsItsViewers,
     Viewing!InsidersOnly, ViewInv, PrivateInv, ViewerInv
<1> QED
  BY <1>1, ViewAlways, PTL


-----------------------------------------------------------------------------
(* The registration page *)

IsPage(p) ==
  /\ DOMAIN p = {"phase", "ssr", "live", "owner", "noticed", "generation", "form", "key", "quote", "loading",
                 "busy", "result", "changed", "reconfirmed", "versions"}
  /\ p = [x \in DOMAIN p |-> p[x]]

IsForm(f) == DOMAIN f = {"writer", "accepted", "step"} /\ f = [x \in DOMAIN f |-> f[x]]

IsCall(c) ==
  /\ DOMAIN c = {"kind", "why", "body", "user", "number", "generation", "stage", "answer"}
  /\ c = [x \in DOMAIN c |-> c[x]]

IsSubmission(b) ==
  DOMAIN b = {"key", "writer", "version", "quote", "fee", "amount"} /\ b = [x \in DOMAIN b |-> b[x]]

\* Terms of the event somebody has read: a version tells the fee.
Known(t) ==
  /\ t.version \in 1..event.version
  /\ t.version = event.version => t.fee = event.fee

\* What an account may have written; a guest has written nothing yet.
Wrote(user, writer) == writer \in {Registering!Nobody, user} /\ (user = "guest" => writer = Registering!Nobody)

Opened == {"gate", "ready", "failed"}

\* A page that is open belongs to an account, and to the one signed in once it has noticed.
PageFits(p) ==
  /\ IsPage(p) /\ IsForm(p.form) /\ Known(p.live) /\ Known(p.ssr)
  /\ Wrote(p.owner, p.form.writer) /\ p.result \in {Registering!Nobody, p.owner}
  /\ p.phase \in Opened => p.owner # "guest"
  /\ p.noticed \in Nat /\ p.noticed <= session.number
  /\ p.noticed = session.number /\ (p.phase \in Opened \/ p.owner # Registering!Nobody)
       => p.owner = session.user

DraftFits(d) == d = Registering!NoDraft \/ (IsForm(d.form) /\ Wrote(d.owner, d.form.writer))

\* What is sent was written by the account that sends it, under terms that were on its screen.
SubmissionFits(user, b) ==
  IsSubmission(b) /\ Known(b) /\ b.writer \in {Registering!Nobody, user}

CallFits(c) ==
  /\ IsCall(c)
  /\ c.kind = "register" \/ (c.kind = "quote" /\ c.why = "submit") => SubmissionFits(c.user, c.body)
  /\ c.kind = "event" /\ c.stage = "served" => Known(c.answer[1])
  /\ c.kind = "event" /\ c.why = "gate" => c.user # "guest"

RegisterInv ==
  /\ session.number \in Nat /\ troubles \in 0..MaxTroubles /\ event.version \in 1..(troubles + 1)
  /\ DOMAIN drafts = Registering!Versions
  /\ PageFits(page)
  /\ \A v \in Registering!Versions : DraftFits(drafts[v])
  /\ \A c \in calls : CallFits(c)
  /\ \A r \in booked : r.fee = r.shownFee /\ r.writer \in {Registering!Nobody, r.owner}

\* A page that has just been opened.
LEMMA FreshFits ==
  ASSUME NEW terms, Known(terms), NEW generation, session.number \in Nat
  PROVE  PageFits(Registering!Fresh(terms, session.number, generation))
<1> DEFINE p == Registering!Fresh(terms, session.number, generation)
<1>1. /\ p.ssr = terms /\ p.live = terms /\ p.owner = Registering!Nobody /\ p.noticed = session.number
      /\ p.form = Registering!Blank(terms.fee) /\ p.result = Registering!Nobody /\ p.phase = "start"
  BY DEF Registering!Fresh
<1>2. IsPage(p)
  BY DEF Registering!Fresh, IsPage
<1>3. IsForm(p.form) /\ p.form.writer = Registering!Nobody
  BY <1>1 DEF Registering!Blank, IsForm
<1>4. PageFits(p)
  <2> HIDE DEF p
  <2> QED
    BY <1>1, <1>2, <1>3 DEF PageFits, Wrote, Opened
<1> QED
  BY <1>4

LEMMA RegisterBegins ==
  ASSUME Registering!Init PROVE RegisterInv
<1>1. session.number = 1 /\ event.version = 1 /\ troubles = 0 /\ 0 \in 0..MaxTroubles
      /\ calls = {} /\ booked = {} /\ drafts = [v \in Registering!Versions |-> Registering!NoDraft]
  BY SmallPages DEF Registering!Init
<1> DEFINE terms == [version |-> 1, fee |-> event.fee, mine |-> FALSE]
<1>2. Known(terms) /\ page = Registering!Fresh(terms, session.number, 0)
  BY <1>1 DEF Registering!Init, Known
<1> HIDE DEF terms
<1>3. PageFits(page)
  BY <1>1, <1>2, FreshFits
<1> QED
  BY <1>1, <1>3 DEF RegisterInv, DraftFits

\* A step of the page and its calls, the event and the session as they were.
LEMMA RegisterKeeps ==
  ASSUME RegisterInv, UNCHANGED <<session, event>>, troubles' \in {troubles, troubles + 1},
         troubles' <= MaxTroubles, MaxTroubles \in Nat,
         PageFits(page'), DOMAIN drafts' = DOMAIN drafts,
         \A v \in Registering!Versions : DraftFits(drafts'[v]),
         \A c \in calls' : CallFits(c),
         \A r \in booked' : r.fee = r.shownFee /\ r.writer \in {Registering!Nobody, r.owner}
  PROVE  RegisterInv'
<1>1. PageFits(page)'
  BY DEF PageFits, Known
<1>2. \A v \in Registering!Versions : DraftFits(drafts[v])'
  BY DEF DraftFits
<1>3. \A c \in calls' : CallFits(c)'
  BY DEF CallFits, SubmissionFits, Known
<1>4. troubles' \in 0..MaxTroubles /\ event'.version \in 1..(troubles' + 1)
  BY DEF RegisterInv
<1> QED
  BY <1>1, <1>2, <1>3, <1>4 DEF RegisterInv

\* What is rendered is saved as the draft of its version.
LEMMA RenderKeeps ==
  ASSUME RegisterInv, NEW p, PageFits(p), Registering!Render(p)
  PROVE  /\ PageFits(page') /\ DOMAIN drafts' = DOMAIN drafts
         /\ \A v \in Registering!Versions : DraftFits(drafts'[v])
<1>1. page' = p
  BY DEF Registering!Render
<1>2. DraftFits(Registering!DraftOf(p))
  BY DEF PageFits, DraftFits, Registering!DraftOf
<1> QED
  BY <1>1, <1>2 DEF RegisterInv, Registering!Render

\* The page with other flags.
LooksAlike(p) ==
  /\ IsPage(p) /\ p.form = page.form /\ p.live = page.live /\ p.owner = page.owner
  /\ p.noticed = page.noticed /\ p.ssr = page.ssr /\ p.result = page.result /\ p.phase = page.phase

\* What a step of the page keeps: whose it is, what it has noticed, what was rendered at first.
LEMMA PageEdited ==
  ASSUME PageFits(page), NEW p, IsPage(p), IsForm(p.form), Known(p.live), Wrote(page.owner, p.form.writer),
         p.owner = page.owner, p.noticed = page.noticed, p.ssr = page.ssr,
         p.result \in {Registering!Nobody, page.owner},
         p.phase \in Opened => page.phase \in Opened \/ (page.owner # "guest" /\ page.owner = session.user)
  PROVE  PageFits(p)
BY DEF PageFits

LEMMA CallMade ==
  ASSUME NEW asked, NEW why, NEW body,
         asked = "register" \/ (asked = "quote" /\ why = "submit") => SubmissionFits(session.user, body),
         asked = "event" /\ why = "gate" => session.user # "guest"
  PROVE  CallFits(Registering!Call(asked, why, body))
<1> DEFINE c == Registering!Call(asked, why, body)
<1>1. c.kind = asked /\ c.why = why /\ c.body = body /\ c.user = session.user /\ c.stage = "sent"
  BY DEF Registering!Call
<1>2. IsCall(c)
  BY DEF Registering!Call, IsCall
<1>3. CallFits(c)
  <2> HIDE DEF c
  <2> QED
    BY <1>1, <1>2 DEF CallFits
<1> QED
  BY <1>3

LEMMA SentFits ==
  ASSUME RegisterInv, NEW asked, NEW why, NEW body, Registering!Send(asked, why, body),
         asked = "register" \/ (asked = "quote" /\ why = "submit") => SubmissionFits(session.user, body),
         asked = "event" /\ why = "gate" => session.user # "guest"
  PROVE  \A c \in calls' : CallFits(c)
BY CallMade DEF Registering!Send, RegisterInv

\* A submission carries what its account wrote and the fee on the screen.
LEMMA SubmissionMade ==
  ASSUME RegisterInv, page.owner = session.user, NEW quote
  PROVE  SubmissionFits(session.user, Registering!Submission(quote))
<1> DEFINE b == Registering!Submission(quote)
<1>1. b.version = page.live.version /\ b.fee = page.live.fee /\ b.writer = page.form.writer
  BY DEF Registering!Submission
<1>2. IsSubmission(b)
  BY DEF Registering!Submission, IsSubmission
<1>3. SubmissionFits(session.user, b)
  <2> HIDE DEF b
  <2> QED
    BY <1>1, <1>2 DEF SubmissionFits, RegisterInv, PageFits, Known, Wrote
<1> QED
  BY <1>3

\* The form and its review.
LEMMA FormSteps ==
  ASSUME RegisterInv,
         \/ Registering!UpdateInput \/ Registering!Review \/ Registering!Back
         \/ Registering!RetryQuote \/ Registering!Reconfirm \/ Registering!Submit
  PROVE  RegisterInv'
<1>1. UNCHANGED <<session, event, booked, troubles>>
  BY DEF Registering!UpdateInput, Registering!Review, Registering!Back, Registering!RetryQuote,
     Registering!Reconfirm, Registering!Submit, Registering!server
<1>2. IsPage(page) /\ IsForm(page.form) /\ Known(page.live) /\ Wrote(page.owner, page.form.writer)
      /\ page.result \in {Registering!Nobody, page.owner} /\ PageFits(page)
      /\ (page.phase = "ready" => page.owner # "guest")
  BY DEF RegisterInv, PageFits, Opened
<1>3. PICK p : PageFits(p) /\ Registering!Render(p)
  <2>1. CASE Registering!UpdateInput
    <3>1. PICK f \in {[page.form EXCEPT !.accepted = ~@], [page.form EXCEPT !.writer = page.owner]} :
            Registering!Render([page EXCEPT !.form = f, !.quote = 0, !.changed = FALSE, !.reconfirmed = FALSE])
      BY <2>1 DEF Registering!UpdateInput
    <3> DEFINE q == [page EXCEPT !.form = f, !.quote = 0, !.changed = FALSE, !.reconfirmed = FALSE]
    <3>2. IsForm(f) /\ f.writer \in {page.form.writer, page.owner}
      BY <1>2 DEF IsForm
    <3>3. page.owner # "guest"
      BY <1>2, <2>1 DEF Registering!UpdateInput, Registering!Showing
    <3>4. /\ IsPage(q) /\ q.form = f /\ q.live = page.live /\ q.owner = page.owner /\ q.noticed = page.noticed
          /\ q.ssr = page.ssr /\ q.result = page.result /\ q.phase = page.phase
      BY <1>2 DEF IsPage
    <3>5. PageFits(q)
      <4> HIDE DEF q
      <4>1. Wrote(page.owner, q.form.writer)
        BY <1>2, <3>2, <3>3, <3>4 DEF Wrote
      <4> QED
        BY <1>2, <3>2, <3>4, <4>1, PageEdited
    <3> QED
      BY <3>1, <3>5
  <2>2. ASSUME NEW q, IsPage(q), IsForm(q.form), q.form.writer = page.form.writer, q.live = page.live,
               q.owner = page.owner, q.noticed = page.noticed, q.ssr = page.ssr, q.result = page.result,
               q.phase = page.phase
        PROVE  PageFits(q)
    BY <1>2, <2>2, PageEdited
  <2>3. CASE Registering!Review
    <3> DEFINE q == [page EXCEPT !.form.step = "review"]
               r == [q EXCEPT !.loading = TRUE]
    <3>1. /\ IsPage(q) /\ IsForm(q.form) /\ q.form.writer = page.form.writer /\ q.live = page.live
          /\ q.owner = page.owner /\ q.noticed = page.noticed /\ q.ssr = page.ssr /\ q.result = page.result
          /\ q.phase = page.phase
      BY <1>2 DEF IsPage, IsForm
    <3> HIDE DEF q
    <3>2. /\ IsPage(r) /\ IsForm(r.form) /\ r.form.writer = page.form.writer /\ r.live = page.live
          /\ r.owner = page.owner /\ r.noticed = page.noticed /\ r.ssr = page.ssr /\ r.result = page.result
          /\ r.phase = page.phase
      BY <3>1 DEF IsPage
    <3>3. PageFits(q)
      BY <2>2, <3>1
    <3>4. PageFits(r)
      <4> HIDE DEF r
      <4> QED
        BY <2>2, <3>2
    <3> QED
      BY <2>3, <3>3, <3>4 DEF Registering!Review, q
  <2>4. CASE Registering!Back
    <3> DEFINE q == [page EXCEPT !.form.step = "details"]
    <3>1. /\ IsPage(q) /\ IsForm(q.form) /\ q.form.writer = page.form.writer /\ q.live = page.live
          /\ q.owner = page.owner /\ q.noticed = page.noticed /\ q.ssr = page.ssr /\ q.result = page.result
          /\ q.phase = page.phase
      BY <1>2 DEF IsPage, IsForm
    <3>2. Registering!Render(q)
      BY <2>4 DEF Registering!Back
    <3> HIDE DEF q
    <3> QED
      BY <2>2, <3>1, <3>2
  <2>5. CASE Registering!RetryQuote \/ Registering!Reconfirm \/ Registering!Submit
    <3>1. PICK q : Registering!Render(q) /\ LooksAlike(q)
      <4>1. CASE Registering!RetryQuote
        BY <1>2, <4>1 DEF Registering!RetryQuote, IsPage, LooksAlike
      <4>2. CASE Registering!Reconfirm
        BY <1>2, <4>2 DEF Registering!Reconfirm, IsPage, LooksAlike
      <4>3. CASE Registering!Submit
        <5>1. \/ Registering!Render([page EXCEPT !.busy = TRUE])
              \/ Registering!Render([page EXCEPT !.busy = TRUE, !.loading = TRUE])
          BY <4>3 DEF Registering!Submit
        <5>2. LooksAlike([page EXCEPT !.busy = TRUE])
          BY <1>2 DEF IsPage, LooksAlike
        <5>3. LooksAlike([page EXCEPT !.busy = TRUE, !.loading = TRUE])
          BY <1>2 DEF IsPage, LooksAlike
        <5> QED
          BY <5>1, <5>2, <5>3
      <4> QED
        BY <2>5, <4>1, <4>2, <4>3
    <3> QED
      BY <1>2, <2>2, <3>1 DEF LooksAlike
  <2> QED
    BY <2>1, <2>3, <2>4, <2>5
<1>4. \A c \in calls' : CallFits(c)
  <2>1. CASE UNCHANGED calls
    BY <2>1 DEF RegisterInv
  <2>2. CASE Registering!Send("quote", "show", <<>>)
    BY <2>2, SentFits
  <2>3. CASE Registering!Submit
    <3>1. \A q : SubmissionFits(session.user, Registering!Submission(q))
      BY <2>3, SubmissionMade DEF Registering!Submit, Registering!Operates
    <3>2. \/ Registering!Send("register", "", Registering!Submission(page.quote))
          \/ Registering!Send("quote", "submit", Registering!Submission(page.quote))
      BY <2>3 DEF Registering!Submit
    <3> QED
      BY <3>1, <3>2, SentFits
  <2> QED
    BY <2>1, <2>2, <2>3 DEF Registering!UpdateInput, Registering!Review, Registering!Back,
       Registering!RetryQuote, Registering!Reconfirm
<1>5. PageFits(page') /\ DOMAIN drafts' = DOMAIN drafts
      /\ \A v \in Registering!Versions : DraftFits(drafts'[v])
  BY <1>3, RenderKeeps
<1>6. MaxTroubles \in Nat /\ troubles' <= MaxTroubles
  BY SmallPages, <1>1 DEF RegisterInv
<1> QED
  BY <1>1, <1>4, <1>5, <1>6, RegisterKeeps DEF RegisterInv

\* A call whose stage changes; an event's answer is looked at when it is served.
LEMMA StageFits ==
  ASSUME NEW c, CallFits(c), NEW stage, stage # "served"
  PROVE  CallFits([c EXCEPT !.stage = stage])
<1> DEFINE d == [c EXCEPT !.stage = stage]
<1>1. /\ IsCall(d) /\ d.kind = c.kind /\ d.why = c.why /\ d.body = c.body /\ d.user = c.user
      /\ d.stage = stage
  BY DEF CallFits, IsCall
<1>2. CallFits(d)
  <2> HIDE DEF d
  <2> QED
    BY <1>1 DEF CallFits
<1> QED
  BY <1>2
LEMMA DraftMade ==
  ASSUME NEW p, IsForm(p.form), Wrote(p.owner, p.form.writer)
  PROVE  DraftFits(Registering!DraftOf(p))
BY DEF DraftFits, Registering!DraftOf

\* The page hears of another session, begins anew or tries its gate again.
LEMMA OpeningSteps ==
  ASSUME RegisterInv,
         Registering!Notice \/ Registering!RetryGate \/ Registering!Open
  PROVE  RegisterInv'
<1>1. /\ UNCHANGED <<session, event, booked, drafts>> /\ troubles' \in {troubles, troubles + 1}
      /\ troubles' <= MaxTroubles /\ MaxTroubles \in Nat
  BY SmallPages DEF Registering!Notice, Registering!RetryGate, Registering!Open, Registering!server,
     Registering!Trouble, RegisterInv
<1>2. IsPage(page) /\ Known(page.ssr) /\ PageFits(page) /\ session.number \in Nat
  BY DEF RegisterInv, PageFits
<1>3. PageFits(page')
  <2>1. CASE Registering!Notice
    <3>1. CASE page.owner = session.user
      <4> DEFINE p == [page EXCEPT !.noticed = session.number]
      <4>1. /\ IsPage(p) /\ p.form = page.form /\ p.live = page.live /\ p.owner = page.owner
            /\ p.noticed = session.number /\ p.ssr = page.ssr /\ p.result = page.result /\ p.phase = page.phase
        BY <1>2 DEF IsPage
      <4>2. page' = p
        BY <2>1, <3>1 DEF Registering!Notice
      <4> HIDE DEF p
      <4> QED
        BY <1>2, <3>1, <4>1, <4>2 DEF PageFits
    <3>2. CASE page.owner # session.user
      BY <1>2, <2>1, <3>2, FreshFits DEF Registering!Notice
    <3> QED
      BY <3>1, <3>2
  <2>2. CASE Registering!RetryGate
    <3> DEFINE p == [page EXCEPT !.phase = "start"]
    <3>1. /\ IsPage(p) /\ p.form = page.form /\ p.live = page.live /\ p.owner = page.owner
          /\ p.noticed = page.noticed /\ p.ssr = page.ssr /\ p.result = page.result /\ p.phase = "start"
      BY <1>2 DEF IsPage
    <3>2. page' = p
      BY <2>2 DEF Registering!RetryGate
    <3> HIDE DEF p
    <3> QED
      BY <1>2, <3>1, <3>2 DEF PageFits, Opened
  <2>3. CASE Registering!Open
    <3> DEFINE terms == [version |-> event.version, fee |-> event.fee, mine |-> FALSE]
    <3>1. Known(terms)
      BY DEF Known, RegisterInv
    <3>2. page' = Registering!Fresh(terms, session.number, page.generation + 1)
      BY <2>3 DEF Registering!Open
    <3> HIDE DEF terms
    <3> QED
      BY <1>2, <3>1, <3>2, FreshFits
  <2> QED
    BY <2>1, <2>2, <2>3
<1>4. \A c \in calls' : CallFits(c)
  <2>1. CASE UNCHANGED calls
    BY <2>1 DEF RegisterInv
  <2>2. CASE Registering!Open
    <3> SUFFICES ASSUME NEW d \in calls, d.kind = "register"
                 PROVE  CallFits([d EXCEPT !.stage = "orphaned"])
      BY <2>2 DEF Registering!Open
    <3> QED
      BY StageFits DEF RegisterInv
  <2> QED
    BY <2>1, <2>2 DEF Registering!Notice, Registering!RetryGate
<1> QED
  BY <1>1, <1>3, <1>4, RegisterKeeps DEF RegisterInv

\* The draft is restored, or a key drawn.
LEMMA GateStep ==
  ASSUME RegisterInv, Registering!Gate
  PROVE  RegisterInv'
<1> DEFINE stored == Registering!LoadDraft(page.ssr.version)
           restored == stored # Registering!NoDraft
           f == IF restored THEN stored.form ELSE Registering!Blank(page.ssr.fee)
           k == IF restored THEN stored.key ELSE keys + 1
           at == IF session.user = "guest" THEN "left" ELSE "gate"
           opened == [page EXCEPT !.phase = at, !.owner = session.user, !.form = f, !.key = k]
<1>1. /\ UNCHANGED <<session, event, booked, troubles>> /\ page.noticed = session.number
      /\ page' = opened /\ drafts' = [drafts EXCEPT ![page.ssr.version] = Registering!DraftOf(opened)]
      /\ IF session.user = "guest" THEN calls' = calls ELSE Registering!Send("event", "gate", page.form)
      /\ page.phase = "start"
  BY DEF Registering!Gate, Registering!server
<1>2. /\ IsPage(page) /\ Known(page.ssr) /\ Known(page.live) /\ PageFits(page) /\ session.number \in Nat
      /\ page.ssr.version \in Registering!Versions
      /\ MaxTroubles \in Nat /\ troubles \in 0..MaxTroubles
  BY SmallPages DEF RegisterInv, PageFits, Known, Registering!Versions
<1>3. IsForm(f) /\ Wrote(session.user, f.writer)
  <2>1. CASE restored
    <3>1. stored = drafts[page.ssr.version] /\ stored.owner \in {session.user, "guest"}
      BY <2>1 DEF Registering!LoadDraft
    <3>2. IsForm(stored.form) /\ Wrote(stored.owner, stored.form.writer)
      BY <1>2, <2>1, <3>1 DEF RegisterInv, DraftFits
    <3> QED
      BY <2>1, <3>1, <3>2 DEF Wrote
  <2>2. CASE ~restored
    BY <2>2 DEF Registering!Blank, IsForm, Wrote
  <2> QED
    BY <2>1, <2>2
<1> HIDE DEF f, k, at
<1>4. /\ IsPage(opened) /\ opened.form = f /\ opened.live = page.live /\ opened.owner = session.user
      /\ opened.noticed = page.noticed /\ opened.ssr = page.ssr /\ opened.result = page.result
      /\ opened.phase = at
  BY <1>2 DEF IsPage
<1>5. page.result \in {Registering!Nobody, session.user}
  BY <1>1, <1>2 DEF PageFits
<1>6. PageFits(opened)
  <2> HIDE DEF opened
  <2>1. at \in Opened => session.user # "guest"
    BY DEF at, Opened
  <2> QED
    BY <1>1, <1>2, <1>3, <1>4, <1>5, <2>1 DEF PageFits
<1>7. \A v \in Registering!Versions : DraftFits(drafts'[v])
  <2> HIDE DEF opened
  <2>1. DraftFits(Registering!DraftOf(opened))
    BY <1>3, <1>4, DraftMade
  <2> QED
    BY <1>1, <2>1 DEF RegisterInv
<1>8. \A c \in calls' : CallFits(c)
  BY <1>1, SentFits DEF RegisterInv
<1> HIDE DEF opened
<1> QED
  BY <1>1, <1>2, <1>6, <1>7, <1>8, RegisterKeeps DEF RegisterInv

\* A call that is answered.
LEMMA AnswerFits ==
  ASSUME NEW c, CallFits(c), NEW answer, c.kind = "event" => Known(answer)
  PROVE  CallFits([c EXCEPT !.stage = "served", !.answer = <<answer>>])
<1> DEFINE d == [c EXCEPT !.stage = "served", !.answer = <<answer>>]
<1>1. /\ IsCall(d) /\ d.kind = c.kind /\ d.why = c.why /\ d.body = c.body /\ d.user = c.user
      /\ d.answer = <<answer>>
  BY DEF CallFits, IsCall
<1>2. CallFits(d)
  <2> HIDE DEF d
  <2>1. d.answer[1] = answer
    BY <1>1
  <2> QED
    BY <1>1, <2>1 DEF CallFits
<1> QED
  BY <1>2

LEMMA FailureFits ==
  ASSUME NEW c, CallFits(c)
  PROVE  CallFits([c EXCEPT !.stage = "failed", !.answer = <<>>])
<1> DEFINE d == [c EXCEPT !.stage = "failed", !.answer = <<>>]
<1>1. /\ IsCall(d) /\ d.kind = c.kind /\ d.why = c.why /\ d.body = c.body /\ d.user = c.user
      /\ d.stage = "failed"
  BY DEF CallFits, IsCall
<1>2. CallFits(d)
  <2> HIDE DEF d
  <2> QED
    BY <1>1 DEF CallFits
<1> QED
  BY <1>2

LEMMA DraftsRemoved ==
  ASSUME RegisterInv, NEW versions
  PROVE  /\ DOMAIN Registering!WithoutDrafts(versions) = DOMAIN drafts
         /\ \A v \in Registering!Versions : DraftFits(Registering!WithoutDrafts(versions)[v])
BY DEF RegisterInv, Registering!WithoutDrafts, DraftFits

\* A new logical registration.
LEMMA RestartStep ==
  ASSUME RegisterInv, Registering!Restart
  PROVE  RegisterInv'
<1> DEFINE f == Registering!Blank(page.live.fee)
           p == [page EXCEPT !.form = f, !.key = keys + 1, !.quote = 0, !.changed = FALSE,
                             !.reconfirmed = FALSE, !.versions = {page.live.version}]
<1>1. /\ UNCHANGED <<session, event, booked, calls>> /\ troubles' = troubles + 1 /\ troubles < MaxTroubles
      /\ page' = p
      /\ drafts' = [Registering!WithoutDrafts(page.versions) EXCEPT
                      ![page.live.version] = Registering!DraftOf(page')]
  BY DEF Registering!Restart, Registering!server, Registering!Trouble
<1>2. /\ IsPage(page) /\ PageFits(page) /\ Known(page.live) /\ page.result \in {Registering!Nobody, page.owner}
      /\ MaxTroubles \in Nat /\ troubles \in 0..MaxTroubles
  BY SmallPages DEF RegisterInv, PageFits
<1>3. IsForm(f) /\ f.writer = Registering!Nobody
  BY DEF Registering!Blank, IsForm
<1> HIDE DEF f
<1>4. /\ IsPage(p) /\ p.form = f /\ p.live = page.live /\ p.owner = page.owner /\ p.noticed = page.noticed
      /\ p.ssr = page.ssr /\ p.result = page.result /\ p.phase = page.phase
  BY <1>2 DEF IsPage
<1> HIDE DEF p
<1>5. Wrote(page.owner, p.form.writer)
  BY <1>3, <1>4 DEF Wrote
<1>6. PageFits(page')
  BY <1>1, <1>2, <1>3, <1>4, <1>5, PageEdited
<1>7. DraftFits(Registering!DraftOf(page'))
  BY <1>1, <1>3, <1>4, <1>5, DraftMade
<1>8. DOMAIN drafts' = DOMAIN drafts /\ \A v \in Registering!Versions : DraftFits(drafts'[v])
  BY <1>1, <1>7, DraftsRemoved DEF RegisterInv
<1>9. \A c \in calls' : CallFits(c)
  BY <1>1 DEF RegisterInv
<1> QED
  BY <1>1, <1>2, <1>6, <1>8, <1>9, RegisterKeeps DEF RegisterInv

\* The server answers a load or a quote.
LEMMA ReadServed ==
  ASSUME RegisterInv, NEW c \in calls,
         Registering!ServeEvent(c) \/ Registering!ServeQuote(c)
  PROVE  RegisterInv'
<1>1. UNCHANGED <<session, event, booked, page, drafts, troubles>>
  BY DEF Registering!ServeEvent, Registering!ServeQuote, Registering!server
<1>2. PICK answer : /\ calls' = (calls \ {c}) \cup {[c EXCEPT !.stage = "served", !.answer = <<answer>>]}
                    /\ c.kind = "event" => Known(answer)
                    /\ c.kind # "register"
  <2>1. CASE Registering!ServeEvent(c)
    <3>1. Known(Registering!Seen(c.user))
      BY DEF Registering!Seen, Known, RegisterInv
    <3> QED
      BY <2>1, <3>1 DEF Registering!ServeEvent, Registering!Answered
  <2>2. CASE Registering!ServeQuote(c)
    BY <2>2 DEF Registering!ServeQuote, Registering!Answered
  <2> QED
    BY <2>1, <2>2
<1>3. CallFits([c EXCEPT !.stage = "served", !.answer = <<answer>>])
  BY <1>2, AnswerFits DEF RegisterInv
<1>4. \A d \in calls' : CallFits(d)
  BY <1>2, <1>3 DEF RegisterInv
<1>5. MaxTroubles \in Nat
  BY SmallPages
<1> QED
  BY <1>1, <1>4, <1>5, RegisterKeeps DEF RegisterInv

\* A registration is booked under the version it names, so under the fee that was on the screen.
LEMMA RegisterServed ==
  ASSUME RegisterInv, NEW c \in calls, Registering!ServeRegister(c)
  PROVE  RegisterInv'
<1>1. /\ UNCHANGED <<session, event, page, drafts, troubles>> /\ c.kind = "register"
      /\ \E answer : Registering!Answered(c, answer)
  BY DEF Registering!ServeRegister
<1>2. SubmissionFits(c.user, c.body) /\ CallFits(c)
  BY <1>1 DEF RegisterInv, CallFits
<1>3. \A d \in calls' : CallFits(d)
  <2>1. PICK answer : Registering!Answered(c, answer)
    BY <1>1
  <2>2. CallFits([c EXCEPT !.stage = "served", !.answer = <<answer>>])
    BY <1>1, <1>2, AnswerFits
  <2> QED
    BY <2>1, <2>2 DEF Registering!Answered, RegisterInv
<1>4. \A r \in booked' : r.fee = r.shownFee /\ r.writer \in {Registering!Nobody, r.owner}
  <2> DEFINE r == [owner |-> c.user, writer |-> c.body.writer, fee |-> event.fee, shownFee |-> c.body.fee,
                   amount |-> quotes[c.body.quote].amount, shownAmount |-> c.body.amount]
  <2>1. \/ booked' = booked
        \/ booked' = booked \cup {r} /\ Registering!VersionHolds(c)
    BY DEF Registering!ServeRegister
  <2>2. r.fee = event.fee /\ r.shownFee = c.body.fee /\ r.owner = c.user /\ r.writer = c.body.writer
    OBVIOUS
  <2> HIDE DEF r
  <2>3. Registering!VersionHolds(c) => c.body.fee = event.fee
    BY <1>2 DEF SubmissionFits, Known, Registering!VersionHolds
  <2> QED
    BY <1>2, <2>1, <2>2, <2>3 DEF RegisterInv, SubmissionFits
<1>5. MaxTroubles \in Nat
  BY SmallPages
<1> QED
  BY <1>1, <1>3, <1>4, <1>5, RegisterKeeps DEF RegisterInv

\* A call is lost, or prices and quotes move.
LEMMA TroubleSteps ==
  ASSUME RegisterInv,
         \/ \E c \in calls : Registering!Lost(c)
         \/ Registering!PriceChanges \/ \E i \in DOMAIN quotes : Registering!QuoteExpires(i)
  PROVE  RegisterInv'
<1>1. /\ UNCHANGED <<session, event, booked, page, drafts>> /\ troubles' = troubles + 1 /\ troubles < MaxTroubles
  BY DEF Registering!Lost, Registering!PriceChanges, Registering!QuoteExpires,
     Registering!server, Registering!Trouble
<1>2. \A d \in calls' : CallFits(d)
  <2>1. CASE UNCHANGED calls
    BY <2>1 DEF RegisterInv
  <2>2. ASSUME NEW c \in calls, Registering!Lost(c)
        PROVE  \A d \in calls' : CallFits(d)
    <3>1. CallFits(c)
      BY DEF RegisterInv
    <3>2. /\ CallFits([c EXCEPT !.stage = "failed"]) /\ CallFits([c EXCEPT !.stage = "orphaned"])
          /\ CallFits([c EXCEPT !.stage = "failed", !.answer = <<>>])
      BY <3>1, StageFits, FailureFits
    <3> QED
      BY <2>2, <3>2 DEF Registering!Lost, RegisterInv
  <2> QED
    BY <2>1, <2>2 DEF Registering!PriceChanges, Registering!QuoteExpires
<1>3. MaxTroubles \in Nat /\ troubles \in 0..MaxTroubles
  BY SmallPages DEF RegisterInv
<1> QED
  BY <1>1, <1>2, <1>3, RegisterKeeps DEF RegisterInv

\* An edit makes everything read so far an older version.
LEMMA EditStep ==
  ASSUME RegisterInv, Registering!Edit
  PROVE  RegisterInv'
<1>1. /\ UNCHANGED <<session, booked, page, drafts, calls>> /\ troubles' = troubles + 1 /\ troubles < MaxTroubles
      /\ event'.version = event.version + 1
  BY DEF Registering!Edit, Registering!Trouble
<1>2. MaxTroubles \in Nat /\ troubles \in 0..MaxTroubles /\ event.version \in 1..(troubles + 1)
  BY SmallPages DEF RegisterInv
<1>3. ASSUME NEW t, Known(t)
      PROVE  t.version \in 1..event'.version /\ t.version # event'.version
  BY <1>1, <1>2, <1>3 DEF Known
<1>4. PageFits(page)'
  BY <1>1, <1>3 DEF RegisterInv, PageFits, Known
<1>5. \A c \in calls' : CallFits(c)'
  BY <1>1, <1>3 DEF RegisterInv, CallFits, SubmissionFits, Known
<1>6. troubles' \in 0..MaxTroubles /\ event'.version \in 1..(troubles' + 1)
  BY <1>1, <1>2
<1> QED
  BY <1>1, <1>4, <1>5, <1>6 DEF RegisterInv, DraftFits

\* Another account signs in: the page has not noticed yet.
LEMMA SessionStep ==
  ASSUME RegisterInv, Registering!SessionChanges
  PROVE  RegisterInv'
<1>1. /\ UNCHANGED <<event, booked, page, drafts, calls>> /\ troubles' = troubles + 1 /\ troubles < MaxTroubles
      /\ session'.number = session.number + 1
  BY DEF Registering!SessionChanges, Registering!Trouble, Registering!server
<1>2. MaxTroubles \in Nat /\ troubles \in 0..MaxTroubles /\ event.version \in 1..(troubles + 1)
  BY SmallPages DEF RegisterInv
<1>3. PageFits(page)'
  BY <1>1 DEF RegisterInv, PageFits, Known
<1>4. \A c \in calls' : CallFits(c)'
  BY <1>1 DEF RegisterInv, CallFits, SubmissionFits, Known
<1>5. troubles' \in 0..MaxTroubles /\ event'.version \in 1..(troubles' + 1) /\ session'.number \in Nat
  BY <1>1, <1>2 DEF RegisterInv
<1> QED
  BY <1>1, <1>3, <1>4, <1>5 DEF RegisterInv, DraftFits

LEMMA AlikeFits ==
  ASSUME PageFits(page), NEW p, LooksAlike(p)
  PROVE  PageFits(p)
BY DEF PageFits, LooksAlike

\* The page as it was, without a call that ended.
LEMMA CallEnds ==
  ASSUME RegisterInv, NEW c, Registering!Ends(c),
         UNCHANGED <<session, event, booked, page, drafts, troubles>>
  PROVE  RegisterInv'
<1>1. \A d \in calls' : CallFits(d)
  BY DEF Registering!Ends, RegisterInv
<1>2. MaxTroubles \in Nat /\ troubles <= MaxTroubles
  BY SmallPages DEF RegisterInv
<1> QED
  BY <1>1, <1>2, RegisterKeeps DEF RegisterInv

\* The page rendered anew, a call ended and perhaps another made.
LEMMA Rerendered ==
  ASSUME RegisterInv, NEW p, PageFits(p), Registering!Render(p),
         \A d \in calls' : CallFits(d), UNCHANGED <<session, event, booked, troubles>>
  PROVE  RegisterInv'
<1>1. MaxTroubles \in Nat /\ troubles <= MaxTroubles
  BY SmallPages DEF RegisterInv
<1> QED
  BY <1>1, RenderKeeps, RegisterKeeps DEF RegisterInv

LEMMA NextCall ==
  ASSUME RegisterInv, NEW c, NEW next, Registering!Then(c, next), CallFits(next)
  PROVE  \A d \in calls' : CallFits(d)
BY DEF Registering!Then, RegisterInv

LEMMA NoMoreCall ==
  ASSUME RegisterInv, NEW c, Registering!Ends(c)
  PROVE  \A d \in calls' : CallFits(d)
BY DEF Registering!Ends, RegisterInv

\* The event opens the form; other terms take the acceptance back.
LEMMA GateAnswered ==
  ASSUME RegisterInv, NEW c \in calls, Registering!GateAnswers(c),
         Registering!OperationCurrent(c)
  PROVE  RegisterInv'
<1> DEFINE live == c.answer[1]
           agreed == IF live.fee # page.ssr.fee THEN live.fee = 0 ELSE page.form.accepted
           p == [page EXCEPT !.phase = "ready", !.live = live, !.versions = @ \cup {live.version},
                             !.form.accepted = agreed]
           q == [p EXCEPT !.loading = TRUE]
<1>1. /\ UNCHANGED <<session, event, booked, troubles>> /\ c.kind = "event" /\ c.why = "gate"
      /\ c.stage = "served" /\ CallFits(c)
      /\ \/ Registering!Render(q) /\ Registering!Then(c, Registering!Call("quote", "show", <<>>))
         \/ Registering!Render(p) /\ Registering!Ends(c)
  BY DEF Registering!GateAnswers, Registering!Good, Registering!server, RegisterInv
<1>2. Known(live) /\ c.user # "guest" /\ page.owner = c.user /\ session.user = c.user
  BY <1>1 DEF CallFits, Registering!OperationCurrent
<1>3. IsPage(page) /\ IsForm(page.form) /\ PageFits(page) /\ Wrote(page.owner, page.form.writer)
      /\ page.result \in {Registering!Nobody, page.owner}
  BY DEF RegisterInv, PageFits
<1> HIDE DEF live, agreed
<1>4. /\ IsPage(p) /\ IsForm(p.form) /\ p.form.writer = page.form.writer /\ p.live = live
      /\ p.owner = page.owner /\ p.noticed = page.noticed /\ p.ssr = page.ssr /\ p.result = page.result
  BY ZenonT(60), <1>3 DEF IsPage, IsForm
<1> HIDE DEF p
<1>5. /\ IsPage(q) /\ q.form = p.form /\ q.live = p.live /\ q.owner = p.owner /\ q.noticed = p.noticed
      /\ q.ssr = p.ssr /\ q.result = p.result
  BY <1>4 DEF IsPage
<1> HIDE DEF q
<1>6. PageFits(p) /\ PageFits(q)
  BY <1>2, <1>3, <1>4, <1>5, PageEdited
<1>7. \A d \in calls' : CallFits(d)
  BY <1>1, NextCall, NoMoreCall, CallMade
<1> QED
  BY <1>1, <1>6, <1>7, Rerendered

LEMMA GateFailed ==
  ASSUME RegisterInv, NEW c \in calls, Registering!GateFails(c),
         Registering!OperationCurrent(c)
  PROVE  RegisterInv'
<1> DEFINE p == [page EXCEPT !.phase = "failed"]
<1>1. /\ UNCHANGED <<session, event, booked, drafts, troubles>> /\ c.kind = "event" /\ c.why = "gate"
      /\ CallFits(c) /\ page' = p /\ Registering!Ends(c)
  BY DEF Registering!GateFails, Registering!server, RegisterInv
<1>2. c.user # "guest" /\ page.owner = c.user /\ session.user = c.user
  BY <1>1 DEF CallFits, Registering!OperationCurrent
<1>3. IsPage(page) /\ IsForm(page.form) /\ PageFits(page) /\ Wrote(page.owner, page.form.writer)
      /\ page.result \in {Registering!Nobody, page.owner} /\ Known(page.live)
  BY DEF RegisterInv, PageFits
<1>4. /\ IsPage(p) /\ p.form = page.form /\ p.live = page.live
      /\ p.owner = page.owner /\ p.noticed = page.noticed /\ p.ssr = page.ssr /\ p.result = page.result
  BY <1>3 DEF IsPage
<1> HIDE DEF p
<1>5. PageFits(page')
  BY <1>1, <1>2, <1>3, <1>4, PageEdited
<1>6. MaxTroubles \in Nat /\ troubles <= MaxTroubles
  BY SmallPages DEF RegisterInv
<1> QED
  BY <1>1, <1>5, <1>6, NoMoreCall, RegisterKeeps DEF RegisterInv

\* A quote is shown; a submission that waited for it goes on as it was.
LEMMA QuoteAnswered ==
  ASSUME RegisterInv, NEW c \in calls, Registering!QuoteAnswers(c),
         Registering!OperationCurrent(c)
  PROVE  RegisterInv'
<1> DEFINE p == [page EXCEPT !.quote = c.answer[1].quote, !.loading = FALSE,
                             !.busy = IF c.why = "conflict" THEN FALSE ELSE @]
           b == [c.body EXCEPT !.quote = c.answer[1].quote]
<1>1. /\ UNCHANGED <<session, event, booked, troubles>> /\ c.kind = "quote" /\ CallFits(c)
      /\ Registering!Render(p)
      /\ IF c.why = "submit" THEN Registering!Then(c, Registering!Call("register", "", b))
         ELSE Registering!Ends(c)
  BY DEF Registering!QuoteAnswers, Registering!server, RegisterInv
<1>2. session.user = c.user
  BY DEF Registering!OperationCurrent
<1>3. IsPage(page) /\ PageFits(page)
  BY DEF RegisterInv, PageFits
<1>4. LooksAlike(p)
  BY <1>3 DEF IsPage, LooksAlike
<1> HIDE DEF p
<1>5. PageFits(p)
  BY <1>3, <1>4, AlikeFits
<1>6. c.why = "submit" => SubmissionFits(session.user, b)
  <2> SUFFICES ASSUME c.why = "submit"
               PROVE  SubmissionFits(session.user, b)
    OBVIOUS
  <2>1. SubmissionFits(c.user, c.body) /\ IsSubmission(c.body)
    BY <1>1 DEF CallFits, SubmissionFits
  <2>2. IsSubmission(b) /\ b.version = c.body.version /\ b.fee = c.body.fee /\ b.writer = c.body.writer
    BY <2>1 DEF IsSubmission
  <2> HIDE DEF b
  <2> QED
    BY <1>2, <2>1, <2>2 DEF SubmissionFits, Known
<1> HIDE DEF b
<1>7. \A d \in calls' : CallFits(d)
  BY <1>1, <1>6, NextCall, NoMoreCall, CallMade
<1> QED
  BY <1>1, <1>5, <1>7, Rerendered

\* What failed leaves the page as it was, but for its flags.
LEMMA Failures ==
  ASSUME RegisterInv, NEW c \in calls,
         \/ Registering!QuoteFails(c) \/ Registering!SubmissionFails(c) \/ Registering!ConflictFails(c)
  PROVE  RegisterInv'
<1>1. UNCHANGED <<session, event, booked, troubles>> /\ Registering!Ends(c)
  BY DEF Registering!QuoteFails, Registering!SubmissionFails, Registering!ConflictFails,
     Registering!server
<1>2. IsPage(page) /\ PageFits(page)
  BY DEF RegisterInv, PageFits
<1>3. LooksAlike([page EXCEPT !.busy = FALSE])
  BY <1>2 DEF IsPage, LooksAlike
<1>4. LooksAlike([page EXCEPT !.loading = FALSE, !.busy = IF c.why = "show" THEN @ ELSE FALSE])
  BY <1>2 DEF IsPage, LooksAlike
<1>5. \/ UNCHANGED <<page, drafts>>
      \/ Registering!Render([page EXCEPT !.busy = FALSE])
      \/ Registering!Render([page EXCEPT !.loading = FALSE, !.busy = IF c.why = "show" THEN @ ELSE FALSE])
  BY DEF Registering!QuoteFails, Registering!SubmissionFails, Registering!ConflictFails
<1>6. CASE UNCHANGED <<page, drafts>>
  BY <1>1, <1>6, CallEnds
<1>7. CASE ~UNCHANGED <<page, drafts>>
  <2>1. PICK p : PageFits(p) /\ Registering!Render(p)
    BY <1>2, <1>3, <1>4, <1>5, <1>7, AlikeFits
  <2> QED
    BY <1>1, <2>1, NoMoreCall, Rerendered
<1> QED
  BY <1>6, <1>7

\* The result is that of the account the page is open for.
LEMMA RegisteredStep ==
  ASSUME RegisterInv, NEW c \in calls, Registering!Registered(c),
         Registering!OperationCurrent(c)
  PROVE  RegisterInv'
<1> DEFINE p == [page EXCEPT !.result = c.user, !.busy = FALSE]
<1>1. /\ UNCHANGED <<session, event, booked, troubles>> /\ page' = p /\ Registering!Ends(c)
      /\ drafts' = Registering!WithoutDrafts(page.versions) /\ page.owner = c.user
  BY DEF Registering!Registered, Registering!OperationCurrent, Registering!server
<1>2. IsPage(page) /\ PageFits(page)
  BY DEF RegisterInv, PageFits
<1>3. /\ IsPage(p) /\ p.form = page.form /\ p.live = page.live /\ p.owner = page.owner
      /\ p.noticed = page.noticed /\ p.ssr = page.ssr /\ p.result = page.owner /\ p.phase = page.phase
  BY <1>1, <1>2 DEF IsPage
<1> HIDE DEF p
<1>4. PageFits(page')
  BY <1>1, <1>2, <1>3 DEF PageFits
<1>5. MaxTroubles \in Nat /\ troubles <= MaxTroubles
  BY SmallPages DEF RegisterInv
<1> QED
  BY <1>1, <1>4, <1>5, DraftsRemoved, NoMoreCall, RegisterKeeps DEF RegisterInv

LEMMA ConflictStep ==
  ASSUME RegisterInv, NEW c \in calls, Registering!Conflict(c)
  PROVE  RegisterInv'
<1>1. UNCHANGED <<session, event, booked, page, drafts, troubles>>
  BY DEF Registering!Conflict, Registering!server
<1>2. \A d \in calls' : CallFits(d)
  BY NextCall, NoMoreCall, CallMade DEF Registering!Conflict
<1>3. MaxTroubles \in Nat /\ troubles <= MaxTroubles
  BY SmallPages DEF RegisterInv
<1> QED
  BY <1>1, <1>2, <1>3, RegisterKeeps DEF RegisterInv

\* The changed event is shown, the form kept.
LEMMA ConflictAnswered ==
  ASSUME RegisterInv, NEW c \in calls, Registering!ConflictAnswers(c),
         Registering!OperationCurrent(c)
  PROVE  RegisterInv'
<1> DEFINE live == c.answer[1]
           agreed == IF live.fee # page.live.fee THEN live.fee = 0 ELSE page.form.accepted
           f == [page.form EXCEPT !.accepted = agreed]
           p == [page EXCEPT !.live = live, !.versions = @ \cup {live.version}, !.quote = 0,
                             !.changed = TRUE, !.reconfirmed = FALSE, !.form = f]
           q == [p EXCEPT !.form.step = "details", !.busy = FALSE]
           r == [p EXCEPT !.loading = TRUE]
<1>1. /\ UNCHANGED <<session, event, booked, troubles>> /\ c.kind = "event" /\ c.stage = "served" /\ CallFits(c)
      /\ \/ Registering!Render(q) /\ Registering!Ends(c)
         \/ Registering!Render(r) /\ Registering!Then(c, Registering!Call("quote", "conflict", <<>>))
  BY DEF Registering!ConflictAnswers, Registering!Good, Registering!server, RegisterInv
<1>2. Known(live)
  BY <1>1 DEF CallFits
<1>3. IsPage(page) /\ IsForm(page.form) /\ PageFits(page) /\ Wrote(page.owner, page.form.writer)
      /\ page.result \in {Registering!Nobody, page.owner}
  BY DEF RegisterInv, PageFits
<1> HIDE DEF live, agreed
<1>4. IsForm(f) /\ f.writer = page.form.writer
  BY <1>3 DEF IsForm
<1> HIDE DEF f
<1>5. /\ IsPage(p) /\ p.form = f /\ p.live = live /\ p.owner = page.owner
      /\ p.noticed = page.noticed /\ p.ssr = page.ssr /\ p.result = page.result /\ p.phase = page.phase
  BY <1>3 DEF IsPage
<1> HIDE DEF p
<1>6. /\ IsPage(q) /\ IsForm(q.form) /\ q.form.writer = f.writer /\ q.live = p.live /\ q.owner = p.owner
      /\ q.noticed = p.noticed /\ q.ssr = p.ssr /\ q.result = p.result /\ q.phase = p.phase
  <2>1. q.form = [f EXCEPT !.step = "details"]
    BY <1>5 DEF IsPage
  <2>2. IsForm(q.form) /\ q.form.writer = f.writer
    BY <1>4, <2>1 DEF IsForm
  <2>3. /\ IsPage(q) /\ q.live = p.live /\ q.owner = p.owner
        /\ q.noticed = p.noticed /\ q.ssr = p.ssr /\ q.result = p.result /\ q.phase = p.phase
    BY <1>5 DEF IsPage
  <2> QED
    BY <2>2, <2>3
<1>7. /\ IsPage(r) /\ r.form = p.form /\ r.live = p.live /\ r.owner = p.owner
      /\ r.noticed = p.noticed /\ r.ssr = p.ssr /\ r.result = p.result /\ r.phase = p.phase
  BY <1>5 DEF IsPage
<1> HIDE DEF q, r
<1>8. PageFits(q) /\ PageFits(r)
  BY <1>2, <1>3, <1>4, <1>5, <1>6, <1>7, PageEdited
<1>9. \A d \in calls' : CallFits(d)
  BY <1>1, NextCall, NoMoreCall, CallMade
<1> QED
  BY <1>1, <1>8, <1>9, Rerendered

LEMMA RegisterStep ==
  ASSUME RegisterInv, Registering!Next
  PROVE  RegisterInv'
<1>1. ASSUME NEW c \in calls, Registering!OperationCurrent(c),
             \/ Registering!GateAnswers(c) \/ Registering!GateFails(c) \/ Registering!QuoteAnswers(c)
             \/ Registering!Registered(c) \/ Registering!ConflictAnswers(c)
      PROVE  RegisterInv'
  BY <1>1, GateAnswered, GateFailed, QuoteAnswered, RegisteredStep, ConflictAnswered
<1>2. ASSUME NEW c \in calls, ~Registering!OperationCurrent(c),
             \/ Registering!GateAnswers(c) \/ Registering!GateFails(c) \/ Registering!QuoteAnswers(c)
             \/ Registering!Registered(c) \/ Registering!ConflictAnswers(c)
      PROVE  RegisterInv'
  <2>1. Registering!Ends(c) /\ UNCHANGED <<session, event, booked, page, drafts, troubles>>
    BY <1>2 DEF Registering!GateAnswers, Registering!GateFails, Registering!QuoteAnswers,
       Registering!Registered, Registering!ConflictAnswers, Registering!server
  <2> QED
    BY <2>1, CallEnds
<1> QED
  BY <1>1, <1>2, FormSteps, OpeningSteps, GateStep, RestartStep, ReadServed, RegisterServed, TroubleSteps,
     EditStep, SessionStep, Failures, ConflictStep DEF Registering!Next

\* The registration page keeps its invariant whatever a behaviour is about.
LEMMA RegisterAlways ==
  PagesSpec => []RegisterInv
<1>1. PagesInit => RegisterInv
  BY RegisterBegins DEF PagesInit
<1>2. RegisterInv /\ [PagesNext]_(pagesVars) => RegisterInv'
  <2> SUFFICES ASSUME RegisterInv, [PagesNext]_(pagesVars)
               PROVE  RegisterInv'
    OBVIOUS
  <2>1. CASE UNCHANGED registerPart
    <3>1. UNCHANGED <<session, event, booked, page, drafts, calls, troubles>>
      BY <2>1 DEF registerPart
    <3>2. MaxTroubles \in Nat /\ troubles <= MaxTroubles
      BY SmallPages DEF RegisterInv
    <3> QED
      BY <3>1, <3>2, RegisterKeeps DEF RegisterInv
  <2>2. CASE Registering!Next
    BY <2>2, RegisterStep
  <2> QED
    BY <2>1, <2>2 DEF PagesNext, pagesVars
<1> QED
  BY <1>1, <1>2, PTL DEF PagesSpec

\* A registration and an accepted offer stand as their owner's page showed them, and a page shows
\* and sends its account's own words: whatever is edited, lost, repeated or signed in elsewhere.
THEOREM SentAlwaysAsShown ==
  PagesSpec => []SentAsShown
<1>1. RegisterInv => Registering!RegisteredAsReviewed
  BY DEF RegisterInv, PageFits, Wrote, Opened, Registering!RegisteredAsReviewed,
     Registering!FeeWasOnTheScreen, Registering!FormsStayPrivate
<1>2. ItineraryInv => Following!AcceptedAsReviewed
  <2> SUFFICES ASSUME ItineraryInv
               PROVE  Following!AcceptedAsReviewed
    OBVIOUS
  <2>1. Following!Cardinality(accepted) = Cardinality(accepted)
    BY DEF Cardinality, Following!Cardinality
  <2>2. CASE accepted = {}
    BY <2>2, <2>1, FS_EmptySet DEF Following!AcceptedAsReviewed
  <2>3. ASSUME NEW r, accepted = {r}
        PROVE  Following!AcceptedAsReviewed
    <3>1. Cardinality(accepted) = 1
      BY <2>3, FS_Singleton
    <3> QED
      BY <2>1, <3>1 DEF ItineraryInv, OfferInv, Following!AcceptedAsReviewed
  <2> QED
    BY <2>2, <2>3 DEF ItineraryInv, OfferInv
<1>3. RegisterInv /\ ItineraryInv => SentAsShown
  BY <1>1, <1>2 DEF SentAsShown
<1> QED
  BY <1>3, RegisterAlways, ItineraryAlways, PTL

\* However many loads of the itinerary overlap, what an account sees never goes back.
THEOREM ItineraryAlwaysForward ==
  PagesSpec => ItineraryMovesForward
BY ItineraryAlways, PTL DEF ItineraryMovesForward

=============================================================================
