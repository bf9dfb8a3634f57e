---------------------------- MODULE PointsLedger ----------------------------
(***************************************************************************)
(* The points of ONE user: the wallet, the append-only ledger it must      *)
(* agree with, the lots the ledger's credits are, and the holds that       *)
(* reserve points.  Nothing in the code relates the points of two users.   *)
(*                                                                         *)
(* Every operation (services/api/src/modules/points, .../storekit, the     *)
(* adjustments of .../ops, two jobs of services/worker/src/jobs.ts) is one *)
(* transaction that locks the wallet row or updates it in place; a call    *)
(* that throws or that finds its business key posted already is no step.   *)
(***************************************************************************)
EXTENDS Integers, Sequences, FiniteSets, FiniteSetsExt, SequencesExt

CONSTANTS
  Rewards,      \* business keys of free credits: daily check-in, referral, ...
  RewardOf,     \* the points of each
  Orders,       \* StoreKit orders
  PointsOf,     \* the paid points of each order
  BonusOf,      \* the free points that come with it
  Adjustments,  \* approved point adjustments
  AdjustmentOf, \* the bucket and the signed amount of each
  Fees,         \* things one pays for
  FeeOf,        \* what each is for: a registration, a publication, a promotion
  PriceOf,      \* what each costs, as quoted
  MaxPostings,  \* bound on the length of the ledger
  CreditLife,   \* points.expiry.free_days, in ticks of the clock
  ReversalLife, \* the 30 days of reversed free points, in ticks of the clock
  MaxClock      \* bound on the clock

VARIABLES
  clock,   \* what expires_at is compared with
  free,    \* wallets.free_balance
  paid,    \* wallets.paid_balance
  ledger,  \* the postings, oldest first; a lot's id is its place
  hold     \* point_holds.state of each fee's hold, "lapsed" once expires_at has passed

vars == <<clock, free, paid, ledger, hold>>

Never == MaxClock + CreditLife + ReversalLife   \* expires_at IS NULL, which sorts last

(* A posting is the pair of point_entries of one amount: the user's leg, with   *)
(* its expires_at and source_lot_id, and the platform's leg, which is the same  *)
(* amount negated (trg_point_entries_balanced) and may name a lot too.          *)
Posting(tx, bucket, amount, expires, lot, platformLot) ==
  [tx |-> tx, bucket |-> bucket, amount |-> amount, expires |-> expires,
   lot |-> lot, platformLot |-> platformLot]

Init ==
  /\ clock = 0
  /\ free = 0 /\ paid = 0
  /\ ledger = <<>>
  /\ hold = [f \in Fees |-> "none"]

-----------------------------------------------------------------------------
(* The ledger *)

Places == DOMAIN ledger

\* UNIQUE (user_id, business_key): a transaction is posted once.
Posted(tx) == \E i \in Places : ledger[i].tx = tx

\* The sum of the user's legs at some places of the ledger.
SumOver(f, S) == MapThenSumSet(LAMBDA i : f[i], S)
Total(P) == SumOver([i \in Places |-> ledger[i].amount], P)

\* What a transaction moves in a bucket.
Moved(tx, b) == Total({i \in Places : ledger[i].tx = tx /\ ledger[i].bucket = b})

\* Appends the postings of one transaction.
Post(postings) ==
  /\ ledger' = ledger \o postings
  /\ Len(ledger') <= MaxPostings

\* A lot is a credit; what is drawn from it names it as its source_lot_id.
Lots == {i \in Places : ledger[i].amount > 0}
Expired(i) == ledger[i].expires <= clock

\* remaining: the sum runs over EVERY leg that names the lot, the platform's too.
Remaining(i) ==
  ledger[i].amount + Total({j \in Places : ledger[j].lot = i})
                   - Total({j \in Places : ledger[j].platformLot = i})

\* The order in which lots are spent.
Precedes(i, j) ==
  LET rank(k) == IF ledger[k].bucket = "free" THEN 0 ELSE 1
  IN \/ rank(i) < rank(j)
     \/ rank(i) = rank(j) /\ ledger[i].expires < ledger[j].expires
     \/ rank(i) = rank(j) /\ ledger[i].expires = ledger[j].expires /\ i < j

\* A set of places as a sequence.
InOrder(P, Before(_, _)) ==
  {s \in SetToSeqs(P) : \A i, j \in DOMAIN s : i < j => Before(s[i], s[j])}

\* What each lot that has not expired has left.
Offer == LET unexpired == [i \in {k \in Lots : ~Expired(k)} |-> Remaining(i)]
         IN [i \in {k \in DOMAIN unexpired : unexpired[k] > 0} |-> unexpired[i]]

\* How an amount is spread over an offer: each lot gives what the lots before
\* it leave to pay.
Shares(offer, amount) ==
  LET due(i) == amount - SumOver(offer, {j \in DOMAIN offer : Precedes(j, i)})
      given == [i \in DOMAIN offer |-> Min({offer[i], Max({0, due(i)})})]
  IN [i \in {k \in DOMAIN offer : given[k] > 0} |-> given[i]]

-----------------------------------------------------------------------------
(* PointsService *)

\* credit: a lot of free points expires.
Reward(k) ==
  /\ ~Posted(<<"reward", k>>)
  /\ Post(<<Posting(<<"reward", k>>, "free", RewardOf[k], clock + CreditLife, 0, 0)>>)
  /\ free' = free + RewardOf[k]
  /\ UNCHANGED <<clock, paid, hold>>

\* The holds that still reserve points.
Live(H) == {f \in H : hold[f] = "active"}
Reserved(H) == SumOver(PriceOf, Live(H))

\* spend: takes an amount from the lots, free ones first, each leg with its
\* lot; the CHECK of wallets refuses a negative free balance.
Spend(tx, amount, reserved) ==
  /\ free + paid - reserved >= amount
  /\ ~Posted(tx)
  /\ LET offer == Offer
         share == Shares(offer, amount)
         from(b) == SumOver(share, {i \in DOMAIN share : ledger[i].bucket = b})
     IN
     /\ SumOver(offer, DOMAIN offer) >= amount
     /\ \E order \in InOrder(DOMAIN share, Precedes) :
          Post([n \in 1..Len(order) |->
                  Posting(tx, ledger[order[n]].bucket, -share[order[n]],
                          Never, order[n], order[n])])
     /\ free' = free - from("free") /\ free' >= 0
     /\ paid' = paid - from("paid")

\* A fee that is paid at once: nothing was held for it.
PayFee(f) ==
  /\ FeeOf[f] # "publication"
  /\ hold[f] = "none"
  /\ Spend(<<"fee", f>>, PriceOf[f], Reserved(Fees))
  /\ UNCHANGED <<clock, hold>>

CreateHold(f) ==
  /\ FeeOf[f] # "promotion"
  /\ hold[f] = "none" /\ ~Posted(<<"fee", f>>)
  /\ free + paid - Reserved(Fees) >= PriceOf[f]
  /\ hold' = [hold EXCEPT ![f] = "active"]
  /\ UNCHANGED <<clock, free, paid, ledger>>

\* Mutant: what other holds reserve is not set aside.
CaptureHold_IgnoresOthers(f) ==
  /\ hold[f] = "active" \/ (hold[f] = "lapsed" /\ FeeOf[f] = "publication")
  /\ Spend(<<"fee", f>>, PriceOf[f], 0)
  /\ hold' = [hold EXCEPT ![f] = "captured"]
  /\ UNCHANGED clock

\* captureHold looks at the state only; the host's decision refuses a lapsed
\* hold before it calls, the review of a publication does not.
CaptureHold(f) ==
  /\ hold[f] = "active" \/ (hold[f] = "lapsed" /\ FeeOf[f] = "publication")
  /\ Spend(<<"fee", f>>, PriceOf[f], Reserved(Fees \ {f}))
  /\ hold' = [hold EXCEPT ![f] = "captured"]
  /\ UNCHANGED clock

ReleaseHold(f) ==
  /\ hold[f] \in {"active", "lapsed"}
  /\ hold' = [hold EXCEPT ![f] = "released"]
  /\ UNCHANGED <<clock, free, paid, ledger>>

\* Mutant: a bucket gives back what is left of the amount, spent from it or not.
GivenBack_Uncapped(spent, left) == left

\* What a bucket gives back of what is left to reverse.
GivenBack(spent, left) == Min({spent, left})

\* A registration's fee goes back by one path: cancel() and the cancellation of
\* the event leave it in different statuses (Registrations!FeesFollowSeats).
NotRefunded(f) == ~Posted(<<"reversal", f>>) /\ ~Posted(<<"event_refund", f>>)

\* reverse: the paid bucket first, then free points that live a while. A part
\* of the fee is reversed for the unused part of a promotion only.
ReverseFee(f, amount) ==
  LET spent(b) == -Moved(<<"fee", f>>, b)
      paidBack == GivenBack(spent("paid"), amount)
      freeBack == GivenBack(spent("free"), amount - paidBack)
      tx == <<"reversal", f>>
  IN
  /\ Posted(<<"fee", f>>) /\ NotRefunded(f)
  /\ \/ FeeOf[f] = "registration" /\ amount = PriceOf[f]
     \/ FeeOf[f] = "promotion"
  /\ Post((IF paidBack > 0 THEN <<Posting(tx, "paid", paidBack, Never, 0, 0)>> ELSE <<>>)
       \o (IF freeBack > 0 THEN <<Posting(tx, "free", freeBack, clock + ReversalLife, 0, 0)>> ELSE <<>>))
  /\ free' = free + freeBack
  /\ paid' = paid + paidBack
  /\ UNCHANGED <<clock, hold>>

-----------------------------------------------------------------------------
(* StoreKitService *)

\* verifyAndCredit: the paid points and their free bonus, in one transaction.
VerifyAndCredit(o) ==
  LET bonus == Posting(<<"bonus", o>>, "free", BonusOf[o], clock + CreditLife, 0, 0)
  IN
  /\ ~Posted(<<"paid", o>>)
  /\ Post(<<Posting(<<"paid", o>>, "paid", PointsOf[o], Never, 0, 0)>>
           \o (IF BonusOf[o] > 0 THEN <<bonus>> ELSE <<>>))
  /\ paid' = paid + PointsOf[o]
  /\ free' = free + BonusOf[o]
  /\ UNCHANGED <<clock, hold>>

\* Mutant: what the free bucket cannot give back is forgotten in the wallet.
ClawedBack_NoDebt(paidDue, freeDue, freeTaken) == paidDue

\* What the paid bucket gives back: its part and what the free one lacks.
ClawedBack(paidDue, freeDue, freeTaken) == paidDue + (freeDue - freeTaken)

\* reverseRevokedOrder: halves of the order are refunded (revocationPercentage,
\* rounded up); the clawback names no lot.
Revoke(o, halves) ==
  /\ Posted(<<"paid", o>>) /\ ~Posted(<<"store_refund", o>>)
  /\ LET half(n) == (n * halves + 1) \div 2
         paidDue == half(PointsOf[o])
         freeDue == half(BonusOf[o])
         freeTaken == Min({freeDue, free})
         back(b, n) == Posting(<<"store_refund", o>>, b, -n, Never, 0, 0)
     IN
     /\ Post(<<back("paid", paidDue + freeDue - freeTaken)>>
              \o (IF freeTaken > 0 THEN <<back("free", freeTaken)>> ELSE <<>>))
     /\ paid' = paid - ClawedBack(paidDue, freeDue, freeTaken)
     /\ free' = free - freeTaken
  /\ UNCHANGED <<clock, hold>>

(* OpsService, execution of an approved adjustment *)

Adjust(j) ==
  LET b == AdjustmentOf[j][1]
      amount == AdjustmentOf[j][2]
  IN
  /\ ~Posted(<<"adjustment", j>>)
  /\ amount < 0 => (IF b = "free" THEN free ELSE paid) + amount >= 0
  /\ Post(<<Posting(<<"adjustment", j>>, b, amount, Never, 0, 0)>>)
  /\ free' = IF b = "free" THEN free + amount ELSE free
  /\ paid' = IF b = "paid" THEN paid + amount ELSE paid
  /\ UNCHANGED <<clock, hold>>

-----------------------------------------------------------------------------
(* The worker's jobs *)

\* Lots that expireFreePointLots selects, and the one it takes.
DueLots == {i \in Lots : /\ ledger[i].bucket = "free" /\ Expired(i)
                         /\ ~Posted(<<"expiry", i>>)
                         /\ Remaining(i) > 0}
FirstDue == LET due == DueLots
            IN {i \in due : \A j \in due \ {i} : Precedes(i, j)}

\* expireFreePointLots, one lot. The platform's leg names no lot. If the free
\* balance is smaller than the lot's remainder the CHECK aborts the job.
ExpireLot(i) ==
  /\ Post(<<Posting(<<"expiry", i>>, "free", -Remaining(i), Never, i, 0)>>)
  /\ free' = free - Remaining(i) /\ free' >= 0
  /\ UNCHANGED <<clock, paid, hold>>

\* refundCancelledEvent, one fee: every leg comes back to its bucket, with the
\* lot it came from and without an expiry of its own.
RefundEventFee(f) ==
  LET back(b) == -Moved(<<"fee", f>>, b)
  IN
  /\ FeeOf[f] = "registration"
  /\ Posted(<<"fee", f>>) /\ NotRefunded(f)
  /\ \E legs \in InOrder({i \in Places : ledger[i].tx = <<"fee", f>>}, <) :
       Post([n \in 1..Len(legs) |->
               Posting(<<"event_refund", f>>, ledger[legs[n]].bucket, -ledger[legs[n]].amount,
                       Never, ledger[legs[n]].lot, 0)])
  /\ free' = free + back("free")
  /\ paid' = paid + back("paid")
  /\ UNCHANGED <<clock, hold>>

\* reconcileLedger: a wallet that is not the sum of the user's legs in each
\* bucket opens a case of severity p0.
WalletMismatch ==
  \/ free # Total({i \in Places : ledger[i].bucket = "free"})
  \/ paid # Total({i \in Places : ledger[i].bucket = "paid"})

\* expireHoldsAndQuotes: alone, or with the pending registration it backs.
ExpireHold(f) ==
  /\ hold[f] = "lapsed"
  /\ hold' = [hold EXCEPT ![f] = "expired"]
  /\ UNCHANGED <<clock, free, paid, ledger>>

LapseHold(f) ==
  /\ hold[f] = "active"
  /\ hold' = [hold EXCEPT ![f] = "lapsed"]
  /\ UNCHANGED <<clock, free, paid, ledger>>

Tick ==
  /\ clock < MaxClock
  /\ clock' = clock + 1
  /\ UNCHANGED <<free, paid, ledger, hold>>

-----------------------------------------------------------------------------
Credit == (\E k \in Rewards : Reward(k)) \/ (\E o \in Orders : VerifyAndCredit(o))

UseOf(f) ==
  \/ PayFee(f)
  \/ CreateHold(f)
  \/ \E amount \in 1..PriceOf[f] : ReverseFee(f, amount)
  \/ CaptureHold(f)
  \/ ReleaseHold(f)
  \/ RefundEventFee(f)
  \/ ExpireHold(f)
  \/ LapseHold(f)

\* What may take points back that the user does not choose to give.
TakeBack ==
  \/ \E o \in Orders, halves \in 1..2 : Revoke(o, halves)
  \/ \E j \in Adjustments : Adjust(j)
  \/ \E i \in FirstDue : ExpireLot(i)

Next == Credit \/ (\E f \in Fees : UseOf(f)) \/ TakeBack \/ Tick

Spec == Init /\ [][Next]_vars

-----------------------------------------------------------------------------
(* Properties *)

\* The wallet, which every operation updates by a delta of its own, agrees with
\* the ledger whenever reconcileLedger may look.
WalletMatchesLedger == ~WalletMismatch

\* A fee comes back at most once and never for more than it took from each
\* bucket, whether it is reversed in part, in full or refunded with its event.
RefundsWithinFee ==
  \A f \in Fees, b \in {"free", "paid"} :
    Posted(<<"fee", f>>) =>
      Total({i \in Places : /\ ledger[i].tx \in {"fee", "reversal", "event_refund"} \X {f}
                            /\ ledger[i].bucket = b}) <= 0

\* A hold is captured exactly when its fee was paid through it, for the amount
\* that was held; a released or expired hold cost nothing.
CapturedHoldsArePaid ==
  \A f \in Fees :
    hold[f] # "none" =>
      IF hold[f] = "captured"
        THEN Moved(<<"fee", f>>, "free") + Moved(<<"fee", f>>, "paid") = -PriceOf[f]
        ELSE ~Posted(<<"fee", f>>)

\* Points reserved by a live hold are not spent or reserved a second time: the
\* balance only falls further below the holds by what takes points back.
HoldsTakenBackOnly ==
  LET slack == free + paid - Reserved(Fees)
  IN slack' < 0 /\ slack' < slack => TakeBack

HoldsStayCovered == [][HoldsTakenBackOnly]_vars

=============================================================================
