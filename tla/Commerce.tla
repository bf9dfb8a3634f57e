------------------------------- MODULE Commerce -------------------------------
(***************************************************************************)
(* Points: the wallet of a user with everything that moves it, the rewards *)
(* of inviters, and the daily check-in with its streak. The latter two     *)
(* credit wallets as the Rewards of the first do; they share no state that *)
(* decides anything, and a behaviour is about one part.                    *)
(***************************************************************************)
EXTENDS Integers, Sequences, FiniteSets, FiniteSetsExt

CONSTANTS
  Rewards, RewardOf, Orders, PointsOf, BonusOf, Adjustments, AdjustmentOf, Fees, FeeOf, PriceOf,
  MaxPostings, CreditLife, ReversalLife, MaxClock,                                   \* PointsLedger
  People, Newcomers, Window, MonthLength, Cap, MaxTrail, MaxLinks, MaxVisits, MaxGone, MaxDay, \* Referrals
  Taps, Short, Long, MaxCivilDay  \* DailyCheckin

ASSUME CommerceAssumption ==
  /\ RewardOf \in [Rewards -> Nat \ {0}]
  /\ PointsOf \in [Orders -> Nat \ {0}] /\ BonusOf \in [Orders -> Nat]
  /\ AdjustmentOf \in [Adjustments -> {"free", "paid"} \X (Int \ {0})]
  /\ IsFiniteSet(Fees) /\ FeeOf \in [Fees -> {"registration", "publication", "promotion"}]
  /\ PriceOf \in [Fees -> Nat \ {0}]
  /\ MaxPostings \in Nat /\ MaxClock \in Nat
  /\ CreditLife \in Nat \ {0} /\ ReversalLife \in Nat \ {0}
  /\ Newcomers \subseteq People /\ Window \in Nat /\ MonthLength \in Nat \ {0} /\ Cap \in Nat
  /\ Short \in Nat \ {0} /\ Long \in Nat \ {0} /\ MaxCivilDay \in Nat

VARIABLES
  part,
  clock, free, paid, ledger, hold,
  day, gone, links, trail, accepting, visits, visiting, rewarded,
  civilDay, tap, locked, streak, checkedIn

Wallet == INSTANCE PointsLedger
Inviting == INSTANCE Referrals WITH today <- day, paid <- rewarded
CheckingIn == INSTANCE DailyCheckin WITH today <- civilDay, rewards <- checkedIn

walletPart == <<clock, free, paid, ledger, hold>>
invitingPart == <<day, gone, links, trail, accepting, visits, visiting, rewarded>>
checkinPart == <<civilDay, tap, locked, streak, checkedIn>>
commerceVars == <<part, walletPart, invitingPart, checkinPart>>

Init ==
  /\ part \in {"wallet", "inviting", "checkingIn"}
  /\ Wallet!Init /\ Inviting!Init /\ CheckingIn!Init

Next ==
  /\ UNCHANGED part
  /\ \/ part = "wallet" /\ Wallet!Next /\ UNCHANGED <<invitingPart, checkinPart>>
     \/ part = "inviting" /\ Inviting!Next /\ UNCHANGED <<walletPart, checkinPart>>
     \/ part = "checkingIn" /\ CheckingIn!Next /\ UNCHANGED <<walletPart, invitingPart>>

Spec == Init /\ [][Next]_commerceVars

-----------------------------------------------------------------------------
(* Properties: those of the part a behaviour is about *)

\* The wallet is the sum of the user's entries, whenever reconcileLedger looks.
WalletMatchesLedger == part = "wallet" => Wallet!WalletMatchesLedger

\* A hold is captured exactly when its fee was paid through it, and what was paid for comes back
\* at most once and only as far as it was taken.
FeesSettleOnce == Wallet!CapturedHoldsArePaid /\ Wallet!RefundsWithinFee

\* Points reserved by a live hold are not spent or reserved a second time.
HoldsStayCovered == [][part = "wallet" => Wallet!HoldsTakenBackOnly]_commerceVars

\* Inviters are paid for newcomers they invited, and the streak with its
\* bonuses is that of the days a user really checked in on.
RewardsAreEarned ==
  /\ part = "inviting" => Inviting!RewardsAreEarned
  /\ part = "checkingIn" => CheckingIn!StreakIsTrue

\* referral.service.ts:16-18: the business key "guarantees the reward is paid
\* at most once per invitee, ever"; it is unique per inviter and invitee.
PaidOncePerInvitee == part = "inviting" => Inviting!PaidOncePerInvitee
=============================================================================
