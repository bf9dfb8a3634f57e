------------------------------- MODULE Content --------------------------------
(***************************************************************************)
(* What an organiser puts before the public: an event with its review, fee *)
(* and promotion, the questions asked of registrants and the ticket tiers  *)
(* offered to them. Each part writes its own tables; a behaviour is about  *)
(* one part, and the others stay as they began.                            *)
(***************************************************************************)
EXTENDS Integers, FiniteSets, FiniteSetsExt

CONSTANTS
  Texts, Weight, Prohibited, DeclaredScore, ReviewThreshold, Sampled,
  Reviewers, Cases, Price, MaxVersion, MaxPromotions,                                    \* Events
  Guests, Devices, QuestionIds, MaxListVersion,                                          \* Questions
  Tiers, Buyers, Amounts, Quotas, Limit                                                  \* Tickets

ASSUME ContentAssumption ==
  /\ Weight \in [DOMAIN Weight -> Nat] /\ {DeclaredScore, ReviewThreshold, MaxPromotions} \subseteq Nat
  /\ Texts \subseteq SUBSET DOMAIN Weight /\ Prohibited \subseteq DOMAIN Weight
  /\ Sampled \in BOOLEAN /\ {Price, MaxVersion} \subseteq Nat \ {0}
  /\ IsFiniteSet(Guests)
  /\ Amounts \subseteq Nat \ {0} /\ Quotas \subseteq Nat \ {0} /\ Limit \in Nat

VARIABLES
  part,
  event, holds, cleared, page, promo, points, cases, blocked, composer,
  version, questions, dropped, editor, read, answers,
  tiers, fee, creating, place, reported, confirmed

Publishing == INSTANCE Events
Asking == INSTANCE Questions WITH MaxVersion <- MaxListVersion
Selling == INSTANCE Tickets

publishPart == <<event, holds, cleared, page, promo, points, cases, blocked, composer>>
askPart == <<version, questions, dropped, editor, read, answers>>
sellPart == <<tiers, fee, creating, place, reported, confirmed>>
contentVars == <<part, publishPart, askPart, sellPart>>

\* A part a behaviour is not about begins in one of its states only.
Init ==
  /\ part \in {"publishing", "asking", "selling"}
  /\ Publishing!Init /\ Asking!Init /\ Selling!Init
  /\ part # "selling" => fee = "free"

Next ==
  /\ UNCHANGED part
  /\ \/ part = "publishing" /\ Publishing!Next /\ UNCHANGED <<askPart, sellPart>>
     \/ part = "asking" /\ Asking!Next /\ UNCHANGED <<publishPart, sellPart>>
     \/ part = "selling" /\ Selling!Next /\ UNCHANGED <<publishPart, askPart>>

Spec == Init /\ [][Next]_contentVars

-----------------------------------------------------------------------------
(* Properties: those of the parts *)

\* The publication fee is reserved, taken and given back as the review decides, once.
FeeFollowsReview == Publishing!FeeFollowsReview

\* The public reads what the engine or a reviewer had before it when it was cleared.
LiveTextWasCleared == Publishing!LiveTextWasCleared

\* Points paid for promotion are used up, still running, or returned.
PromotionPointsAccounted == Publishing!PromotionPointsAccounted

\* What a guest answered is an answer to the question the guest had read, and stays one.
AnswersStayTrue == Asking!AnswersStayTrue

\* Who reported a payment finds the terms it was made under, and two devices do not exceed the
\* limit of tiers together.
TiersKeepTheirTerms == Selling!PaymentsHaveTerms /\ Selling!LimitHolds

=============================================================================
