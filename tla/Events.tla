------------------------------- MODULE Events -------------------------------
(***************************************************************************)
(* One event of one organizer, from the first draft to the end of its      *)
(* public life: the web composer and a second device that edit it, the     *)
(* risk engine that routes a submission, the reviewers of the operations   *)
(* console, the publication fee held while they decide, the paid promotion *)
(* of the published event, and the moderation cases that take it down.     *)
(* Every request is a database transaction that locks the event row, so a  *)
(* request is one action; the races are between what a client read and     *)
(* what it writes later.                                                   *)
(***************************************************************************)
EXTENDS Integers, FiniteSets, FiniteSetsExt

CONSTANTS
  Texts,            \* the texts an event may have, each the set of risk types it hits
  Weight,           \* the score of every risk type
  Prohibited,       \* the types whose rules forbid publication
  DeclaredScore,    \* the score of a type that is only declared
  ReviewThreshold,  \* the score from which a person must look
  Sampled,          \* whether the roll of this event's id falls under the sample rate
  Reviewers,        \* operators of the console
  Cases,            \* moderation cases that can be opened
  Price,            \* points of a promotion, one per unit of its window
  MaxVersion,       \* bound: no edit or submission from this version on
  MaxPromotions     \* bound on the promotions bought

Types == DOMAIN Weight

VARIABLES
  event,     \* the row: status, version, text, risk flags, details, number of pictures
  holds,     \* the publication holds, by the version in their business key
  cleared,   \* the text that was last cleared for the public, by the engine or a person
  page,      \* what every reviewer has on the screen
  promo,     \* the latest promotion: state and the units of its window still to run
  points,    \* what promotions cost the organizer: spent, returned, used up; how many
  cases,     \* the moderation cases
  blocked,   \* the organizer may not publish
  composer   \* the web composer: version it remembers, pictures to upload, its last answer

vars == <<event, holds, cleared, page, promo, points, cases, blocked, composer>>

NoText == {"none"}
NoPage == [ver |-> 0, text |-> NoText]
NoCase == [status |-> "none", target |-> "none", assignee |-> "none"]

Statuses == {"none", "draft", "pending_review", "needs_changes", "rejected",
             "published", "cancelled", "removed"}
HoldStates == {"none", "active", "lapsed", "captured", "released", "expired"}
Editable == {"draft", "needs_changes", "published"}

TypeOK ==
  /\ event \in [status : Statuses, ver : 0..MaxVersion + 3, text : Texts \cup {NoText},
                flags : SUBSET Types, details : BOOLEAN, covers : 0..2]
  /\ holds \in [1..MaxVersion -> HoldStates]
  /\ cleared \in Texts \cup {NoText}
  /\ page \in [Reviewers -> [ver : 0..MaxVersion + 3, text : Texts \cup {NoText}]]
  /\ promo \in [state : {"none", "active", "expired", "refunded"}, window : 0..Price]
  /\ points \in [spent : Nat, returned : Nat, used : Nat, bought : 0..MaxPromotions]
  /\ cases \in [Cases -> [status : {"none", "open", "claimed", "decided", "appealed"},
                          target : {"none", "event", "user"},
                          assignee : Reviewers \cup {"none"}]]
  /\ blocked \in BOOLEAN
  /\ composer \in [remote : 0..MaxVersion + 1, pending : 0..1, foreign : BOOLEAN,
                   answer : {"none", "ok", "conflict"}, at : {"edit", "upload"}]

Init ==
  /\ event = [status |-> "none", ver |-> 0, text |-> NoText, flags |-> {},
              details |-> FALSE, covers |-> 0]
  /\ holds = [v \in 1..MaxVersion |-> "none"]
  /\ cleared = NoText
  /\ page = [r \in Reviewers |-> NoPage]
  /\ promo = [state |-> "none", window |-> 0]
  /\ points = [spent |-> 0, returned |-> 0, used |-> 0, bought |-> 0]
  /\ cases = [c \in Cases |-> NoCase]
  /\ blocked = FALSE
  /\ composer = [remote |-> 0, pending |-> 0, foreign |-> FALSE, answer |-> "none", at |-> "edit"]

-----------------------------------------------------------------------------
(* The risk engine *)

\* Types the text hits, and types that are only declared.
Hits(text, declared) == text \cup declared

RiskScore(text, declared) ==
  MapThenSumSet(LAMBDA t : Weight[t], text) + DeclaredScore * Cardinality(declared \ text)

Route(text, declared) ==
  IF text \cap Prohibited # {} THEN "prohibit"
  ELSE IF RiskScore(text, declared) >= ReviewThreshold THEN "manual_review"
  ELSE IF Sampled THEN "sample" ELSE "auto_approve"

EditUnreviewed(route) == route # "prohibit"

\* An event that is already public may only be edited into what needs no person.
EditAllowed(route) ==
  /\ route # "prohibit"
  /\ event.status = "published" => route = "auto_approve"

\* The transitions of an event that the handlers ask the domain package about.
CanTransition(from, to) ==
  \/ from \in {"draft", "needs_changes"} /\ to = "pending_review"
  \/ from = "pending_review" /\ to \in {"needs_changes", "published", "rejected"}
  \/ from = "published" /\ to \in {"cancelled", "removed"}

Room == event.ver < MaxVersion

\* What a request of somebody else means for the composer that is open.
Foreign == composer' = [composer EXCEPT !.foreign = TRUE]

-----------------------------------------------------------------------------
(* Drafts and edits *)

\* createDraft: version 1, risk flags as declared, no assessment yet.
CreateDraft(text, declared) ==
  /\ event.status = "none" /\ ~blocked
  /\ event' = [event EXCEPT !.status = "draft", !.ver = 1, !.text = text,
                            !.flags = declared, !.details = (declared # {})]

\* update with content the engine looks at: the first UPDATE moves the version, the
\* second, which pins the computed flags, moves it again after the answer was read.
SaveContent(base, text, declared) ==
  /\ event.status \in Editable /\ event.ver = base /\ Room
  /\ EditAllowed(Route(text, declared))
  /\ event' = [event EXCEPT !.ver = @ + 2, !.text = text, !.flags = Hits(text, declared),
                            !.details = (declared # {})]
  /\ cleared' = IF Route(text, declared) = "auto_approve" /\ event.status = "published"
                THEN text ELSE cleared

\* update with other fields only: one UPDATE.
SaveFacts ==
  /\ event.status \in Editable /\ Room
  /\ event' = [event EXCEPT !.ver = @ + 1]
  /\ Foreign
  /\ UNCHANGED <<holds, cleared, page, promo, points, cases, blocked>>

\* Another device of the organizer, which reads the event before it writes.
OtherDeviceSaves(text, declared) ==
  /\ SaveContent(event.ver, text, declared)
  /\ Foreign
  /\ UNCHANGED <<holds, page, promo, points, cases, blocked>>

\* save() of the composer: POST the first time, then PATCH with the version it remembers,
\* which is the one the answer carried.
ComposerSaves(text, declared) ==
  /\ composer.at = "edit"
  /\ \/ /\ composer.remote = 0
        /\ CreateDraft(text, declared)
        /\ composer' = [composer EXCEPT !.remote = 1, !.answer = "ok", !.foreign = FALSE,
                          !.at = IF composer.pending > 0 THEN "upload" ELSE "edit"]
        /\ UNCHANGED cleared
     \/ /\ composer.remote > 0
        /\ SaveContent(composer.remote, text, declared)
        /\ composer' = [composer EXCEPT !.remote = event.ver + 1, !.answer = "ok",
                          !.foreign = FALSE,
                          !.at = IF composer.pending > 0 THEN "upload" ELSE "edit"]
  /\ UNCHANGED <<holds, page, promo, points, cases, blocked>>

\* PATCH or submit with a version that is not the row's is refused.
ComposerConflicts ==
  /\ composer.at = "edit" /\ composer.remote > 0
  /\ event.status \in Editable /\ event.ver # composer.remote
  /\ composer' = [composer EXCEPT !.answer = "conflict"]
  /\ UNCHANGED <<event, holds, cleared, page, promo, points, cases, blocked>>

\* chooseCovers: another picture to upload with the next save.
ComposerPicks ==
  /\ composer.at = "edit" /\ composer.pending = 0 /\ event.covers < 2
  /\ composer' = [composer EXCEPT !.pending = 1]
  /\ UNCHANGED <<event, holds, cleared, page, promo, points, cases, blocked>>

\* uploadPendingCovers: the attachment moves the version of the event as well, whatever
\* its status, and the composer does not look at it.
ComposerUploads ==
  /\ composer.at = "upload" /\ event.ver <= MaxVersion
  /\ event' = [event EXCEPT !.ver = @ + 1, !.covers = @ + 1]
  /\ composer' = [composer EXCEPT !.pending = 0, !.at = "edit"]
  /\ UNCHANGED <<holds, cleared, page, promo, points, cases, blocked>>

-----------------------------------------------------------------------------
(* Submission and review *)

\* validateSubmission, as far as the model keeps the fields.
Complete == event.covers >= 1 /\ (event.flags # {} => event.details)

\* submit: the hold is taken under the version that was submitted; what needs no person is
\* published and its hold captured on the spot.
Submit(base) ==
  LET route == Route(event.text, event.flags) IN
  /\ ~blocked /\ Complete /\ Room
  /\ event.ver = base /\ CanTransition(event.status, "pending_review")
  /\ route # "prohibit"
  /\ event' = [event EXCEPT !.ver = @ + 1, !.flags = Hits(event.text, event.flags),
                            !.status = IF route = "auto_approve" THEN "published" ELSE "pending_review"]
  /\ holds' = [holds EXCEPT ![event.ver] = IF route = "auto_approve" THEN "captured" ELSE "active"]
  /\ cleared' = IF route = "auto_approve" THEN event.text ELSE cleared
  /\ UNCHANGED <<page, promo, points, cases, blocked>>

\* The composer submits with the version it remembers, another device with the one it
\* has just read; only the row's own version is accepted.
SubmitRequest == (\E base \in {event.ver, composer.remote} : Submit(base)) /\ Foreign

\* The review queue shows the event to an operator.
OpenReview(r) ==
  /\ event.status = "pending_review"
  /\ page' = [page EXCEPT ![r] = [ver |-> event.ver, text |-> event.text]]
  /\ UNCHANGED <<event, holds, cleared, promo, points, cases, blocked, composer>>

\* Holds that the review can still settle: the sweep of lapsed ones may be late.
OpenHolds == {v \in DOMAIN holds : holds[v] \in {"active", "lapsed"}}

SettleOnPublication(decision) ==
  IF decision = "published" /\ OpenHolds # {} THEN [holds EXCEPT ![Max(OpenHolds)] = "captured"]
  ELSE holds

\* A decision captures or releases the latest open hold of the event.
SettleHold(decision) ==
  IF OpenHolds = {} THEN holds
  ELSE [holds EXCEPT ![Max(OpenHolds)] = IF decision = "published" THEN "captured" ELSE "released"]

\* reviewEvent: the operator decides about the version on the screen.
Review(r, decision) ==
  /\ event.status = "pending_review" /\ page[r].ver = event.ver
  /\ CanTransition(event.status, decision)
  /\ event' = [event EXCEPT !.status = decision, !.ver = @ + 1]
  /\ holds' = SettleHold(decision)
  /\ cleared' = IF decision = "published" THEN page[r].text ELSE cleared
  /\ Foreign
  /\ UNCHANGED <<page, promo, points, cases, blocked>>

\* 24 hours after the submission; the sweep comes later.
HoldLapses(v) ==
  /\ holds[v] = "active"
  /\ holds' = [holds EXCEPT ![v] = "lapsed"]
  /\ UNCHANGED <<event, cleared, page, promo, points, cases, blocked, composer>>

ExpireHolds ==
  /\ \E v \in DOMAIN holds : holds[v] = "lapsed"
  /\ holds' = [v \in DOMAIN holds |-> IF holds[v] = "lapsed" THEN "expired" ELSE holds[v]]
  /\ UNCHANGED <<event, cleared, page, promo, points, cases, blocked, composer>>

\* cancel: by the organizer or an operator. The promotion is left as it is.
Cancel ==
  /\ CanTransition(event.status, "cancelled")
  /\ event' = [event EXCEPT !.status = "cancelled", !.ver = @ + 1]
  /\ Foreign
  /\ UNCHANGED <<holds, cleared, page, promo, points, cases, blocked>>

-----------------------------------------------------------------------------
(* Paid promotion *)

\* purchase: of a published event that has no active row. A row whose window is over but
\* that the job has not flipped yet still fills the unique index.
BuyPromotion ==
  /\ event.status = "published" /\ promo.state # "active" /\ points.bought < MaxPromotions
  /\ promo' = [state |-> "active", window |-> Price]
  /\ points' = [points EXCEPT !.spent = @ + Price, !.bought = @ + 1]
  /\ UNCHANGED <<event, holds, cleared, page, cases, blocked, composer>>

\* A unit of the window passes, whatever became of the event.
WindowRuns ==
  /\ promo.state = "active" /\ promo.window > 0
  /\ promo' = [promo EXCEPT !.window = @ - 1]
  /\ points' = [points EXCEPT !.used = @ + 1]
  /\ UNCHANGED <<event, holds, cleared, page, cases, blocked, composer>>

\* expireEventPromotions of the worker.
ExpirePromotion ==
  /\ promo.state = "active" /\ promo.window = 0
  /\ promo' = [promo EXCEPT !.state = "expired"]
  /\ UNCHANGED <<event, holds, cleared, page, points, cases, blocked, composer>>

RefundWholePrice ==
  IF promo.state = "active"
  THEN /\ promo' = [state |-> "refunded", window |-> 0]
       /\ points' = [points EXCEPT !.returned = @ + Price]
  ELSE UNCHANGED <<promo, points>>

\* refund: the unused part of the active row, through a reversal of its purchase.
RefundPromotion ==
  IF promo.state = "active"
  THEN /\ promo' = [state |-> "refunded", window |-> 0]
       /\ points' = [points EXCEPT !.returned = @ + promo.window]
  ELSE UNCHANGED <<promo, points>>

-----------------------------------------------------------------------------
(* Reports and moderation *)

\* report: somebody reports the event or its organizer; the case opens with it.
Report(c, target) ==
  /\ cases[c].status = "none" /\ event.status # "none"
  /\ cases' = [cases EXCEPT ![c] = [status |-> "open", target |-> target, assignee |-> "none"]]
  /\ UNCHANGED <<event, holds, cleared, page, promo, points, blocked, composer>>

\* claimCase: refused when another operator has it; a decided case can be claimed too.
ClaimCase(c, r) ==
  /\ cases[c].status # "none" /\ cases[c].assignee \in {"none", r}
  /\ cases' = [cases EXCEPT ![c].assignee = r,
                            ![c].status = IF @ = "open" THEN "claimed" ELSE @]
  /\ UNCHANGED <<event, holds, cleared, page, promo, points, blocked, composer>>

\* decide: by any operator, not only the one who claimed. Taking the event down overrides
\* its status whatever it is and leaves an open publication hold to the sweep.
Decide(c, decision) ==
  /\ cases[c].status \in {"open", "claimed", "appealed"}
  /\ cases' = [cases EXCEPT ![c].status = "decided"]
  /\ IF cases[c].target = "event" /\ decision = "remove"
     THEN /\ IF event.status = "removed" THEN UNCHANGED <<event, composer>>
             ELSE event' = [event EXCEPT !.status = "removed", !.ver = @ + 1] /\ Foreign
          /\ RefundPromotion
     ELSE UNCHANGED <<event, promo, points, composer>>
  /\ blocked' = (blocked \/ (cases[c].target = "user" /\ decision = "restrict"))
  /\ UNCHANGED <<holds, cleared, page>>

\* appeal: of a decided case, once per appellant (here the reporter or the organizer).
Appeal(c) ==
  /\ cases[c].status = "decided"
  /\ cases' = [cases EXCEPT ![c].status = "appealed"]
  /\ UNCHANGED <<event, holds, cleared, page, promo, points, blocked, composer>>

\* restrictionDecision of the support team: the flags are replaced.
SetRestrictions(flag) ==
  /\ blocked # flag
  /\ blocked' = flag
  /\ UNCHANGED <<event, holds, cleared, page, promo, points, cases, composer>>

-----------------------------------------------------------------------------
Next ==
  \/ \E text \in Texts, declared \in SUBSET Types :
       ComposerSaves(text, declared) \/ OtherDeviceSaves(text, declared)
  \/ SaveFacts \/ ComposerConflicts \/ ComposerPicks \/ ComposerUploads
  \/ SubmitRequest
  \/ \E r \in Reviewers : OpenReview(r)
  \/ \E r \in Reviewers, d \in {"published", "needs_changes", "rejected"} : Review(r, d)
  \/ \E v \in DOMAIN holds : HoldLapses(v)
  \/ ExpireHolds \/ Cancel
  \/ BuyPromotion \/ WindowRuns \/ ExpirePromotion
  \/ \E c \in Cases, target \in {"event", "user"} : Report(c, target)
  \/ \E c \in Cases, r \in Reviewers : ClaimCase(c, r)
  \/ \E c \in Cases, d \in {"no_action", "remove", "restrict"} : Decide(c, d)
  \/ \E c \in Cases : Appeal(c)
  \/ \E flag \in BOOLEAN : SetRestrictions(flag)

Spec == Init /\ [][Next]_vars

-----------------------------------------------------------------------------
(* Properties *)

Captured == {v \in DOMAIN holds : holds[v] = "captured"}

\* The publication fee follows the review (submit, reviewEvent, expireHoldsAndQuotes): the
\* event never has two open holds or pays twice, points stay reserved only while a decision
\* is pending or the event was taken down before one, a fee is kept only for what was
\* published, and a publication is free only when its hold had expired.
FeeFollowsReview ==
  /\ Cardinality(OpenHolds) <= 1 /\ Cardinality(Captured) <= 1
  /\ OpenHolds # {} => event.status \in {"pending_review", "removed"}
  /\ Captured # {} => event.status \in {"published", "cancelled", "removed"}
  /\ event.status \in {"published", "cancelled"} =>
       Captured # {} \/ \E v \in DOMAIN holds : holds[v] = "expired"

\* What the public reads is what was cleared: the text of a published event is the one the
\* engine passed or the text a reviewer had on the screen, over edits of two devices,
\* resubmissions and two reviewers with old pages (update, submit, reviewEvent).
LiveTextWasCleared == event.status = "published" => event.text = cleared

\* Points paid for promotion are used up by time, still running, or returned, and an event
\* that was taken down promotes nothing (purchase, refund, decide, expireEventPromotions).
PromotionPointsAccounted ==
  /\ points.spent = points.used + points.returned
                    + (IF promo.state = "active" THEN promo.window ELSE 0)
  /\ event.status = "removed" => promo.state # "active"

=============================================================================
