# Spott in TLA+

Spott is a platform for local events in Japan. People publish events, others
register, wait for a seat, pay a fee in points and check in; around that there
are groups, comments, images, notices, invitations and an operations console.
This directory models the parts of the program whose correctness depends on the
order in which things happen, checks them with TLC on small instances and proves
the most important facts with TLAPS for all instances.

Paths below are relative to the root of the repository; `modules/` stands for
`services/api/src/modules/`, `web/` for `apps/web/app/`.

## The system

| Part | Where | State it keeps | Operations |
|---|---|---|---|
| Registrations, waitlist, capacity | `modules/registrations` | `events.registrations`, `event_capacity`, `waitlist_promotions` | register, decide, acceptWaitlist, cancel, check-in, corrections |
| Ticket tiers | `modules/tickets` | `events.ticket_types` | create, update, payment notes (money is settled elsewhere) |
| Events | `modules/events`, `modules/ops` | `events.events`, risks, questions, promotions, publication holds | create, update, submit, review, cancel, promote, take down |
| Points | `modules/points`, `modules/storekit` | `commerce.wallets`, `point_entries`, `point_holds` | credit, spend, hold, reverse, daily check-in, purchases and their revocation |
| Invitations | `modules/growth` | share links, accepted invitations | share, open, accept, reward at check-in |
| Identity | `modules/auth`, `platform/*authority.ts` | `identity.users`, identities, phones, merge jobs, sessions, refresh history | sign in, verify, merge, delete; refresh, recover, revoke |
| Media | `modules/media`, `services/worker/src/media.ts` | `media.assets`, upload leases, the provider's objects | intent, upload, complete, attach, abandon, process |
| Community | `modules/groups`, `modules/community`, `modules/safety` | groups, members, transfers, comments, follows, awards, feedback | joining, roles, hand-over, dissolution, editing, blocking, evaluating |
| Operations | `modules/ops`, `apps/ops` | cases, adjustments, exports, configuration revisions | request, decide, execute, appeal |
| Notices | `services/worker/src/jobs.ts`, `delivery.ts` | outbox, notifications, deliveries | dispatch, fan out, plan, claim, send |
| Sync | `modules/sync`, `web/lib/sync-engine.ts`, `Spott/Core/Sync` | `sync.change_log`, cursors, queued operations | push, pull |
| Idempotency | `platform/idempotency.ts` | `sync.idempotency_keys` | claim, complete, inside each operation's transaction |
| Web client | `apps/web` | storage of the browser, page state | pages that load, submit, retry, and notice other tabs |

**How they interact.** There is one PostgreSQL database and no other shared
state on the server. An API call is one READ COMMITTED transaction: claim the
idempotency key, lock rows (`SELECT ... FOR UPDATE`), check, write, append to
the change log and the outbox, complete the key. The worker's jobs are
transactions of the same kind, usually with `SKIP LOCKED`; the outbox is handled
at least once. Media leave the database: an upload takes several requests, a
lease and an external store. Clients call the API, pull the change log and share
the browser's storage between tabs. Correctness rests on which rows a
transaction locks before it reads, on counters kept beside the rows they count,
on unique business keys, on versions a caller must name, and on jobs that
eventually undo what time has made void.

**What is hard.** Counters maintained by deltas in ten places; holds and offers
that lapse while somebody decides about them; a waitlist with parties of
different sizes and skipped rows; two refund paths; edits that invalidate what
was already admitted, reviewed or answered; retries of calls whose answer was
lost; tokens rotated twice; uploads that die between two steps; merges and
deletions under running sessions; pages whose answers arrive late or for another
account. `PROJECT.json` lists forty such hazards at their lines, each with the
properties that would catch it.

## Modules

A component has a module of its own. Components that are checked together are
composed in a module that INSTANCEs them and holds the run's properties; a
behaviour of the composition is about one part (variable `part`), because the
parts share no state that either of them reads.

| Module | Models | Code |
|---|---|---|
| `Registrations` | the seats of one published event | `modules/registrations`, `modules/tickets`, three jobs of `services/worker/src/jobs.ts` |
| `SeatAllocation` | what `Registrations` promises: claims are admitted only when everyone fits | abstract |
| `Commerce` | composes the next three | |
| `PointsLedger` | one wallet, its entries, lots and holds | `modules/points`, `modules/storekit`, expiry and refund jobs |
| `Referrals` | links, invitations, the inviter's reward | `modules/growth` |
| `DailyCheckin` | the streak and its bonuses, overlapping taps | `modules/points`, `packages/domain/src/rewards.ts` |
| `Identity` | composes the next two | |
| `Sessions` | refresh rotation, recovery, reuse; the tabs of one browser | `modules/auth/session-token.service.ts`, `web/lib/client-api.ts` |
| `Accounts` | identities, phones, merging, deletion | `modules/auth/auth.service.ts`, the deletion job |
| `Media` | images from the intent to the end of their life | `modules/media`, `services/worker/src/media.ts`, `web/lib/media-upload.ts`, migration 0022 |
| `Content` | composes the next three | |
| `Events` | one event from draft to takedown: review, fee, promotion, cases | `modules/events`, `modules/ops` |
| `Questions` | registration questions edited while guests answer | `modules/events`, `modules/registrations` |
| `Tickets` | tiers created and edited on several devices, payment notes | `modules/tickets` |
| `Community` | composes the next four | |
| `Groups` | members, roles, hand-over, dissolution of one group | `modules/groups`, `modules/ops` |
| `Conversations` | comments, announcements, follows, blocks | `modules/groups`, `modules/events`, `modules/safety` |
| `Attendance` | check-in, corrections, attendance and feedback rewards | `modules/registrations`, `modules/community` |
| `Achievements` | evaluations that award and revoke | `modules/community` |
| `Delivery` | from outbox, announcement or reminder to the sent notice | `services/worker` |
| `Requests` | composes the next four | |
| `Approvals` | adjustments, exports and configuration that need a colleague | `modules/ops`, `apps/ops` |
| `Reports` | the report form, the case, decisions and appeals | `modules/safety`, `modules/ops` |
| `Sync` | operation queue, change log, pull engine | `modules/sync`, `web/lib/sync-engine.ts` |
| `FeedbackForm` | the feedback panel and the service behind it | `web/me/events/EventFeedback.tsx`, `modules/community` |
| `Pages` | composes the next four | |
| `Discovery` | pages of a search, the feed, the list that walks them | `modules/events`, `web/components/discovery` |
| `RegisterPage` | gate, form, quote, submission and its retries | `web/register/[slug]` |
| `Itinerary` | overlapping loads, the card of an offer | `web/me/events` |
| `EventPage` | what one event's page offers to whom, comments | `web/e/[slug]`, `packages/domain/src/policy.ts` |
| `MC*` | small instances for TLC, one `.cfg` per run | |
| `*_proofs` | theorems and their proofs | |

### How state and actions correspond to the code

*Tables.* A table is a function from the ids of its rows to records (or one
function per column where proofs profit: `Registrations`). An id that no INSTANCE
of the code has inserted yet has a value such as `"none"` or `NoAsset`. Ids are
model values, texts and payloads members of small sets.

*Transactions.* An operation that locks the rows it decides on is ONE action; a
call that throws rolls back and is no step. Where the code reads without a lock,
or does something outside the database, the operation is split at that point:
`Tickets!CountTiers`/`InsertTier`, `Conversations!CheckComment`/`InsertComment`,
`Attendance!CountRewards`/`CommitCheckIn`, `Achievements!Evaluate`/
`CommitEvaluation`, `Referrals!BeginAcceptance`/`RecordAcceptance`,
`DailyCheckin!Reads`/`ChecksIn`, `Approvals!ActivateBegin`/`ActivateCommit`,
`Sync!BeginOther`/`CommitOther`, every step of a `Media` upload, the claim and
the outcome of a delivery.

*Clients.* A request and its answer are separate steps, and a call carries what
its closure captured. An answer may be lost before or after the server acted; the
client then sends again under the key it kept. Another tab may change the
session at any moment.

*Time.* Clocks are reduced to what the guards compare: `Registrations!clock` has
four values (a day or more before the start, less, started, ended); holds,
offers, leases, codes and quotes lapse by an action of their own.

*Skipped rows.* `SKIP LOCKED` is kept where the order of rows matters:
`WaitlistJob(locked)` runs with any set of rows locked by somebody else.

*Left out everywhere.* Authentication of the caller (each action is somebody who
may call it), input validation that only refuses, audit rows, wording. The change
log and the outbox appear where a component reads them.

`Registrations` in detail, because it is the core and is proved about: a row of
`events.registrations` is `status[r]`, `party[r]`, `tier[r]`, `joined[r]`; its
`waitlist_promotions` row is `promo[r]`, the hold `registration_hold:<id>` is
`hold[r]`, the transaction `registration_fee:<id>` is membership in `charged`, the
two refunds are `refunded[r]`; `confirmedCount` ... `soldCount` are the columns of
`event_capacity` and `ticket_types`.

| Action | Code |
|---|---|
| `RegisterConfirmed`, `RegisterPending`, `RegisterWaitlisted` (through `Enter`) | `RegistrationsService.register` |
| `Approve`, `Reject` | `RegistrationsService.decide` |
| `AcceptWaitlist`, `Cancel`, `CheckIn` | `acceptWaitlist`; `cancel`; `checkIn` and `manualCheckIn` |
| `WaitlistJob` | `expireAndPromoteWaitlist` |
| `ReleaseLapsed`, `SweepHolds` | `expireHoldsAndQuotes` and the transaction it repeats first |
| `RefundCancelledEvent` | the outbox handler `refundCancelledEvent` |
| `EditEvent`, `CancelEvent`, `EditTier`, `RemoveEvent` | `EventsService.update`, `cancel`; `TicketsService.update`; the moderation decision |
| `LapseHold`, `LapseOffer`, `Tick` | time |

Whether the registrant can pay is left open there (any call may succeed); that is
`PointsLedger`'s matter.

## Runs

Every passing run is exhaustive for its instance. A property of a composition is
the conjunction of the parts' properties named in its definition.

| Run | Instance | Shows |
|---|---|---|
| `registrations_safety` | three registrations of three users, parties of 1 or 2, capacity and quota up to 3, one tier, no edit | the type invariant; `CountersMatchRows`, `TierNeverOversold`, `SeatsAreBacked`, `FeesFollowSeats`, `CancellationIsFinal`; `NeverOverfill`, `OffersInOrder`; the refinement `AllocatesSeats` |
| `registrations_liveness` | two registrations, capacity and quota up to 2, one edit, fair | `NeverOverfill` under edits; `WaitingEnds`, `CancelledEventIsRefunded` |
| `registrations_oversell` | violated | `NoOversell` |
| `commerce` | a reward, an order with bonus, an adjustment, a fee of each kind, seven postings; two inviters and a newcomer over a window of one day and a month of two; two taps over seven days, bonuses at 2 and 3 | `WalletMatchesLedger`, `FeesSettleOnce`, `HoldsStayCovered`, `RewardsAreEarned` |
| `referral_twice` | violated | `PaidOncePerInvitee` |
| `identity` | two sessions, two tabs, two attempts, two keys, two rotations, five disturbances; three accounts, three identities, two phones, one merge job | `RotationsAreRecorded`, `SessionsMoveForward`, `IdentitiesReachLivingAccounts`, `PointsSurviveMerges` |
| `media` | two users, two assets of one purpose, one generation renewed once, one worker, two claims | `AssetsAreAccountedFor`, `EndedStaysEnded` |
| `content` | four texts, two reviewers, one case, a promotion, four versions; two guests, two devices, two question ids, three versions; two tiers, two buyers, limit one | `FeeFollowsReview`, `LiveTextWasCleared`, `PromotionPointsAccounted`, `AnswersStayTrue`, `TiersKeepTheirTerms` |
| `community` | two users and two transfers; two writers, one request, two comments; two registrations, caps of one, a midnight, two corrections; two evaluations of two versions | `OwnershipIsSettled`, `EditsReplaceWhatWasRead`, `RewardsStayBounded`, `EvaluationSettles` |
| `delivery` | two announcements, or a cancellation, or a change, or a reminder; two workers, two attempts, one fault, one choice of the member, a day of two hours | `PushesAreSparing`; `EveryNoticeArrives` under fairness |
| `requests` | three operators at one desk; two members and two reviewers; four operations and two other writers; two texts, three keys, three troubles | `ControlsHold`, `SyncConverges`, `FeedbackCountsOnce` |
| `pages` | three events, two queries, pages of two; two accounts, two quotes, two troubles (form and itinerary); three guests, one place, one comment | `FoundWell`, `SentAsShown`, `ItineraryMovesForward`, `ShownAsAllowed` |

**Why these bounds.** Three registrations are the fewest with which one is
seated, one is offered a seat and one waits behind it; parties of one and two
against one to three seats give every comparison (fits exactly, too large by one,
overtaken by a smaller party). Edits matter to what is admitted already and to
the next admission, so two registrations and one edit carry them. Seven postings
hold an order with its bonus, a fee that takes from both buckets, its reversal
and one more credit, debit or expiry. Races between two actors need two tabs,
devices, reviewers, taps, evaluations or workers, and a bound on what disturbs
them: the smallest number with which a lost call and a change of account, or a
stale page and two saves, meet in one behaviour. One merge, one renewed
capability and two claims of a worker let each thing happen once more than it
should. Four versions let a page become stale twice. Every property is tried
against a mutant of the code (`PROJECT.json`, "mutants") in the same instance,
so the bounds are at least large enough to see that bug. `CHECK_DEADLOCK FALSE`
stands in every configuration: an event's life, a bounded supply of troubles or
of versions ends, after which nothing is left to do.

**Symmetry** is used over ids that no definition orders: registrations (with
their users), assets, users, workers and groups of `Media`, guests, devices and
tiers, operators, tabs and attempts. No run with symmetry checks liveness.

**Fairness.** `services/worker/src/main.ts` repeats every job until the process
is stopped, time passes by itself, and a lease ends by the clock; so each of
these is weakly fair in `Registrations!Fairness` and `Delivery!Fairness`.
`WaitlistJob({})` is fair with no row skipped: a row is locked only as long as
one transaction lasts. Nothing is assumed of people. The loop ends a cycle at
the first job that throws, and a handler whose SQL fails aborts the transaction
in which its failure should be counted (`services/worker/src/jobs.ts:166`): the
fairness assumes that no job throws for ever.

**Violated on purpose.** `NoOversell`: the metrics job says that an oversell is
impossible under the database's constraints (`services/worker/src/jobs.ts:1273`);
an organiser who lowers the capacity makes one. `PaidOncePerInvitee`: the comment
of `modules/growth/referral.service.ts:16-18` says that a reward is paid at most
once per invitee; its key is unique per inviter.

## Where code and prose disagree

Two disagreements are runs (above) and `findings` of `PROJECT.json`. The others
were met while modelling; the models follow the code.

*Registrations.* A lapsed registration that held a tier's place leaves
`sold_count` as it was (`services/worker/src/jobs.ts:628`, against the comment of
`database/migrations/0027_ticketing_shell.sql:15`), so `TierNeverOversold` bounds
the count and not its equality with the rows. A lapsed offer sends the row back to
the waitlist and may be offered to the same person again (`jobs.ts:463`). The
worker still promotes after the deadline, though the acceptance is refused
(`jobs.ts:475`); `cancel` looks at the wallet outside its transaction
(`registrations.service.ts:738`); a duplicate check-in hits the unique index and
aborts (`registrations.service.ts:1014`).

*Events.* Nothing moves an event to `registration_closed`, `in_progress` or
`ended`; a cancelled event keeps its promotion, and a takedown refunds nobody
(`ops.service.ts:923`); an approval after the hold expired publishes without the
fee (`ops.service.ts:992`). `createComment` reads the event without a lock
(`events.service.ts:700`).

*Questions, tickets.* An optional question answered with a blank locks the
question. `confirmPayment` needs neither a report nor a price; editing a price
moves no version, so a version read before it is still accepted; a paid tier can
never become free (`tickets.service.ts:131-143`).

*Points.* A lot can be used for more than it was credited, and both legs of a
spend that crosses buckets name it (`points.service.ts:322`); the expiry of a
spent lot violates a CHECK (`jobs.ts:681`); the reconciliation reports a negative
balance of a member whose purchase was never revoked (`jobs.ts:1273`). A
revocation notice that overtakes the purchase finds no order
(`storekit.service.ts:230`).

*Invitations.* The monthly cap is counted without a lock
(`referral.service.ts:124`); a plain share with the campaign `invite` becomes an
invitation (`growth.service.ts:20`); nothing disables a link.

*Identity.* The web client sends neither attempt nor proof when it refreshes, so
the recovery of `docs/superpowers/plans/2026-07-16-web-session-security.md` never
runs for it, and a refused tab clears the storage of all. A merge leaves a
wallet that the nightly reconciliation reports (`auth.service.ts:1397`,
`jobs.ts:776-794`). The blockers of a deletion differ between request and
execution (`auth.service.ts:722-764`, `jobs.ts:734-762`), and the counter of
wrong merge codes is rolled back with the refusal.

*Media.* Arranging six images swaps positions through a value that the CHECK of
migration 0011 refuses (`media.service.ts:801`); a claim that lapsed at the
worker is still written (`services/worker/src/media.ts:70`).

*Community.* An approval through `updateMember` ignores the capacity
(`groups.service.ts:405`); `completeTransfer` and `cancelTransfer` set the group
`active` whatever it was; nobody expires transfers; a removed member may join
again; the restoration by an operator leaves `deleted_at`. A follow may be
recorded while the block is written. A revoked achievement is awarded again by
the next evaluation. The lock of the daily cap uses the API's date, the count the
database's day.

*Operations.* Two concurrent activations leave two active revisions
(`ops.service.ts:1335`); any operator may execute what a colleague approved;
`decide` ignores the assignee and nothing decides an appeal.

*Notices.* The dead-letter branch of the dispatcher is unreachable after a failed
statement (`jobs.ts:166-184`); a push held back by quiet hours is dropped; a crash
at the eighth attempt leaves a delivery in `sending`.

*Sync.* A cursor can pass a number whose transaction commits later
(`0004_sync_growth_security.sql:149`, against the comment of
`sync-engine.ts:370`); two tabs share a cursor; nothing trims the change log.

*Pages.* `registrationOpen` ignores `ends_at` (`events.service.ts:1377`); the page
offers a cancellation that the service refuses (`policy.ts:38`); accepting an
offer there sends no body (`EventActions.tsx:55`). The gate keeps its `review`
state after a change of fee nobody accepted (`RegistrationFlow.tsx:210`). Loading
more during a refresh appends after the old cursor (`DiscoveryShell.tsx:164`),
and the cursor of `newest` truncates microseconds (`events.service.ts:1739`). A
feedback submission whose answer is lost, repeated after a reload, may overwrite
a newer text (`EventFeedback.tsx:228`).

## Proofs

TLAPS checks the theorems below for every value of the constants that satisfies
the assumption beside their declaration (`RegistrationsAssumption`,
`CommerceAssumption`, ...). The assumptions give constants their types, say that
the values which mean "none" are no member of the sets they stand beside, and that
`Regs`, `User`, `Events`, `Versions`, `Fees` and the like are finite where something is
counted or added up: a table has finitely many rows. TLC evaluates them in every run.

| Module | Theorem | Property | Inductive invariant |
|---|---|---|---|
| `Registrations_proofs` | `TypeCorrect` | `TypeOK` | itself |
| | `SeatsBackedAlways`, `FeesFollowSeatsAlways`, `CancellationFinalAlways` | `SeatsAreBacked`, `FeesFollowSeats`, `CancellationIsFinal` | the three together: a status is only as true as the hold, the offer and the charge beside it |
| | `CountersExact` | `CountersMatchRows` | each counter as the sum of the parties of the rows it counts |
| | `NeverOverfilled` | `NeverOverfill` | counters exact, so that a guard on counters is a guard on rows |
| | `TiersNeverOversold` | `TierNeverOversold` | sold counts bound the holders of a tier, one inequality because lapsed holds leave the count |
| | `OffersAreInOrder` | `OffersInOrder` | none: a fact about the job's step and the order it selects by |
| | `SeatsAreAllocated` | `AllocatesSeats` | the refinement: initial states map to initial states, each step to a step of `SeatAllocation` or a stutter |
| `Identity_proofs` | `IdentitiesAlwaysReach` | `IdentitiesReachLivingAccounts` | a job that can still be committed names two accounts, and whatever pointed at its source points at its target, which has access: the source itself is never asked for |
| | `PointsAlwaysSurvive` | `PointsSurviveMerges` | a reward keeps its key and its owner while the account it was paid to lives; the wallets sum to the number of rewards, because source and target of a merge are two |
| | `RotationsStayRecorded` | `RotationsAreRecorded` | the history of a family is a chain that ends in the session row |
| | `SessionsOnlyMoveForward` | `SessionsMoveForward` | the same chain, and what each tab has stored is on it |
| `Content_proofs` | `AnswersAlwaysTrue` | `AnswersStayTrue` | an answered question keeps kind and options; a form's version vouches for what was read |
| | `TiersAlwaysKeepTerms` | `TiersKeepTheirTerms` | who reported a payment holds a place, and a tier with places keeps its terms |
| | `LiveTextAlwaysCleared`, `FeeAlwaysFollows`, `PromotionsAlwaysAccounted` | `LiveTextWasCleared`, `FeeFollowsReview`, `PromotionPointsAccounted` | status, review, hold and versions of an event fit together |
| `Media_proofs` | `MediaTypesCorrect`, `AssetsAlwaysAccounted`, `EndedAlwaysStay` | `TypeOK`, `AssetsAreAccountedFor`, `EndedStaysEnded` | which lease answers for which object in each state of an asset, an upload and a worker's claim |
| `Community_proofs` | `OwnershipAlwaysSettled` | `OwnershipIsSettled` | one owner, and every pending hand-over names members |
| | `RewardsAlwaysBounded` | `RewardsStayBounded` | who has counted holds the lock of that day |
| | `EditsAlwaysReplace`, `EvaluationsAlwaysSettle` | `EditsReplaceWhatWasRead`, `EvaluationSettles` | versions only grow; an evaluation's snapshot is current unless overtaken |
| `Commerce_proofs` | `CommerceAlways` | | the next three together |
| | `WalletAlwaysMatches`, `FeesAlwaysSettle`, `HoldsAlwaysCovered` | `WalletMatchesLedger`, `FeesSettleOnce`, `HoldsStayCovered` | `WalletInv`, below |
| | `RewardsAlwaysEarned` | `RewardsAreEarned` | `StreakInv`: the row tells the run of days checked in on; `ReferralInv`: the trail of invitations is in order of time, and each pending visit remembers how much of it it saw |
| `Requests_proofs` | `FeedbackIsCounted` | `FeedbackCountsOnce` | `FeedbackInv`: whose panel shows what, one key per submission however often it is sent, and the postings are those of the rows |
| | `SyncIsConverging` | `SyncConverges` | `CoverInv`: an engine at rest has reached what was announced, and so will a pull served to the end unless a wake-up it does not know of follows; `HistoryInv`: an operation took effect once, and is under way or has its outcome stored from then on |
| | `ControlsAreHeld` | `ControlsHold` | `DesksInv`, below, with `FormInv` (a dialog makes one row) and `CasesInv` (appeals and their readers) |
| `Registrations_proofs` (`Pages`) | `SentAlwaysAsShown` | `SentAsShown` | `RegisterInv`: a version tells the fee, and who may have written a form, a draft, a submission; `OfferInv` |
| | `ItineraryAlwaysForward` | `ItineraryMovesForward` | `LoadsInv`: what is shown is not ahead of the server, and the answer of a load that may still be shown is not behind it |
| | `ShownAlwaysAllowed` | `ShownAsAllowed` | `ViewInv`: which seats are counted, who may see private things, and that a view still on its way is its viewer's |
| | `FoundAlwaysWell` | `FoundWell` | `SearchInv`: the latest request asks for what the address says; `WalkInv`, below; `FeedInv`: a module of the feed keeps to its conditions until an event changes |
| `Community_proofs` (`Delivery`) | `PushesAlwaysSparing` | `PushesAreSparing` | `SparingInv`: of the announcements of a day, those planned on it whose push was ever to be sent are within the cap; only what was planned to be sent is ever attempted, and who holds a delivery has counted an attempt |

**The wallet**, the longest argument. `WalletInv` says that each balance is the
sum of its bucket's postings, that the legs of a fee are never positive, that
nothing is posted back before the fee itself is, that fee and refunds together
never exceed zero in a bucket, and that a captured hold was paid exactly while
any other hold was not paid at all. None of the checked properties is inductive
without the others: a refund is bounded by what the fee took only while no
earlier refund exists, which follows from the business keys. The work lies in
`Spend`, whose postings are chosen by a greedy walk over lots in a total order:
`SpreadTakesAll` proves by induction over the sets closed under that order that
the walk takes exactly the amount, `SpendTakes` that the postings carry it.
Then every operation is shown to be a step of one of four kinds (`Elsewhere`,
`Paying`, `GivingBack`, `Holding`), and each kind to keep the invariant.

**The desks.** `DesksInv` says of every row that it deserves its state: an export
that was approved has colleagues who supported it, other than the one who asked
for it; an activation that runs had the consent it needs; an adjustment that was
executed moved the wallet once, so that the wallet is where it began plus the sum
of what was moved. Dialogs and requests on their way aim at rows that exist, and
an operator has no more rows of a kind than keys used up.

**The pushes.** The cap counts the announcements *made* on a day, the property
those *planned* on it, by workers that may hold several at once. A push that was
suppressed may still be overwritten by a worker that took it before its lease
ended, so the property alone is not inductive: `Underway` counts a push from the
moment it was planned to be sent, whatever became of it.

**The walk through a search.** `Tells` says of a page what is true of an event
that did not change since the page was made: it stands there at most once, only
where it belongs and only behind the cursor the page was asked with; if it stands
there, the next cursor has passed it; if it belongs there and does not stand there,
there is a next page and the event is still ahead of its cursor. `WalkInv` says it of
the list and of every answer on its way; `TellsBoth`
puts two pages together, `AnswerTells` shows it of a fresh answer, and
`UpToMark` is where a sort by creation time, whose cursor loses what is below the
millisecond, falls out of the second half. A request for more that may still be
shown continues the list as it is shown: whatever changes the list leaves the older
request without the latest number. The lists that a query, a module of the feed and
the pool are sorted into (`InOrder`) name each element of their set once, at the
place that those before it leave (`Ranked`, `ByPlace`).

**Two components in one module.** `Registrations_proofs` extends `Pages` as well,
through which members register, and `Community_proofs` extends `Delivery`, which
carries its announcements; the names of their initial states, steps and
specifications (`PagesSpec`, `DeliverySpec`) say which of the two is meant.

**Sums and induction.** `FiniteFacts` proves what several components need about
sums over finite sets: a sum depends on its summands only, takes its elements in
any order, changes with a summand by the difference, splits over disjoint sets, survives renaming. Induction is stated over
sets: the set of numbers, or of finite sets, for which a statement holds is a
constant of `NumberInduction` and `SetInduction`, so that using them needs no
operator as a parameter. `Identity_proofs`, `Community_proofs`, `Commerce_proofs` and
`Requests_proofs` extend it.

**Actions that do not matter to an invariant** are dismissed through one lemma
per group that says what they leave unchanged; the remaining ones have a step
each. A composition's invariant is that of its parts: a step of one part leaves
the variables of the others alone.

## Only model-checked

- Liveness under fairness (`WaitingEnds`, `CancelledEventIsRefunded`,
  `EveryNoticeArrives`) and what rests on ENABLED: outside what the prover can do.
- `NoOversell` and `PaidOncePerInvitee` are refuted, so there is nothing to prove.

## Not modelled

Profiles and analytics (reads, and one update by version like those of
`Conversations`); the schema as such (its CHECKs, unique indexes and triggers
appear in the guards of the actions they constrain); deployment and scripts; the
views of the iOS application (its sync engine is that of `Sync`); rate limits and
authentication of callers; formatting, translation and layout. The ranking of the
discovery feed is reduced to an order; geography to membership in a set.

## What remains

Every safety invariant and action property that a passing run checks is stated by a
theorem. What is left to TLC is what the prover cannot reach: the three liveness
properties under fairness.
