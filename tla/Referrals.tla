------------------------------ MODULE Referrals ------------------------------
(***************************************************************************)
(* Shared links, the invitations among them, and the reward an inviter     *)
(* gets when a newcomer really attends                                     *)
(* (services/api/src/modules/growth).                                      *)
(*                                                                         *)
(* Accepting an invitation looks and then writes, in a transaction that    *)
(* locks nothing. The reward is decided and paid inside the transaction of *)
(* a check-in; those of one newcomer wait for each other at the advisory   *)
(* lock of the attendance award. What is paid is greater than zero.        *)
(***************************************************************************)
EXTENDS Integers, Sequences, FiniteSets, FiniteSetsExt

CONSTANTS
  People,
  Newcomers,    \* those whose check-ins are followed
  Window,       \* referral.attribution.window_days
  MonthLength,  \* in days
  Cap,          \* points.limit.referral.monthly
  \* bounds: the last day, attributions, links, check-ins of a newcomer, deleted accounts
  MaxDay, MaxTrail, MaxLinks, MaxVisits, MaxGone

VARIABLES
  today,
  gone,       \* users with deleted_at
  links,      \* growth.share_links: who made it, whether its campaign is 'invite'
  trail,      \* growth.attributions in the order of occurred_at
  accepting,  \* the acceptance of a newcomer that has looked and not yet written
  visits,     \* events.checkins of a newcomer
  visiting,   \* the check-in under way: whom it pays
  paid        \* point_transactions of type referral_reward

referralVars == <<today, gone, links, trail, accepting, visits, visiting, paid>>

Link(u, invite) == [creator |-> u, invite |-> invite]
Attribution(link, who, action) == [link |-> link, who |-> who, action |-> action, day |-> today]
Nobody == "nobody"
Idle == [to |-> "idle"]
NoLink == [creator |-> Nobody, invite |-> FALSE]

Init ==
  /\ today = 1
  /\ gone = {}
  /\ links = {}
  /\ trail = <<>>
  /\ accepting = [u \in Newcomers |-> NoLink]
  /\ visits = [u \in Newcomers |-> 0]
  /\ visiting = [u \in Newcomers |-> Idle]
  /\ paid = {}

-----------------------------------------------------------------------------
(* GrowthService *)

\* createShare: the purpose 'invite' makes an invitation, and so does the
\* campaign 'invite' that a plain share may name.
CreateShare(u, purpose, campaign) ==
  /\ u \notin gone /\ Cardinality(links) < MaxLinks
  /\ links' = links \cup {Link(u, purpose = "invite" \/ campaign = "invite")}
  /\ UNCHANGED <<today, gone, trail, accepting, visits, visiting, paid>>

\* open: whoever follows a link leaves a trace, and a newcomer's could be taken
\* for an acceptance.
Open(link, who) ==
  /\ link \in links
  /\ Len(trail) < MaxTrail
  /\ trail' = Append(trail, Attribution(link, who, "opened"))
  /\ UNCHANGED <<today, gone, links, accepting, visits, visiting, paid>>

-----------------------------------------------------------------------------
(* ReferralService *)

\* recordAcceptance: somebody who has never attended and never earned a reward.
MayAccept(u) == visits[u] = 0 /\ ~\E p \in paid : p.who = u

\* acceptInvite, up to its two SELECTs. Nothing ever disables or expires a link.
BeginAcceptance(u, link) ==
  /\ link \in links /\ link.invite /\ link.creator # u
  /\ u \notin gone /\ accepting[u] = NoLink
  /\ MayAccept(u)
  /\ accepting' = [accepting EXCEPT ![u] = link]
  /\ UNCHANGED <<today, gone, links, trail, visits, visiting, paid>>

RecordAcceptance(u) ==
  /\ accepting[u] # NoLink
  /\ Len(trail) < MaxTrail
  /\ trail' = Append(trail, Attribution(accepting[u], u, "registered"))
  /\ accepting' = [accepting EXCEPT ![u] = NoLink]
  /\ UNCHANGED <<today, gone, links, visits, visiting, paid>>

\* The acceptances of a newcomer that may still earn a reward.
InvitesOf(u) ==
  {i \in DOMAIN trail :
     /\ trail[i].who = u /\ trail[i].action = "registered"
     /\ trail[i].link.invite /\ trail[i].link.creator \notin gone \cup {u}
     /\ trail[i].day > today - Window}

Month(day) == (day - 1) \div MonthLength

\* The inviter of the latest acceptance, unless the month has paid enough.
Inviter(u) ==
  IF InvitesOf(u) = {} THEN Nobody
  ELSE LET winner == trail[Max(InvitesOf(u))].link.creator
           awarded == {p \in paid : p.to = winner /\ Month(p.day) = Month(today)}
       IN IF Cardinality(awarded) < Cap THEN winner ELSE Nobody

\* A check-in reaches grantReferralReward and reads: whom it will pay, and what
\* had been recorded by then.
DecideReward(u) ==
  /\ u \notin gone /\ visiting[u] = Idle /\ visits[u] < MaxVisits
  /\ visiting' = [visiting EXCEPT ![u] =
                    [to |-> Inviter(u), who |-> u, day |-> today, seen |-> Len(trail), nth |-> visits[u]]]
  /\ UNCHANGED <<today, gone, links, trail, accepting, visits, paid>>

\* credit: UNIQUE (user_id, business_key), and the key is the newcomer's.
AlreadyPaid(inviter, u) == \E p \in paid : p.to = inviter /\ p.who = u

\* The check-in commits, with the points it credits.
CommitVisit(u) ==
  LET reward == visiting[u]
  IN
  /\ reward # Idle
  /\ visits' = [visits EXCEPT ![u] = @ + 1]
  /\ visiting' = [visiting EXCEPT ![u] = Idle]
  /\ paid' = IF reward.to = Nobody \/ AlreadyPaid(reward.to, u) THEN paid ELSE paid \cup {reward}
  /\ UNCHANGED <<today, gone, links, trail, accepting>>

\* The account is deleted, by its owner's wish and the worker.
Leave(u) ==
  /\ u \notin gone /\ Cardinality(gone) < MaxGone
  /\ gone' = gone \cup {u}
  /\ UNCHANGED <<today, links, trail, accepting, visits, visiting, paid>>

NextDay ==
  /\ today < MaxDay
  /\ today' = today + 1
  /\ UNCHANGED <<gone, links, trail, accepting, visits, visiting, paid>>

Next ==
  \/ \E u \in People, purpose \in {"share", "invite"}, campaign \in {"none", "invite"} :
       CreateShare(u, purpose, campaign)
  \/ \E link \in links, u \in Newcomers : Open(link, u)
  \/ \E u \in Newcomers, link \in links : BeginAcceptance(u, link)
  \/ \E u \in Newcomers : RecordAcceptance(u) \/ DecideReward(u) \/ CommitVisit(u)
  \/ \E u \in People : Leave(u)
  \/ NextDay

Spec == Init /\ [][Next]_referralVars

-----------------------------------------------------------------------------
(* Properties *)

\* The acceptances by which an inviter may have earned a reward.
Earning(p) == {i \in DOMAIN trail : /\ trail[i].action = "registered" /\ trail[i].who = p.who
                                    /\ trail[i].link = Link(p.to, TRUE)}

\* An inviter is paid for another person only, who accepted an invitation
\* within the window of days before attending, once per person; opening a link
\* earns nothing.
EachRewardIsEarned ==
  \A p \in paid :
    /\ p.to # p.who /\ visits[p.who] > 0
    /\ \E i \in Earning(p) : i <= p.seen /\ trail[i].day \in p.day - Window + 1 .. p.day
    /\ \A q \in paid : q.to = p.to /\ q.who = p.who => q = p

\* A person earns a second inviter a reward only when the first one's account is
\* gone, or when the acceptance that earned it was written after the first
\* rewarded check-in had read: it had looked before that check-in committed.
SecondRewardNeedsGap ==
  \A p, q \in paid :
    p.who = q.who /\ p.nth < q.nth => p.to \in gone \/ \E i \in Earning(q) : i > p.seen

RewardsAreEarned == EachRewardIsEarned /\ SecondRewardNeedsGap

\* Whoever is invited earns one reward, for one inviter.
PaidOncePerInvitee == \A p, q \in paid : p.who = q.who => p = q
=============================================================================
