------------------------------- MODULE Groups -------------------------------
(***************************************************************************)
(* One group: its members and their roles, its capacity, the transfer of   *)
(* its ownership, its dissolution, and the manager's page that remembers   *)
(* which transfer is under way. Every request locks the group row, so a    *)
(* request is one action; clocks (seven days of membership, the cooldown,  *)
(* the notice of a dissolution) run out at any time.                       *)
(***************************************************************************)
EXTENDS Integers, FiniteSets

CONSTANTS
  Users,
  InitialCapacity, Step, MaxCapacity,   \* places of a new group, of a purchase, at most
  Modes,                                \* how one joins: "open", "approval", "invite_only"
  MaxTransfers                          \* bound on the transfers ever started

VARIABLES
  group,        \* the row: status, owner, capacity, deleted, how one joins
  member,       \* the membership row of every user
  invites,      \* uses left on the invitation codes that are still valid
  transfer,     \* the transfers by number
  dissolution,  \* the latest dissolution
  known         \* the transfer the page of a user remembers, 0 for none

groupVars == <<group, member, invites, transfer, dissolution, known>>

Nobody == "nobody"
Transfers == 1..MaxTransfers
NoTransfer == [state |-> "none", from |-> Nobody, to |-> Nobody, expired |-> FALSE, cooled |-> FALSE]
NoMember == [role |-> "none", status |-> "none", old |-> FALSE]

TypeOK ==
  /\ group \in [status : {"none", "active", "transfer_pending", "closing", "dissolved", "removed"},
                owner : Users \cup {Nobody}, capacity : InitialCapacity..MaxCapacity,
                deleted : BOOLEAN, mode : Modes \cup {"open"}]
  /\ member \in [Users -> [role : {"none", "member", "admin", "owner"},
                           status : {"none", "pending", "active", "muted", "removed"}, old : BOOLEAN]]
  /\ invites \in 0..1
  /\ transfer \in [Transfers -> [state : {"none", "awaiting_target", "cooling_off", "completed", "cancelled"},
                                 from : Users \cup {Nobody}, to : Users \cup {Nobody},
                                 expired : BOOLEAN, cooled : BOOLEAN]]
  /\ dissolution \in [state : {"none", "scheduled", "cancelled", "completed"}, due : BOOLEAN]
  /\ known \in [Users -> 0..MaxTransfers]

Init ==
  /\ group = [status |-> "none", owner |-> Nobody, capacity |-> InitialCapacity,
              deleted |-> FALSE, mode |-> "open"]
  /\ member = [u \in Users |-> NoMember]
  /\ invites = 0
  /\ transfer = [t \in Transfers |-> NoTransfer]
  /\ dissolution = [state |-> "none", due |-> FALSE]
  /\ known = [u \in Users |-> 0]

-----------------------------------------------------------------------------
\* load: a group that is gone is not found, whoever asks.
Visible == ~group.deleted /\ group.status \notin {"none", "dissolved", "removed"}

Counted == {u \in Users : member[u].status \in {"active", "muted"}}

\* assertManager.
Manager(a) == member[a].status = "active" /\ member[a].role \in {"owner", "admin"}

Owner(a) == Visible /\ group.owner = a

Create(u, mode) ==
  /\ group.status = "none"
  /\ group' = [group EXCEPT !.status = "active", !.owner = u, !.mode = mode]
  /\ member' = [member EXCEPT ![u] = [role |-> "owner", status |-> "active", old |-> FALSE]]
  /\ UNCHANGED <<invites, transfer, dissolution, known>>

\* join: full groups are closed, a request for approval takes no place yet, an invitation is
\* used up in the same transaction. Who was removed comes back as a plain member.
Join(u) ==
  /\ Visible /\ group.status \in {"active", "transfer_pending"}
  /\ member[u].status \in {"none", "removed"}
  /\ Cardinality(Counted) < group.capacity
  /\ IF group.mode = "invite_only" THEN invites > 0 /\ invites' = invites - 1
                                   ELSE UNCHANGED invites
  /\ member' = [member EXCEPT ![u] =
       [role |-> "member", status |-> IF group.mode = "approval" THEN "pending" ELSE "active",
        old |-> FALSE]]
  /\ UNCHANGED <<group, transfer, dissolution, known>>

\* A code is only asked for where one joins by invitation.
CreateInvite(a) ==
  /\ Visible /\ Manager(a) /\ invites = 0 /\ group.mode = "invite_only"
  /\ invites' = 1
  /\ UNCHANGED <<group, member, transfer, dissolution, known>>

InviteExpires ==
  /\ invites > 0 /\ invites' = 0
  /\ UNCHANGED <<group, member, transfer, dissolution, known>>

\* updateMember: approves, mutes, removes, takes back, appoints. The places are not counted.
UpdateMember(a, u, role, status) ==
  /\ Visible /\ Manager(a)
  /\ role # "keep" => member[a].role = "owner"
  /\ member[u].status # "none" /\ member[u].role # "owner"
  /\ member' = [member EXCEPT ![u].role = IF role = "keep" THEN @ ELSE role,
                              ![u].status = IF status = "keep" THEN @ ELSE status]
  /\ UNCHANGED <<group, invites, transfer, dissolution, known>>

\* Seven days after the user joined.
MemberSettles(u) ==
  /\ member[u].status # "none" /\ ~member[u].old
  /\ member' = [member EXCEPT ![u].old = TRUE]
  /\ UNCHANGED <<group, invites, transfer, dissolution, known>>

PurchaseCapacity ==
  /\ Visible /\ group.capacity < MaxCapacity
  /\ group' = [group EXCEPT !.capacity = @ + Step]
  /\ UNCHANGED <<member, invites, transfer, dissolution, known>>

-----------------------------------------------------------------------------
(* Transfer of the ownership *)

\* The states the unique index uq_active_group_transfer covers.
OpenStates == {"awaiting_target", "cooling_off"}
Indexed == OpenStates

\* Nothing looks at the rest of a row that has ended.
Ended(state) == [NoTransfer EXCEPT !.state = state]

Open(t) == transfer[t].state \in Indexed

\* startTransfer: to an active member of seven days, one open transfer at a time.
StartTransfer(a, u, t) ==
  /\ Owner(a) /\ u # a
  /\ member[u].status = "active" /\ member[u].old
  /\ \A s \in Transfers : ~Open(s)
  /\ transfer[t].state = "none" /\ \A s \in 1..(t - 1) : transfer[s].state # "none"
  /\ transfer' = [transfer EXCEPT ![t] = [NoTransfer EXCEPT !.state = "awaiting_target",
                                                            !.from = a, !.to = u]]
  /\ known' = [known EXCEPT ![a] = t]
  /\ UNCHANGED <<group, member, invites, dissolution>>

\* Seven days after the start. No job of the worker closes the row.
TransferExpires(t) ==
  /\ Open(t) /\ ~transfer[t].expired
  /\ transfer' = [transfer EXCEPT ![t].expired = TRUE]
  /\ UNCHANGED <<group, member, invites, dissolution, known>>

\* 24 hours after the acceptance.
CooldownEnds(t) ==
  /\ transfer[t].state = "cooling_off" /\ ~transfer[t].cooled
  /\ transfer' = [transfer EXCEPT ![t].cooled = TRUE]
  /\ UNCHANGED <<group, member, invites, dissolution, known>>

\* transferAction of the page: it asks about the transfer it remembers and keeps it in mind as
\* long as the answer leaves it open.
TransferAction(u, open) ==
  /\ Visible /\ known[u] # 0
  /\ known' = IF open THEN known ELSE [known EXCEPT ![u] = 0]

\* acceptTransfer: what became of the target's membership is not looked at again.
AcceptTransfer(u) ==
  /\ TransferAction(u, TRUE)
  /\ LET t == known[u] IN
       /\ transfer[t].to = u /\ transfer[t].state = "awaiting_target" /\ ~transfer[t].expired
       /\ transfer' = [transfer EXCEPT ![t].state = "cooling_off"]
  /\ group' = [group EXCEPT !.status = "transfer_pending"]
  /\ UNCHANGED <<member, invites, dissolution>>

\* The two membership rows of a completed transfer.
HandedOver(t) ==
  [member EXCEPT ![transfer[t].from].role = "member",
                 ![transfer[t].to].role = "owner", ![transfer[t].to].status = "active"]

HandedOver_FormerOwnerStays(t) ==
  [member EXCEPT ![transfer[t].to].role = "owner", ![transfer[t].to].status = "active"]

MembersAfter(t) == HandedOver(t)

\* completeTransfer: by either party once the cooldown is over; the group is active again,
\* whatever it was.
CompleteTransfer(u) ==
  /\ TransferAction(u, FALSE)
  /\ LET t == known[u] IN
       /\ transfer[t].state = "cooling_off" /\ transfer[t].cooled
       /\ u \in {transfer[t].from, transfer[t].to}
       /\ member' = MembersAfter(t)
       /\ group' = [group EXCEPT !.owner = transfer[t].to, !.status = "active"]
       /\ transfer' = [transfer EXCEPT ![t] = Ended("completed")]
  /\ UNCHANGED <<invites, dissolution>>

\* cancelTransfer: by either party; here too the group becomes active.
CancelTransfer(u) ==
  /\ TransferAction(u, FALSE)
  /\ LET t == known[u] IN
       /\ transfer[t].state \in OpenStates /\ u \in {transfer[t].from, transfer[t].to}
       /\ transfer' = [transfer EXCEPT ![t] = Ended("cancelled")]
  /\ group' = [group EXCEPT !.status = "active"]
  /\ UNCHANGED <<member, invites, dissolution>>

\* activeTransfer: an open one that has not expired, cooling ones included.
Active == {t \in Transfers : transfer[t].state \in OpenStates /\ ~transfer[t].expired}

\* loadActiveTransfer of the page: 404 forgets, 403 keeps what was there.
LoadManager(u) ==
  /\ Visible
  /\ \/ Active = {} /\ known' = [known EXCEPT ![u] = 0]
     \/ \E t \in Active :
          /\ u \in {group.owner, transfer[t].from, transfer[t].to}
          /\ known' = [known EXCEPT ![u] = t]
  /\ UNCHANGED <<group, member, invites, transfer, dissolution>>

-----------------------------------------------------------------------------
(* Dissolution and the operators *)

\* requestDissolution: one notice at a time (a unique index). The events of the group, which
\* must be over, belong to another component.
RequestDissolution(a) ==
  /\ Owner(a) /\ dissolution.state # "scheduled"
  /\ dissolution' = [state |-> "scheduled", due |-> FALSE]
  /\ group' = [group EXCEPT !.status = "closing"]
  /\ UNCHANGED <<member, invites, transfer, known>>

\* Seven days after the notice.
NoticeEnds ==
  /\ dissolution.state = "scheduled" /\ ~dissolution.due
  /\ dissolution' = [dissolution EXCEPT !.due = TRUE]
  /\ UNCHANGED <<group, member, invites, transfer, known>>

CancelDissolution(a) ==
  /\ Owner(a) /\ dissolution.state = "scheduled" /\ ~dissolution.due
  /\ dissolution' = [state |-> "cancelled", due |-> FALSE]
  /\ group' = [group EXCEPT !.status = "active"]
  /\ UNCHANGED <<member, invites, transfer, known>>

\* finalizeDissolution: by the owner or an operator.
FinalizeDissolution ==
  /\ Visible /\ dissolution.state = "scheduled" /\ dissolution.due
  /\ dissolution' = [state |-> "completed", due |-> FALSE]
  /\ group' = [group EXCEPT !.status = "dissolved", !.deleted = TRUE]
  /\ UNCHANGED <<member, invites, transfer, known>>

\* What an operator's decision makes of the status, whatever it was.
StatusAfter(decision) ==
  CASE decision = "remove" -> "removed"
    [] decision = "start_closing" -> "closing"
    [] decision \in {"restore", "cancel_closing"} -> "active"

\* groupLifecycleDecision: also of a group that is gone; its row stays deleted.
LifecycleDecision(decision) ==
  /\ group.status # "none"
  /\ group' = [group EXCEPT !.status = StatusAfter(decision)]
  /\ dissolution' =
       IF decision = "start_closing" /\ dissolution.state # "scheduled"
       THEN [state |-> "scheduled", due |-> FALSE]
       ELSE IF decision = "cancel_closing" /\ dissolution.state = "scheduled"
       THEN [state |-> "cancelled", due |-> FALSE]
       ELSE dissolution
  /\ UNCHANGED <<member, invites, transfer, known>>

-----------------------------------------------------------------------------
Next ==
  \/ \E u \in Users, mode \in Modes : Create(u, mode)
  \/ \E u \in Users : Join(u) \/ CreateInvite(u) \/ MemberSettles(u)
  \/ InviteExpires \/ PurchaseCapacity
  \/ \E a, u \in Users, role \in {"keep", "admin", "member"},
        status \in {"keep", "active", "muted", "removed"} : UpdateMember(a, u, role, status)
  \/ \E a, u \in Users, t \in Transfers : StartTransfer(a, u, t)
  \/ \E t \in Transfers : TransferExpires(t) \/ CooldownEnds(t)
  \/ \E u \in Users : AcceptTransfer(u) \/ CompleteTransfer(u) \/ CancelTransfer(u)
                      \/ LoadManager(u) \/ RequestDissolution(u) \/ CancelDissolution(u)
  \/ NoticeEnds \/ FinalizeDissolution
  \/ \E d \in {"remove", "start_closing", "restore", "cancel_closing"} : LifecycleDecision(d)

Spec == Init /\ [][Next]_groupVars

-----------------------------------------------------------------------------
(* Properties *)

\* groups.owner_id and the memberships agree (create, updateMember, join, completeTransfer):
\* the owner is the one member with the role of an owner and is active, over transfers to
\* members who were muted or removed in between. An open transfer, one at most, was started
\* by the one who owns the group now, which completeTransfer does not look at.
OwnershipIsSettled ==
  group.status # "none" =>
    /\ \A u \in Users : member[u].role = "owner" <=> u = group.owner
                        /\ member[u].status = "active"
    /\ \A t \in Transfers : transfer[t].state \in OpenStates =>
         transfer[t].from = group.owner /\ \A s \in Transfers \ {t} : transfer[s].state \notin OpenStates

\* A closing group has a notice that can be cancelled or finished, over decisions of the owner
\* and of the operators (requestDissolution, cancelDissolution, groupLifecycleDecision).
ClosingHasNotice == group.status = "closing" /\ ~group.deleted => dissolution.state = "scheduled"

=============================================================================
