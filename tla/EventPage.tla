------------------------------ MODULE EventPage ------------------------------
(***************************************************************************)
(* The page of ONE event: what the API tells each viewer of it and which   *)
(* actions it offers (toView, packages/domain/src/policy.ts), the button   *)
(* the web client makes of that (lib/event-cta.ts), loads that overlap a   *)
(* change of accounts (EventDetailClient), and the comments of those who   *)
(* take part. The event has one place; it has no ticket tiers. The states  *)
(* of a registration change as Registrations describes, in one step each.  *)
(* A behaviour is about the page or about the comments, which share no     *)
(* state that one of them changes.                                         *)
(***************************************************************************)
EXTENDS Integers, FiniteSets, FiniteSetsExt

CONSTANTS
  Host, Guests,
  Unverified,  \* guests without a verified phone number
  Barred,      \* guests with the restriction registerBlocked
  Blocked,     \* guests with a block between them and the host
  Members,     \* guests who are members of the linked group
  Kinds,       \* the events: registration mode, waitlist, deadline, address, comments
  MaxTroubles, \* bound on changes of the session, lost loads, and ends of the event
  MaxComments

VARIABLES
  kind,       \* what never changes of the event
  status, time,
  regs,       \* the registration of each guest
  seated,     \* guests with confirmed_at: they have had a place
  openOffers, \* offers that have not expired
  writing,    \* guests whose comment has been let through and is not inserted yet
  comments,   \* whose comments there are
  session, page, loads, troubles

pageVars == <<kind, status, time, regs, seated, openOffers, writing, comments,
              session, page, loads, troubles>>

Visitor == "visitor"
Viewers == {Host, Visitor} \cup Guests

\* The deadline is time 1, not after the start, which is time 2; the event ends at 3.
LiveStatuses == {"pending", "confirmed", "waitlisted", "offered", "checked_in"}
Seats == {"pending", "confirmed", "offered", "checked_in"}

-----------------------------------------------------------------------------
(* The API: EventsService *)

Available == Max({0, 1 - Cardinality({u \in Guests : regs[u] \in Seats})})
Full == Available = 0

DeadlineAhead == kind.deadline => time < 1

Registration(u) == IF u \in Guests /\ regs[u] \in LiveStatuses THEN regs[u] ELSE "none"

RegistrationOpen == status = "published" /\ DeadlineAhead

\* availableEventActions, and the filter for events by invitation.
AvailableActions(u) ==
  LET ofHost == IF u = Host /\ status = "published" THEN {"edit", "cancelEvent"} ELSE {}
      mayRegister == /\ u \in Guests \ (Unverified \cup Barred) /\ RegistrationOpen
                     /\ Registration(u) = "none"
      ofGuest == CASE mayRegister /\ ~Full -> {"register"}
                   [] mayRegister /\ Full /\ kind.waitlist -> {"joinWaitlist"}
                   [] OTHER -> {}
      ofParticipant ==
        {a \in {"cancelRegistration"} : Registration(u) \in {"pending", "confirmed", "waitlisted", "offered"}}
          \cup {a \in {"viewTicket"} : Registration(u) \in {"confirmed", "checked_in"}}
  IN ofHost \cup (IF kind.mode = "invite_only" THEN {} ELSE ofGuest) \cup ofParticipant
       \cup {a \in {"appeal"} : status = "removed"}

\* canReadExactAddress.
MayReadAddress(u) ==
  \/ u = Host
  \/ /\ status = "published"
     /\ kind.public \/ Registration(u) \in {"confirmed", "checked_in"}

\* toView of what loadEvent reads; for a visitor it is the page as rendered.
ViewOf(u) ==
  [status |-> status, available |-> Available, registration |-> Registration(u),
   actions |-> AvailableActions(u), address |-> MayReadAddress(u)]

\* What register() demands of a guest without a live registration. A duplicate
\* is answered with the registration there is.
Admits(u) ==
  /\ u \in Guests \ (Unverified \cup Barred)
  /\ kind.mode # "invite_only"
  /\ status = "published" /\ time < 3 /\ DeadlineAhead
  /\ Full => kind.waitlist

-----------------------------------------------------------------------------
(* The web client *)

\* resolveEventCTA, by the clock of the browser.
PrimaryAction(view, u) ==
  LET isFull == view.available = 0
      windowOpen == view.status = "published" /\ DeadlineAhead
      registrable == windowOpen /\ (~isFull \/ kind.waitlist)
  IN
  IF view.status \in {"cancelled", "removed"} THEN "event_unavailable"
  ELSE IF view.registration = "offered" /\ u \in openOffers THEN "accept_waitlist"
  ELSE IF view.registration \in {"confirmed", "checked_in"} THEN "view_itinerary"
  ELSE IF view.registration = "pending" THEN "view_pending"
  ELSE IF view.registration = "waitlisted" THEN "view_waitlist"
  ELSE IF u = Visitor /\ registrable THEN "continue_login"
  ELSE IF u \in Unverified /\ registrable THEN "continue_phone_verification"
  ELSE IF ~windowOpen \/ (~isFull /\ view.actions \cap {"register", "joinWaitlist"} = {}) THEN "registration_closed"
  ELSE IF isFull /\ kind.waitlist /\ "joinWaitlist" \in view.actions THEN "join_waitlist"
  ELSE IF isFull THEN "full_closed"
  ELSE IF kind.mode = "approval" /\ "register" \in view.actions THEN "apply"
  ELSE IF "register" \in view.actions THEN "register"
  ELSE "registration_closed"

Rendered == [status |-> "published", available |-> 1, registration |-> "none", actions |-> {},
             address |-> kind.public]

Init ==
  /\ kind \in Kinds
  /\ status = "published" /\ time = 0
  /\ regs = [u \in Guests |-> "none"] /\ seated = {} /\ openOffers = {}
  /\ writing = {} /\ comments = {}
  /\ session = [user |-> Visitor, number |-> 1]
  /\ page = [view |-> Rendered, viewer |-> Visitor, noticed |-> 1, generation |-> 1]
  /\ loads = {} /\ troubles = 0

server == <<kind, status, time, regs, seated, openOffers, writing, comments>>
Trouble == troubles < MaxTroubles /\ troubles' = troubles + 1

\* An account signs in or out, in this tab or another one.
ChangeSession(u) ==
  /\ Trouble /\ u # session.user
  /\ writing \cup comments = {}
  /\ session' = [user |-> u, number |-> session.number + 1]
  /\ UNCHANGED <<server, page, loads>>

\* synchronizeViewer: what was shown is dropped at once, and the event is
\* read again for whoever is signed in.
SynchronizeViewer ==
  /\ page.noticed # session.number
  /\ page' = [view |-> Rendered, viewer |-> Visitor, noticed |-> session.number,
              generation |-> page.generation + 1]
  /\ loads' = IF session.user = Visitor THEN loads
              ELSE loads \cup {[user |-> session.user, generation |-> page.generation + 1,
                                answer |-> Rendered, served |-> FALSE]}
  /\ UNCHANGED <<server, session, troubles>>

\* The session the request is sent with is the one the load began under.
ServeLoad(l) ==
  /\ ~l.served
  /\ loads' = (loads \ {l}) \cup {[l EXCEPT !.served = TRUE, !.answer = ViewOf(l.user)]}
  /\ UNCHANGED <<server, session, page, troubles>>

\* Mutant: whichever answer comes is shown, as long as somebody is signed in.
Fits_Anyone(l) == session.user # Visitor

Fits(l) == l.generation = page.generation /\ session.user = l.user

TakeAnswer(l) ==
  /\ l.served
  /\ loads' = loads \ {l}
  /\ page' = IF Fits(l) THEN [page EXCEPT !.view = l.answer, !.viewer = session.user] ELSE page
  /\ UNCHANGED <<server, session, troubles>>

LoseLoad(l) ==
  /\ Trouble
  /\ loads' = loads \ {l}
  /\ UNCHANGED <<server, session, page>>

\* What the API needs to accept an offer, and what this page sends with it.
AcceptanceNeeds == {"quoteId", "expectedRegistrationVersion", "expectedEventVersion"}
AcceptanceFields == {}

\* acceptOffer of this page: without what is needed the API answers 400, and the
\* page says so.
AcceptOffer ==
  /\ PrimaryAction(page.view, page.viewer) = "accept_waitlist"
  /\ ~(AcceptanceNeeds \subseteq AcceptanceFields)
  /\ UNCHANGED pageVars

-----------------------------------------------------------------------------
(* Comments *)

\* assertCanComment, by the event as loadEvent read it without a lock.
MayComment(u) ==
  /\ kind.permission # "disabled" /\ status # "removed" /\ u \notin Unverified
  /\ \/ u = Host
     \/ /\ u \notin Blocked
        /\ \/ kind.permission = "participants" /\ Registration(u) \in {"confirmed", "checked_in"}
           \/ kind.permission = "group_members" /\ u \in Members

page_ == <<session, page, loads, troubles>>

BeginComment(u) ==
  /\ session.number = 1
  /\ MayComment(u) /\ Cardinality(writing \cup comments) < MaxComments
  /\ writing' = writing \cup {u}
  /\ UNCHANGED <<kind, status, time, regs, seated, openOffers, comments, page_>>

InsertComment(u) ==
  /\ u \in writing
  /\ writing' = writing \ {u} /\ comments' = comments \cup {u}
  /\ UNCHANGED <<kind, status, time, regs, seated, openOffers, page_>>

-----------------------------------------------------------------------------
(* What else happens to the event: see Registrations *)

Change(u, s) ==
  /\ regs' = [regs EXCEPT ![u] = s]
  /\ seated' = IF s = "confirmed" THEN seated \cup {u} ELSE seated
  /\ openOffers' = IF s = "offered" THEN openOffers \cup {u} ELSE openOffers \ {u}
  /\ UNCHANGED <<kind, status, time, writing, comments, page_>>

Register(u) ==
  /\ Admits(u) /\ Registration(u) = "none"
  /\ Change(u, IF Full THEN "waitlisted" ELSE IF kind.mode = "automatic" THEN "confirmed" ELSE "pending")

Decide(u) == regs[u] = "pending" /\ \E s \in {"confirmed", "none"} : Change(u, s)

CancelRegistration(u) ==
  /\ regs[u] \in {"pending", "confirmed", "waitlisted", "offered"}
  /\ status = "published" /\ time < 2
  /\ Change(u, "none")

\* The worker offers a free place, whatever the deadline.
Promote(u) == regs[u] = "waitlisted" /\ ~Full /\ status = "published" /\ Change(u, "offered")

\* From the itinerary, whose request is complete.
AcceptElsewhere(u) ==
  u \in openOffers /\ status = "published" /\ time < 3 /\ DeadlineAhead /\ Change(u, "confirmed")

SweepOffer(u) == regs[u] = "offered" /\ u \notin openOffers /\ Change(u, "waitlisted")

CheckIn(u) == regs[u] = "confirmed" /\ time > 0 /\ Change(u, "checked_in")

LapseOffer(u) ==
  /\ u \in openOffers
  /\ openOffers' = openOffers \ {u}
  /\ UNCHANGED <<kind, status, time, regs, seated, writing, comments, page_>>

\* The host cancels, which ends the registrations; operations remove the event.
End(s) ==
  /\ status = "published" /\ Trouble
  /\ status' = s
  /\ regs' = [u \in Guests |-> IF s = "cancelled" /\ regs[u] \in LiveStatuses THEN "none" ELSE regs[u]]
  /\ openOffers' = IF s = "cancelled" THEN {} ELSE openOffers
  /\ UNCHANGED <<kind, time, seated, writing, comments, session, page, loads>>

TimePasses ==
  /\ time < 3 /\ time' = time + 1
  /\ UNCHANGED <<kind, status, regs, seated, openOffers, writing, comments, page_>>

Next ==
  \/ \E u \in Viewers : ChangeSession(u)
  \/ SynchronizeViewer \/ AcceptOffer
  \/ \E l \in loads : ServeLoad(l) \/ TakeAnswer(l) \/ LoseLoad(l)
  \/ \E u \in Guests \cup {Host} : BeginComment(u) \/ InsertComment(u)
  \/ \E u \in Guests : Register(u) \/ Decide(u) \/ CancelRegistration(u) \/ Promote(u)
                        \/ AcceptElsewhere(u) \/ SweepOffer(u) \/ CheckIn(u) \/ LapseOffer(u)
  \/ \E s \in {"cancelled", "removed"} : End(s)
  \/ TimePasses

Spec == Init /\ [][Next]_pageVars

-----------------------------------------------------------------------------
(* Properties *)

\* The button of a page that is up to date leads to a registration the server
\* accepts, and a guest whom it would accept finds one: the policy, the client
\* and the registration service, each with its own conditions, agree. Events
\* without a deadline are the exception: their page offers places after the end.
ButtonsAgreeWithServer ==
  LET u == page.viewer
      button == PrimaryAction(page.view, u)
  IN
  u \in Guests /\ page.view = ViewOf(u) /\ (kind.deadline \/ time < 3) /\ Registration(u) = "none" =>
    /\ Admits(u) <=> button \in {"register", "apply", "join_waitlist"}
    /\ button = "join_waitlist" <=> Admits(u) /\ Full

\* Once the page has noticed who is signed in, it shows that account's view or
\* the public one, however late the answers for other accounts come.
PageIsItsViewers ==
  /\ page.noticed = session.number => page.viewer \in {Visitor, session.user}
  /\ page.viewer = Visitor => page.view = Rendered

\* Only the host and those who have had a place are shown a private address,
\* and only they, or the members where members may, have written comments.
InsidersOnly ==
  /\ page.view.address => kind.public \/ page.viewer \in seated \cup {Host}
  /\ \A u \in comments \ {Host} :
       IF kind.permission = "participants" THEN u \in seated ELSE u \in Members

ShownAsAllowed == ButtonsAgreeWithServer /\ PageIsItsViewers /\ InsidersOnly

=============================================================================
