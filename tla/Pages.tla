-------------------------------- MODULE Pages --------------------------------
(***************************************************************************)
(* What a member does on the web pages of events and what the servers make *)
(* of it: finding an event, its page, registering for it, following one's own *)
(* registrations. The parts share no state that one of them changes, and a *)
(* behaviour is about one part: the others stay as they began.             *)
(***************************************************************************)
EXTENDS Integers, FiniteSets

CONSTANTS
  Events, Queries, Sorts, Ranks, Limit, PoolSize, MinNatural, MaxChanges, MaxAsked, MaxFaults,  \* Discovery
  Accounts, Prices, MaxQuotes, MaxTroubles,                                              \* RegisterPage
  Owner, Other,                                                                          \* Itinerary
  Host, Guests, Unverified, Barred, Blocked, Members, Kinds, MaxComments                 \* EventPage

ASSUME SmallPages ==
  /\ Events \subseteq Nat \ {0} /\ Events # {} /\ IsFiniteSet(Events) /\ Ranks \subseteq Nat
  /\ Queries # {} /\ MinNatural \in 0..100 /\ Limit \in Nat \ {0} /\ PoolSize \in Nat
  /\ Accounts # {} /\ Owner # Other /\ MaxTroubles \in Nat
  /\ Kinds \subseteq [mode : {"automatic", "approval", "invite_only"}, waitlist : BOOLEAN, deadline : BOOLEAN,
                      public : BOOLEAN, permission : {"participants", "group_members", "disabled"}]
  /\ "visitor" \notin Guests

VARIABLES
  part,
  scope, sort, rows, touched, query, list, latest, inflight, loadingMore, faults, feed,
  session, event, price, quotes, booked, claims, page, drafts, calls, keys, troubles,
  mySession, facts, hinted, accepted, myClaims, myPage, card, myCalls, myKeys, myTroubles,
  kind, eventStatus, time, regs, seated, openOffers, writing, comments, seenBy, eventPage, loads, viewTroubles

Finding == INSTANCE Discovery
Registering == INSTANCE RegisterPage
Following == INSTANCE Itinerary WITH session <- mySession, claims <- myClaims, page <- myPage,
                                     calls <- myCalls, keys <- myKeys, troubles <- myTroubles
Viewing == INSTANCE EventPage WITH status <- eventStatus, session <- seenBy, page <- eventPage,
                                   troubles <- viewTroubles

findPart == <<scope, sort, rows, touched, query, list, latest, inflight, loadingMore, faults, feed>>
registerPart == <<session, event, price, quotes, booked, claims, page, drafts, calls, keys, troubles>>
followPart == <<mySession, facts, hinted, accepted, myClaims, myPage, card, myCalls, myKeys, myTroubles>>
viewPart == <<kind, eventStatus, time, regs, seated, openOffers, writing, comments, seenBy, eventPage, loads,
              viewTroubles>>
pagesVars == <<part, findPart, registerPart, followPart, viewPart>>

\* A part a behaviour is not about begins in one of its states only.
PagesInit ==
  /\ part \in {"finding", "registering", "following", "viewing"}
  /\ Finding!Init
  /\ part # "finding" =>
       /\ scope = "list" /\ sort = CHOOSE any \in Sorts : TRUE
       /\ query = CHOOSE q \in Queries : TRUE
       /\ \A d, e \in Events : rows[d].rank = rows[e].rank /\ rows[d].rank = CHOOSE r \in Ranks : TRUE
  /\ Registering!Init /\ (part # "registering" => event.fee = 0 /\ price = CHOOSE p \in Prices : TRUE)
  /\ Following!Init
  /\ Viewing!Init /\ (part # "viewing" => kind = CHOOSE k \in Kinds : TRUE)

PagesNext ==
  /\ UNCHANGED part
  /\ \/ part = "finding" /\ Finding!Next /\ UNCHANGED <<registerPart, followPart, viewPart>>
     \/ part = "registering" /\ Registering!Next /\ UNCHANGED <<findPart, followPart, viewPart>>
     \/ part = "following" /\ Following!Next /\ UNCHANGED <<findPart, registerPart, viewPart>>
     \/ part = "viewing" /\ Viewing!Next /\ UNCHANGED <<findPart, registerPart, followPart>>

PagesSpec == PagesInit /\ [][PagesNext]_pagesVars

-----------------------------------------------------------------------------
(* Properties: those of the part a behaviour is about *)

\* A walk through the pages of a search shows every event once, the list answers the address,
\* and the feed stays organic.
FoundWell == part = "finding" => Finding!FoundWell

\* A registration and an accepted offer stand as their owner's page showed them, and a page
\* shows and sends its account's own words.
SentAsShown ==
  /\ part = "registering" => Registering!RegisteredAsReviewed
  /\ part = "following" => Following!AcceptedAsReviewed

\* The page of an event offers what the server accepts, to each account its own view, and
\* private things to those who take part.
ShownAsAllowed == part = "viewing" => Viewing!ShownAsAllowed

\* However many loads of the itinerary overlap, what an account sees never goes back.
ItineraryMovesForward == [][Following!ShownMovesForward]_pagesVars

=============================================================================
