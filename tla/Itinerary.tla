------------------------------ MODULE Itinerary ------------------------------
(***************************************************************************)
(* The itinerary of the web client and the card of a waitlist offer in it. *)
(* Loads overlap: the first one, the button in the header, hints of the    *)
(* sync engine, and the critical refresh after an offer was accepted or    *)
(* refused. The card freezes what a review shows, accepts it under one     *)
(* key, and waits for the critical refresh. One account holds an offer;    *)
(* another may sign in from a second tab. MaxTroubles bounds what disturbs *)
(* the page: changed facts, lost calls, other accounts, pressed buttons.   *)
(***************************************************************************)
EXTENDS Integers, FiniteSets

CONSTANTS Owner, Other, MaxTroubles

VARIABLES
  session,   \* whose session the browser holds, and how many there were
  facts,     \* the owner's registration on the server: version of everything shown, status
  hinted,    \* the version the sync engine last announced
  accepted,  \* acceptances: version accepted, version its dialog showed
  claims,    \* keys of acceptances that were carried out
  page,      \* what is shown, its account, loads begun, the critical one, whether a load spins
  card,      \* the card of the offer, while it is shown
  calls,
  keys,
  troubles

vars == <<session, facts, hinted, accepted, claims, page, card, calls, keys, troubles>>

Nothing == [version |-> 0, status |-> "none"]
NoReview == [version |-> 0, key |-> 0]

NewCard(number) ==
  [number |-> number, phase |-> "ready", awaits |-> 0, busy |-> FALSE, review |-> NoReview,
   confirming |-> FALSE]

Load(critical, generation) ==
  [kind |-> "load", number |-> session.number, user |-> session.user, stage |-> "sent",
   answer |-> Nothing, critical |-> critical, generation |-> generation]

Init ==
  /\ session = [user |-> Owner, number |-> 1]
  /\ facts = [version |-> 1, status |-> "offered"] /\ hinted = 1
  /\ accepted = {} /\ claims = {}
  /\ page = [shown |-> Nothing, owner |-> Owner, noticed |-> 1, generation |-> 1, critical |-> 0,
             refreshing |-> FALSE]
  /\ card = NewCard(0)
  /\ calls = {Load(FALSE, 1)} /\ keys = 0 /\ troubles = 0

server == <<facts, accepted, claims>>
Trouble == troubles < MaxTroubles /\ troubles' = troubles + 1

Replace(c, d) == calls' = (calls \ {c}) \cup {d}

-----------------------------------------------------------------------------
(* The list *)

\* Every load takes a number of its own.
Begin(p, critical, refresh, others) ==
  /\ page' = [p EXCEPT !.generation = @ + 1, !.owner = session.user,
                       !.critical = IF critical THEN p.generation + 1 ELSE @,
                       !.refreshing = @ \/ refresh]
  /\ calls' = others \cup {Load(critical, p.generation + 1)}

\* The button in the header is disabled while something refreshes.
HeaderRefresh ==
  /\ Trouble /\ page.critical = 0 /\ ~page.refreshing
  /\ Begin(page, FALSE, TRUE, calls)
  /\ UNCHANGED <<session, hinted, server, card, keys>>

\* The sync engine reports changed registrations: the list is loaded again.
SyncHint ==
  /\ session.user = Owner /\ hinted < facts.version
  /\ hinted' = facts.version
  /\ Begin(page, FALSE, TRUE, calls)
  /\ UNCHANGED <<session, server, card, keys, troubles>>

\* Another account: everything shown is dropped, and its own list loaded.
Notice ==
  /\ page.noticed # session.number
  /\ LET p == [page EXCEPT !.noticed = session.number] IN
     IF session.user = page.owner THEN page' = p /\ UNCHANGED <<card, calls>>
     ELSE /\ Begin([p EXCEPT !.shown = Nothing, !.critical = 0, !.refreshing = FALSE,
                             !.generation = @ + 1], FALSE, FALSE, calls)
          /\ card' = NewCard(card.number + 1)
  /\ UNCHANGED <<session, hinted, server, keys, troubles>>

AnyLoad(c) == c.number = session.number

LoadCurrent(c) == c.number = session.number /\ c.generation = page.generation

\* The card of an offer that is no longer shown is gone, and what it awaited with it.
CardAfter(shown, outcome, c) ==
  IF shown.status # "offered"
  THEN IF page.shown.status = "offered" THEN NewCard(card.number + 1) ELSE card
  ELSE IF card.awaits # c.generation \/ card.awaits = 0 THEN card
  ELSE [card EXCEPT !.awaits = 0,
                    !.phase = CASE outcome = "success" -> "ready"
                                [] outcome = "failed" -> "required"
                                [] outcome = "superseded" -> @]

\* A superseded answer changes nothing that is shown; a failed load keeps what was shown.
LoadEnds(c) ==
  LET outcome == IF ~LoadCurrent(c) THEN "superseded"
                 ELSE IF c.stage = "served" THEN "success" ELSE "failed"
      shown == IF outcome = "success" THEN c.answer ELSE page.shown
      last == c.generation = page.generation /\ c.number = session.number
  IN
  /\ c.kind = "load" /\ c.stage \in {"served", "failed"}
  /\ calls' = calls \ {c}
  /\ page' = [page EXCEPT !.shown = shown,
                          !.critical = IF @ = c.generation THEN 0 ELSE @,
                          !.refreshing = IF last THEN FALSE ELSE @]
  /\ card' = CardAfter(shown, outcome, c)
  /\ UNCHANGED <<session, hinted, server, keys, troubles>>

-----------------------------------------------------------------------------
(* The card *)

CardShown == page.shown.status = "offered"
OfCard(c) == c.card = card.number

CardCall(kind, body) ==
  [kind |-> kind, number |-> session.number, user |-> session.user, stage |-> "sent", answer |-> Nothing,
   card |-> card.number, body |-> body]

\* The facts under review are frozen before the quote is asked for.
ReviewOffer ==
  /\ CardShown /\ card.phase = "ready" /\ ~card.busy /\ card.review = NoReview
  /\ card' = [card EXCEPT !.busy = TRUE]
  /\ calls' = calls \cup {CardCall("quote", [version |-> page.shown.version, key |-> 0, shown |-> 0])}
  /\ UNCHANGED <<session, hinted, server, page, keys, troubles>>

\* The dialog draws the key of the acceptance it stands for.
QuoteEnds(c) ==
  /\ c.kind = "quote" /\ c.stage \in {"served", "failed"}
  /\ calls' = calls \ {c}
  /\ IF OfCard(c) /\ c.stage = "served" /\ c.number = session.number
     THEN /\ keys' = keys + 1
          /\ card' = [card EXCEPT !.busy = FALSE, !.review = [version |-> c.body.version, key |-> keys + 1]]
     ELSE /\ keys' = keys
          /\ card' = IF OfCard(c) THEN [card EXCEPT !.busy = FALSE] ELSE card
  /\ UNCHANGED <<session, hinted, server, page, troubles>>

CloseReview ==
  /\ card.review # NoReview /\ ~card.confirming
  /\ Trouble
  /\ card' = [card EXCEPT !.review = NoReview]
  /\ UNCHANGED <<session, hinted, server, page, calls, keys>>

VersionSent == card.review.version

ConfirmOffer ==
  /\ CardShown /\ card.review # NoReview /\ ~card.confirming
  /\ card' = [card EXCEPT !.confirming = TRUE]
  /\ calls' = calls \cup
       {CardCall("accept", [version |-> VersionSent, key |-> card.review.key, shown |-> card.review.version])}
  /\ UNCHANGED <<session, hinted, server, page, keys, troubles>>

\* The cards share one critical refresh; it is joined when one is under way.
AwaitFacts(c) ==
  IF page.critical # 0
  THEN page' = page /\ calls' = calls \ {c} /\ card' = [card EXCEPT
         !.review = NoReview, !.confirming = FALSE, !.phase = "refreshing", !.awaits = page.critical]
  ELSE Begin(page, TRUE, FALSE, calls \ {c}) /\ card' = [card EXCEPT
         !.review = NoReview, !.confirming = FALSE, !.phase = "refreshing", !.awaits = page.generation + 1]

\* Saved or stale, the facts are read again; any other error keeps the dialog and its key.
AcceptanceEnds(c) ==
  /\ c.kind = "accept" /\ c.stage \in {"served", "failed"}
  /\ IF ~OfCard(c) THEN UNCHANGED <<page, card>> /\ calls' = calls \ {c}
     ELSE IF c.stage = "served" /\ c.number = session.number THEN AwaitFacts(c)
     ELSE card' = [card EXCEPT !.confirming = FALSE] /\ calls' = calls \ {c} /\ page' = page
  /\ UNCHANGED <<session, hinted, server, keys, troubles>>

RetryRefresh ==
  /\ CardShown /\ card.phase = "required"
  /\ AwaitFacts([kind |-> "none"])
  /\ UNCHANGED <<session, hinted, server, keys, troubles>>

-----------------------------------------------------------------------------
(* The server, the network, the other tab *)

ServeLoad(c) ==
  /\ c.kind = "load" /\ c.stage = "sent"
  /\ Replace(c, [c EXCEPT !.stage = "served",
                          !.answer = IF c.user = Owner THEN facts ELSE [facts EXCEPT !.status = "none"]])
  /\ UNCHANGED <<session, hinted, server, page, card, keys, troubles>>

ServeQuote(c) ==
  /\ c.kind = "quote" /\ c.stage = "sent"
  /\ Replace(c, [c EXCEPT !.stage = "served"])
  /\ UNCHANGED <<session, hinted, server, page, card, keys, troubles>>

VersionMatches(c) == c.body.version = facts.version

\* A key that was used answers as before; other facts, a lapsed offer or quote are conflicts.
ServeAccept(c) ==
  /\ c.kind = "accept" /\ c.stage = "sent"
  /\ IF c.user # Owner THEN Replace(c, [c EXCEPT !.stage = "failed"]) /\ UNCHANGED <<server, troubles>>
     ELSE IF c.body.key \in claims
     THEN Replace(c, [c EXCEPT !.stage = "served"]) /\ UNCHANGED <<server, troubles>>
     ELSE \/ /\ VersionMatches(c) /\ facts.status = "offered"
             /\ facts' = [version |-> facts.version + 1, status |-> "confirmed"]
             /\ accepted' = accepted \cup {[version |-> facts.version, shown |-> c.body.shown]}
             /\ claims' = claims \cup {c.body.key}
             /\ Replace(c, [c EXCEPT !.stage = "served"])
             /\ UNCHANGED troubles
          \/ /\ IF VersionMatches(c) /\ facts.status = "offered" THEN Trouble ELSE UNCHANGED troubles
             /\ Replace(c, [c EXCEPT !.stage = "served"])
             /\ UNCHANGED server
  /\ UNCHANGED <<session, hinted, page, card, keys>>

\* The event is edited, or the offer lapses.
FactsChange ==
  /\ Trouble /\ facts.status = "offered"
  /\ \E status \in {"offered", "lapsed"} : facts' = [version |-> facts.version + 1, status |-> status]
  /\ UNCHANGED <<session, hinted, accepted, claims, page, card, calls, keys>>

Lost(c) ==
  /\ Trouble /\ c.stage # "failed"
  /\ Replace(c, [c EXCEPT !.stage = "failed"])
  /\ UNCHANGED <<session, hinted, server, page, card, keys>>

SessionChanges ==
  /\ Trouble
  /\ session' = [user |-> IF session.user = Owner THEN Other ELSE Owner, number |-> session.number + 1]
  /\ UNCHANGED <<hinted, server, page, card, calls, keys>>

Next ==
  \/ HeaderRefresh \/ SyncHint \/ Notice \/ ReviewOffer \/ CloseReview \/ ConfirmOffer \/ RetryRefresh
  \/ FactsChange \/ SessionChanges
  \/ \E c \in calls : \/ LoadEnds(c) \/ QuoteEnds(c) \/ AcceptanceEnds(c)
                      \/ ServeLoad(c) \/ ServeQuote(c) \/ ServeAccept(c) \/ Lost(c)

Spec == Init /\ [][Next]_vars

-----------------------------------------------------------------------------
(* Properties *)

\* However many loads overlap, what an account sees of its registrations never goes back.
ShownMovesForward ==
  page'.shown # Nothing /\ page'.owner = page.owner => page'.shown.version >= page.shown.version

ItineraryMovesForward == [][ShownMovesForward]_vars

\* An offer is accepted as the dialog showed it, even when the list behind it moved on, and only
\* once, whatever was sent again.
AcceptedAsReviewed ==
  Cardinality(accepted) <= 1 /\ \A r \in accepted : r.version = r.shown

=============================================================================
