----------------------------- MODULE RegisterPage -----------------------------
(***************************************************************************)
(* The registration page of the web client: a gate that restores a draft   *)
(* from the tab's storage, a form, a review with a quote, and a submission *)
(* that may be lost, refused for a conflict and sent again with the same   *)
(* key, while the host edits the event, the price of a registration moves  *)
(* and another tab signs in as somebody else. Every await is a call of its *)
(* own that carries what its closure captured. MaxTroubles bounds what     *)
(* disturbs a registration (edits, other prices and accounts, expired      *)
(* quotes, lost calls, reloads, restarts), MaxQuotes the quotes.           *)
(***************************************************************************)
EXTENDS Integers, Sequences, FiniteSets

CONSTANTS Accounts, Prices, MaxQuotes, MaxTroubles

VARIABLES
  session,  \* whose session the browser's storage holds, and how many there were
  event,    \* the event on the server: version, and the fee the host collects
  price,    \* points a registration costs
  quotes,   \* the quotes given out
  booked,   \* registrations, with what their owner was shown when sending them
  claims,   \* keys of completed registration requests
  page,
  drafts,   \* drafts in the tab's storage, by the version of the event
  calls,    \* calls of the page in flight
  keys,     \* keys drawn so far
  troubles

vars == <<session, event, price, quotes, booked, claims, page, drafts, calls, keys, troubles>>

Nobody == "nobody"
Fees == {0, 1}
Versions == 1..(MaxTroubles + 1)
NoDraft == [owner |-> Nobody, key |-> 0]

\* What the page keeps of a form.
Blank(fee) == [writer |-> Nobody, accepted |-> fee = 0, step |-> "details"]

\* A page as it is before its gate: everything of an owner is forgotten.
Fresh(ssr, noticed, generation) ==
  [phase |-> "start", ssr |-> ssr, live |-> ssr, owner |-> Nobody, noticed |-> noticed,
   generation |-> generation, form |-> Blank(ssr.fee), key |-> 0, quote |-> 0, loading |-> FALSE,
   busy |-> FALSE, result |-> Nobody, changed |-> FALSE, reconfirmed |-> FALSE,
   versions |-> {ssr.version}]

Seen(user) ==
  [version |-> event.version, fee |-> event.fee, mine |-> \E r \in booked : r.owner = user]

Init ==
  /\ session = [user |-> CHOOSE user \in Accounts : TRUE, number |-> 1]
  /\ \E fee \in Fees : event = [version |-> 1, fee |-> fee]
  /\ price \in Prices /\ quotes = <<>> /\ booked = {} /\ claims = {}
  /\ page = Fresh([version |-> 1, fee |-> event.fee, mine |-> FALSE], 1, 0)
  /\ drafts = [v \in Versions |-> NoDraft]
  /\ calls = {} /\ keys = 0 /\ troubles = 0

server == <<event, price, quotes, booked, claims>>

Trouble == troubles < MaxTroubles /\ troubles' = troubles + 1

-----------------------------------------------------------------------------
(* The page *)

DraftOf(p) == [owner |-> p.owner, key |-> p.key, form |-> p.form]

\* The page as it is after a step; an effect saves its draft while there is no result.
Render(p) ==
  /\ page' = p
  /\ drafts' = IF p.phase = "ready" /\ p.result = Nobody
               THEN [drafts EXCEPT ![p.live.version] = DraftOf(p)] ELSE drafts

\* A call of the page, with the operation it belongs to.
Call(kind, why, body) ==
  [kind |-> kind, why |-> why, body |-> body, user |-> session.user, number |-> session.number,
   generation |-> page.generation, stage |-> "sent", answer |-> <<>>]

Send(kind, why, body) ==
  /\ kind = "quote" =>
       Len(quotes) + Cardinality({c \in calls : c.kind = "quote" /\ c.stage = "sent"}) < MaxQuotes
  /\ calls' = calls \cup {Call(kind, why, body)}

OperationCurrent(c) ==
  c.generation = page.generation /\ page.owner = c.user /\ session.user = c.user

\* The page hears of another session, by an event or when an operation begins.
Notice ==
  /\ page.phase # "left" /\ page.noticed # session.number
  /\ page' = IF page.owner = session.user THEN [page EXCEPT !.noticed = session.number]
             ELSE Fresh(page.ssr, session.number, page.generation + 1)
  /\ UNCHANGED <<session, server, drafts, calls, keys, troubles>>

\* A draft of somebody else is removed, one written before signing in is taken over.
LoadDraft(version) ==
  IF drafts[version].owner \in {session.user, "guest"} THEN drafts[version] ELSE NoDraft

\* The draft is restored, or a key drawn, and saved before the gate sends a guest to sign in.
Gate ==
  LET stored == LoadDraft(page.ssr.version)
      restored == stored # NoDraft
      form == IF restored THEN stored.form ELSE Blank(page.ssr.fee)
      opened == [page EXCEPT !.phase = IF session.user = "guest" THEN "left" ELSE "gate",
                             !.owner = session.user, !.form = form,
                             !.key = IF restored THEN stored.key ELSE keys + 1]
  IN
  /\ page.phase = "start" /\ page.noticed = session.number
  /\ keys' = IF restored THEN keys ELSE keys + 1
  /\ page' = opened
  /\ drafts' = [drafts EXCEPT ![page.ssr.version] = DraftOf(opened)]
  /\ IF session.user = "guest" THEN calls' = calls ELSE Send("event", "gate", page.form)
  /\ UNCHANGED <<session, server, troubles>>

Showing == page.phase = "ready" /\ page.result = Nobody /\ ~page.live.mine
Operates == Showing /\ page.owner = session.user

\* Every change of the form drops the quote.
UpdateInput ==
  /\ Showing /\ page.form.step = "details"
  /\ \E form \in {[page.form EXCEPT !.accepted = ~@],
                  [page.form EXCEPT !.writer = page.owner]} :
       Render([page EXCEPT !.form = form, !.quote = 0, !.changed = FALSE, !.reconfirmed = FALSE])
  /\ UNCHANGED <<session, server, calls, keys, troubles>>

Valid(fee, form) == fee = 0 \/ form.accepted
Holds(quote) == quote # 0 /\ ~quotes[quote].expired

Review ==
  /\ Operates /\ page.form.step = "details" /\ Valid(page.live.fee, page.form)
  /\ LET p == [page EXCEPT !.form.step = "review"] IN
     IF Holds(page.quote) THEN Render(p) /\ calls' = calls
     ELSE Render([p EXCEPT !.loading = TRUE]) /\ Send("quote", "show", <<>>)
  /\ UNCHANGED <<session, server, keys, troubles>>

Back ==
  /\ Showing /\ page.form.step = "review" /\ ~page.busy
  /\ Render([page EXCEPT !.form.step = "details"])
  /\ UNCHANGED <<session, server, calls, keys, troubles>>

RetryQuote ==
  /\ Operates /\ page.form.step = "review" /\ page.quote = 0 /\ ~page.loading
  /\ Render([page EXCEPT !.loading = TRUE]) /\ Send("quote", "show", <<>>)
  /\ UNCHANGED <<session, server, keys, troubles>>

Reconfirm ==
  /\ Showing /\ page.form.step = "review" /\ page.changed
  /\ Render([page EXCEPT !.reconfirmed = ~@])
  /\ UNCHANGED <<session, server, calls, keys, troubles>>

\* What a submission sends, and what was on the screen when the button was pressed.
Submission(quote) ==
  [key |-> page.key, writer |-> page.form.writer, version |-> page.live.version, quote |-> quote,
   fee |-> page.live.fee, amount |-> quotes[page.quote].amount]

\* A quote about to expire is replaced first, and the submission goes on with the new one.
Submit ==
  /\ Operates /\ page.form.step = "review"
  /\ ~page.busy /\ ~page.loading /\ page.quote # 0
  /\ page.changed => page.reconfirmed
  /\ IF Holds(page.quote)
     THEN Render([page EXCEPT !.busy = TRUE]) /\ Send("register", "", Submission(page.quote))
     ELSE Render([page EXCEPT !.busy = TRUE, !.loading = TRUE])
          /\ Send("quote", "submit", Submission(page.quote))
  /\ UNCHANGED <<session, server, keys, troubles>>

WithoutDrafts(versions) == [v \in Versions |-> IF v \in versions THEN NoDraft ELSE drafts[v]]

\* A new logical registration: the form is emptied and another key drawn.
Restart ==
  /\ Showing /\ page.form.step = "review" /\ ~page.busy /\ Trouble
  /\ keys' = keys + 1
  /\ page' = [page EXCEPT !.form = Blank(page.live.fee), !.key = keys + 1, !.quote = 0,
                          !.changed = FALSE, !.reconfirmed = FALSE, !.versions = {page.live.version}]
  /\ drafts' = [WithoutDrafts(page.versions) EXCEPT ![page.live.version] = DraftOf(page')]
  /\ UNCHANGED <<session, server, calls>>

RetryGate ==
  /\ page.phase = "failed"
  /\ page' = [page EXCEPT !.phase = "start"]
  /\ UNCHANGED <<session, server, drafts, calls, keys, troubles>>

\* The tab comes back from signing in, or is reloaded: the server renders the event again.
Open ==
  /\ IF page.phase = "left" THEN session.user # "guest" /\ troubles' = troubles ELSE Trouble
  /\ page' = Fresh([version |-> event.version, fee |-> event.fee, mine |-> FALSE],
                   session.number, page.generation + 1)
  /\ calls' = {[c EXCEPT !.stage = "orphaned"] : c \in {d \in calls : d.kind = "register" /\ d.stage = "sent"}}
  /\ UNCHANGED <<session, server, drafts, keys>>

-----------------------------------------------------------------------------
(* The server *)

AnyVersion(c) == TRUE

VersionHolds(c) == c.body.version = event.version

Body(c) == [writer |-> c.body.writer, version |-> c.body.version, quote |-> c.body.quote]

Answered(c, answer) ==
  calls' = (calls \ {c}) \cup
    IF c.stage = "orphaned" THEN {} ELSE {[c EXCEPT !.stage = "served", !.answer = <<answer>>]}

ServeEvent(c) ==
  /\ c.kind = "event" /\ c.stage = "sent"
  /\ Answered(c, Seen(c.user))
  /\ UNCHANGED <<session, server, page, drafts, keys, troubles>>

ServeQuote(c) ==
  /\ c.kind = "quote" /\ c.stage = "sent"
  /\ quotes' = Append(quotes, [amount |-> price, expired |-> FALSE])
  /\ Answered(c, [quote |-> Len(quotes) + 1])
  /\ UNCHANGED <<session, event, price, booked, claims, page, drafts, keys, troubles>>

\* A key that was used answers as before, or refuses another body; a second registration of the
\* same account answers the first; a changed event and an expired quote are conflicts.
ServeRegister(c) ==
  LET used == {k \in claims : k.owner = c.user /\ k.key = c.body.key}
      again == \E k \in used : k.body = Body(c)
      existing == \E r \in booked : r.owner = c.user
      conflict == \/ used # {} /\ ~again
                  \/ used = {} /\ ~VersionHolds(c)
                  \/ used = {} /\ ~existing /\ quotes[c.body.quote].expired
  IN
  /\ c.kind = "register" /\ c.stage \in {"sent", "orphaned"}
  /\ Answered(c, [outcome |-> IF conflict THEN "conflict" ELSE "registered"])
  /\ claims' = IF conflict THEN claims
               ELSE claims \cup {[owner |-> c.user, key |-> c.body.key, body |-> Body(c)]}
  /\ booked' = IF conflict \/ used # {} \/ existing THEN booked
               ELSE booked \cup {[owner |-> c.user, writer |-> c.body.writer, fee |-> event.fee,
                                  shownFee |-> c.body.fee, amount |-> quotes[c.body.quote].amount,
                                  shownAmount |-> c.body.amount]}
  /\ UNCHANGED <<session, event, price, quotes, page, drafts, keys, troubles>>

\* The host edits a published event.
Edit ==
  /\ Trouble
  /\ \E fee \in Fees : event' = [version |-> event.version + 1, fee |-> fee]
  /\ UNCHANGED <<session, price, quotes, booked, claims, page, drafts, calls, keys>>

PriceChanges ==
  /\ Trouble /\ price' \in Prices /\ price' # price
  /\ UNCHANGED <<session, event, quotes, booked, claims, page, drafts, calls, keys>>

QuoteExpires(i) ==
  /\ Trouble /\ ~quotes[i].expired
  /\ quotes' = [quotes EXCEPT ![i].expired = TRUE]
  /\ UNCHANGED <<session, event, price, booked, claims, page, drafts, calls, keys>>

\* Another tab of the browser signs out or in.
SessionChanges ==
  /\ Trouble
  /\ \E user \in (Accounts \cup {"guest"}) \ {session.user} :
       session' = [user |-> user, number |-> session.number + 1]
  /\ UNCHANGED <<server, page, drafts, calls, keys>>

-----------------------------------------------------------------------------
(* Answers *)

\* An answer counts for the session that asked only.
Good(c) == c.stage = "served" /\ c.number = session.number
Bad(c) == c.stage = "failed" \/ (c.stage = "served" /\ c.number # session.number)

\* An answer is lost, before or after the server acted.
Lost(c) ==
  /\ c.stage \in {"sent", "served"} /\ Trouble
  /\ \/ calls' = (calls \ {c}) \cup {[c EXCEPT !.stage = "failed", !.answer = <<>>]}
     \/ /\ c.kind = "register" /\ c.stage = "sent"
        /\ calls' = (calls \ {c}) \cup {[c EXCEPT !.stage = "failed"], [c EXCEPT !.stage = "orphaned"]}
  /\ UNCHANGED <<session, server, page, drafts, keys>>

Ends(c) == calls' = calls \ {c}
Then(c, next) == calls' = (calls \ {c}) \cup {next}

\* The event as the viewer may see it opens the form; other terms take the acceptance back.
GateAnswers(c) ==
  LET live == c.answer[1]
      review == page.form.step = "review" /\ ~live.mine
      p == [page EXCEPT !.phase = "ready", !.live = live, !.versions = @ \cup {live.version},
                        !.form.accepted = IF live.fee # page.ssr.fee THEN live.fee = 0 ELSE @]
  IN
  /\ c.kind = "event" /\ c.why = "gate" /\ Good(c)
  /\ IF ~OperationCurrent(c) THEN UNCHANGED <<page, drafts>> /\ Ends(c)
     ELSE IF review
          THEN /\ Len(quotes) < MaxQuotes
               /\ Render([p EXCEPT !.loading = TRUE]) /\ Then(c, Call("quote", "show", <<>>))
          ELSE Render(p) /\ Ends(c)
  /\ UNCHANGED <<session, server, keys, troubles>>

GateFails(c) ==
  /\ c.kind = "event" /\ c.why = "gate" /\ Bad(c) /\ Ends(c)
  /\ page' = IF OperationCurrent(c) THEN [page EXCEPT !.phase = "failed"] ELSE page
  /\ UNCHANGED <<session, server, drafts, keys, troubles>>

QuoteAnswers(c) ==
  /\ c.kind = "quote" /\ Good(c)
  /\ IF ~OperationCurrent(c) THEN UNCHANGED <<page, drafts>> /\ Ends(c)
     ELSE /\ Render([page EXCEPT !.quote = c.answer[1].quote, !.loading = FALSE,
                                 !.busy = IF c.why = "conflict" THEN FALSE ELSE @])
          /\ IF c.why = "submit"
             THEN Then(c, Call("register", "", [c.body EXCEPT !.quote = c.answer[1].quote]))
             ELSE Ends(c)
  /\ UNCHANGED <<session, server, keys, troubles>>

QuoteFails(c) ==
  /\ c.kind = "quote" /\ Bad(c) /\ Ends(c)
  /\ IF OperationCurrent(c)
     THEN Render([page EXCEPT !.loading = FALSE, !.busy = IF c.why = "show" THEN @ ELSE FALSE])
     ELSE UNCHANGED <<page, drafts>>
  /\ UNCHANGED <<session, server, keys, troubles>>

\* The drafts of every version this registration was written under are cleared.
Registered(c) ==
  /\ c.kind = "register" /\ Good(c) /\ c.answer[1].outcome = "registered" /\ Ends(c)
  /\ IF OperationCurrent(c)
     THEN /\ page' = [page EXCEPT !.result = c.user, !.busy = FALSE]
          /\ drafts' = WithoutDrafts(page.versions)
     ELSE UNCHANGED <<page, drafts>>
  /\ UNCHANGED <<session, server, keys, troubles>>

\* A conflict reads the event again before anything else can be sent.
Conflict(c) ==
  /\ c.kind = "register" /\ Good(c) /\ c.answer[1].outcome = "conflict"
  /\ IF page.owner = session.user THEN Then(c, Call("event", "conflict", <<>>)) ELSE Ends(c)
  /\ UNCHANGED <<session, server, page, drafts, keys, troubles>>

SubmissionFails(c) ==
  /\ c.kind = "register" /\ Bad(c) /\ Ends(c)
  /\ IF OperationCurrent(c) THEN Render([page EXCEPT !.busy = FALSE]) ELSE UNCHANGED <<page, drafts>>
  /\ UNCHANGED <<session, server, keys, troubles>>

\* The form is kept, the changed event shown and a confirmation asked for; other fees lead back
\* to the form.
ConflictAnswers(c) ==
  LET live == c.answer[1]
      feeChanged == live.fee # page.live.fee
      accepted == IF feeChanged THEN live.fee = 0 ELSE page.form.accepted
      form == [page.form EXCEPT !.accepted = accepted]
      details == feeChanged \/ ~Valid(live.fee, form)
      p == [page EXCEPT !.live = live, !.versions = @ \cup {live.version}, !.quote = 0,
                        !.changed = TRUE, !.reconfirmed = FALSE, !.form = form]
  IN
  /\ c.kind = "event" /\ c.why = "conflict" /\ Good(c)
  /\ IF ~OperationCurrent(c) THEN UNCHANGED <<page, drafts>> /\ Ends(c)
     ELSE IF details THEN Render([p EXCEPT !.form.step = "details", !.busy = FALSE]) /\ Ends(c)
     ELSE /\ Len(quotes) < MaxQuotes
          /\ Render([p EXCEPT !.loading = TRUE]) /\ Then(c, Call("quote", "conflict", <<>>))
  /\ UNCHANGED <<session, server, keys, troubles>>

ConflictFails(c) ==
  /\ c.kind = "event" /\ c.why = "conflict" /\ Bad(c) /\ Ends(c)
  /\ IF OperationCurrent(c) THEN Render([page EXCEPT !.busy = FALSE]) ELSE UNCHANGED <<page, drafts>>
  /\ UNCHANGED <<session, server, keys, troubles>>

Next ==
  \/ Notice \/ Gate \/ UpdateInput \/ Review \/ Back \/ RetryQuote \/ Reconfirm \/ Submit
  \/ Restart \/ RetryGate \/ Open
  \/ Edit \/ PriceChanges \/ SessionChanges
  \/ \E i \in DOMAIN quotes : QuoteExpires(i)
  \/ \E c \in calls :
       \/ ServeEvent(c) \/ ServeQuote(c) \/ ServeRegister(c) \/ Lost(c)
       \/ GateAnswers(c) \/ GateFails(c) \/ QuoteAnswers(c) \/ QuoteFails(c)
       \/ Registered(c) \/ Conflict(c) \/ SubmissionFails(c)
       \/ ConflictAnswers(c) \/ ConflictFails(c)

Spec == Init /\ [][Next]_vars

-----------------------------------------------------------------------------
(* Properties *)

\* A registration stands under the fee its owner had on the screen when sending it, however the
\* event was edited and whatever was sent again.
FeeWasOnTheScreen == \A r \in booked : r.fee = r.shownFee

\* Once the page has noticed whose session it is, what it shows, restores and sends was written
\* by that account, and a result is that account's own; no registration carries the answers of
\* somebody else.
FormsStayPrivate ==
  /\ \A r \in booked : r.writer \in {Nobody, r.owner}
  /\ page.noticed = session.number /\ page.phase = "ready" =>
       /\ page.form.writer \in {Nobody, session.user}
       /\ page.result \in {Nobody, session.user}

RegisteredAsReviewed == FeeWasOnTheScreen /\ FormsStayPrivate

=============================================================================
