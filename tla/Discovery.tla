------------------------------ MODULE Discovery ------------------------------
(***************************************************************************)
(* Finding events. The search answers page after page behind a cursor      *)
(* while events, seats and promotions change; the list of the browser      *)
(* takes the answers of its latest request only. The home feed sorts one   *)
(* pool of candidates into modules and keeps a share of them organic. A    *)
(* query and a module of the feed are both a condition an event may meet.  *)
(* A behaviour is about the list or the feed. MaxChanges bounds the        *)
(* changes of events, MaxAsked the requests, MaxFaults those that fail.    *)
(***************************************************************************)
EXTENDS Integers, Sequences, FiniteSets, FiniteSetsExt, SequencesExt

CONSTANTS Events, Queries, Sorts, Ranks, Limit, PoolSize, MinNatural, MaxChanges, MaxAsked, MaxFaults

VARIABLES
  scope,        \* what a behaviour is about: the "list" or the "feed"
  sort,         \* the sort of the search
  rows,         \* the events: rank of the sort (a time in half milliseconds), what they meet
  touched,      \* when an event last changed, counted in changes
  query,        \* the filters in the address of the page
  list,         \* the results shown
  latest,       \* the number of the latest request
  inflight,     \* requests and answers on their way
  loadingMore,  \* whether the button for more is disabled
  faults,
  feed          \* the modules of the home feed, by what an event of a module meets

vars == <<scope, sort, rows, touched, query, list, latest, inflight, loadingMore, faults, feed>>

None == [id |-> 0]
NothingShown ==
  [items |-> <<>>, answers |-> <<>>, next |-> None, more |-> FALSE, since |-> 0, error |-> FALSE]

Init ==
  /\ scope \in {"list", "feed"}
  /\ sort \in Sorts /\ (scope = "feed" => sort = CHOOSE any \in Sorts : TRUE)
  /\ \E rank \in [Events -> Ranks], boosted \in SUBSET Events :
       /\ scope = "list" => boosted = {}
       /\ rows = [e \in Events |->
                    [rank |-> rank[e], meets |-> Queries, promoted |-> e \in boosted, limited |-> FALSE]]
  /\ touched = [e \in Events |-> 0]
  /\ query = (CHOOSE q \in Queries : TRUE) /\ list = NothingShown
  /\ latest = 0 /\ inflight = {} /\ loadingMore = FALSE /\ faults = 0
  /\ feed = [m \in Queries |-> <<>>]

Now == Max({touched[e] : e \in Events})

-----------------------------------------------------------------------------
(* The search *)

Descending == sort \in {"newest", "almost_full", "recommended"}

\* By the sort's rank, then by identifier.
Before(a, b) ==
  IF rows[a].rank = rows[b].rank THEN a < b
  ELSE IF Descending THEN rows[a].rank > rows[b].rank ELSE rows[a].rank < rows[b].rank

\* A cursor names the last row of a page. A creation time loses what is below the millisecond.
CursorOf(e) ==
  [id |-> e, rank |-> IF sort = "newest" THEN 2 * (rows[e].rank \div 2) ELSE rows[e].rank]

\* The keyset condition of the next page.
After(e, c) ==
  \/ c = None
  \/ IF Descending THEN rows[e].rank < c.rank ELSE rows[e].rank > c.rank
  \/ rows[e].rank = c.rank /\ e > c.id

\* A set as a sequence: how many come before an element tells its place.
InOrder(S, before(_, _)) ==
  [k \in 1..Cardinality(S) |-> CHOOSE e \in S : Cardinality({d \in S : before(d, e)}) = k - 1]

\* The entries of a sequence at some of its places.
At(s, places) == [k \in 1..Cardinality(places) |-> s[InOrder(places, LAMBDA i, j : i < j)[k]]]

Ordered(S) == InOrder(S, Before)

Found(q, c) == Ordered({e \in Events : q \in rows[e].meets /\ After(e, c)})

Some(s, n) == SubSeq(s, 1, IF Len(s) < n THEN Len(s) ELSE n)

Promoted(e) == rows[e].promoted
Natural(e) == ~rows[e].promoted

\* Promoted events move to the top of a first page, up to a share of it; the rest of them
\* follow the natural results.
RankByPromotion(page) ==
  LET promoted == At(page, {i \in DOMAIN page : Promoted(page[i])})
      natural == At(page, {i \in DOMAIN page : Natural(page[i])})
      cap == (Len(page) * (100 - MinNatural)) \div 100
      top == Some(promoted, cap)
  IN IF cap = 0 THEN page ELSE top \o natural \o SubSeq(promoted, Len(top) + 1, Len(promoted))

AnswerByWhatIsShown(q, c) ==
  LET found == Found(q, c)
      page == Some(found, Limit)
      shown == IF c = None THEN RankByPromotion(page) ELSE page
  IN [items |-> shown, more |-> Len(found) > Limit,
      next |-> IF Len(found) > Limit THEN CursorOf(shown[Limit]) ELSE None,
      at |-> Now]

\* The cursor is that of the last row in the order of the query, whatever is shown last.
Answer(q, c) ==
  LET found == Found(q, c)
      page == Some(found, Limit)
  IN [items |-> IF c = None THEN RankByPromotion(page) ELSE page,
      more |-> Len(found) > Limit,
      next |-> IF Len(found) > Limit THEN CursorOf(page[Limit]) ELSE None,
      at |-> Now]

-----------------------------------------------------------------------------
(* The list of the browser *)

\* Every load aborts the one before it; its answer may still arrive.
Load(q, append, cursor) ==
  /\ latest < MaxAsked
  /\ latest' = latest + 1
  /\ inflight' = inflight \cup
       {[number |-> latest + 1, query |-> q, append |-> append, cursor |-> cursor, answer |-> <<>>]}
  /\ loadingMore' = (loadingMore \/ append)
  /\ list' = [list EXCEPT !.error = FALSE]

\* A filter is changed, the address goes back, or the same query is asked again.
CommitQuery(q) ==
  /\ scope = "list"
  /\ query' = q /\ Load(q, FALSE, None)
  /\ UNCHANGED <<scope, sort, rows, touched, faults, feed>>

LoadMore ==
  /\ list.more /\ ~loadingMore
  /\ Load(query, TRUE, list.next)
  /\ UNCHANGED <<scope, sort, rows, touched, query, faults, feed>>

Serve(r) ==
  /\ r.answer = <<>>
  /\ inflight' = (inflight \ {r}) \cup {[r EXCEPT !.answer = <<Answer(r.query, r.cursor)>>]}
  /\ UNCHANGED <<scope, sort, rows, touched, query, list, latest, loadingMore, faults, feed>>

Current(r) == r.number = latest

Show(r) ==
  LET a == r.answer[1]
      appended == r.append /\ list.answers # <<>>
  IN [more |-> a.more, next |-> a.next, error |-> FALSE,
      items |-> IF appended THEN list.items \o a.items ELSE a.items,
      answers |-> IF appended THEN Append(list.answers, r.query) ELSE <<r.query>>,
      since |-> IF appended THEN list.since ELSE a.at]

\* The answer to a request that is no longer the latest is dropped.
Arrive(r) ==
  /\ r.answer # <<>>
  /\ inflight' = inflight \ {r}
  /\ IF Current(r)
     THEN list' = Show(r) /\ loadingMore' = FALSE
     ELSE UNCHANGED <<list, loadingMore>>
  /\ UNCHANGED <<scope, sort, rows, touched, query, latest, faults, feed>>

\* What was shown stays.
RequestFails(r) ==
  /\ faults < MaxFaults /\ faults' = faults + 1
  /\ inflight' = inflight \ {r}
  /\ IF Current(r)
     THEN list' = [list EXCEPT !.error = TRUE] /\ loadingMore' = FALSE
     ELSE UNCHANGED <<list, loadingMore>>
  /\ UNCHANGED <<scope, sort, rows, touched, query, latest, feed>>

-----------------------------------------------------------------------------
(* The home feed *)

\* Events of limited hosts are left out before anything is scored, then the earliest are taken.
Pool ==
  LET eligible == InOrder({e \in Events : ~rows[e].limited}, LAMBDA a, b : a < b)
  IN ToSet(Some(eligible, PoolSize))

\* The boosted entries of a module that keep to the share, in order.
WithinShare(members, boosts) ==
  {i \in DOMAIN members :
     Natural(members[i]) \/ Cardinality({j \in 1..i : Promoted(members[j])}) <= boosts}

\* ceil(size * share) slots stay organic.
MaxBoosted(size) == size - (size * MinNatural + 99) \div 100

\* Boosted entries beyond the share fill the slots that no organic one wants.
ApplyOrganicFloor(members, size) ==
  LET kept == WithinShare(members, MaxBoosted(size))
  IN Some(At(members, kept) \o At(members, DOMAIN members \ kept), size)

ByScore(S) ==
  InOrder(S, LAMBDA a, b : rows[a].rank > rows[b].rank \/ (rows[a].rank = rows[b].rank /\ a < b))

InModule(m) == ByScore({e \in Pool : m \in rows[e].meets})

AssembleFeed ==
  /\ scope = "feed"
  /\ feed' = [m \in Queries |-> ApplyOrganicFloor(InModule(m), Limit)]
  /\ feed' # feed
  /\ UNCHANGED <<scope, sort, rows, touched, query, list, latest, inflight, loadingMore, faults>>

-----------------------------------------------------------------------------
(* Events change *)

Touch(e, row) ==
  /\ Now < MaxChanges
  /\ row # rows[e]
  /\ rows' = [rows EXCEPT ![e] = row]
  /\ touched' = [touched EXCEPT ![e] = Now + 1]
  /\ feed' = [m \in Queries |-> <<>>]
  /\ UNCHANGED <<scope, sort, query, list, latest, inflight, loadingMore, faults>>

\* A host reschedules, seats are taken or given back, a host completes an event: the rank moves.
\* A creation time does not.
RankMoves(e) ==
  sort # "newest" /\ \E rank \in Ranks : Touch(e, [rows[e] EXCEPT !.rank = rank])

Edited(e) ==
  \E q \in Queries : Touch(e, [rows[e] EXCEPT !.meets = IF q \in @ THEN @ \ {q} ELSE @ \cup {q}])

PromotionChanges(e) == Touch(e, [rows[e] EXCEPT !.promoted = ~@])

HostLimited(e) == scope = "feed" /\ Touch(e, [rows[e] EXCEPT !.limited = TRUE])

Next ==
  \/ \E q \in Queries : CommitQuery(q)
  \/ LoadMore
  \/ \E r \in inflight : Serve(r) \/ Arrive(r) \/ RequestFails(r)
  \/ AssembleFeed
  \/ \E e \in Events : RankMoves(e) \/ Edited(e) \/ PromotionChanges(e) \/ HostLimited(e)

Spec == Init /\ [][Next]_vars

-----------------------------------------------------------------------------
(* Properties *)

Times(e) == Cardinality({i \in DOMAIN list.items : list.items[i] = e})

\* All pages of the list answer one query.
OneQuery == Cardinality(ToSet(list.answers)) = 1

Untouched(e) == touched[e] <= list.since

\* Whatever happens to the other events between the pages of a walk, an event that stays as it
\* is appears at most once, only where it belongs, and when the walk is over it did appear. A
\* sort by creation time may skip events of the same millisecond as the last of a page.
WalkShowsEveryEventOnce ==
  OneQuery => \A e \in Events : Untouched(e) =>
    LET belongs == Last(list.answers) \in rows[e].meets IN
    /\ Times(e) <= IF belongs THEN 1 ELSE 0
    /\ (~list.more /\ sort # "newest" /\ belongs) => Times(e) = 1

\* When nothing is under way and nothing failed, the last page shown answers the filters in the
\* address, whatever arrived late.
ListAnswersTheAddress ==
  (inflight = {} /\ ~list.error /\ latest > 0) => Last(list.answers) = query

\* An organic event gives way to a promoted one only where promoted ones keep to their share,
\* and no limited host is shown.
FeedStaysOrganic ==
  \A m \in Queries :
    LET shown == ToSet(feed[m]) IN
    /\ \A e \in shown : ~rows[e].limited /\ m \in rows[e].meets
    /\ 100 * Cardinality({e \in shown : Promoted(e)}) > (100 - MinNatural) * Limit =>
         \A e \in ToSet(InModule(m)) : Natural(e) => e \in shown

FoundWell == WalkShowsEveryEventOnce /\ ListAnswersTheAddress /\ FeedStaysOrganic

=============================================================================
