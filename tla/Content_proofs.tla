---------------------------- MODULE Content_proofs ----------------------------
(* Theorems about what an organiser puts before the public, composed in      *)
(* Content, for every value of its constants.                                *)
EXTENDS Content, FiniteSetTheorems, TLAPS

-----------------------------------------------------------------------------
(* Questions: an answer is an answer to what its guest had read *)

\* A page that is as old as the event shows the questions as they are; every save moves
\* the version away from it. A guest who registered has read what is asked now, as far
\* as the answer tells.
AskInv ==
  /\ version \in Nat
  /\ answers = [g \in Guests |-> answers[g]]
  /\ \A g \in Guests : /\ read[g].version \in Nat /\ read[g].version <= version
                       /\ read[g].version = version => read[g].questions = questions
  /\ read = [g \in Guests |-> read[g]]
  /\ AnswersStayTrue

LEMMA InitAsk == Asking!Init => AskInv
BY DEF Asking!Init, AskInv, AnswersStayTrue, Asking!AnswersStayTrue, Asking!Registered

\* A question is answered when a registered guest's answer to it is not "none".
LEMMA AnsweredIsCounted ==
  ASSUME NEW q \in QuestionIds, Asking!AnswerCount(q) = 0, NEW g \in Asking!Registered
  PROVE  answers[g][q] = "none"
<1> DEFINE S == {h \in Asking!Registered : answers[h][q] # "none"}
<1>1. IsFiniteSet(S)
  <2>1. S \in SUBSET Guests
    BY DEF Asking!Registered
  <2> QED
    BY <2>1, FS_Subset, ContentAssumption
<1>2. Asking!AnswerCount(q) = Cardinality(S)
  BY Zenon DEF Asking!AnswerCount, Asking!Cardinality, Cardinality
<1>3. S = {}
  <2> HIDE DEF S
  <2> QED
    BY <1>1, <1>2, FS_EmptySet
<1> QED
  BY <1>3

\* The list a device saves leaves every answered question its kind and its options.
LEMMA SaveQuestionsAsk ==
  ASSUME AskInv, NEW d \in Devices, NEW list, Asking!SaveQuestions(d, list)
  PROVE  AskInv'
<1>1. /\ version' = version + 1 /\ answers' = answers /\ read' = read /\ questions' = list
      /\ \A q \in Asking!Removed(list) \cup Asking!Reshaped(list) : Asking!AnswerCount(q) = 0
  BY DEF Asking!SaveQuestions, Asking!KeepsAnswers, Asking!AnswersAreKept
<1>2. AnswersStayTrue'
  <2> SUFFICES ASSUME NEW g \in Asking!Registered, NEW q \in QuestionIds,
                      ~Asking!Empty(answers[g][q])
               PROVE  /\ Asking!Fits(q, answers[g][q])'
                      /\ list[q].kind = read[g].questions[q].kind
                      /\ list[q].options = read[g].questions[q].options
    BY <1>1 DEF AnswersStayTrue, Asking!AnswersStayTrue, Asking!Registered, Asking!Empty,
                Asking!Fits
  <2>1. /\ Asking!Fits(q, answers[g][q])
        /\ questions[q].kind = read[g].questions[q].kind
        /\ questions[q].options = read[g].questions[q].options
    BY DEF AskInv, AnswersStayTrue, Asking!AnswersStayTrue
  <2>2. q \in Asking!Existing
    BY <2>1 DEF Asking!Fits, Asking!Existing, Asking!NoQuestion
  <2>3. answers[g][q] # "none"
    BY DEF Asking!Empty
  <2>4. q \notin Asking!Removed(list) \cup Asking!Reshaped(list)
    BY <1>1, <2>3, AnsweredIsCounted
  <2>5. list[q].kind = questions[q].kind /\ list[q].options = questions[q].options
    BY <2>2, <2>4 DEF Asking!Removed, Asking!Reshaped
  <2> QED
    BY <1>1, <2>1, <2>5 DEF Asking!Fits
<1> QED
  BY <1>1, <1>2 DEF AskInv

LEMMA RegisterAsk ==
  ASSUME AskInv, NEW g \in Guests, NEW form \in [QuestionIds -> Asking!Answers],
         Asking!Register(g, form)
  PROVE  AskInv'
<1>1. /\ read[g].version = version /\ Asking!Valid(form)
      /\ answers' = [answers EXCEPT ![g] = form]
      /\ version' = version /\ questions' = questions /\ read' = read
  BY DEF Asking!Register, Asking!Answering
<1>2. read[g].questions = questions
  BY <1>1 DEF AskInv
<1>3. answers'[g] = form /\ \A h \in Guests \ {g} : answers'[h] = answers[h]
  BY <1>1 DEF AskInv
<1>4. AnswersStayTrue'
  <2> SUFFICES ASSUME NEW h \in Asking!Registered', NEW q \in QuestionIds,
                      ~Asking!Empty(answers'[h][q])
               PROVE  /\ Asking!Fits(q, answers'[h][q])
                      /\ questions[q].kind = read[h].questions[q].kind
                      /\ questions[q].options = read[h].questions[q].options
    BY <1>1 DEF AnswersStayTrue, Asking!AnswersStayTrue, Asking!Empty, Asking!Fits
  <2>1. CASE h = g
    <3>1. form[q] # "none"
      BY <1>3, <2>1 DEF Asking!Empty
    <3> QED
      BY <1>1, <1>2, <1>3, <2>1, <3>1 DEF Asking!Valid
  <2>2. CASE h # g
    <3>1. h \in Asking!Registered /\ answers'[h] = answers[h]
      BY <1>3, <2>2 DEF Asking!Registered, Asking!NotRegistered
    <3> QED
      BY <3>1 DEF AskInv, AnswersStayTrue, Asking!AnswersStayTrue
  <2> QED
    BY <2>1, <2>2
<1> QED
  BY <1>1, <1>4 DEF AskInv

LEMMA AnswersKept ==
  ASSUME AnswersStayTrue, answers' = answers, questions' = questions,
         \A h \in Asking!Registered : read'[h] = read[h]
  PROVE  AnswersStayTrue'
<1>1. Asking!Registered' = Asking!Registered
  BY DEF Asking!Registered, Asking!NotRegistered
<1>2. \A q, a : Asking!Fits(q, a) => Asking!Fits(q, a)'
  BY DEF Asking!Fits
<1>3. ASSUME NEW h \in Asking!Registered, NEW q \in QuestionIds, ~Asking!Empty(answers[h][q])
      PROVE  /\ Asking!Fits(q, answers[h][q])'
             /\ questions[q].kind = read'[h].questions[q].kind
             /\ questions[q].options = read'[h].questions[q].options
  <2>1. /\ Asking!Fits(q, answers[h][q])
        /\ questions[q].kind = read[h].questions[q].kind
        /\ questions[q].options = read[h].questions[q].options
    BY <1>3 DEF AnswersStayTrue, Asking!AnswersStayTrue
  <2>2. Asking!Fits(q, answers[h][q])'
    BY <2>1 DEF Asking!Fits
  <2> QED
    BY <2>1, <2>2
<1> QED
  BY <1>1, <1>3 DEF AnswersStayTrue, Asking!AnswersStayTrue, Asking!Empty, Asking!Fits

LEMMA StepAsk == AskInv /\ Asking!Next => AskInv'
<1> SUFFICES ASSUME AskInv, Asking!Next PROVE AskInv'
  OBVIOUS
<1>1. ASSUME NEW d \in Devices, Asking!OpenEditor(d) \/ Asking!SaveElse(d)
      PROVE  AskInv'
  <2>1. /\ answers' = answers /\ questions' = questions /\ read' = read
        /\ version' = version \/ version' = version + 1
    BY <1>1 DEF Asking!OpenEditor, Asking!SaveElse
  <2>2. AnswersStayTrue'
    BY <2>1, AnswersKept DEF AskInv
  <2> QED
    BY <2>1, <2>2 DEF AskInv
<1>2. ASSUME NEW g \in Guests, Asking!ReadEvent(g)
      PROVE  AskInv'
  <2>1. /\ g \notin Asking!Registered /\ read' = [read EXCEPT ![g] = Asking!Loaded]
        /\ answers' = answers /\ questions' = questions /\ version' = version
    BY <1>2 DEF Asking!ReadEvent
  <2>2. \A h \in Guests : read'[h] = IF h = g THEN Asking!Loaded ELSE read[h]
    BY <2>1 DEF AskInv
  <2>3. AnswersStayTrue'
    <3>1. \A h \in Asking!Registered : read'[h] = read[h]
      BY <2>1, <2>2 DEF Asking!Registered
    <3> QED
      BY <2>1, <3>1, AnswersKept DEF AskInv
  <2>4. read' = [h \in Guests |-> read'[h]]
    BY <2>1 DEF AskInv
  <2>5. Asking!Loaded.version = version /\ Asking!Loaded.questions = questions
    BY DEF Asking!Loaded
  <2> HIDE DEF Asking!Loaded
  <2> QED
    BY <2>1, <2>2, <2>3, <2>4, <2>5 DEF AskInv
<1> QED
  BY <1>1, <1>2, SaveQuestionsAsk, RegisterAsk DEF Asking!Next

LEMMA AskAlways == Spec => []AskInv
<1>1. Init => AskInv
  BY InitAsk DEF Init
<1>2. AskInv /\ UNCHANGED askPart => AskInv'
  BY AnswersKept DEF askPart, AskInv
<1>3. AskInv /\ [Next]_contentVars => AskInv'
  BY <1>2, StepAsk DEF Next, contentVars, askPart
<1> QED
  BY <1>1, <1>3, PTL DEF Spec

\* Whatever the devices of the organiser save between a guest's reading and registering,
\* an answer is only ever shown under a question of the kind and the options its guest read.
THEOREM AnswersAlwaysTrue == Spec => []AnswersStayTrue
<1>1. AskInv => AnswersStayTrue
  BY DEF AskInv
<1> QED
  BY <1>1, AskAlways, PTL

-----------------------------------------------------------------------------
(* Tickets: what was paid for keeps its terms, and the limit holds *)

TierFields == [money : {"free", "paid"}, amount : Nat, terms : SUBSET Selling!Terms,
               quota : Nat, active : {"on", "off"}]

\* What is written of a tier: a paid one has a price and all its terms.
TierRow(row) ==
  /\ row \in TierFields
  /\ row.money = "paid" => row.amount > 0 /\ row.terms = Selling!Terms

Places == [seat : {"none", "held", "waiting", "gone"}, tier : Tiers \union {"none"}]

\* A buyer who reported a payment has a place, whose tier exists.
SellTables ==
  /\ tiers = [t \in Tiers |-> tiers[t]] /\ \A t \in Selling!Rows : TierRow(tiers[t])
  /\ place \in [Buyers -> Places]
  /\ \A b \in Buyers : place[b].tier \in Selling!Rows \union {"none"}
  /\ \A d \in Devices : creating[d] = Selling!Idle \/ TierRow(creating[d].row)
  /\ creating = [d \in Devices |-> creating[d]]
  /\ reported \subseteq {b \in Buyers : place[b].seat # "none"}

\* A device that has counted the tiers will not insert beyond the limit.
SellLimit ==
  /\ IsFiniteSet(Selling!Rows) /\ Cardinality(Selling!Rows) <= Limit
  /\ \A d \in Devices : creating[d] # Selling!Idle => creating[d].sort \in 1..Limit

SellInv == SellTables /\ SellLimit /\ Selling!PaymentsHaveTerms

LEMMA SameCardinality == \A S : Selling!Cardinality(S) = Cardinality(S)
BY Zenon DEF Selling!Cardinality, Cardinality

LEMMA InitSell == Selling!Init => SellInv
<1> SUFFICES ASSUME Selling!Init PROVE SellInv
  OBVIOUS
<1>1. Selling!Rows = {}
  BY DEF Selling!Init, Selling!Rows
<1>2. SellLimit
  BY <1>1, FS_EmptySet, ContentAssumption DEF Selling!Init, SellLimit
<1> QED
  BY <1>1, <1>2 DEF Selling!Init, SellInv, SellTables, Places, Selling!NoPlace,
                    Selling!PaymentsHaveTerms

\* Only free tiers lack terms, whatever a request gives.
LEMMA DisclosedRow ==
  ASSUME NEW row \in TierFields, Selling!Accepted(row)
  PROVE  TierRow(Selling!Disclosed(row))
<1>1. CASE row.money = "free"
  BY <1>1 DEF Selling!Disclosed, TierRow, TierFields
<1>2. CASE row.money = "paid"
  BY <1>2 DEF Selling!Accepted, Selling!Disclosed, TierRow, TierFields
<1> QED
  BY <1>1, <1>2 DEF TierFields

\* Steps that change no tier, place or report in what these theorems say of them.
LEMMA KeptSell ==
  ASSUME SellInv, UNCHANGED <<tiers, place, reported, creating>>
  PROVE  SellInv'
<1>1. tiers' = tiers /\ place' = place /\ reported' = reported /\ creating' = creating
  OBVIOUS
<1>2. Selling!Rows' = Selling!Rows
  BY <1>1 DEF Selling!Rows
<1>3. SellTables' /\ SellLimit'
  BY <1>1, <1>2 DEF SellInv, SellTables, SellLimit
<1>4. Selling!PaymentsHaveTerms'
  BY <1>1 DEF SellInv, Selling!PaymentsHaveTerms
<1> QED
  BY <1>3, <1>4 DEF SellInv

LEMMA CountTiersSell ==
  ASSUME SellInv, NEW d \in Devices, Selling!CountTiers(d)
  PROVE  SellInv'
<1>1. /\ Cardinality(Selling!Rows) < Limit
      /\ tiers' = tiers /\ place' = place /\ reported' = reported
  BY SameCardinality DEF Selling!CountTiers
<1>2. PICK input \in Selling!Inputs({"free", "paid"}, {"on"}) :
        /\ Selling!Accepted(input)
        /\ creating' = [creating EXCEPT ![d] =
             [sort |-> Cardinality(Selling!Rows) + 1, row |-> Selling!Disclosed(input)]]
  BY SameCardinality DEF Selling!CountTiers
<1>3. input \in TierFields
  BY ContentAssumption DEF Selling!Inputs, TierFields, Selling!Terms
<1>4. TierRow(Selling!Disclosed(input))
  BY <1>2, <1>3, DisclosedRow
<1>5. Cardinality(Selling!Rows) \in Nat
  BY FS_CardinalityType DEF SellInv, SellLimit
<1> DEFINE n == Cardinality(Selling!Rows)
           row == Selling!Disclosed(input)
<1>6. creating' = [creating EXCEPT ![d] = [sort |-> n + 1, row |-> row]] /\ TierRow(row)
  BY <1>2, <1>4
<1>7. n \in Nat /\ n < Limit /\ Selling!Rows' = Selling!Rows
  BY <1>1, <1>5 DEF Selling!Rows
<1> HIDE DEF n, row
<1>8. \A e \in Devices : creating'[e] = creating[e] \/ (creating'[e].sort = n + 1 /\ creating'[e].row = row)
  BY <1>6 DEF SellInv, SellTables
<1>9. SellTables'
  <2>1. creating' = [e \in Devices |-> creating'[e]]
    BY <1>6 DEF SellInv, SellTables
  <2> QED
    BY <1>1, <1>6, <1>7, <1>8, <2>1 DEF SellInv, SellTables
<1>10. SellLimit'
  BY <1>1, <1>7, <1>8, ContentAssumption DEF SellInv, SellLimit
<1>11. Selling!PaymentsHaveTerms'
  BY <1>1 DEF SellInv, Selling!PaymentsHaveTerms
<1> QED
  BY <1>9, <1>10, <1>11 DEF SellInv

LEMMA InsertTierSell ==
  ASSUME SellInv, NEW d \in Devices, Selling!InsertTier(d)
  PROVE  SellInv'
<1>1. /\ creating[d] # Selling!Idle /\ creating' = [creating EXCEPT ![d] = Selling!Idle]
      /\ place' = place /\ reported' = reported
  BY DEF Selling!InsertTier
<1>2. /\ creating' = [e \in Devices |-> creating'[e]]
      /\ \A e \in Devices : creating'[e] \in {creating[e], Selling!Idle}
  BY <1>1 DEF SellInv, SellTables
<1>3. CASE tiers' = tiers
  <2>1. Selling!Rows' = Selling!Rows
    BY <1>3 DEF Selling!Rows
  <2>2. SellTables' /\ SellLimit'
    BY <1>1, <1>2, <1>3, <2>1 DEF SellInv, SellTables, SellLimit
  <2> QED
    BY <1>1, <1>3, <2>2 DEF SellInv, Selling!PaymentsHaveTerms
<1>4. ASSUME NEW t \in Tiers \ Selling!Rows, Selling!SortIsFree(d),
             tiers' = [tiers EXCEPT ![t] = creating[d].row]
      PROVE  SellInv'
  <2>1. TierRow(creating[d].row) /\ creating[d].sort \in 1..Limit
    BY <1>1 DEF SellInv, SellTables, SellLimit
  <2>2. creating[d].row # Selling!NoTier
    BY <2>1 DEF TierRow, TierFields, Selling!NoTier
  <2>3. /\ tiers' = [k \in Tiers |-> tiers'[k]] /\ tiers'[t] = creating[d].row
        /\ \A k \in Tiers \ {t} : tiers'[k] = tiers[k]
    BY <1>4 DEF SellInv, SellTables
  <2>4. Selling!Rows' = Selling!Rows \union {t}
    BY <2>2, <2>3 DEF Selling!Rows
  <2>5. SellLimit'
    <3>1. /\ IsFiniteSet(Selling!Rows \union {t})
          /\ Cardinality(Selling!Rows \union {t}) = Cardinality(Selling!Rows) + 1
      BY <1>4, FS_AddElement DEF SellInv, SellLimit
    <3>2. Cardinality(Selling!Rows) < creating[d].sort /\ Cardinality(Selling!Rows) \in Nat
      BY <1>4, SameCardinality, FS_CardinalityType DEF Selling!SortIsFree, SellInv, SellLimit
    <3>3. Cardinality(Selling!Rows) + 1 <= Limit
      BY <2>1, <3>2, ContentAssumption
    <3> QED
      BY <1>2, <2>4, <3>1, <3>3 DEF SellInv, SellLimit
  <2>6. SellTables'
    <3>1. \A k \in Selling!Rows' : TierRow(tiers'[k])
      BY <2>1, <2>3, <2>4 DEF SellInv, SellTables, Selling!Rows
    <3>2. \A b \in Buyers : place'[b].tier \in Selling!Rows' \union {"none"}
      BY <1>1, <2>4 DEF SellInv, SellTables
    <3>3. \A e \in Devices : creating'[e] = Selling!Idle \/ TierRow(creating'[e].row)
      BY <1>2 DEF SellInv, SellTables
    <3> QED
      BY <1>1, <1>2, <2>3, <3>1, <3>2, <3>3 DEF SellInv, SellTables
  <2>7. Selling!PaymentsHaveTerms'
    <3>1. ASSUME NEW b \in reported, place[b].tier # "none"
          PROVE  tiers'[place[b].tier] = tiers[place[b].tier]
      <4>1. place[b].tier \in Selling!Rows
        BY <3>1 DEF SellInv, SellTables
      <4> QED
        BY <1>4, <2>3, <4>1 DEF Selling!Rows
    <3> QED
      BY <1>1, <3>1 DEF SellInv, Selling!PaymentsHaveTerms
  <2> QED
    BY <2>5, <2>6, <2>7 DEF SellInv
<1> QED
  BY <1>3, <1>4 DEF Selling!InsertTier

LEMMA UpdateTierSell ==
  ASSUME SellInv, NEW t \in Tiers, Selling!UpdateTier(t)
  PROVE  SellInv'
<1>1. PICK input \in Selling!Inputs({"free", "paid", "keep"}, {"on", "off", "keep"}) :
        /\ Selling!Accepted(Selling!Merged(tiers[t], input))
        /\ tiers' = [tiers EXCEPT ![t] = Selling!Disclosed(Selling!Merged(tiers[t], input))]
  BY DEF Selling!UpdateTier, Selling!Patched
<1>2. /\ t \in Selling!Rows /\ TierRow(tiers[t])
      /\ place' = place /\ reported' = reported /\ creating' = creating
  BY DEF Selling!UpdateTier, SellInv, SellTables
<1> DEFINE old == tiers[t]
           row == Selling!Merged(old, input)
<1>3. /\ input.money \in {"free", "paid", "keep"} /\ input.amount \in Nat
      /\ input.terms \subseteq Selling!Terms /\ input.quota \in Nat
      /\ input.active \in {"on", "off", "keep"}
  BY ContentAssumption DEF Selling!Inputs, Selling!Terms
<1>4. row \in TierFields
  BY <1>2, <1>3 DEF Selling!Merged, TierRow, TierFields
\* A request cannot take the price away, and a free tier has none.
<1>5. old.money = "paid" => Selling!Disclosed(row) = row /\ row.money = "paid"
  <2> SUFFICES ASSUME old.money = "paid" PROVE Selling!Disclosed(row) = row /\ row.money = "paid"
    OBVIOUS
  <2>1. row.amount > 0
    BY <1>2, <1>3 DEF Selling!Merged, TierRow, TierFields
  <2>2. row.money # "free"
    BY <1>1, <2>1 DEF Selling!Accepted
  <2> QED
    BY <1>4, <2>2 DEF Selling!Disclosed, TierFields
<1>6. TierRow(Selling!Disclosed(row))
  BY <1>1, <1>4, DisclosedRow
<1> DEFINE new == Selling!Disclosed(row)
<1>7. /\ tiers' = [tiers EXCEPT ![t] = new] /\ TierRow(new) /\ new # Selling!NoTier
      /\ old.money = "paid" => new.money = "paid"
  BY <1>1, <1>5, <1>6 DEF TierRow, TierFields, Selling!NoTier
<1> HIDE DEF new, row
<1>8. /\ tiers' = [k \in Tiers |-> tiers'[k]] /\ tiers'[t] = new
      /\ \A k \in Tiers \ {t} : tiers'[k] = tiers[k]
  BY <1>7 DEF SellInv, SellTables
<1>9. Selling!Rows' = Selling!Rows
  BY <1>2, <1>7, <1>8 DEF Selling!Rows
<1>10. SellTables' /\ SellLimit'
  BY <1>2, <1>7, <1>8, <1>9 DEF SellInv, SellTables, SellLimit
<1>11. Selling!PaymentsHaveTerms'
  <2> SUFFICES ASSUME NEW b \in reported, place[b].tier # "none"
               PROVE  /\ tiers'[place[b].tier].money = "paid" /\ tiers'[place[b].tier].amount > 0
                      /\ tiers'[place[b].tier].terms = Selling!Terms
    BY <1>2 DEF Selling!PaymentsHaveTerms
  <2>1. place[b].tier \in Selling!Rows
    BY DEF SellInv, SellTables
  <2>2. tiers[place[b].tier].money = "paid"
    BY DEF SellInv, Selling!PaymentsHaveTerms
  <2>3. tiers'[place[b].tier].money = "paid" /\ TierRow(tiers'[place[b].tier])
    BY <1>7, <1>8, <2>1, <2>2 DEF SellInv, SellTables, Selling!Rows
  <2> QED
    BY <2>3 DEF TierRow
<1> QED
  BY <1>10, <1>11 DEF SellInv

\* A buyer takes a place, moves on in it, or reports a payment.
LEMMA PlaceSell ==
  ASSUME SellInv, NEW b \in Buyers,
         Selling!Register(b) \/ Selling!TakeSeat(b) \/ Selling!GiveUp(b)
  PROVE  SellInv'
<1>1. tiers' = tiers /\ creating' = creating /\ reported' = reported
  BY DEF Selling!Register, Selling!TakeSeat, Selling!GiveUp
<1>2. PICK p \in Places : /\ place' = [place EXCEPT ![b] = p] /\ p.seat # "none"
                          /\ p.tier \in Selling!Rows \union {"none"}
                          /\ b \in reported => p.tier = place[b].tier
  <2>1. place[b] \in Places /\ place[b].tier \in Selling!Rows \union {"none"}
    BY DEF SellInv, SellTables
  <2>2. ASSUME NEW seat \in {"held", "waiting"}, NEW t \in Tiers, Selling!SelectTicket(t),
               place[b] = Selling!NoPlace, place' = [place EXCEPT ![b] = [seat |-> seat, tier |-> t]]
        PROVE  \E p \in Places : /\ place' = [place EXCEPT ![b] = p] /\ p.seat # "none"
                                 /\ p.tier \in Selling!Rows \union {"none"}
                                 /\ b \in reported => p.tier = place[b].tier
    <3>1. b \notin reported
      BY <2>2 DEF Selling!NoPlace, SellInv, SellTables
    <3>2. t \in Selling!Rows
      BY <2>2 DEF Selling!SelectTicket, Selling!Active
    <3>3. [seat |-> seat, tier |-> t] \in Places
      BY DEF Places
    <3> QED
      BY <2>2, <3>1, <3>2, <3>3
  <2>3. ASSUME NEW seat \in {"held", "waiting", "gone"}, place' = [place EXCEPT ![b].seat = seat]
        PROVE  \E p \in Places : /\ place' = [place EXCEPT ![b] = p] /\ p.seat # "none"
                                 /\ p.tier \in Selling!Rows \union {"none"}
                                 /\ b \in reported => p.tier = place[b].tier
    <3> DEFINE q == [place[b] EXCEPT !.seat = seat]
    <3>1. q \in Places /\ q.seat = seat /\ q.tier = place[b].tier
      BY <2>1 DEF Places
    <3>2. place' = [place EXCEPT ![b] = q]
      BY <2>3
    <3> HIDE DEF q
    <3> QED
      BY <2>1, <3>1, <3>2
  <2> QED
    BY <2>2, <2>3 DEF Selling!Register, Selling!TakeSeat, Selling!GiveUp
<1>3. /\ place' \in [Buyers -> Places] /\ place'[b] = p
      /\ \A c \in Buyers \ {b} : place'[c] = place[c]
  BY <1>2 DEF SellInv, SellTables
<1>4. Selling!Rows' = Selling!Rows
  BY <1>1 DEF Selling!Rows
<1>5. SellTables' /\ SellLimit'
  BY <1>1, <1>2, <1>3, <1>4 DEF SellInv, SellTables, SellLimit
<1>6. Selling!PaymentsHaveTerms'
  BY <1>1, <1>2, <1>3 DEF SellInv, SellTables, Selling!PaymentsHaveTerms
<1> QED
  BY <1>5, <1>6 DEF SellInv

\* A payment is reported only for what has a price, and then for its terms.
LEMMA ReportPaymentSell ==
  ASSUME SellInv, NEW b \in Buyers, Selling!ReportPayment(b)
  PROVE  SellInv'
<1>1. /\ tiers' = tiers /\ place' = place /\ creating' = creating
      /\ reported' = reported \union {b} /\ place[b].seat = "held"
      /\ place[b].tier # "none" => tiers[place[b].tier].money = "paid"
  BY DEF Selling!ReportPayment, Selling!Owes
<1>2. Selling!Rows' = Selling!Rows
  BY <1>1 DEF Selling!Rows
<1>3. SellTables' /\ SellLimit'
  BY <1>1, <1>2 DEF SellInv, SellTables, SellLimit
<1>4. place[b].tier # "none" =>
        /\ tiers[place[b].tier].amount > 0
        /\ tiers[place[b].tier].terms = Selling!Terms
  BY <1>1 DEF SellInv, SellTables, TierRow
<1>5. Selling!PaymentsHaveTerms'
  BY <1>1, <1>4 DEF SellInv, Selling!PaymentsHaveTerms
<1> QED
  BY <1>3, <1>5 DEF SellInv

LEMMA StepSell == SellInv /\ Selling!Next => SellInv'
<1>1. ASSUME SellInv, Selling!ChangeFee \/ \E b \in Buyers : Selling!ConfirmPayment(b)
      PROVE  SellInv'
  BY <1>1, KeptSell DEF Selling!ChangeFee, Selling!ConfirmPayment
<1> QED
  BY <1>1, CountTiersSell, InsertTierSell, UpdateTierSell, PlaceSell, ReportPaymentSell
     DEF Selling!Next

\* A buyer of a tier who reported a payment still finds the price and the terms it was made
\* under, whatever is edited; devices that count the tiers at once never exceed the limit.
THEOREM TiersAlwaysKeepTerms == Spec => []TiersKeepTheirTerms
<1>1. Init => SellInv
  BY InitSell DEF Init
<1>2. SellInv /\ [Next]_contentVars => SellInv'
  BY StepSell, KeptSell DEF Next, contentVars, sellPart
<1>3. SellInv => TiersKeepTheirTerms
  BY SameCardinality DEF SellInv, SellLimit, TiersKeepTheirTerms, Selling!LimitHolds
<1> QED
  BY <1>1, <1>2, <1>3, PTL DEF Spec

-----------------------------------------------------------------------------
(* Publishing: the tables of one event *)

AnyText == Texts \union {Publishing!NoText}
AnyFlags == SUBSET (Publishing!Types \union {"none"})
EventRows ==
  [status : Publishing!Statuses, ver : Nat, text : AnyText, flags : AnyFlags,
   details : BOOLEAN, covers : Nat]
CaseRows ==
  [status : {"none", "open", "claimed", "decided", "appealed"}, target : {"none", "event", "user"},
   assignee : Reviewers \union {"none"}]

\* An event exists once it has a version; what refers to it, a case or an upload of the
\* composer, needs it to exist. No page is newer than the event.
EventTables ==
  /\ event \in EventRows /\ (event.status = "none" <=> event.ver = 0)
  /\ holds \in [1..MaxVersion -> Publishing!HoldStates]
  /\ page = [r \in Reviewers |-> page[r]]
  /\ \A r \in Reviewers : page[r].ver \in Nat /\ page[r].ver <= event.ver
  /\ cases \in [Cases -> CaseRows]
  /\ \A c \in Cases : cases[c].status # "none" => event.status # "none"
  /\ "at" \in DOMAIN composer /\ (composer.at = "upload" => event.status # "none")

\* What a step may do to the row of the event: it is created, its content is edited, it
\* gets newer with its content as it was, and it may change its status then.
Drafted == event.status = "none" /\ event'.status = "draft" /\ event'.ver = 1

Edited ==
  \E text \in Texts, f \in SUBSET Publishing!Types :
    /\ event.status \in Publishing!Editable
    /\ Publishing!EditAllowed(Publishing!Route(text, f))
    /\ event'.status = event.status /\ event'.ver = event.ver + 2 /\ event'.text = text
    /\ cleared' = IF Publishing!Route(text, f) = "auto_approve" /\ event.status = "published"
                  THEN text ELSE cleared

Touched == /\ event.status # "none" /\ cleared' = cleared
           /\ event'.status = event.status /\ event'.text = event.text
           /\ event'.ver = event.ver + 1

Moved == /\ event.status # "none" /\ event'.status # "none"
         /\ event'.text = event.text /\ event'.ver = event.ver + 1

EventEffect ==
  \/ event' = event /\ cleared' = cleared
  \/ event' \in EventRows /\ (Drafted \/ Edited \/ Touched \/ Moved)

LEMMA CreateDraftEvent ==
  ASSUME EventTables, NEW text \in Texts, NEW f \in SUBSET Publishing!Types,
         Publishing!CreateDraft(text, f)
  PROVE  event' \in EventRows /\ Drafted
<1>1. /\ event.status = "none"
      /\ event' = [event EXCEPT !.status = "draft", !.ver = 1, !.text = text,
                                !.flags = f, !.details = (f # {})]
  BY DEF Publishing!CreateDraft
<1>2. "draft" \in Publishing!Statuses /\ (f # {}) \in BOOLEAN /\ text \in AnyText /\ f \in AnyFlags
  BY DEF Publishing!Statuses, AnyText, AnyFlags
<1> QED
  BY <1>1, <1>2 DEF EventTables, EventRows, Drafted

LEMMA SaveContentEvent ==
  ASSUME EventTables, NEW base, NEW text \in Texts, NEW f \in SUBSET Publishing!Types,
         Publishing!SaveContent(base, text, f)
  PROVE  event' \in EventRows /\ Edited
<1> DEFINE flags == Publishing!Hits(text, f)
           details == f # {}
           n == event.ver + 2
<1>1. /\ event.status \in Publishing!Editable
      /\ Publishing!EditAllowed(Publishing!Route(text, f))
      /\ event' = [event EXCEPT !.ver = n, !.text = text, !.flags = flags,
                                !.details = details]
      /\ cleared' = IF Publishing!Route(text, f) = "auto_approve" /\ event.status = "published"
                    THEN text ELSE cleared
  BY DEF Publishing!SaveContent
<1>2. flags \in AnyFlags /\ text \in AnyText
  BY ContentAssumption DEF Publishing!Hits, Publishing!Types, AnyFlags, AnyText
<1>3. details \in BOOLEAN /\ event \in EventRows /\ n \in Nat
  BY DEF EventTables, EventRows
<1> HIDE DEF flags, details, n
<1>4. /\ event' \in EventRows /\ event'.status = event.status /\ event'.ver = n
      /\ event'.text = text
  BY <1>1, <1>2, <1>3 DEF EventRows
<1> QED
  BY <1>1, <1>4 DEF Edited, n

\* A status that is not "none" moves on, and the version with it.
LEMMA MovedEvent ==
  ASSUME EventTables, event.status # "none", NEW to \in Publishing!Statuses \ {"none"},
         event' = [event EXCEPT !.status = to, !.ver = event.ver + 1]
  PROVE  event' \in EventRows /\ Moved /\ event'.status = to
<1> DEFINE n == event.ver + 1
<1>1. event \in EventRows /\ n \in Nat /\ event' = [event EXCEPT !.status = to, !.ver = n]
  BY DEF EventTables, EventRows
<1> HIDE DEF n
<1>2. event' \in EventRows /\ event'.status = to /\ event'.ver = n /\ event'.text = event.text
  BY <1>1 DEF EventRows
<1> QED
  BY <1>2 DEF Moved, n

LEMMA SubmitEvent ==
  ASSUME EventTables, NEW base, Publishing!Submit(base)
  PROVE  /\ event' \in EventRows /\ Moved /\ event.status \in {"draft", "needs_changes"}
         /\ event'.status = IF Publishing!Route(event.text, event.flags) = "auto_approve"
                            THEN "published" ELSE "pending_review"
<1> DEFINE to == IF Publishing!Route(event.text, event.flags) = "auto_approve"
                 THEN "published" ELSE "pending_review"
           flags == Publishing!Hits(event.text, event.flags)
           n == event.ver + 1
<1>1. /\ event.status \in {"draft", "needs_changes"}
      /\ event' = [event EXCEPT !.ver = n, !.flags = flags, !.status = to]
  BY DEF Publishing!Submit, Publishing!CanTransition
<1>2. flags \in AnyFlags
  BY ContentAssumption
     DEF EventTables, EventRows, Publishing!NoText, Publishing!Hits, Publishing!Types,
         AnyText, AnyFlags
<1>3. to \in Publishing!Statuses \ {"none"} /\ event \in EventRows /\ n \in Nat
  BY DEF Publishing!Statuses, EventTables, EventRows
<1> HIDE DEF to, flags, n
<1>4. /\ event' \in EventRows /\ event'.status = to /\ event'.text = event.text /\ event'.ver = n
  BY <1>1, <1>2, <1>3 DEF EventRows
<1> QED
  BY <1>1, <1>3, <1>4 DEF Moved, to, n

LEMMA StepEvent == EventTables /\ Publishing!Next => EventEffect
<1> SUFFICES ASSUME EventTables, Publishing!Next PROVE EventEffect
  OBVIOUS
<1>1. ASSUME NEW text \in Texts, NEW f \in SUBSET Publishing!Types,
             Publishing!ComposerSaves(text, f) \/ Publishing!OtherDeviceSaves(text, f)
      PROVE  EventEffect
  BY <1>1, CreateDraftEvent, SaveContentEvent
     DEF Publishing!ComposerSaves, Publishing!OtherDeviceSaves, EventEffect
<1>2. CASE Publishing!SaveFacts \/ Publishing!ComposerUploads
  <2> DEFINE n == event.ver + 1
             c == event.covers + 1
  <2>1. /\ event.status # "none" /\ cleared' = cleared
        /\ event' = [event EXCEPT !.ver = n] \/ event' = [event EXCEPT !.ver = n, !.covers = c]
    BY <1>2 DEF Publishing!SaveFacts, Publishing!ComposerUploads, Publishing!Editable, EventTables
  <2>2. event \in EventRows /\ n \in Nat /\ c \in Nat
    BY DEF EventTables, EventRows
  <2> HIDE DEF n, c
  <2>3. /\ event' \in EventRows /\ event'.status = event.status /\ event'.text = event.text
        /\ event'.ver = n
    BY <2>1, <2>2 DEF EventRows
  <2> QED
    BY <2>1, <2>3 DEF EventEffect, Touched, n
<1>3. CASE Publishing!SubmitRequest
  BY <1>3, SubmitEvent DEF Publishing!SubmitRequest, EventEffect
<1>4. ASSUME NEW r \in Reviewers, NEW d \in {"published", "needs_changes", "rejected"},
             Publishing!Review(r, d)
      PROVE  EventEffect
  BY <1>4, MovedEvent DEF Publishing!Review, Publishing!Statuses, EventEffect
<1>5. CASE Publishing!Cancel
  BY <1>5, MovedEvent DEF Publishing!Cancel, Publishing!CanTransition, Publishing!Statuses, EventEffect
<1>6. ASSUME NEW c \in Cases, NEW d, Publishing!Decide(c, d)
      PROVE  EventEffect
  <2>1. event.status # "none" /\ cleared' = cleared
    BY <1>6 DEF Publishing!Decide, EventTables
  <2>2. event' = event \/ event' = [event EXCEPT !.status = "removed", !.ver = event.ver + 1]
    BY <1>6 DEF Publishing!Decide
  <2> QED
    BY <2>1, <2>2, MovedEvent DEF Publishing!Statuses, EventEffect
<1>7. CASE \/ Publishing!ComposerConflicts \/ Publishing!ComposerPicks \/ Publishing!ExpireHolds
           \/ \E r \in Reviewers : Publishing!OpenReview(r)
           \/ \E v \in DOMAIN holds : Publishing!HoldLapses(v)
           \/ Publishing!BuyPromotion \/ Publishing!WindowRuns \/ Publishing!ExpirePromotion
           \/ \E c \in Cases, target \in {"event", "user"} : Publishing!Report(c, target)
           \/ \E c \in Cases, r \in Reviewers : Publishing!ClaimCase(c, r)
           \/ \E c \in Cases : Publishing!Appeal(c)
           \/ \E flag \in BOOLEAN : Publishing!SetRestrictions(flag)
  <2>1. event' = event /\ cleared' = cleared
    BY <1>7 DEF Publishing!ComposerConflicts, Publishing!ComposerPicks, Publishing!ExpireHolds,
         Publishing!OpenReview, Publishing!HoldLapses, Publishing!BuyPromotion,
         Publishing!WindowRuns, Publishing!ExpirePromotion, Publishing!Report,
         Publishing!ClaimCase, Publishing!Appeal, Publishing!SetRestrictions
  <2> QED
    BY <2>1 DEF EventEffect
<1> QED
  BY <1>1, <1>2, <1>3, <1>4, <1>5, <1>6, <1>7 DEF Publishing!Next

\* The event is never without a version again, and only ever gets newer.
LEMMA EffectEvent ==
  ASSUME EventTables, EventEffect
  PROVE  /\ event' \in EventRows /\ (event'.status = "none" <=> event'.ver = 0)
         /\ event.status # "none" => event'.status # "none"
         /\ event' = event \/ event'.ver > event.ver
<1>1. event \in EventRows /\ event.ver \in Nat /\ (event.status = "none" <=> event.ver = 0)
  BY DEF EventTables, EventRows
<1> QED
  BY <1>1 DEF EventEffect, Drafted, Edited, Touched, Moved, Publishing!Editable

LEMMA StepTables ==
  ASSUME EventTables, Publishing!Next
  PROVE  EventTables'
<1>1. EventEffect
  BY StepEvent
<1>2. /\ event' \in EventRows /\ (event'.status = "none" <=> event'.ver = 0)
      /\ event.status # "none" => event'.status # "none"
      /\ event' = event \/ event'.ver > event.ver
      /\ event.ver \in Nat /\ event'.ver \in Nat
  BY <1>1, EffectEvent DEF EventTables, EventRows
<1>3. holds' \in [1..MaxVersion -> Publishing!HoldStates]
  <2>1. holds \in [1..MaxVersion -> Publishing!HoldStates]
    BY DEF EventTables
  <2>2. ASSUME NEW base, Publishing!Submit(base)
        PROVE  holds' \in [1..MaxVersion -> Publishing!HoldStates]
    BY <2>1, <2>2 DEF Publishing!Submit, Publishing!HoldStates
  <2>3. ASSUME NEW d PROVE Publishing!SettleHold(d) \in [1..MaxVersion -> Publishing!HoldStates]
    BY <2>1 DEF Publishing!SettleHold, Publishing!HoldStates
  <2>4. CASE Publishing!ExpireHolds \/ \E v \in DOMAIN holds : Publishing!HoldLapses(v)
    BY <2>1, <2>4 DEF Publishing!ExpireHolds, Publishing!HoldLapses, Publishing!HoldStates
  <2>5. \/ holds' = holds \/ Publishing!ExpireHolds
        \/ \E v \in DOMAIN holds : Publishing!HoldLapses(v)
        \/ \E base : Publishing!Submit(base)
        \/ \E d : holds' = Publishing!SettleHold(d)
    BY DEF Publishing!Next, Publishing!ComposerSaves, Publishing!OtherDeviceSaves,
           Publishing!SaveFacts, Publishing!ComposerConflicts, Publishing!ComposerPicks,
           Publishing!ComposerUploads, Publishing!SubmitRequest, Publishing!OpenReview,
           Publishing!Review, Publishing!Cancel, Publishing!BuyPromotion, Publishing!WindowRuns,
           Publishing!ExpirePromotion, Publishing!Report, Publishing!ClaimCase,
           Publishing!Decide, Publishing!Appeal, Publishing!SetRestrictions
  <2> QED
    BY <2>1, <2>2, <2>3, <2>4, <2>5
<1>4. \/ page' = page
      \/ \E r \in Reviewers : /\ event' = event
           /\ page' = [page EXCEPT ![r] = [ver |-> event.ver, text |-> event.text]]
  BY DEF Publishing!Next, Publishing!ComposerSaves, Publishing!OtherDeviceSaves,
         Publishing!SaveFacts, Publishing!ComposerConflicts, Publishing!ComposerPicks,
         Publishing!ComposerUploads, Publishing!SubmitRequest, Publishing!Submit,
         Publishing!OpenReview, Publishing!Review, Publishing!HoldLapses, Publishing!ExpireHolds,
         Publishing!Cancel, Publishing!BuyPromotion, Publishing!WindowRuns,
         Publishing!ExpirePromotion, Publishing!Report, Publishing!ClaimCase,
         Publishing!Decide, Publishing!Appeal, Publishing!SetRestrictions
<1>5. /\ page' = [r \in Reviewers |-> page'[r]]
      /\ \A r \in Reviewers : page'[r].ver \in Nat /\ page'[r].ver <= event'.ver
  <2>1. CASE page' = page
    BY <1>2, <2>1 DEF EventTables
  <2>2. ASSUME NEW r \in Reviewers, event' = event,
               page' = [page EXCEPT ![r] = [ver |-> event.ver, text |-> event.text]]
        PROVE  /\ page' = [k \in Reviewers |-> page'[k]]
               /\ \A k \in Reviewers : page'[k].ver \in Nat /\ page'[k].ver <= event'.ver
    <3>1. \A k \in Reviewers : page'[k] = page[k] \/ page'[k] = [ver |-> event.ver, text |-> event.text]
      BY <2>2 DEF EventTables
    <3>2. page' = [k \in Reviewers |-> page'[k]]
      BY <2>2 DEF EventTables
    <3> QED
      BY <1>2, <2>2, <3>1, <3>2 DEF EventTables
  <2> QED
    BY <1>4, <2>1, <2>2
<1>6. \/ cases' = cases
      \/ \E c \in Cases, row \in CaseRows : /\ row.status # "none" => event'.status # "none"
                                            /\ cases' = [cases EXCEPT ![c] = row]
  <2>1. ASSUME NEW c \in Cases, NEW t \in {"event", "user"}, Publishing!Report(c, t)
        PROVE  \E row \in CaseRows : /\ row.status # "none" => event'.status # "none"
                                     /\ cases' = [cases EXCEPT ![c] = row]
    <3>1. [status |-> "open", target |-> t, assignee |-> "none"] \in CaseRows
      BY DEF CaseRows
    <3> QED
      BY <2>1, <3>1 DEF Publishing!Report
  <2>2. ASSUME NEW c \in Cases, NEW r \in Reviewers, Publishing!ClaimCase(c, r)
        PROVE  \E row \in CaseRows : /\ row.status # "none" => event'.status # "none"
                                     /\ cases' = [cases EXCEPT ![c] = row]
    <3> DEFINE st == IF cases[c].status = "open" THEN "claimed" ELSE cases[c].status
               row == [cases[c] EXCEPT !.assignee = r, !.status = st]
    <3>1. cases \in [Cases -> CaseRows] /\ cases[c] \in CaseRows
      BY DEF EventTables
    <3>2. row \in CaseRows
      BY <3>1 DEF CaseRows
    <3>3. cases' = [cases EXCEPT ![c] = row]
      BY <2>2, <3>1 DEF Publishing!ClaimCase, CaseRows
    <3>4. event'.status # "none"
      BY <2>2 DEF Publishing!ClaimCase, EventTables
    <3> HIDE DEF row
    <3> QED
      BY <3>2, <3>3, <3>4
  <2>3. ASSUME NEW c \in Cases, NEW d, Publishing!Decide(c, d) \/ Publishing!Appeal(c)
        PROVE  \E row \in CaseRows : /\ row.status # "none" => event'.status # "none"
                                     /\ cases' = [cases EXCEPT ![c] = row]
    <3>1. cases \in [Cases -> CaseRows] /\ cases[c] \in CaseRows
      BY DEF EventTables
    <3>2. PICK st \in {"decided", "appealed"} : cases' = [cases EXCEPT ![c].status = st]
      BY <2>3 DEF Publishing!Decide, Publishing!Appeal
    <3> DEFINE row == [cases[c] EXCEPT !.status = st]
    <3>3. row \in CaseRows
      BY <3>1 DEF CaseRows
    <3>4. cases' = [cases EXCEPT ![c] = row]
      BY <3>2
    <3>5. event'.status # "none"
      <4>1. cases[c].status # "none"
        BY <2>3 DEF Publishing!Decide, Publishing!Appeal
      <4> QED
        BY <1>2, <4>1 DEF EventTables
    <3> HIDE DEF row
    <3> QED
      BY <3>3, <3>4, <3>5
  <2> QED
    BY <2>1, <2>2, <2>3
       DEF Publishing!Next, Publishing!ComposerSaves, Publishing!OtherDeviceSaves,
         Publishing!SaveFacts, Publishing!ComposerConflicts, Publishing!ComposerPicks,
         Publishing!ComposerUploads, Publishing!SubmitRequest, Publishing!Submit,
         Publishing!OpenReview, Publishing!Review, Publishing!HoldLapses, Publishing!ExpireHolds,
         Publishing!Cancel, Publishing!BuyPromotion, Publishing!WindowRuns,
         Publishing!ExpirePromotion, Publishing!SetRestrictions
<1>7. /\ cases' \in [Cases -> CaseRows]
      /\ \A c \in Cases : cases'[c].status # "none" => event'.status # "none"
  BY <1>2, <1>6 DEF EventTables
<1>8. "at" \in DOMAIN composer' /\ (composer'.at = "upload" => event'.status # "none")
  <2>1. "at" \in DOMAIN composer /\ (composer.at = "upload" => event'.status # "none")
    BY <1>2 DEF EventTables
  <2>2. ASSUME NEW text \in Texts, NEW f \in SUBSET Publishing!Types,
               Publishing!ComposerSaves(text, f)
        PROVE  "at" \in DOMAIN composer' /\ event'.status # "none"
    <3>1. event'.status # "none"
      BY <2>2, CreateDraftEvent, SaveContentEvent
         DEF Publishing!ComposerSaves, Drafted, Edited, Publishing!Editable
    <3>2. "at" \in DOMAIN composer'
      BY <2>1, <2>2 DEF Publishing!ComposerSaves
    <3> QED
      BY <3>1, <3>2
  <2>3. ASSUME NEW k \in {"foreign", "answer", "pending"}, NEW x,
               composer' = [composer EXCEPT ![k] = x]
        PROVE  "at" \in DOMAIN composer' /\ composer'.at = composer.at
    BY <2>1, <2>3
  <2>4. CASE Publishing!ComposerUploads
    BY <2>1, <2>4 DEF Publishing!ComposerUploads
  <2>5. CASE Publishing!ComposerConflicts \/ Publishing!ComposerPicks \/ Publishing!Cancel
             \/ Publishing!SaveFacts \/ Publishing!SubmitRequest
    BY <2>1, <2>3, <2>5
       DEF Publishing!ComposerConflicts, Publishing!ComposerPicks, Publishing!Cancel,
           Publishing!SaveFacts, Publishing!SubmitRequest, Publishing!Foreign
  <2>6. ASSUME NEW text, NEW f, NEW r, NEW d, NEW c,
               Publishing!OtherDeviceSaves(text, f) \/ Publishing!Review(r, d)
               \/ Publishing!Decide(c, d)
        PROVE  "at" \in DOMAIN composer' /\ composer'.at = composer.at
    BY <2>1, <2>3, <2>6
       DEF Publishing!OtherDeviceSaves, Publishing!Review, Publishing!Decide, Publishing!Foreign
  <2>7. CASE \/ \E r \in Reviewers : Publishing!OpenReview(r)
             \/ \E v \in DOMAIN holds : Publishing!HoldLapses(v)
             \/ Publishing!ExpireHolds
             \/ Publishing!BuyPromotion \/ Publishing!WindowRuns \/ Publishing!ExpirePromotion
             \/ \E c \in Cases, target \in {"event", "user"} : Publishing!Report(c, target)
             \/ \E c \in Cases, r \in Reviewers : Publishing!ClaimCase(c, r)
             \/ \E c \in Cases : Publishing!Appeal(c)
             \/ \E flag \in BOOLEAN : Publishing!SetRestrictions(flag)
    BY <2>1, <2>7
       DEF Publishing!OpenReview, Publishing!HoldLapses, Publishing!ExpireHolds,
           Publishing!BuyPromotion, Publishing!WindowRuns, Publishing!ExpirePromotion,
           Publishing!Report, Publishing!ClaimCase, Publishing!Appeal, Publishing!SetRestrictions
  <2> QED
    BY <2>1, <2>2, <2>4, <2>5, <2>6, <2>7 DEF Publishing!Next
<1> QED
  BY <1>2, <1>3, <1>5, <1>7, <1>8 DEF EventTables

LEMMA InitTables == Publishing!Init => EventTables
BY ContentAssumption
   DEF Publishing!Init, EventTables, EventRows, AnyText, AnyFlags, CaseRows, Publishing!NoText,
       Publishing!NoPage, Publishing!NoCase, Publishing!Statuses, Publishing!HoldStates

LEMMA TablesFrame == EventTables /\ UNCHANGED publishPart => EventTables'
BY DEF EventTables, publishPart

LEMMA TablesAlways == Spec => []EventTables
<1>1. Init => EventTables
  BY InitTables DEF Init
<1>2. EventTables /\ [Next]_contentVars => EventTables'
  BY StepTables, TablesFrame DEF Next, contentVars, publishPart
<1> QED
  BY <1>1, <1>2, PTL DEF Spec

-----------------------------------------------------------------------------
(* Publishing: what the public reads *)

\* A reviewer whose page is as new as the event has the event's text on the screen.
LiveInv ==
  /\ LiveTextWasCleared
  /\ \A r \in Reviewers : page[r].ver = event.ver /\ event.ver # 0 => page[r].text = event.text

LEMMA StepLive ==
  ASSUME EventTables, EventTables', LiveInv, Publishing!Next
  PROVE  LiveInv'
<1>1. EventEffect
  BY StepEvent
<1>2. /\ event' = event \/ event'.ver > event.ver
      /\ event.ver \in Nat /\ event'.ver \in Nat
      /\ \A r \in Reviewers : page[r].ver \in Nat /\ page[r].ver <= event.ver
  BY <1>1, EffectEvent DEF EventTables, EventRows
<1>3. \/ page' = page
      \/ \E r \in Reviewers : /\ event' = event
           /\ page' = [page EXCEPT ![r] = [ver |-> event.ver, text |-> event.text]]
  BY DEF Publishing!Next, Publishing!ComposerSaves, Publishing!OtherDeviceSaves,
         Publishing!SaveFacts, Publishing!ComposerConflicts, Publishing!ComposerPicks,
         Publishing!ComposerUploads, Publishing!SubmitRequest, Publishing!Submit,
         Publishing!OpenReview, Publishing!Review, Publishing!HoldLapses, Publishing!ExpireHolds,
         Publishing!Cancel, Publishing!BuyPromotion, Publishing!WindowRuns,
         Publishing!ExpirePromotion, Publishing!Report, Publishing!ClaimCase,
         Publishing!Decide, Publishing!Appeal, Publishing!SetRestrictions
<1>4. \A r \in Reviewers : page'[r].ver = event'.ver /\ event'.ver # 0 => page'[r].text = event'.text
  <2>1. CASE page' = page
    BY <1>2, <2>1 DEF LiveInv
  <2>2. ASSUME NEW r \in Reviewers, event' = event,
               page' = [page EXCEPT ![r] = [ver |-> event.ver, text |-> event.text]]
        PROVE  \A k \in Reviewers : page'[k].ver = event'.ver /\ event'.ver # 0
                                      => page'[k].text = event'.text
    <3>1. \A k \in Reviewers : page'[k] = page[k] \/ page'[k] = [ver |-> event.ver, text |-> event.text]
      BY <2>2 DEF EventTables
    <3> QED
      BY <2>2, <3>1 DEF LiveInv
  <2> QED
    BY <1>3, <2>1, <2>2
\* A status becomes "published" only by a submission the engine passes or by a review.
<1>5. event'.status = "published" => event'.text = cleared'
  <2>1. CASE event' = event /\ cleared' = cleared
    BY <2>1 DEF LiveInv, LiveTextWasCleared, Publishing!LiveTextWasCleared
  <2>2. CASE Drafted
    BY <2>2 DEF Drafted
  <2>3. CASE Edited
    BY <2>3 DEF Edited, Publishing!EditAllowed
  <2>4. CASE Touched
    BY <2>4 DEF Touched, LiveInv, LiveTextWasCleared, Publishing!LiveTextWasCleared
  <2>5. CASE Moved
    <3> SUFFICES ASSUME event'.status = "published" PROVE event'.text = cleared'
      OBVIOUS
    <3>1. ASSUME NEW base, Publishing!Submit(base)
          PROVE  event'.text = cleared'
      <4>1. Publishing!Route(event.text, event.flags) = "auto_approve"
        BY <3>1, SubmitEvent
      <4> QED
        BY <2>5, <3>1, <4>1 DEF Publishing!Submit, Moved
    <3>2. ASSUME NEW r \in Reviewers, NEW d, Publishing!Review(r, d)
          PROVE  event'.text = cleared'
      <4>1. /\ event' = [event EXCEPT !.status = d, !.ver = event.ver + 1]
            /\ page[r].ver = event.ver /\ event.status = "pending_review"
            /\ cleared' = IF d = "published" THEN page[r].text ELSE cleared
        BY <3>2 DEF Publishing!Review
      <4>2. d = "published" /\ event.ver # 0
        BY <4>1 DEF EventTables, EventRows
      <4>3. page[r].text = event.text
        BY <4>1, <4>2 DEF LiveInv
      <4> QED
        BY <2>5, <4>1, <4>2, <4>3 DEF Moved
    <3>3. ASSUME NEW text \in Texts, NEW f \in SUBSET Publishing!Types,
                 Publishing!ComposerSaves(text, f) \/ Publishing!OtherDeviceSaves(text, f)
          PROVE  event'.text = cleared'
      <4>1. Drafted \/ Edited
        BY <3>3, CreateDraftEvent, SaveContentEvent
           DEF Publishing!ComposerSaves, Publishing!OtherDeviceSaves
      <4> QED
        BY <2>2, <2>3, <4>1
    <3>4. CASE Publishing!SaveFacts \/ Publishing!ComposerUploads
      <4>1. event'.status = event.status /\ cleared' = cleared
        BY <3>4 DEF Publishing!SaveFacts, Publishing!ComposerUploads, EventTables, EventRows
      <4> QED
        BY <2>5, <4>1 DEF Moved, LiveInv, LiveTextWasCleared, Publishing!LiveTextWasCleared
    <3>5. ASSUME NEW c, NEW d, Publishing!Cancel \/ Publishing!Decide(c, d)
          PROVE  event'.text = cleared'
      <4>1. /\ cleared' = cleared
            /\ \/ event' = event
               \/ \E to \in {"cancelled", "removed"} :
                    event' = [event EXCEPT !.status = to, !.ver = event.ver + 1]
        BY <3>5 DEF Publishing!Cancel, Publishing!Decide
      <4>2. event' = event
        BY <4>1 DEF EventTables, EventRows
      <4> QED
        BY <2>1, <4>1, <4>2
    <3>6. CASE \/ Publishing!ComposerConflicts \/ Publishing!ComposerPicks \/ Publishing!ExpireHolds
               \/ \E r \in Reviewers : Publishing!OpenReview(r)
               \/ \E v \in DOMAIN holds : Publishing!HoldLapses(v)
               \/ Publishing!BuyPromotion \/ Publishing!WindowRuns \/ Publishing!ExpirePromotion
               \/ \E c \in Cases, target \in {"event", "user"} : Publishing!Report(c, target)
               \/ \E c \in Cases, r \in Reviewers : Publishing!ClaimCase(c, r)
               \/ \E c \in Cases : Publishing!Appeal(c)
               \/ \E flag \in BOOLEAN : Publishing!SetRestrictions(flag)
      BY <2>1, <3>6
         DEF Publishing!ComposerConflicts, Publishing!ComposerPicks, Publishing!ExpireHolds,
             Publishing!OpenReview, Publishing!HoldLapses, Publishing!BuyPromotion,
             Publishing!WindowRuns, Publishing!ExpirePromotion, Publishing!Report,
             Publishing!ClaimCase, Publishing!Appeal, Publishing!SetRestrictions
    <3> QED
      BY <3>1, <3>2, <3>3, <3>4, <3>5, <3>6 DEF Publishing!Next, Publishing!SubmitRequest
  <2> QED
    BY <1>1, <2>1, <2>2, <2>3, <2>4, <2>5 DEF EventEffect
<1> QED
  BY <1>4, <1>5 DEF LiveInv, LiveTextWasCleared, Publishing!LiveTextWasCleared

\* Over edits of two devices, resubmissions and reviewers with old pages, what is public is
\* the text the engine passed or the text a reviewer had on the screen.
THEOREM LiveTextAlwaysCleared == Spec => []LiveTextWasCleared
<1>1. Init => LiveInv
  BY DEF Init, Publishing!Init, LiveInv, LiveTextWasCleared, Publishing!LiveTextWasCleared,
         Publishing!NoPage
<1>2. EventTables /\ EventTables' /\ LiveInv /\ [Next]_contentVars => LiveInv'
  <2>1. LiveInv /\ UNCHANGED publishPart => LiveInv'
    BY DEF LiveInv, LiveTextWasCleared, Publishing!LiveTextWasCleared, publishPart
  <2> QED
    BY <2>1, StepLive DEF Next, contentVars, publishPart
<1>3. LiveInv => LiveTextWasCleared
  BY DEF LiveInv
<1> QED
  BY <1>1, <1>2, <1>3, TablesAlways, PTL DEF Spec

-----------------------------------------------------------------------------
(* Publishing: the fee *)

\* One open hold at most, and none once one is captured. While a decision is pending the
\* event has an open hold, unless it had expired.
FeeInv ==
  /\ \A v, w \in Publishing!OpenHolds : v = w
  /\ \A v, w \in Publishing!Captured : v = w
  /\ Publishing!OpenHolds # {} => event.status \in {"pending_review", "removed"}
  /\ Publishing!Captured # {} => event.status \in {"published", "cancelled", "removed"}
  /\ event.status \in {"published", "cancelled"} =>
       Publishing!Captured # {} \/ \E v \in DOMAIN holds : holds[v] = "expired"
  /\ event.status = "pending_review" =>
       Publishing!OpenHolds # {} \/ \E v \in DOMAIN holds : holds[v] = "expired"

LEMMA AtMostOne ==
  ASSUME NEW S, \A v, w \in S : v = w
  PROVE  Cardinality(S) <= 1
<1>1. CASE S = {}
  BY <1>1, FS_EmptySet
<1>2. CASE S # {}
  <2>1. PICK x : S = {x}
    BY <1>2
  <2> QED
    BY <2>1, FS_Singleton
<1> QED
  BY <1>1, <1>2

LEMMA FeeShown == FeeInv => FeeFollowsReview
<1>1. \A S : Publishing!Cardinality(S) = Cardinality(S)
  BY Zenon DEF Publishing!Cardinality, Cardinality
<1> QED
  BY <1>1, AtMostOne DEF FeeInv, FeeFollowsReview, Publishing!FeeFollowsReview

\* The fee stands while the status does.
LEMMA FeeKept ==
  ASSUME FeeInv, holds' = holds,
         event'.status = event.status \/ event'.status = "removed"
         \/ (event.status = "published" /\ event'.status = "cancelled")
         \/ (event.status = "none" /\ event'.status = "draft")
  PROVE  FeeInv'
BY DEF FeeInv, Publishing!OpenHolds, Publishing!Captured

\* A submission comes when no hold is open or captured, and adds one.
LEMMA SubmitFee ==
  ASSUME EventTables, FeeInv, NEW base, Publishing!Submit(base)
  PROVE  FeeInv'
<1> DEFINE auto == Publishing!Route(event.text, event.flags) = "auto_approve"
           new == IF auto THEN "captured" ELSE "active"
           v == event.ver
<1>1. /\ event.status \in {"draft", "needs_changes"}
      /\ event'.status = IF auto THEN "published" ELSE "pending_review"
  BY SubmitEvent
<1>2. holds' = [holds EXCEPT ![v] = new] /\ v < MaxVersion
  BY DEF Publishing!Submit, Publishing!Room
<1>3. v \in 1..MaxVersion /\ holds \in [1..MaxVersion -> Publishing!HoldStates]
  BY <1>1, <1>2, ContentAssumption DEF EventTables, EventRows
<1>4. Publishing!OpenHolds = {} /\ Publishing!Captured = {}
  BY <1>1 DEF FeeInv
<1>5. \A w \in DOMAIN holds : holds[w] \notin {"active", "lapsed", "captured"}
  BY <1>4 DEF Publishing!OpenHolds, Publishing!Captured
<1> HIDE DEF v, auto
<1>6. /\ DOMAIN holds' = 1..MaxVersion /\ holds'[v] = new
      /\ \A w \in DOMAIN holds' : w # v => holds'[w] \notin {"active", "lapsed", "captured"}
  BY <1>2, <1>3, <1>5
<1> QED
  BY <1>1, <1>3, <1>6 DEF FeeInv, Publishing!OpenHolds, Publishing!Captured

\* A decision settles the one open hold, if it has not expired by then.
LEMMA ReviewFee ==
  ASSUME EventTables, FeeInv, NEW r \in Reviewers,
         NEW d \in {"published", "needs_changes", "rejected"}, Publishing!Review(r, d)
  PROVE  FeeInv'
<1>1. /\ event.status = "pending_review" /\ event'.status = d
      /\ holds' = Publishing!SettleHold(d)
  BY DEF Publishing!Review, EventTables, EventRows
<1>2. Publishing!Captured = {}
  BY <1>1 DEF FeeInv
<1>3. CASE Publishing!OpenHolds = {}
  BY <1>1, <1>2, <1>3 DEF FeeInv, Publishing!SettleHold, Publishing!OpenHolds, Publishing!Captured
<1>4. ASSUME NEW v \in Publishing!OpenHolds
      PROVE  FeeInv'
  <2>1. Publishing!OpenHolds = {v} /\ v \in DOMAIN holds /\ DOMAIN holds = 1..MaxVersion
    BY <1>4 DEF FeeInv, Publishing!OpenHolds, EventTables
  <2>2. Publishing!Max({v}) = v
    <3>1. v \in {v} /\ \A y \in {v} : v >= y
      BY <2>1, ContentAssumption
    <3>2. \A x \in {v} : x = v
      OBVIOUS
    <3> QED
      BY <3>1, <3>2 DEF Publishing!Max
  <2> DEFINE new == IF d = "published" THEN "captured" ELSE "released"
  <2>3. holds' = [holds EXCEPT ![v] = new]
    BY <1>1, <2>1, <2>2 DEF Publishing!SettleHold
  <2>4. \A w \in DOMAIN holds : w # v => holds[w] \notin {"active", "lapsed", "captured"}
    BY <1>2, <2>1 DEF Publishing!OpenHolds, Publishing!Captured
  <2>5. /\ DOMAIN holds' = DOMAIN holds /\ holds'[v] = new
        /\ \A w \in DOMAIN holds' : w # v => holds'[w] \notin {"active", "lapsed", "captured"}
    BY <2>1, <2>3, <2>4
  <2> QED
    BY <1>1, <2>1, <2>5 DEF FeeInv, Publishing!OpenHolds, Publishing!Captured
<1> QED
  BY <1>3, <1>4

LEMMA LapseFee ==
  ASSUME EventTables, FeeInv, Publishing!ExpireHolds \/ \E v \in DOMAIN holds : Publishing!HoldLapses(v)
  PROVE  FeeInv'
<1>1. event' = event /\ holds \in [1..MaxVersion -> Publishing!HoldStates]
  BY DEF Publishing!ExpireHolds, Publishing!HoldLapses, EventTables
<1>2. CASE Publishing!ExpireHolds
  <2>1. /\ DOMAIN holds' = DOMAIN holds
        /\ \A v \in DOMAIN holds :
             holds'[v] = IF holds[v] = "lapsed" THEN "expired" ELSE holds[v]
        /\ \E v \in DOMAIN holds : holds[v] = "lapsed"
    BY <1>2 DEF Publishing!ExpireHolds
  <2>2. \E v \in DOMAIN holds' : holds'[v] = "expired"
    BY <2>1
  <2>3. Publishing!OpenHolds' \subseteq Publishing!OpenHolds /\ Publishing!Captured' = Publishing!Captured
    BY <2>1 DEF Publishing!OpenHolds, Publishing!Captured
  <2> QED
    BY <1>1, <2>2, <2>3 DEF FeeInv
<1>3. ASSUME NEW v \in DOMAIN holds, Publishing!HoldLapses(v)
      PROVE  FeeInv'
  <2>1. /\ DOMAIN holds' = DOMAIN holds /\ holds[v] = "active" /\ holds'[v] = "lapsed"
        /\ \A w \in DOMAIN holds : w # v => holds'[w] = holds[w]
    BY <1>1, <1>3 DEF Publishing!HoldLapses
  <2>2. Publishing!OpenHolds' = Publishing!OpenHolds /\ Publishing!Captured' = Publishing!Captured
    BY <2>1 DEF Publishing!OpenHolds, Publishing!Captured
  <2>3. (\E w \in DOMAIN holds : holds[w] = "expired") => \E w \in DOMAIN holds' : holds'[w] = "expired"
    BY <2>1
  <2> QED
    BY <1>1, <2>2, <2>3 DEF FeeInv
<1> QED
  BY <1>2, <1>3

LEMMA StepFee == EventTables /\ FeeInv /\ Publishing!Next => FeeInv'
<1> SUFFICES ASSUME EventTables, FeeInv, Publishing!Next PROVE FeeInv'
  OBVIOUS
<1>1. ASSUME NEW text \in Texts, NEW f \in SUBSET Publishing!Types,
             Publishing!ComposerSaves(text, f) \/ Publishing!OtherDeviceSaves(text, f)
      PROVE  FeeInv'
  <2>1. holds' = holds /\ (Drafted \/ Edited)
    BY <1>1, CreateDraftEvent, SaveContentEvent
       DEF Publishing!ComposerSaves, Publishing!OtherDeviceSaves
  <2> QED
    BY <2>1, FeeKept DEF Drafted, Edited
<1>2. CASE Publishing!SaveFacts \/ Publishing!ComposerUploads
  <2>1. holds' = holds /\ event'.status = event.status
    BY <1>2 DEF Publishing!SaveFacts, Publishing!ComposerUploads, EventTables, EventRows
  <2> QED
    BY <2>1, FeeKept
<1>3. ASSUME NEW c, NEW d, Publishing!Cancel \/ Publishing!Decide(c, d)
      PROVE  FeeInv'
  <2>1. /\ holds' = holds
        /\ \/ event' = event
           \/ event' = [event EXCEPT !.status = "removed", !.ver = event.ver + 1]
           \/ /\ event.status = "published"
              /\ event' = [event EXCEPT !.status = "cancelled", !.ver = event.ver + 1]
    BY <1>3 DEF Publishing!Cancel, Publishing!Decide, Publishing!CanTransition
  <2>2. \/ event'.status = event.status \/ event'.status = "removed"
        \/ event.status = "published" /\ event'.status = "cancelled"
    BY <2>1 DEF EventTables, EventRows
  <2> QED
    BY <2>1, <2>2, FeeKept
<1>4. CASE \/ Publishing!ComposerConflicts \/ Publishing!ComposerPicks
           \/ \E r \in Reviewers : Publishing!OpenReview(r)
           \/ Publishing!BuyPromotion \/ Publishing!WindowRuns \/ Publishing!ExpirePromotion
           \/ \E c \in Cases, target \in {"event", "user"} : Publishing!Report(c, target)
           \/ \E c \in Cases, r \in Reviewers : Publishing!ClaimCase(c, r)
           \/ \E c \in Cases : Publishing!Appeal(c)
           \/ \E flag \in BOOLEAN : Publishing!SetRestrictions(flag)
  <2>1. holds' = holds /\ event' = event
    BY <1>4
     DEF Publishing!ComposerConflicts, Publishing!ComposerPicks, Publishing!OpenReview,
         Publishing!BuyPromotion, Publishing!WindowRuns, Publishing!ExpirePromotion,
         Publishing!Report, Publishing!ClaimCase, Publishing!Appeal, Publishing!SetRestrictions
  <2> QED
    BY <2>1, FeeKept
<1> QED
  BY <1>1, <1>2, <1>3, <1>4, SubmitFee, ReviewFee, LapseFee
     DEF Publishing!Next, Publishing!SubmitRequest

\* Whatever reviews, sweeps, resubmissions and takedowns overlap, an event has one open hold
\* at most and pays at most once; a fee is kept only for what was published, and a publication
\* is free only when its hold had expired before the decision.
THEOREM FeeAlwaysFollows == Spec => []FeeFollowsReview
<1>1. Init => FeeInv
  BY DEF Init, Publishing!Init, FeeInv, Publishing!OpenHolds, Publishing!Captured
<1>2. EventTables /\ FeeInv /\ [Next]_contentVars => FeeInv'
  <2>1. FeeInv /\ UNCHANGED publishPart => FeeInv'
    BY FeeKept DEF publishPart
  <2> QED
    BY <2>1, StepFee DEF Next, contentVars, publishPart
<1> QED
  BY <1>1, <1>2, FeeShown, TablesAlways, PTL DEF Spec

-----------------------------------------------------------------------------
(* Publishing: the promotion *)

PromotionInv ==
  /\ promo \in [state : {"none", "active", "expired", "refunded"}, window : Nat]
  /\ points \in [spent : Nat, returned : Nat, used : Nat, bought : Nat]
  /\ PromotionPointsAccounted

\* A purchase, a unit of the window, its end, and the refund of the unused part.
PromotionEffect ==
  \/ promo' = promo /\ points' = points
  \/ /\ promo.state # "active" /\ promo' = [state |-> "active", window |-> Price]
     /\ points' = [points EXCEPT !.spent = @ + Price, !.bought = @ + 1]
  \/ /\ promo.state = "active" /\ promo.window > 0
     /\ promo' = [promo EXCEPT !.window = @ - 1] /\ points' = [points EXCEPT !.used = @ + 1]
  \/ /\ promo.state = "active" /\ promo.window = 0
     /\ promo' = [promo EXCEPT !.state = "expired"] /\ points' = points
  \/ /\ promo.state = "active" /\ promo' = [state |-> "refunded", window |-> 0]
     /\ points' = [points EXCEPT !.returned = @ + promo.window]

LEMMA EffectPromotion ==
  ASSUME PromotionInv, PromotionEffect
  PROVE  /\ promo' \in [state : {"none", "active", "expired", "refunded"}, window : Nat]
         /\ points' \in [spent : Nat, returned : Nat, used : Nat, bought : Nat]
         /\ points'.spent = points'.used + points'.returned
                            + (IF promo'.state = "active" THEN promo'.window ELSE 0)
<1>1. /\ promo.state \in {"none", "active", "expired", "refunded"} /\ promo.window \in Nat
      /\ promo = [state |-> promo.state, window |-> promo.window]
      /\ points.spent \in Nat /\ points.returned \in Nat /\ points.used \in Nat /\ points.bought \in Nat
      /\ points = [spent |-> points.spent, returned |-> points.returned, used |-> points.used,
                   bought |-> points.bought]
      /\ points.spent = points.used + points.returned
                        + (IF promo.state = "active" THEN promo.window ELSE 0)
  BY DEF PromotionInv, PromotionPointsAccounted, Publishing!PromotionPointsAccounted
<1>2. Price \in Nat
  BY ContentAssumption
<1>3. CASE promo' = promo /\ points' = points
  BY <1>3 DEF PromotionInv, PromotionPointsAccounted, Publishing!PromotionPointsAccounted
<1>4. CASE /\ promo.state # "active" /\ promo' = [state |-> "active", window |-> Price]
           /\ points' = [points EXCEPT !.spent = @ + Price, !.bought = @ + 1]
  <2> DEFINE sp == points.spent + Price
             bo == points.bought + 1
  <2>1. points' = [spent |-> sp, returned |-> points.returned,
                   used |-> points.used, bought |-> bo]
    BY <1>1, <1>4
  <2>2. sp \in Nat /\ bo \in Nat /\ sp = points.used + points.returned + Price
    BY <1>1, <1>2, <1>4
  <2> HIDE DEF sp, bo
  <2> QED
    BY <1>1, <1>2, <1>4, <2>1, <2>2
<1>5. CASE /\ promo.state = "active" /\ promo.window > 0
           /\ promo' = [promo EXCEPT !.window = @ - 1] /\ points' = [points EXCEPT !.used = @ + 1]
  <2> DEFINE us == points.used + 1
             win == promo.window - 1
  <2>1. /\ points' = [spent |-> points.spent, returned |-> points.returned,
                      used |-> us, bought |-> points.bought]
        /\ promo' = [state |-> "active", window |-> win]
    BY <1>1, <1>5
  <2>2. us \in Nat /\ win \in Nat /\ points.spent = us + points.returned + win
    BY <1>1, <1>5
  <2> HIDE DEF us, win
  <2> QED
    BY <1>1, <2>1, <2>2
<1>6. CASE /\ promo.state = "active" /\ promo.window = 0
           /\ promo' = [promo EXCEPT !.state = "expired"] /\ points' = points
  <2>1. promo' = [state |-> "expired", window |-> promo.window]
    BY <1>1, <1>6
  <2> QED
    BY <1>1, <1>6, <2>1
<1>7. CASE /\ promo.state = "active" /\ promo' = [state |-> "refunded", window |-> 0]
           /\ points' = [points EXCEPT !.returned = @ + promo.window]
  <2> DEFINE re == points.returned + promo.window
  <2>1. points' = [spent |-> points.spent, returned |-> re,
                   used |-> points.used, bought |-> points.bought]
    BY <1>1, <1>7
  <2>2. re \in Nat /\ points.spent = points.used + re
    BY <1>1, <1>7
  <2> HIDE DEF re
  <2> QED
    BY <1>1, <1>7, <2>1, <2>2
<1> QED
  BY <1>3, <1>4, <1>5, <1>6, <1>7 DEF PromotionEffect

LEMMA StepPromotion == EventTables /\ PromotionInv /\ Publishing!Next => PromotionInv'
<1> SUFFICES ASSUME EventTables, PromotionInv, Publishing!Next PROVE PromotionInv'
  OBVIOUS
<1>1. CASE Publishing!BuyPromotion \/ Publishing!WindowRuns \/ Publishing!ExpirePromotion
  <2>1. PromotionEffect /\ event' = event /\ (promo'.state = "active" => event.status # "removed")
    BY <1>1 DEF Publishing!BuyPromotion, Publishing!WindowRuns, Publishing!ExpirePromotion,
                PromotionEffect, PromotionInv, PromotionPointsAccounted,
                Publishing!PromotionPointsAccounted
  <2> QED
    BY <2>1, EffectPromotion
       DEF PromotionInv, PromotionPointsAccounted, Publishing!PromotionPointsAccounted
<1>2. ASSUME NEW c \in Cases, NEW d, Publishing!Decide(c, d)
      PROVE  PromotionInv'
  <2>1. /\ PromotionEffect
        /\ \/ event' = event /\ promo' = promo
           \/ promo'.state # "active"
    BY <1>2 DEF Publishing!Decide, Publishing!RefundPromotion, PromotionEffect
  <2> QED
    BY <2>1, EffectPromotion
       DEF PromotionInv, PromotionPointsAccounted, Publishing!PromotionPointsAccounted
\* Only a takedown removes an event.
<1>3. ASSUME promo' = promo, points' = points,
             event'.status = "removed" => event.status = "removed"
      PROVE  PromotionInv'
  BY <1>3 DEF PromotionInv, PromotionPointsAccounted, Publishing!PromotionPointsAccounted
<1>4. ASSUME NEW text \in Texts, NEW f \in SUBSET Publishing!Types,
             Publishing!ComposerSaves(text, f) \/ Publishing!OtherDeviceSaves(text, f)
      PROVE  PromotionInv'
  <2>1. promo' = promo /\ points' = points /\ (Drafted \/ Edited)
    BY <1>4, CreateDraftEvent, SaveContentEvent
       DEF Publishing!ComposerSaves, Publishing!OtherDeviceSaves
  <2> QED
    BY <1>3, <2>1 DEF Drafted, Edited
<1>5. CASE Publishing!SaveFacts \/ Publishing!ComposerUploads
  <2>1. promo' = promo /\ points' = points /\ event'.status = event.status
    BY <1>5 DEF Publishing!SaveFacts, Publishing!ComposerUploads, EventTables, EventRows
  <2> QED
    BY <1>3, <2>1
<1>6. CASE Publishing!SubmitRequest
  <2>1. promo' = promo /\ points' = points /\ event'.status # "removed"
    BY <1>6, SubmitEvent DEF Publishing!SubmitRequest, Publishing!Submit
  <2> QED
    BY <1>3, <2>1
<1>7. ASSUME NEW r \in Reviewers, NEW d \in {"published", "needs_changes", "rejected"},
             Publishing!Review(r, d)
      PROVE  PromotionInv'
  <2>1. promo' = promo /\ points' = points
    BY <1>7 DEF Publishing!Review
  <2>2. event'.status # "removed"
    <3>1. event' = event \/ event' = [event EXCEPT !.status = d, !.ver = event.ver + 1]
      BY <1>7 DEF Publishing!Review
    <3> QED
      BY <1>7, <3>1 DEF Publishing!Review, EventTables, EventRows
  <2> QED
    BY <1>3, <2>1, <2>2
<1>9. CASE Publishing!Cancel
  <2>1. promo' = promo /\ points' = points
    BY <1>9 DEF Publishing!Cancel
  <2>2. event' = [event EXCEPT !.status = "cancelled", !.ver = event.ver + 1]
    BY <1>9 DEF Publishing!Cancel
  <2>3. event'.status # "removed"
    BY <2>2 DEF EventTables, EventRows
  <2> QED
    BY <1>3, <2>1, <2>3
<1>8. CASE \/ Publishing!ComposerConflicts \/ Publishing!ComposerPicks \/ Publishing!ExpireHolds
           \/ \E v \in DOMAIN holds : Publishing!HoldLapses(v)
           \/ \E r \in Reviewers : Publishing!OpenReview(r)
           \/ \E c \in Cases, target \in {"event", "user"} : Publishing!Report(c, target)
           \/ \E c \in Cases, r \in Reviewers : Publishing!ClaimCase(c, r)
           \/ \E c \in Cases : Publishing!Appeal(c)
           \/ \E flag \in BOOLEAN : Publishing!SetRestrictions(flag)
  <2>1. promo' = promo /\ points' = points /\ event' = event
    BY <1>8
     DEF Publishing!ComposerConflicts, Publishing!ComposerPicks, Publishing!ExpireHolds,
         Publishing!HoldLapses, Publishing!OpenReview,
         Publishing!Report, Publishing!ClaimCase, Publishing!Appeal, Publishing!SetRestrictions
  <2> QED
    BY <1>3, <2>1
<1> QED
  BY <1>1, <1>2, <1>4, <1>5, <1>6, <1>7, <1>8, <1>9 DEF Publishing!Next

\* Every point paid for a promotion is used up by time, still running or returned, and an event
\* that was taken down promotes nothing.
THEOREM PromotionsAlwaysAccounted == Spec => []PromotionPointsAccounted
<1>1. Init => PromotionInv
  BY DEF Init, Publishing!Init, PromotionInv, PromotionPointsAccounted,
         Publishing!PromotionPointsAccounted
<1>2. EventTables /\ PromotionInv /\ [Next]_contentVars => PromotionInv'
  <2>1. PromotionInv /\ UNCHANGED publishPart => PromotionInv'
    BY DEF PromotionInv, PromotionPointsAccounted, Publishing!PromotionPointsAccounted, publishPart
  <2> QED
    BY <2>1, StepPromotion DEF Next, contentVars, publishPart
<1>3. PromotionInv => PromotionPointsAccounted
  BY DEF PromotionInv
<1> QED
  BY <1>1, <1>2, <1>3, TablesAlways, PTL DEF Spec
=============================================================================
