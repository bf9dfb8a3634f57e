------------------------------ MODULE Sessions ------------------------------
(***************************************************************************)
(* Signed-in sessions: the rotation of their refresh tokens on the server  *)
(* (services/api/src/modules/auth and .../platform) and the tabs of ONE    *)
(* browser that share the current token through localStorage               *)
(* (apps/web/app/lib/client-api.ts).                                       *)
(*                                                                         *)
(* A refresh token is named by its session and generation: its secret is   *)
(* unique to that pair.  Rotation locks the session row, so each call to   *)
(* the server is one action; a request and its answer are separate steps   *)
(* of the tab.  Who holds a device binding is decided outside this code.   *)
(***************************************************************************)
EXTENDS Integers, Sequences, FiniteSets

CONSTANTS
  User, Device, Session,
  Attempt,       \* Idempotency-Keys of refresh requests
  Kid,           \* identifiers of the derivation keys
  Tab,           \* the tabs of the browser
  Browser,       \* the Device the tabs run on
  None,          \* no token, no owner, no key, no attempt
  MaxGeneration, \* bound on the rotations of a session
  MaxEvents      \* bound on what users, clients, clocks and operators start

VARIABLES
  mode,      \* WEB_SESSION_BFF_ENFORCEMENT; "off" and "observe" decide alike
  keyring,   \* REFRESH_TOKEN_DERIVATION_KEYS: the kid that derives, the kids known
  owner,     \* devices.user_id
  barred,    \* users not active or loginBlocked
  session,   \* identity.sessions
  history,   \* identity.session_refresh_history of each, generation 0 first
  binding,   \* identity.device_bindings of each: "none", "active", "revoked"
  storage,   \* the token in localStorage, None when signed out
  tab,       \* each tab: what it has seen in storage, and its request under way
  events     \* how many of these have happened

vars == <<mode, keyring, owner, barred, session, history, binding, storage, tab, events>>

Transports == {"native", "ops", "web_bff", "legacy_unclassified"}

\* Who calls: the request channel, and whether it carries a BFF authority.
Callers == [channel : {"consumer_web", "headerless_native", "ops"}, authority : {"missing"}]
             \union [channel : {"verified_bff"}, authority : {"valid"}]
WebCaller == [channel |-> "consumer_web", authority |-> "missing"]

\* The transport a new session of the caller gets, None when it is refused.
NewTransport(caller) ==
  CASE caller.channel = "headerless_native" -> "native"
    [] caller.channel = "verified_bff" -> "web_bff"
    [] caller.channel = "ops" -> "ops"
    [] caller.channel = "consumer_web" ->
         IF mode = "off" THEN "legacy_unclassified" ELSE None

\* May the caller continue a session of this transport?
TransportAllows(transport, caller) ==
  CASE transport = "ops" -> caller.channel = "ops"
    [] transport = "native" -> caller.channel = "headerless_native"
    [] transport = "web_bff" -> caller.channel = "verified_bff"
    [] transport = "legacy_unclassified" ->
         /\ caller.channel \in {"headerless_native", "consumer_web"}
         /\ mode = "off"

Token(s, g) == [sid |-> s, gen |-> g]
Unused == [state |-> "unused"]
InUse == {s \in Session : session[s].state = "used"}
Row(s, g) == history[s][g + 1]
Last(s) == Row(s, session[s].gen)
Live(s) == ~session[s].revoked /\ ~session[s].reused /\ ~session[s].expired

\* A request is served to a session that lives, on a device that still belongs
\* to its user, who is not barred.
Authorized(s) ==
  /\ Live(s) /\ owner[session[s].device] = session[s].user
  /\ session[s].user \notin barred

\* The history row of a token that has just been made.
CurrentRow(kid, secret, bound) ==
  [state |-> "current", kid |-> kid, secret |-> secret, bound |-> bound,
   attempt |-> None, successorKid |-> None, recovery |-> "none"]

Idle == [seen |-> None, phase |-> "idle", used |-> None, fresh |-> FALSE]

Init ==
  /\ mode \in {"off", "enforce"}
  /\ \E k \in Kid : keyring = [current |-> k, known |-> Kid]
  /\ owner = [d \in Device |-> None] /\ barred = {}
  /\ session = [s \in Session |-> Unused]
  /\ history = [s \in Session |-> <<>>]
  /\ binding = [s \in Session |-> "none"]
  /\ storage = None
  /\ tab = [t \in Tab |-> Idle]
  /\ events = 0

Event == events < MaxEvents /\ events' = events + 1

-----------------------------------------------------------------------------
(* Refreshing on the server. *)

\* A proof verifies against the binding the session names, while it is active.
VerifiesBinding(s) == session[s].bound /\ binding[s] = "active"

\* Without attempt and proof only old tokens and old transports are rotated.
MayRotate(s, attempt, proof) ==
  /\ (attempt # None /\ proof) => VerifiesBinding(s)
  /\ (attempt # None /\ proof)
       \/ session[s].gen = 0
       \/ session[s].transport \in {"native", "ops", "legacy_unclassified"}

\* A secret is derived from key and attempt, so that it can be made again, when
\* the attempt is proven and the token is not of the legacy format.
Derives(s, attempt, proof) == session[s].gen > 0 /\ attempt # None /\ proof
Derived(kid, attempt) == <<kid, attempt>>
RandomSecret == <<None, None>>

Consumed_StillCurrent(row, attempt, kid) ==
  [row EXCEPT !.attempt = attempt, !.successorKid = kid,
              !.bound = IF attempt = None THEN @ ELSE TRUE,
              !.recovery = IF attempt = None THEN "none" ELSE "open"]

Consumed(row, attempt, kid) ==
  [row EXCEPT !.state = "consumed",
              !.attempt = attempt, !.successorKid = kid,
              !.bound = IF attempt = None THEN @ ELSE TRUE,
              !.recovery = IF attempt = None THEN "none" ELSE "open"]

RotateCurrent(s, attempt, proof) ==
  LET derives == Derives(s, attempt, proof)
      kid == IF derives THEN keyring.current ELSE None
      bound == attempt # None /\ proof
      secret == IF derives THEN Derived(kid, attempt) ELSE RandomSecret
  IN /\ history' = [history EXCEPT ![s] =
           Append([history[s] EXCEPT ![session[s].gen + 1] =
                     Consumed(Last(s), IF derives THEN attempt ELSE None, kid)],
                  CurrentRow(kid, secret, bound))]
     /\ session' = [session EXCEPT ![s].gen = @ + 1, ![s].kid = kid]

\* What the second use of a consumed token is answered with.
RecoverConsumed(s, g, attempt, proof) ==
  LET row == Row(s, g) IN
  IF \/ g = 0 \/ attempt = None \/ ~proof
     \/ row.attempt = None \/ ~row.bound \/ ~VerifiesBinding(s)
    THEN "refused"
  ELSE IF attempt # row.attempt THEN "reused"
  ELSE IF /\ row.recovery = "open" /\ row.successorKid # None
          /\ g + 1 = session[s].gen /\ session[s].kid = row.successorKid
          /\ Last(s).state = "current" /\ Last(s).kid = row.successorKid /\ Last(s).bound
          /\ row.successorKid \in keyring.known
          /\ Derived(row.successorKid, attempt) = Last(s).secret
    THEN "recovered"
  ELSE "refused"

\* SessionTokenService.rotate behind AuthService.refresh: the answer.
Answer(s, g, caller, attempt, proof) ==
  CASE ~TransportAllows(session[s].transport, caller) -> "refused"
    [] TransportAllows(session[s].transport, caller) /\ ~Live(s) -> "refused"
    [] TransportAllows(session[s].transport, caller) /\ Live(s) ->
         IF g = session[s].gen
           THEN IF MayRotate(s, attempt, proof) THEN "rotated" ELSE "refused"
           ELSE RecoverConsumed(s, g, attempt, proof)

\* Its effect.  A reused token revokes the family, which is the one session.
Serve(s, g, caller, attempt, proof) ==
  LET answer == Answer(s, g, caller, attempt, proof) IN
  \/ answer = "rotated" /\ session[s].gen < MaxGeneration /\ RotateCurrent(s, attempt, proof)
  \/ /\ answer = "reused"
     /\ session' = [session EXCEPT ![s].reused = TRUE, ![s].revoked = TRUE]
     /\ UNCHANGED history
  \/ answer \in {"refused", "recovered"} /\ UNCHANGED <<session, history>>

\* The native app, the operator console or the BFF refreshes with a token it
\* was given: the current one, or again an older one.  The other answers change
\* nothing.
Refresh(s, g, caller, attempt, proof) ==
  /\ Event /\ s \in InUse /\ g \in 0..session[s].gen /\ caller # WebCaller
  /\ Answer(s, g, caller, attempt, proof) \in {"rotated", "reused"}
  /\ Serve(s, g, caller, attempt, proof)
  /\ UNCHANGED <<mode, keyring, owner, barred, binding, storage, tab>>

\* A bootstrap hands the token back to a client that proves its device; it
\* changes nothing.
BootstrapAccepts(s, g, caller, proof) ==
  /\ Authorized(s) /\ proof /\ VerifiesBinding(s)
  /\ g = session[s].gen /\ Last(s).state = "current"
  /\ Last(s).kid = session[s].kid /\ Last(s).bound
  /\ TransportAllows(session[s].transport, caller)

-----------------------------------------------------------------------------
(* Sessions begin and end. *)

CreateSession(s, u, d, caller) ==
  /\ s \in Session \ InUse /\ u \notin barred /\ NewTransport(caller) # None
  /\ owner' = [owner EXCEPT ![d] = u]
  /\ session' = [session EXCEPT ![s] =
       [state |-> "used", user |-> u, device |-> d, transport |-> NewTransport(caller),
        gen |-> 0, kid |-> None, bound |-> FALSE,
        revoked |-> FALSE, reused |-> FALSE, expired |-> FALSE]]
  /\ history' = [history EXCEPT ![s] = <<CurrentRow(None, RandomSecret, FALSE)>>]

SignInElsewhere(s, u, d, caller) ==
  /\ Event /\ caller # WebCaller /\ CreateSession(s, u, d, caller)
  /\ UNCHANGED <<mode, keyring, barred, binding, storage, tab>>

Expire(s) ==
  /\ Event /\ s \in InUse /\ ~session[s].expired
  /\ session' = [session EXCEPT ![s].expired = TRUE]
  /\ UNCHANGED <<mode, keyring, owner, barred, history, binding, storage, tab>>

\* The recovery window of a rotation closes.
LapseRecovery(s, g) ==
  /\ Event /\ s \in InUse /\ g \in 0..session[s].gen /\ Row(s, g).recovery = "open"
  /\ history' = [history EXCEPT ![s][g + 1].recovery = "closed"]
  /\ UNCHANGED <<mode, keyring, owner, barred, session, binding, storage, tab>>

\* Outside this code: a binding is issued to the session, or revoked; a user is
\* restricted; the deployment changes mode or keys.
IssueBinding(s) ==
  /\ Event /\ s \in InUse /\ binding[s] = "none"
  /\ binding' = [binding EXCEPT ![s] = "active"]
  /\ session' = [session EXCEPT ![s].bound = TRUE]
  /\ UNCHANGED <<mode, keyring, owner, barred, history, storage, tab>>

RevokeBinding(s) ==
  /\ Event /\ binding[s] = "active" /\ binding' = [binding EXCEPT ![s] = "revoked"]
  /\ UNCHANGED <<mode, keyring, owner, barred, session, history, storage, tab>>

Bar(u) ==
  /\ Event /\ barred' = barred \union {u} /\ u \notin barred
  /\ UNCHANGED <<mode, keyring, owner, session, history, binding, storage, tab>>

Redeploy ==
  /\ Event
  /\ \/ mode = "off" /\ mode' = "enforce" /\ UNCHANGED keyring
     \/ \E k \in keyring.known \ {keyring.current} :
          \/ keyring' = [keyring EXCEPT !.current = k] /\ UNCHANGED mode
          \/ keyring' = [keyring EXCEPT !.known = @ \ {k}] /\ UNCHANGED mode
  /\ UNCHANGED <<owner, barred, session, history, binding, storage, tab>>

-----------------------------------------------------------------------------
(* The tabs.  A tab compares the token in storage with the one it has seen;    *)
(* when they differ, its session generation is a new one and what a request    *)
(* under way brings is no longer "fresh".                                      *)

Current(t) == tab[t].fresh /\ tab[t].seen = storage

\* saveSession and clearSession: a new session generation for this tab.
Store(t, token) ==
  /\ storage' = token
  /\ tab' = [tab EXCEPT ![t].seen = token, ![t].fresh = FALSE]

\* LoginForm and the account merge: the answer of the sign-in is stored
\* whatever the tab has seen by then.
SignIn(t, s, u) ==
  /\ Event /\ CreateSession(s, u, Browser, WebCaller)
  /\ Store(t, Token(s, 0))
  /\ UNCHANGED <<mode, keyring, barred, binding>>

\* The API has answered 401 to a request: the tab refreshes.
StartRefresh(t) ==
  /\ Event /\ tab[t].phase = "idle" /\ storage # None
  /\ tab' = [tab EXCEPT ![t] =
       [seen |-> storage, phase |-> "sent", used |-> storage, fresh |-> TRUE]]
  /\ UNCHANGED <<mode, keyring, owner, barred, session, history, binding, storage>>

\* The web client sends neither attempt nor proof.
ServeTab(t) ==
  LET token == tab[t].used IN
  /\ tab[t].phase = "sent"
  /\ Serve(token.sid, token.gen, WebCaller, None, FALSE)
  /\ tab' = [tab EXCEPT ![t].phase =
       IF Answer(token.sid, token.gen, WebCaller, None, FALSE) = "rotated"
         THEN "answered" ELSE "refused"]
  /\ UNCHANGED <<mode, keyring, owner, barred, binding, storage, events>>

\* The request, or its answer, is lost: fetch throws, nothing is stored.
LoseAnswer(t) ==
  /\ tab[t].phase \in {"sent", "answered", "refused"}
  /\ tab' = [tab EXCEPT ![t].phase = "idle"]
  /\ UNCHANGED <<mode, keyring, owner, barred, session, history, binding, storage, events>>

TakeAnswer_Unchecked(t) ==
  LET next == Token(tab[t].used.sid, tab[t].used.gen + 1) IN
  /\ tab[t].phase \in {"answered", "refused"}
  /\ \/ /\ tab[t].phase = "answered"
        /\ storage' = next
        /\ tab' = [tab EXCEPT ![t] =
             [seen |-> next, phase |-> "retry", used |-> next, fresh |-> TRUE]]
     \/ /\ tab[t].phase = "refused"
        /\ storage' = None /\ tab' = [tab EXCEPT ![t] = Idle]
  /\ UNCHANGED <<mode, keyring, owner, barred, session, history, binding, events>>

\* refreshSession goes on with the answer, if storage is still what it was.
TakeAnswer(t) ==
  LET next == Token(tab[t].used.sid, tab[t].used.gen + 1) IN
  /\ tab[t].phase \in {"answered", "refused"}
  /\ \/ /\ ~Current(t)
        /\ tab' = [tab EXCEPT ![t].seen = storage, ![t].fresh = FALSE, ![t].phase = "idle"]
        /\ UNCHANGED storage
     \/ /\ Current(t) /\ tab[t].phase = "answered" /\ storage = tab[t].used
        /\ storage' = next
        /\ tab' = [tab EXCEPT ![t] =
             [seen |-> next, phase |-> "retry", used |-> next, fresh |-> TRUE]]
     \/ /\ Current(t) /\ tab[t].phase = "refused"
        /\ storage' = None /\ tab' = [tab EXCEPT ![t] = Idle]
  /\ UNCHANGED <<mode, keyring, owner, barred, session, history, binding, events>>

\* The request is repeated with the new token; a second 401 signs out.
RetryRequest(t) ==
  /\ tab[t].phase = "retry"
  /\ IF Current(t) /\ ~Authorized(tab[t].used.sid) /\ storage = tab[t].used
       THEN storage' = None /\ tab' = [tab EXCEPT ![t] = Idle]
       ELSE /\ tab' = [tab EXCEPT ![t].seen = storage, ![t].fresh = FALSE,
                                  ![t].phase = "idle"]
            /\ UNCHANGED storage
  /\ UNCHANGED <<mode, keyring, owner, barred, session, history, binding, events>>

\* revokeSession and revokeAllSessions: the sessions that end with s.
Ended(s, everywhere) == IF everywhere THEN {o \in InUse : session[o].user = session[s].user} ELSE {s}

\* logout and logoutEverywhere: first the server, if it can be reached and
\* accepts, then the storage, whoever's session is in it by then.
SignOut(t, everywhere) ==
  LET s == storage.sid IN
     /\ Event /\ tab[t].phase = "idle" /\ storage # None
     /\ \/ /\ Authorized(s)
           /\ session' = [o \in Session |-> IF o \in Ended(s, everywhere)
                            THEN [session[o] EXCEPT !.revoked = TRUE] ELSE session[o]]
        \/ ~everywhere /\ UNCHANGED session
     /\ tab' = [tab EXCEPT ![t] =
          [seen |-> storage, phase |-> "leaving", used |-> storage, fresh |-> TRUE]]
     /\ UNCHANGED <<mode, keyring, owner, barred, history, binding, storage>>

FinishSignOut(t) ==
  /\ tab[t].phase = "leaving"
  /\ storage' = None /\ tab' = [tab EXCEPT ![t] = Idle]
  /\ UNCHANGED <<mode, keyring, owner, barred, session, history, binding, events>>

-----------------------------------------------------------------------------
Server ==
  \/ \E s \in Session, g \in 0..MaxGeneration, c \in Callers,
        a \in Attempt \union {None}, p \in BOOLEAN : Refresh(s, g, c, a, p)
  \/ \E s \in Session, u \in User, d \in Device, c \in Callers : SignInElsewhere(s, u, d, c)
  \/ \E s \in Session : Expire(s) \/ IssueBinding(s) \/ RevokeBinding(s)
  \/ \E s \in Session, g \in 0..MaxGeneration : LapseRecovery(s, g)
  \/ \E u \in User : Bar(u)
  \/ Redeploy

Tabs ==
  \E t \in Tab :
    \/ \E s \in Session, u \in User : SignIn(t, s, u)
    \/ StartRefresh(t) \/ ServeTab(t) \/ LoseAnswer(t) \/ TakeAnswer(t)
    \/ RetryRequest(t) \/ FinishSignOut(t)
    \/ \E everywhere \in BOOLEAN : SignOut(t, everywhere)

Next == Server \/ Tabs

Spec == Init /\ [][Next]_vars

-----------------------------------------------------------------------------
Generations == 0..MaxGeneration
Tokens == [sid : Session, gen : Generations]
HistoryRows ==
  [state : {"current", "consumed"}, kid : Kid \union {None},
   secret : (Kid \union {None}) \X (Attempt \union {None}), bound : BOOLEAN,
   attempt : Attempt \union {None}, successorKid : Kid \union {None},
   recovery : {"none", "open", "closed"}]
SessionRows ==
  [state : {"used"}, user : User, device : Device, transport : Transports,
   gen : Generations, kid : Kid \union {None}, bound : BOOLEAN,
   revoked : BOOLEAN, reused : BOOLEAN, expired : BOOLEAN]

(* The tables and the tabs hold values of their types, and a session has one    *)
(* history row per generation up to its own.                                    *)
TypeOK ==
  /\ mode \in {"off", "enforce"}
  /\ keyring \in [current : Kid, known : SUBSET Kid]
  /\ owner \in [Device -> User \union {None}] /\ barred \subseteq User
  /\ session \in [Session -> SessionRows \union {Unused}]
  /\ history \in [Session -> Seq(HistoryRows)]
  /\ \A s \in InUse : Len(history[s]) = session[s].gen + 1
  /\ binding \in [Session -> {"none", "active", "revoked"}]
  /\ storage \in Tokens \union {None} /\ events \in 0..MaxEvents
  /\ tab \in [Tab -> [seen : Tokens \union {None}, used : Tokens \union {None}, fresh : BOOLEAN,
                      phase : {"idle", "sent", "answered", "refused", "retry", "leaving"}]]

(* SessionTokenService.rotateCurrent writes the session row and two history     *)
(* rows apart: however often tokens are used again, exactly the last row of a   *)
(* family is current, it is the one the session row describes, and a row that   *)
(* can be recovered names the key its successor was derived with.               *)
HistoryMatchesSession ==
  \A s \in InUse :
    /\ \A g \in 0..session[s].gen : Row(s, g).state = "current" <=> g = session[s].gen
    /\ Last(s).kid = session[s].kid
    /\ \A g \in 0..(session[s].gen - 1) :
         Row(s, g).recovery # "none" =>
           Row(s, g + 1).secret = Derived(Row(s, g).successorKid, Row(s, g).attempt)

(* A client whose last rotation was proven can always lose the answer: while    *)
(* the window is open, the key known and the binding active, the same attempt   *)
(* is answered with the same successor, and the bootstrap accepts that token.   *)
LostAnswerIsRecovered ==
  \A s \in InUse : \A c \in Callers :
    LET g == session[s].gen - 1 IN
    ( /\ g >= 1 /\ Live(s) /\ TransportAllows(session[s].transport, c)
      /\ Row(s, g).recovery = "open" /\ session[s].kid \in keyring.known
      /\ binding[s] = "active" )
    => /\ Answer(s, g, c, Row(s, g).attempt, TRUE) = "recovered"
       /\ Authorized(s) => BootstrapAccepts(s, g + 1, c, TRUE)

(* Revocation is final: whatever refreshes are under way when a session is      *)
(* signed out, found reused or runs out, no token of it is made afterwards and  *)
(* it is never served again.                                                    *)
EndedSessionStaysEnded ==
  [][\A s \in InUse : ~Live(s) => session'[s].gen = session[s].gen /\ ~Live(s)']_vars

(* A late answer never undoes what another tab, or this one, has stored since:  *)
(* an empty storage is filled only by a sign-in, a token is replaced only by    *)
(* its own successor or by a new sign-in.                                       *)
StorageMovesForward ==
  [][(storage' # storage /\ storage' # None) =>
       \/ storage'.gen = 0 /\ storage'.sid \notin InUse
       \/ /\ storage # None /\ storage'.sid = storage.sid
          /\ storage'.gen = storage.gen + 1 /\ storage'.gen <= session[storage.sid].gen]_vars
=============================================================================
