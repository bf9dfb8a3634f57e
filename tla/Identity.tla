------------------------------- MODULE Identity -------------------------------
(***************************************************************************)
(* Who a user is: the sessions a browser keeps alive, and the accounts with *)
(* their identities, phones and merges. A session of an account that was   *)
(* merged or deleted meets Bar in Sessions; the rows are otherwise         *)
(* disjoint, and a behaviour is about one part: the other stays as it began. *)
(***************************************************************************)
EXTENDS Integers, Sequences, FiniteSets, FiniteSetsExt

CONSTANTS
  Owner, Device, Session, Attempt, Kid, Tab, Browser, None, MaxGeneration, MaxEvents,    \* Sessions
  User, Subject, Email, Phone, Host, Challenge, Job, Nobody, MaxAttempts                 \* Accounts

ASSUME IdentityAssumption ==
  /\ Browser \in Device /\ Tab # {} /\ None \notin Owner \union Kid \union Attempt
  /\ MaxGeneration \in Nat /\ MaxEvents \in Nat
  /\ None \notin [sid : Session, gen : 0..MaxGeneration]
  /\ IsFiniteSet(User) /\ User \subseteq Nat /\ Nobody \notin User /\ MaxAttempts \in Nat \ {0} /\ Subject \intersect Phone = {}
  /\ Email \subseteq Subject /\ Host \subseteq User

VARIABLES
  part,
  mode, keyring, owner, barred, session, history, binding, storage, tab, events,
  user, identity, phone, challenge, grant, posting, wallet, job, duty

SignedIn == INSTANCE Sessions WITH User <- Owner
Known == INSTANCE Accounts

sessionPart == <<mode, keyring, owner, barred, session, history, binding, storage, tab, events>>
accountPart == <<user, identity, phone, challenge, grant, posting, wallet, job, duty>>
identityVars == <<part, sessionPart, accountPart>>

Init ==
  /\ part \in {"sessions", "accounts"}
  /\ SignedIn!Init /\ Known!Init
  /\ part # "sessions" => mode = "off" /\ keyring.current = CHOOSE k \in Kid : TRUE

Next ==
  /\ UNCHANGED part
  /\ \/ part = "sessions" /\ SignedIn!Next /\ UNCHANGED accountPart
     \/ part = "accounts" /\ Known!Next /\ UNCHANGED sessionPart

Spec == Init /\ [][Next]_identityVars

-----------------------------------------------------------------------------
(* Properties: those of the parts *)

\* The refresh history tells the generations of a session apart, and a rotation whose answer
\* was lost can be recovered with the attempt that made it.
RotationsAreRecorded == SignedIn!HistoryMatchesSession /\ SignedIn!LostAnswerIsRecovered

\* A session that has ended makes no token again, and what the tabs keep in storage is only
\* ever replaced by its successor or a new sign-in.
SessionsMoveForward == SignedIn!EndedSessionStaysEnded /\ SignedIn!StorageMovesForward

\* Every identity and phone leads to a living account, over merges and deletions.
IdentitiesReachLivingAccounts == Known!IdentitiesReachLivingAccounts

\* A phone number is rewarded once for life, and merges neither make nor lose points.
PointsSurviveMerges == Known!RewardedOnce /\ Known!MergesConservePoints

=============================================================================
