------------------------------ MODULE Accounts ------------------------------
(***************************************************************************)
(* Accounts (services/api/src/modules/auth/auth.service.ts and the         *)
(* deletion job of services/worker/src/jobs.ts): signing in with an        *)
(* identity, binding a phone number and the reward paid for it, merging    *)
(* two accounts, and deleting one after its cooling-off period.            *)
(*                                                                         *)
(* Every operation is one transaction.  A transaction that throws leaves   *)
(* nothing behind and is no step; so a wrong code in a merge preview and   *)
(* the state "expired" of a merge job, which precede a throw, are not here. *)
(***************************************************************************)
EXTENDS Integers, Sequences, FiniteSets, FiniteSetsExt

CONSTANTS
  User,        \* account ids, given out in order as accounts are created
  Subject,     \* identities: an e-mail address, an Apple or a Google subject
  Email,       \* those of them proven by a code; the others by a provider's token
  Phone,       \* phone numbers
  Host,        \* the accounts that organise something
  Challenge,   \* codes that may be open at a time, for an e-mail address or a phone
  Job,         \* account_merge_jobs
  Nobody,      \* no account
  MaxAttempts  \* wrong codes that suspend a challenge, 5 in the code

VARIABLES
  user,       \* identity.users
  identity,   \* auth_identities: the account of each subject
  phone,      \* phone_bindings: the account each number is bound to
  challenge,  \* email_challenges and phone_challenges
  grant,      \* phone_verification_reward_grants: a number is rewarded once for life
  posting,    \* the reward transactions, each with the account code of its entry
  wallet,     \* free_balance; the reward is the unit
  job,        \* identity.account_merge_jobs
  duty        \* what the account still owns: nothing, a live event or group, a draft

vars == <<user, identity, phone, challenge, grant, posting, wallet, job, duty>>

NoUser == [status |-> "none", verified |-> FALSE]
NoChallenge == [state |-> "none"]
NoJob == [state |-> "none"]
ClosedJob == [state |-> "closed"]   \* committed, or expired

Init ==
  /\ user = [u \in User |-> NoUser]
  /\ identity = [s \in Subject |-> Nobody] /\ phone = [p \in Phone |-> Nobody]
  /\ challenge = [c \in Challenge |-> NoChallenge]
  /\ grant = [p \in Phone |-> Nobody] /\ posting = <<>>
  /\ wallet = [u \in User |-> 0]
  /\ job = [j \in Job |-> NoJob]
  /\ duty = [u \in User |-> "nothing"]

Living(u) == user[u].status \in {"active", "deletion_pending"}

\* SessionAuthority serves active accounts only (the sessions themselves are in
\* module Sessions).  It is why the endpoint that cancels a deletion is never
\* reached by an account being deleted.
HasAccess(u) == user[u].status = "active"

-----------------------------------------------------------------------------
(* Codes. *)

SendCode(c, about) ==
  /\ challenge[c] = NoChallenge
  /\ challenge' = [challenge EXCEPT ![c] =
       [state |-> "sent", about |-> about, attempts |-> 0, suspended |-> FALSE]]
  /\ UNCHANGED <<user, identity, phone, grant, posting, wallet, job, duty>>

Open(c) == challenge[c].state = "sent" /\ ~challenge[c].suspended

\* verified_at is set, or the code has run out: the row is never looked at again.
Used(c) == [challenge EXCEPT ![c] = NoChallenge]

\* A wrong code is counted, and the last one allowed suspends the challenge.
\* Signing in and verifying a phone count alike.
WrongCode(c) ==
  LET attempts == challenge[c].attempts + 1 IN
  /\ Open(c)
  /\ challenge' = [challenge EXCEPT
       ![c].attempts = IF attempts > MaxAttempts THEN MaxAttempts ELSE attempts,
       ![c].suspended = attempts >= MaxAttempts]
  /\ UNCHANGED <<user, identity, phone, grant, posting, wallet, job, duty>>

\* Half an hour passes, or the ten minutes of the code.
LapseCode(c) ==
  /\ challenge[c].state = "sent"
  /\ \/ challenge[c].suspended /\ challenge' = [challenge EXCEPT ![c].suspended = FALSE]
     \/ challenge' = Used(c)
  /\ UNCHANGED <<user, identity, phone, grant, posting, wallet, job, duty>>

-----------------------------------------------------------------------------
(* Signing in. *)

NextUser == CHOOSE u \in User : user[u] = NoUser /\ \A v \in User : user[v] = NoUser => u <= v

\* The account of the identity, a new one if there is none; a session for it
\* withdraws a pending deletion.
Enter(s, u) ==
  /\ \/ identity[s] = u /\ Living(u) /\ UNCHANGED identity
     \/ /\ identity[s] = Nobody /\ user[u] = NoUser /\ u = NextUser
        /\ identity' = [identity EXCEPT ![s] = u]
  /\ user' = [user EXCEPT ![u] = [@ EXCEPT !.status = "active"]]

\* What a provider's token proves: an identity that is not an address.
ProvenByProvider(s) == s \notin Email

\* What a code proves: that its receiver holds the address it was sent to. Of a merge, a wrong
\* code is counted in the transaction it fails, and so not at all.
ProvenByCode(c, s) == Open(c) /\ challenge[c].about = s

SignInByCode(c, u) ==
  /\ Open(c) /\ challenge[c].about \in Email
  /\ challenge' = Used(c)
  /\ Enter(challenge[c].about, u)
  /\ UNCHANGED <<phone, grant, posting, wallet, job, duty>>

SignInByProvider(s, u) ==
  /\ ProvenByProvider(s) /\ Enter(s, u)
  /\ UNCHANGED <<phone, challenge, grant, posting, wallet, job, duty>>

-----------------------------------------------------------------------------
(* Phone numbers and their reward. *)

HasReward(u) == \E i \in DOMAIN posting : posting[i].owner = u /\ posting[i].key

CreditPhone(u, p) ==
  IF grant[p] = Nobody /\ ~HasReward(u)
    THEN /\ grant' = [grant EXCEPT ![p] = u]
         /\ posting' = Append(posting, [phone |-> p, account |-> u, owner |-> u, key |-> TRUE])
         /\ wallet' = [wallet EXCEPT ![u] = @ + 1]
    ELSE UNCHANGED <<grant, posting, wallet>>

VerifyPhone(u, c) ==
  LET p == challenge[c].about IN
  /\ HasAccess(u) /\ Open(c) /\ p \in Phone /\ phone[p] \in {Nobody, u}
  /\ challenge' = Used(c)
  /\ user' = [user EXCEPT ![u].verified = TRUE]
  /\ phone' = [phone EXCEPT ![p] = u]
  /\ IF phone[p] = Nobody THEN CreditPhone(u, p) ELSE UNCHANGED <<grant, posting, wallet>>
  /\ UNCHANGED <<identity, job, duty>>

-----------------------------------------------------------------------------
(* Merging: the signed-in account u takes over the account of an identity it     *)
(* proves to hold.                                                              *)

\* The proof is a provider's token, or a code sent to the address.
MergePreview(u, s, j) ==
  /\ HasAccess(u) /\ job[j] = NoJob
  /\ identity[s] \notin {Nobody, u} /\ Living(identity[s])
  /\ \/ ProvenByProvider(s) /\ UNCHANGED challenge
     \/ \E c \in Challenge : ProvenByCode(c, s) /\ challenge' = Used(c)
  /\ job' = [job EXCEPT ![j] = [state |-> "previewed", source |-> identity[s], target |-> u]]
  /\ UNCHANGED <<user, identity, phone, grant, posting, wallet, duty>>

PhoneConflict(a, b) == (\E p \in Phone : phone[p] = a) /\ (\E p \in Phone : phone[p] = b)

MoveOwner(f, a, b) == [x \in DOMAIN f |-> IF f[x] = a THEN b ELSE f[x]]

\* A reward transaction of the source keeps its business key unless the target
\* has the same one; its entry keeps its account code, entries are append-only.
MergedPosting(row, a, b) ==
  IF row.owner = a THEN [row EXCEPT !.owner = b, !.key = @ /\ ~HasReward(b)] ELSE row

MergedWallet_KeepsSource(a, b) == [wallet EXCEPT ![b] = @ + wallet[a]]

MergedWallet(a, b) == [wallet EXCEPT ![b] = @ + wallet[a], ![a] = 0]

MergedIdentity_Left(a, b) == identity

MergedIdentity(a, b) == MoveOwner(identity, a, b)

\* mergeCommit and performAccountMerge.  The source is not asked whether it is
\* still there: it may have been merged or deleted since the preview.
MergeCommit(u, j) ==
  LET a == job[j].source IN
  /\ HasAccess(u) /\ job[j].state = "previewed" /\ job[j].target = u
  /\ ~PhoneConflict(a, u)
  /\ identity' = MergedIdentity(a, u)
  /\ phone' = MoveOwner(phone, a, u)
  /\ posting' = [i \in DOMAIN posting |-> MergedPosting(posting[i], a, u)]
  /\ wallet' = MergedWallet(a, u)
  /\ duty' = [duty EXCEPT ![a] = "nothing",
                          ![u] = IF @ = "nothing" \/ duty[a] = "live" THEN duty[a] ELSE @]
  /\ user' = [user EXCEPT ![u].verified = @ \/ user[a].verified,
                          ![a].status = "anonymized"]
  /\ job' = [job EXCEPT ![j] = ClosedJob]
  /\ UNCHANGED <<challenge, grant>>

\* Ten minutes pass, and the job can no longer be committed.
LapseJob(j) ==
  /\ job[j].state = "previewed" /\ job' = [job EXCEPT ![j] = ClosedJob]
  /\ UNCHANGED <<user, identity, phone, challenge, grant, posting, wallet, duty>>

-----------------------------------------------------------------------------
(* Deletion. *)

\* The account's events and groups, as far as deletion asks for them.
ChangeDuty(u, owned) ==
  /\ owned # duty[u] /\ u \in Host
  /\ HasAccess(u) \/ (duty[u] = "live" /\ owned = "nothing")
  /\ duty' = [duty EXCEPT ![u] = owned]
  /\ UNCHANGED <<user, identity, phone, challenge, grant, posting, wallet, job>>

RequestDeletion(u) ==
  /\ HasAccess(u) /\ duty[u] # "live"
  /\ user' = [user EXCEPT ![u].status = "deletion_pending"]
  /\ UNCHANGED <<identity, phone, challenge, grant, posting, wallet, job, duty>>

\* anonymizeDeletedAccounts, any time after the cooling-off period: unlike the
\* request, it also waits for drafts.
Anonymize(u) ==
  /\ user[u].status = "deletion_pending" /\ duty[u] = "nothing"
  /\ identity' = MoveOwner(identity, u, Nobody) /\ phone' = MoveOwner(phone, u, Nobody)
  /\ user' = [user EXCEPT ![u] = [@ EXCEPT !.status = "anonymized", !.verified = FALSE]]
  /\ UNCHANGED <<challenge, grant, posting, wallet, job, duty>>

-----------------------------------------------------------------------------
Next ==
  \/ \E c \in Challenge :
       \/ \E about \in Email \union Phone : SendCode(c, about)
       \/ WrongCode(c) \/ LapseCode(c)
       \/ \E u \in User : SignInByCode(c, u) \/ VerifyPhone(u, c)
  \/ \E u \in User :
       \/ RequestDeletion(u) \/ Anonymize(u)
       \/ \E s \in Subject : SignInByProvider(s, u)
       \/ \E s \in Subject, j \in Job : MergePreview(u, s, j)
       \/ \E j \in Job : MergeCommit(u, j)
       \/ \E owned \in {"nothing", "live", "draft"} : ChangeDuty(u, owned)
  \/ \E j \in Job : LapseJob(j)

Spec == Init /\ [][Next]_vars

-----------------------------------------------------------------------------
(* The tables hold values of their types; the count of wrong codes never passes  *)
(* its limit, also when a suspension lapses and the next code is wrong again.    *)
TypeOK ==
  /\ user \in [User -> [status : {"none", "active", "deletion_pending", "anonymized"},
                        verified : BOOLEAN]]
  /\ identity \in [Subject -> User \union {Nobody}]
  /\ phone \in [Phone -> User \union {Nobody}]
  /\ grant \in [Phone -> User \union {Nobody}]
  /\ challenge \in [Challenge -> {NoChallenge} \union
       [state : {"sent"}, about : Email \union Phone,
        attempts : 0..MaxAttempts, suspended : BOOLEAN]]
  /\ posting \in Seq([phone : Phone, account : User, owner : User, key : BOOLEAN])
  /\ wallet \in [User -> Nat]
  /\ job \in [Job -> {NoJob, ClosedJob} \union
       [state : {"previewed"}, source : User, target : User]]
  /\ duty \in [User -> {"nothing", "live", "draft"}]

(* An identity or a phone number never leads to an account that has been        *)
(* deleted or merged away, whatever previews, merges, sign-ins and deletions    *)
(* overlap: its holder can always come back in.                                 *)
IdentitiesReachLivingAccounts ==
  /\ \A s \in Subject : identity[s] # Nobody => Living(identity[s])
  /\ \A p \in Phone : phone[p] # Nobody => Living(phone[p])

(* The phone reward is paid once per number and once per account code, for      *)
(* life: not again after the number moved on through a deletion, not again for  *)
(* a second number, not through a merge; and a grant stands for a payment.      *)
RewardedOnce ==
  /\ \A i, k \in DOMAIN posting : i # k =>
       posting[i].phone # posting[k].phone /\ posting[i].account # posting[k].account
  /\ \A p \in Phone : grant[p] # Nobody <=> \E i \in DOMAIN posting : posting[i].phone = p

(* Merging neither makes nor loses points, also when a source is merged twice   *)
(* or after its deletion: the wallets hold exactly what was posted.             *)
MergesConservePoints == MapThenSumSet(LAMBDA u : wallet[u], User) = Len(posting)

=============================================================================
