--------------------------- MODULE Identity_proofs ---------------------------
(* Theorems about the accounts and the sessions composed in Identity, for   *)
(* every value of its constants.                                            *)
EXTENDS Identity, FiniteFacts

-----------------------------------------------------------------------------
(* Accounts: identities and phones lead to living accounts *)

AccountStatuses == {"none", "active", "deletion_pending", "anonymized"}
Postings == [phone : Phone, account : User, owner : User, key : BOOLEAN]

\* A merge that can still be committed is between two different accounts.
JobNamesTwo(row) ==
  row.state = "previewed" => row.source \in User /\ row.target \in User /\ row.source # row.target

\* The tables of Accounts, as far as the theorems need their types.
AccountTables ==
  /\ user \in [User -> [status : AccountStatuses, verified : BOOLEAN]]
  /\ identity \in [Subject -> User \union {Nobody}]
  /\ phone \in [Phone -> User \union {Nobody}]
  /\ grant \in [Phone -> User \union {Nobody}]
  /\ posting \in Seq(Postings)
  /\ job = [j \in Job |-> job[j]] /\ \A j \in Job : JobNamesTwo(job[j])

AccountsInv == AccountTables /\ IdentitiesReachLivingAccounts

LEMMA InitAccounts == Known!Init => AccountsInv
BY IdentityAssumption
   DEF Known!Init, Known!NoUser, Known!NoJob, AccountsInv, AccountTables, AccountStatuses,
       JobNamesTwo, IdentitiesReachLivingAccounts, Known!IdentitiesReachLivingAccounts

\* Signing in leads to a living account, an old one or a new one.
LEMMA EnterAccounts ==
  ASSUME AccountsInv, NEW s \in Subject, NEW u \in User, Known!Enter(s, u),
         UNCHANGED <<phone, grant, posting, job>>
  PROVE  AccountsInv'
<1>1. user' = [user EXCEPT ![u] = [user[u] EXCEPT !.status = "active"]]
  BY DEF Known!Enter
<1>2. identity' = identity \/ identity' = [identity EXCEPT ![s] = u]
  BY DEF Known!Enter
<1>3. AccountTables'
  BY SMTT(30), <1>1, <1>2 DEF AccountsInv, AccountTables, AccountStatuses
<1>4. \A v \in User : Known!Living(v) \/ v = u => Known!Living(v)'
  BY <1>1 DEF AccountsInv, AccountTables, Known!Living, AccountStatuses
<1>5. IdentitiesReachLivingAccounts'
  BY <1>2, <1>3, <1>4
     DEF AccountsInv, AccountTables, IdentitiesReachLivingAccounts,
         Known!IdentitiesReachLivingAccounts
<1> QED
  BY <1>3, <1>5 DEF AccountsInv

LEMMA VerifyPhoneAccounts ==
  ASSUME AccountsInv, NEW u \in User, NEW c \in Challenge, Known!VerifyPhone(u, c)
  PROVE  AccountsInv'
<1> DEFINE p == challenge[c].about
<1>1. /\ user[u].status = "active" /\ p \in Phone
      /\ user' = [user EXCEPT ![u].verified = TRUE]
      /\ phone' = [phone EXCEPT ![p] = u]
      /\ identity' = identity /\ job' = job
      /\ \/ UNCHANGED <<grant, posting>>
         \/ /\ grant' = [grant EXCEPT ![p] = u]
            /\ posting' = Append(posting, [phone |-> p, account |-> u, owner |-> u, key |-> TRUE])
  BY DEF Known!VerifyPhone, Known!HasAccess, Known!CreditPhone
<1> HIDE DEF p
<1>2. AccountTables'
  <2>1. [phone |-> p, account |-> u, owner |-> u, key |-> TRUE] \in Postings
    BY <1>1 DEF Postings
  <2>2. posting' \in Seq(Postings)
    <3>1. \A row \in Postings : Append(posting, row) \in Seq(Postings)
      BY DEF AccountsInv, AccountTables
    <3> QED
      BY <1>1, <2>1, <3>1 DEF AccountsInv, AccountTables
  <2>3. user' \in [User -> [status : AccountStatuses, verified : BOOLEAN]]
    BY ZenonT(60), <1>1 DEF AccountsInv, AccountTables, AccountStatuses
  <2> QED
    BY <1>1, <2>2, <2>3 DEF AccountsInv, AccountTables
<1>3. \A v \in User : Known!Living(v) => Known!Living(v)'
  BY <1>1 DEF AccountsInv, AccountTables, Known!Living, AccountStatuses
<1>4. Known!Living(u)
  BY <1>1 DEF Known!Living
<1>5. IdentitiesReachLivingAccounts'
  BY <1>1, <1>2, <1>3, <1>4
     DEF AccountsInv, AccountTables, IdentitiesReachLivingAccounts,
         Known!IdentitiesReachLivingAccounts
<1> QED
  BY <1>2, <1>5 DEF AccountsInv

\* Whatever pointed at the source points at the target, which has access.
LEMMA MergeAccounts ==
  ASSUME AccountsInv, NEW u \in User, NEW j \in Job, Known!MergeCommit(u, j)
  PROVE  AccountsInv'
<1> DEFINE a == job[j].source
<1>1. /\ a \in User /\ a # u /\ user[u].status = "active"
  BY DEF AccountsInv, AccountTables, JobNamesTwo, Known!MergeCommit, Known!HasAccess
<1>2. /\ identity' = [x \in Subject |-> IF identity[x] = a THEN u ELSE identity[x]]
      /\ phone' = [x \in Phone |-> IF phone[x] = a THEN u ELSE phone[x]]
      /\ grant' = grant
  BY DEF AccountsInv, AccountTables, Known!MergeCommit, Known!MergedIdentity, Known!MoveOwner
<1>3. user' = [user EXCEPT ![u].verified = @ \/ user[a].verified, ![a].status = "anonymized"]
  BY DEF Known!MergeCommit
<1>4. job' = [job EXCEPT ![j] = Known!ClosedJob]
  BY DEF Known!MergeCommit
<1>5. posting' \in Seq(Postings)
  <2>1. posting' = [i \in DOMAIN posting |-> Known!MergedPosting(posting[i], a, u)]
    BY DEF Known!MergeCommit
  <2>2. \A i \in DOMAIN posting : Known!MergedPosting(posting[i], a, u) \in Postings
    <3> TAKE i \in DOMAIN posting
    <3>1. posting[i] \in Postings
      BY DEF AccountsInv, AccountTables
    <3>2. (posting[i].key /\ ~Known!HasReward(u)) \in BOOLEAN
      OBVIOUS
    <3> QED
      BY <1>1, <3>1, <3>2 DEF Known!MergedPosting, Postings
  <2> QED
    BY <2>1, <2>2 DEF AccountsInv, AccountTables
<1> HIDE DEF a
<1>6. AccountTables'
  <2>1. user' \in [User -> [status : AccountStatuses, verified : BOOLEAN]]
    BY <1>1, <1>3 DEF AccountsInv, AccountTables, AccountStatuses
  <2>2. job' = [k \in Job |-> job'[k]] /\ \A k \in Job : JobNamesTwo(job'[k])
    BY <1>4 DEF AccountsInv, AccountTables, JobNamesTwo, Known!ClosedJob
  <2>3. /\ identity' \in [Subject -> User \union {Nobody}]
        /\ phone' \in [Phone -> User \union {Nobody}]
        /\ grant' \in [Phone -> User \union {Nobody}]
    BY <1>1, <1>2 DEF AccountsInv, AccountTables
  <2> QED
    BY <1>5, <2>1, <2>2, <2>3 DEF AccountTables
<1>7. Known!Living(u)' /\ \A v \in User \ {a} : Known!Living(v) => Known!Living(v)'
  BY <1>1, <1>3 DEF AccountsInv, AccountTables, Known!Living, AccountStatuses
<1>8. IdentitiesReachLivingAccounts'
  BY <1>1, <1>2, <1>7, IdentityAssumption
     DEF AccountsInv, AccountTables, IdentitiesReachLivingAccounts,
         Known!IdentitiesReachLivingAccounts
<1> QED
  BY <1>6, <1>8 DEF AccountsInv

\* A deleted account loses its identities and phones first.
LEMMA AnonymizeAccounts ==
  ASSUME AccountsInv, NEW u \in User, Known!Anonymize(u)
  PROVE  AccountsInv'
<1>1. /\ identity' = [x \in Subject |-> IF identity[x] = u THEN Nobody ELSE identity[x]]
      /\ phone' = [x \in Phone |-> IF phone[x] = u THEN Nobody ELSE phone[x]]
      /\ user' = [user EXCEPT ![u] = [@ EXCEPT !.status = "anonymized", !.verified = FALSE]]
      /\ UNCHANGED <<grant, posting, job>>
  BY DEF AccountsInv, AccountTables, Known!Anonymize, Known!MoveOwner
<1>2. AccountTables'
  BY ZenonT(60), <1>1 DEF AccountsInv, AccountTables, AccountStatuses
<1>3. \A v \in User \ {u} : Known!Living(v) => Known!Living(v)'
  BY <1>1 DEF AccountsInv, AccountTables, Known!Living, AccountStatuses
<1>4. IdentitiesReachLivingAccounts'
  BY <1>1, <1>3, IdentityAssumption
     DEF AccountsInv, AccountTables, IdentitiesReachLivingAccounts,
         Known!IdentitiesReachLivingAccounts
<1> QED
  BY <1>2, <1>4 DEF AccountsInv

\* The steps that open, change or close neither identity nor phone.
LEMMA OtherAccounts ==
  ASSUME AccountsInv,
         \/ \E c \in Challenge :
              \/ \E about \in Email \union Phone : Known!SendCode(c, about)
              \/ Known!WrongCode(c) \/ Known!LapseCode(c)
         \/ \E u \in User :
              \/ Known!RequestDeletion(u)
              \/ \E s \in Subject, j \in Job : Known!MergePreview(u, s, j)
              \/ \E owned \in {"nothing", "live", "draft"} : Known!ChangeDuty(u, owned)
         \/ \E j \in Job : Known!LapseJob(j)
  PROVE  AccountsInv'
<1>1. UNCHANGED <<identity, phone, grant, posting>>
  BY DEF Known!SendCode, Known!WrongCode, Known!LapseCode, Known!RequestDeletion,
         Known!MergePreview, Known!ChangeDuty, Known!LapseJob
<1>2. \/ user' = user
      \/ \E u \in User : user[u].status = "active"
                         /\ user' = [user EXCEPT ![u].status = "deletion_pending"]
  BY DEF Known!SendCode, Known!WrongCode, Known!LapseCode, Known!RequestDeletion,
         Known!MergePreview, Known!ChangeDuty, Known!LapseJob, Known!HasAccess
<1>3. \/ job' = job
      \/ \E j \in Job : \E row : JobNamesTwo(row) /\ job' = [job EXCEPT ![j] = row]
  <2>1. ASSUME NEW u \in User, NEW s \in Subject, NEW j \in Job, Known!MergePreview(u, s, j)
        PROVE  \E row : JobNamesTwo(row) /\ job' = [job EXCEPT ![j] = row]
    <3>1. identity[s] \in User /\ identity[s] # u
      BY <2>1 DEF AccountsInv, AccountTables, Known!MergePreview
    <3>2. JobNamesTwo([state |-> "previewed", source |-> identity[s], target |-> u])
      BY <3>1 DEF JobNamesTwo
    <3> QED
      BY <2>1, <3>2 DEF Known!MergePreview
  <2>2. ASSUME NEW j \in Job, Known!LapseJob(j)
        PROVE  \E row : JobNamesTwo(row) /\ job' = [job EXCEPT ![j] = row]
    <3>1. JobNamesTwo(Known!ClosedJob)
      BY DEF JobNamesTwo, Known!ClosedJob
    <3> QED
      BY <2>2, <3>1 DEF Known!LapseJob
  <2> QED
    BY <2>1, <2>2 DEF Known!SendCode, Known!WrongCode, Known!LapseCode,
                      Known!RequestDeletion, Known!ChangeDuty
<1>4. AccountTables'
  <2>1. user' \in [User -> [status : AccountStatuses, verified : BOOLEAN]]
    BY <1>2 DEF AccountsInv, AccountTables, AccountStatuses
  <2>2. job' = [k \in Job |-> job'[k]] /\ \A k \in Job : JobNamesTwo(job'[k])
    BY <1>3 DEF AccountsInv, AccountTables
  <2> QED
    BY <1>1, <2>1, <2>2 DEF AccountsInv, AccountTables
<1>5. \A v \in User : Known!Living(v) => Known!Living(v)'
  BY <1>2 DEF AccountsInv, AccountTables, Known!Living, AccountStatuses
<1>6. IdentitiesReachLivingAccounts'
  BY <1>1, <1>5
     DEF AccountsInv, AccountTables, IdentitiesReachLivingAccounts,
         Known!IdentitiesReachLivingAccounts
<1> QED
  BY <1>4, <1>6 DEF AccountsInv

LEMMA StepAccounts == AccountsInv /\ Known!Next => AccountsInv'
<1> SUFFICES ASSUME AccountsInv, Known!Next
             PROVE  AccountsInv'
  OBVIOUS
<1>1. ASSUME NEW c \in Challenge, NEW u \in User, Known!SignInByCode(c, u)
      PROVE  AccountsInv'
  <2>1. challenge[c].about \in Subject
    BY <1>1, IdentityAssumption DEF Known!SignInByCode
  <2> QED
    BY <1>1, <2>1, EnterAccounts DEF Known!SignInByCode
<1>2. ASSUME NEW u \in User, NEW s \in Subject, Known!SignInByProvider(s, u)
      PROVE  AccountsInv'
  BY <1>2, EnterAccounts DEF Known!SignInByProvider
<1> QED
  BY <1>1, <1>2, VerifyPhoneAccounts, MergeAccounts, AnonymizeAccounts, OtherAccounts
     DEF Known!Next

\* What one part does leaves the other's tables as they were.
LEMMA AccountsFrame == AccountsInv /\ UNCHANGED accountPart => AccountsInv'
BY DEF AccountsInv, AccountTables, IdentitiesReachLivingAccounts,
       Known!IdentitiesReachLivingAccounts, Known!Living, accountPart

LEMMA AccountsAlways == Spec => []AccountsInv
<1>1. Init => AccountsInv
  BY InitAccounts DEF Init
<1>2. AccountsInv /\ [Next]_identityVars => AccountsInv'
  BY StepAccounts, AccountsFrame DEF Next, identityVars, accountPart
<1> QED
  BY <1>1, <1>2, PTL DEF Spec

\* Whatever sign-ins, merges of stale previews and deletions overlap, an identity
\* or a phone number never leads to an account that was deleted or merged away.
THEOREM IdentitiesAlwaysReach == Spec => []IdentitiesReachLivingAccounts
<1>1. AccountsInv => IdentitiesReachLivingAccounts
  BY DEF AccountsInv
<1> QED
  BY <1>1, AccountsAlways, PTL

-----------------------------------------------------------------------------
(* Accounts: the reward of a phone number *)

\* A reward still carries its key and its owner while the account it was paid to
\* lives, so that the account is not paid again; merged or deleted accounts never
\* verify a number again.
RewardsStayWithTheLiving ==
  \A i \in DOMAIN posting :
    /\ user[posting[i].account].status # "none"
    /\ user[posting[i].account].status # "anonymized"
         => posting[i].owner = posting[i].account /\ posting[i].key

RewardsInv == AccountsInv /\ Known!RewardedOnce /\ RewardsStayWithTheLiving

LEMMA InitRewards == Known!Init => RewardsInv
BY InitAccounts DEF Known!Init, RewardsInv, Known!RewardedOnce, RewardsStayWithTheLiving

LEMMA PaidAccounts ==
  ASSUME AccountsInv
  PROVE  \A i \in DOMAIN posting : posting[i] \in Postings /\ posting[i].account \in User
<1>1. \A i \in DOMAIN posting : posting[i] \in Postings
  BY DEF AccountsInv, AccountTables
<1> QED
  BY <1>1 DEF Postings

\* Steps that pay no reward, and keep for the living what the living have.
LEMMA QuietRewards ==
  ASSUME RewardsInv, AccountsInv', UNCHANGED <<grant, posting>>,
         \A v \in User : /\ user[v].status # "none" => user'[v].status # "none"
                         /\ user[v].status = "anonymized" => user'[v].status = "anonymized"
  PROVE  RewardsInv'
<1>1. \A i \in DOMAIN posting : posting[i].account \in User
  BY PaidAccounts DEF RewardsInv
<1>2. grant' = grant /\ posting' = posting
  OBVIOUS
<1>3. Known!RewardedOnce'
  BY <1>2 DEF RewardsInv, Known!RewardedOnce
<1>4. RewardsStayWithTheLiving'
  BY <1>1, <1>2 DEF RewardsInv, RewardsStayWithTheLiving
<1> QED
  BY <1>3, <1>4 DEF RewardsInv

LEMMA VerifyPhoneRewards ==
  ASSUME RewardsInv, AccountsInv', NEW u \in User, NEW c \in Challenge, Known!VerifyPhone(u, c)
  PROVE  RewardsInv'
<1> DEFINE p == challenge[c].about
           new == [phone |-> p, account |-> u, owner |-> u, key |-> TRUE]
<1>1. /\ user[u].status = "active" /\ p \in Phone
      /\ user' = [user EXCEPT ![u].verified = TRUE]
      /\ \/ UNCHANGED <<grant, posting>>
         \/ /\ grant[p] = Nobody /\ ~Known!HasReward(u)
            /\ grant' = [grant EXCEPT ![p] = u]
            /\ posting' = Append(posting, new)
  BY DEF Known!VerifyPhone, Known!HasAccess, Known!CreditPhone
<1>2. \A v \in User : user'[v].status = user[v].status
  BY <1>1 DEF RewardsInv, AccountsInv, AccountTables
<1>3. CASE UNCHANGED <<grant, posting>>
  BY <1>2, <1>3, QuietRewards
<1>4. CASE /\ grant[p] = Nobody /\ ~Known!HasReward(u)
           /\ grant' = [grant EXCEPT ![p] = u]
           /\ posting' = Append(posting, new)
  <2>1. posting \in Seq(Postings)
    BY DEF RewardsInv, AccountsInv, AccountTables
  <2> HIDE DEF p
  <2>2. new \in Postings /\ new.phone = p /\ new.account = u /\ new.owner = u /\ new.key
    BY <1>1 DEF Postings
  <2> HIDE DEF new
  <2>3. /\ DOMAIN posting' = DOMAIN posting \union {Len(posting) + 1}
        /\ Len(posting) + 1 \notin DOMAIN posting
        /\ posting'[Len(posting) + 1] = new
        /\ \A i \in DOMAIN posting : posting'[i] = posting[i]
    BY <1>4, <2>1, <2>2
  <2>4. \A i \in DOMAIN posting : posting[i].phone # p
    BY <1>1, <1>4 DEF RewardsInv, Known!RewardedOnce
  <2>5. \A i \in DOMAIN posting : posting[i].account # u
    BY <1>1, <1>4 DEF RewardsInv, RewardsStayWithTheLiving, Known!HasReward
  <2>6. \A i, k \in DOMAIN posting' : i # k =>
          posting'[i].phone # posting'[k].phone /\ posting'[i].account # posting'[k].account
    BY <2>2, <2>3, <2>4, <2>5 DEF RewardsInv, Known!RewardedOnce
  <2>7. \A q \in Phone : grant'[q] # Nobody <=> \E i \in DOMAIN posting' : posting'[i].phone = q
    <3>1. ASSUME NEW q \in Phone, q # p
          PROVE  grant'[q] = grant[q]
      BY <1>4, <3>1 DEF RewardsInv, AccountsInv, AccountTables
    <3>2. grant'[p] = u /\ u # Nobody
      BY <1>1, <1>4, IdentityAssumption DEF RewardsInv, AccountsInv, AccountTables
    <3>3. \A q \in Phone : grant[q] # Nobody <=> \E i \in DOMAIN posting : posting[i].phone = q
      BY DEF RewardsInv, Known!RewardedOnce
    <3> TAKE q \in Phone
    <3>4. CASE q = p
      BY <2>2, <2>3, <3>2, <3>4
    <3>5. CASE q # p
      BY <2>2, <2>3, <3>1, <3>3, <3>5
    <3> QED
      BY <3>4, <3>5
  <2>8. RewardsStayWithTheLiving'
    <3>1. \A i \in DOMAIN posting : posting[i].account \in User
      BY PaidAccounts DEF RewardsInv
    <3> QED
      BY <1>1, <1>2, <2>2, <2>3, <3>1 DEF RewardsInv, RewardsStayWithTheLiving
  <2> QED
    BY <2>6, <2>7, <2>8 DEF RewardsInv, Known!RewardedOnce
<1> QED
  BY <1>1, <1>3, <1>4

\* The source's rewards change hands or lose their key, and the source is gone.
LEMMA MergeRewards ==
  ASSUME RewardsInv, AccountsInv', NEW u \in User, NEW j \in Job, Known!MergeCommit(u, j)
  PROVE  RewardsInv'
<1> DEFINE a == job[j].source
<1>1. /\ a \in User /\ a # u /\ grant' = grant
      /\ user' = [user EXCEPT ![u].verified = @ \/ user[a].verified, ![a].status = "anonymized"]
      /\ posting' = [i \in DOMAIN posting |-> Known!MergedPosting(posting[i], a, u)]
  BY DEF RewardsInv, AccountsInv, AccountTables, JobNamesTwo, Known!MergeCommit
<1> HIDE DEF a
<1>2. /\ user'[a].status = "anonymized"
      /\ \A v \in User \ {a} : user'[v].status = user[v].status
  BY SMTT(30), <1>1 DEF RewardsInv, AccountsInv, AccountTables, AccountStatuses
<1>3. \A i \in DOMAIN posting : posting[i] \in Postings
  BY DEF RewardsInv, AccountsInv, AccountTables
<1>4. /\ DOMAIN posting' = DOMAIN posting
      /\ \A i \in DOMAIN posting :
           /\ posting'[i].phone = posting[i].phone /\ posting'[i].account = posting[i].account
           /\ posting[i].owner # a => posting'[i] = posting[i]
  BY <1>1, <1>3 DEF Known!MergedPosting, Postings
<1>5. Known!RewardedOnce'
  BY <1>1, <1>4 DEF RewardsInv, Known!RewardedOnce
<1>6. RewardsStayWithTheLiving'
  <2> SUFFICES ASSUME NEW i \in DOMAIN posting
               PROVE  /\ user'[posting[i].account].status # "none"
                      /\ user'[posting[i].account].status # "anonymized"
                           => posting'[i].owner = posting[i].account /\ posting'[i].key
    BY <1>4 DEF RewardsStayWithTheLiving
  <2>1. posting[i].account \in User
    BY <1>3 DEF Postings
  <2>2. CASE posting[i].account = a
    BY <1>2, <2>2
  <2>3. CASE posting[i].account # a
    BY <1>2, <1>4, <2>1, <2>3 DEF RewardsInv, RewardsStayWithTheLiving
  <2> QED
    BY <2>2, <2>3
<1> QED
  BY SMTT(30), <1>5, <1>6 DEF RewardsInv

LEMMA StepRewards == RewardsInv /\ AccountsInv' /\ Known!Next => RewardsInv'
<1> SUFFICES ASSUME RewardsInv, AccountsInv', Known!Next
             PROVE  RewardsInv'
  OBVIOUS
<1> USE DEF RewardsInv, AccountsInv, AccountTables, AccountStatuses
<1>1. ASSUME NEW s \in Subject, NEW u \in User, Known!Enter(s, u), UNCHANGED <<grant, posting>>
      PROVE  RewardsInv'
  <2>1. /\ user' = [user EXCEPT ![u] = [user[u] EXCEPT !.status = "active"]]
        /\ user[u].status # "anonymized"
    BY <1>1 DEF Known!Enter, Known!Living, Known!NoUser
  <2>2. \A v \in User : /\ user[v].status # "none" => user'[v].status # "none"
                        /\ user[v].status = "anonymized" => user'[v].status = "anonymized"
    BY <2>1
  <2> QED
    BY <1>1, <2>2, QuietRewards
<1>2. ASSUME NEW c \in Challenge, NEW u \in User, Known!SignInByCode(c, u)
      PROVE  RewardsInv'
  <2>1. challenge[c].about \in Subject
    BY <1>2, IdentityAssumption DEF Known!SignInByCode
  <2> QED
    BY <1>1, <1>2, <2>1 DEF Known!SignInByCode
<1>3. ASSUME NEW u \in User, NEW s \in Subject, Known!SignInByProvider(s, u)
      PROVE  RewardsInv'
  BY <1>1, <1>3 DEF Known!SignInByProvider
<1>4. ASSUME NEW u \in User, Known!RequestDeletion(u) \/ Known!Anonymize(u)
      PROVE  RewardsInv'
  <2>1. /\ UNCHANGED <<grant, posting>>
        /\ \A v \in User : /\ user[v].status # "none" => user'[v].status # "none"
                           /\ user[v].status = "anonymized" => user'[v].status = "anonymized"
    BY <1>4 DEF Known!RequestDeletion, Known!Anonymize, Known!HasAccess
  <2> QED
    BY <2>1, QuietRewards
<1>5. ASSUME UNCHANGED <<user, grant, posting>>
      PROVE  RewardsInv'
  BY <1>5, QuietRewards
<1>6. CASE \/ \E c \in Challenge :
                \/ \E about \in Email \union Phone : Known!SendCode(c, about)
                \/ Known!WrongCode(c) \/ Known!LapseCode(c)
           \/ \E u \in User :
                \/ \E s \in Subject, j \in Job : Known!MergePreview(u, s, j)
                \/ \E owned \in {"nothing", "live", "draft"} : Known!ChangeDuty(u, owned)
           \/ \E j \in Job : Known!LapseJob(j)
  BY <1>5, <1>6 DEF Known!SendCode, Known!WrongCode, Known!LapseCode, Known!MergePreview,
                    Known!ChangeDuty, Known!LapseJob
<1> HIDE DEF RewardsInv, AccountsInv, AccountTables, AccountStatuses
<1> QED
  BY <1>2, <1>3, <1>4, <1>6, VerifyPhoneRewards, MergeRewards DEF Known!Next

-----------------------------------------------------------------------------
(* Accounts: the wallets hold the rewards that were posted *)

PointsInv ==
  RewardsInv /\ wallet \in [User -> Int] /\ Sum(wallet, User) = Len(posting)

LEMMA PointsSums == Known!MergesConservePoints <=> Sum(wallet, User) = Len(posting)
BY Zenon DEF Known!MergesConservePoints, Known!MapThenSumSet, Known!MapThenFoldSet,
             Sum, MapThenSumSet, MapThenFoldSet

LEMMA UserFinite == IsFiniteSet(User)
BY IdentityAssumption

LEMMA InitPoints == Known!Init => PointsInv
<1> SUFFICES ASSUME Known!Init PROVE PointsInv
  OBVIOUS
<1>1. wallet \in [User -> Int] /\ (\A u \in User : wallet[u] = 0) /\ Len(posting) = 0
  BY DEF Known!Init
<1>2. Sum(wallet, User) = 0
  BY <1>1, IdentityAssumption, SumSign
<1> QED
  BY <1>1, <1>2, InitRewards DEF PointsInv

LEMMA PointsCredited ==
  ASSUME NEW w \in [User -> Int], NEW u \in User,
         NEW v, v = [w EXCEPT ![u] = @ + 1]
  PROVE  v \in [User -> Int] /\ Sum(v, User) = Sum(w, User) + 1
<1>1. w[u] \in Int /\ v \in [User -> Int] /\ Updated(v, w, User, u, w[u] + 1)
  BY DEF Updated
<1>2. Sum(v, User) = Sum(w, User) - w[u] + (w[u] + 1)
  BY <1>1, UserFinite, SumUpdate
<1>3. Sum(w, User) \in Int
  BY UserFinite, SumInt
<1> QED
  BY <1>1, <1>2, <1>3

Transferred(v, w, a, u) == v = [w EXCEPT ![u] = @ + w[a], ![a] = 0]

\* What the target is credited with is what the source loses, because they are
\* two accounts: a preview of an account with itself would lose its points.
LEMMA PointsMoved ==
  ASSUME NEW w \in [User -> Int], NEW a \in User, NEW u \in User, a # u,
         NEW v, Transferred(v, w, a, u)
  PROVE  v \in [User -> Int] /\ Sum(v, User) = Sum(w, User)
<1> DEFINE half == [w EXCEPT ![u] = @ + w[a]]
<1>1. /\ w[u] \in Int /\ w[a] \in Int /\ half[a] = w[a] /\ v \in [User -> Int]
      /\ Updated(half, w, User, u, w[u] + w[a]) /\ Updated(v, half, User, a, 0)
  BY DEF Updated, Transferred
<1> HIDE DEF half
<1>2. Sum(half, User) = Sum(w, User) - w[u] + (w[u] + w[a])
  BY <1>1, UserFinite, SumUpdate
<1>3. Sum(v, User) = Sum(half, User) - half[a] + 0
  BY <1>1, UserFinite, SumUpdate
<1>4. Sum(w, User) \in Int
  BY UserFinite, SumInt
<1> QED
  BY <1>1, <1>2, <1>3, <1>4

\* The reward is posted and credited in one transaction.
LEMMA VerifyPhonePoints ==
  ASSUME PointsInv, RewardsInv', NEW u \in User, NEW c \in Challenge, Known!VerifyPhone(u, c)
  PROVE  PointsInv'
<1>1. CASE UNCHANGED <<posting, wallet>>
  BY <1>1 DEF PointsInv
<1>2. CASE /\ \E row : posting' = Append(posting, row)
           /\ wallet' = [wallet EXCEPT ![u] = @ + 1]
  <2>1. posting \in Seq(Postings) /\ posting' \in Seq(Postings)
    BY DEF PointsInv, RewardsInv, AccountsInv, AccountTables
  <2>2. Len(posting') = Len(posting) + 1
    BY <1>2, <2>1
  <2>3. wallet \in [User -> Int] /\ Sum(wallet, User) = Len(posting)
    BY DEF PointsInv
  <2>4. wallet' \in [User -> Int] /\ Sum(wallet', User) = Sum(wallet, User) + 1
    BY <1>2, <2>3, PointsCredited, Zenon
  <2>5. Sum(wallet', User) = Len(posting')
    BY <2>2, <2>3, <2>4, Zenon
  <2> QED
    BY <2>4, <2>5, Zenon DEF PointsInv
<1> QED
  BY <1>1, <1>2 DEF Known!VerifyPhone, Known!CreditPhone

\* A merge leaves the number of postings, and the points they stand for, as it was.
LEMMA MergePoints ==
  ASSUME PointsInv, RewardsInv', NEW u \in User, NEW j \in Job, Known!MergeCommit(u, j)
  PROVE  PointsInv'
<1> DEFINE a == job[j].source
<1>1. /\ a \in User /\ a # u
      /\ Transferred(wallet', wallet, a, u)
      /\ posting' = [i \in DOMAIN posting |-> Known!MergedPosting(posting[i], a, u)]
  BY DEF PointsInv, RewardsInv, AccountsInv, AccountTables, JobNamesTwo,
         Known!MergeCommit, Known!MergedWallet, Transferred
<1> HIDE DEF a
<1>2. Len(posting') = Len(posting)
  <2>1. posting \in Seq(Postings) /\ posting' \in Seq(Postings)
    BY DEF PointsInv, RewardsInv, AccountsInv, AccountTables
  <2>2. DOMAIN posting' = DOMAIN posting
    BY <1>1
  <2> QED
    BY <2>1, <2>2
<1>3. wallet \in [User -> Int] /\ Sum(wallet, User) = Len(posting)
  BY DEF PointsInv
<1>4. wallet' \in [User -> Int] /\ Sum(wallet', User) = Sum(wallet, User)
  BY <1>1, <1>3, PointsMoved, Zenon
<1>5. Sum(wallet', User) = Len(posting')
  BY <1>2, <1>3, <1>4, Zenon
<1> QED
  BY <1>4, <1>5, Zenon DEF PointsInv

LEMMA StepPoints == PointsInv /\ RewardsInv' /\ Known!Next => PointsInv'
<1> SUFFICES ASSUME PointsInv, RewardsInv', Known!Next
             PROVE  PointsInv'
  OBVIOUS
<1> DEFINE Quiet == posting' = posting /\ wallet' = wallet
<1>1. ASSUME NEW c \in Challenge,
             \/ \E about \in Email \union Phone : Known!SendCode(c, about)
             \/ Known!WrongCode(c) \/ Known!LapseCode(c)
             \/ \E u \in User : Known!SignInByCode(c, u)
      PROVE  Quiet
  BY <1>1 DEF Known!SendCode, Known!WrongCode, Known!LapseCode, Known!SignInByCode
<1>2. ASSUME NEW u \in User,
             \/ Known!RequestDeletion(u) \/ Known!Anonymize(u)
             \/ \E s \in Subject : Known!SignInByProvider(s, u)
      PROVE  Quiet
  BY <1>2 DEF Known!RequestDeletion, Known!Anonymize, Known!SignInByProvider
<1>3. ASSUME NEW u \in User,
             \/ \E s \in Subject, j \in Job : Known!MergePreview(u, s, j)
             \/ \E owned \in {"nothing", "live", "draft"} : Known!ChangeDuty(u, owned)
      PROVE  Quiet
  BY <1>3 DEF Known!MergePreview, Known!ChangeDuty
<1>4. ASSUME NEW j \in Job, Known!LapseJob(j)
      PROVE  Quiet
  BY <1>4 DEF Known!LapseJob
<1>5. Quiet => PointsInv'
  BY DEF PointsInv
<1> HIDE DEF Quiet
<1> QED
  BY <1>1, <1>2, <1>3, <1>4, <1>5, VerifyPhonePoints, MergePoints DEF Known!Next

\* A phone number is rewarded once and an account is rewarded once, for life: not
\* after the number moved on, not for a second number, not through a merge; and
\* the wallets together hold exactly the rewards that were posted, also when a
\* source is merged twice or after its deletion.
THEOREM PointsAlwaysSurvive == Spec => []PointsSurviveMerges
<1>1. Init => PointsInv
  BY InitPoints DEF Init
<1>2. PointsInv /\ UNCHANGED accountPart => PointsInv'
  <2> SUFFICES ASSUME PointsInv, UNCHANGED accountPart PROVE PointsInv'
    OBVIOUS
  <2>1. RewardsInv'
    BY AccountsFrame, QuietRewards DEF PointsInv, RewardsInv, accountPart
  <2> QED
    BY <2>1 DEF PointsInv, accountPart
<1>3. PointsInv /\ [Next]_identityVars => PointsInv'
  <2>1. PointsInv => RewardsInv /\ AccountsInv
    BY DEF PointsInv, RewardsInv
  <2>2. AccountsInv /\ Known!Next => AccountsInv'
    BY StepAccounts
  <2>3. RewardsInv /\ AccountsInv' /\ Known!Next => RewardsInv'
    BY StepRewards
  <2> QED
    BY <1>2, <2>1, <2>2, <2>3, StepPoints DEF Next, identityVars, accountPart
<1>4. PointsInv => PointsSurviveMerges
  BY PointsSums DEF PointsInv, RewardsInv, PointsSurviveMerges
<1> QED
  BY <1>1, <1>3, <1>4, PTL DEF Spec

-----------------------------------------------------------------------------
(* Sessions: tables, and what a step may do to them *)

\* The tables of Sessions, as far as the theorems need their types: a session in
\* use has one history row per generation.
SessionTables ==
  /\ keyring \in [current : Kid, known : SUBSET Kid]
  /\ session = [s \in Session |-> session[s]] /\ history = [s \in Session |-> history[s]]
  /\ binding = [s \in Session |-> binding[s]]
  /\ \A s \in SignedIn!InUse :
       /\ session[s] \in SignedIn!SessionRows
       /\ history[s] \in Seq(SignedIn!HistoryRows)
       /\ Len(history[s]) = session[s].gen + 1

\* The current token of a living session is rotated.
Rotated(s) ==
  /\ s \in SignedIn!InUse /\ SignedIn!Live(s) /\ session[s].gen < MaxGeneration
  /\ \E a \in Attempt \union {None}, p \in BOOLEAN : SignedIn!RotateCurrent(s, a, p)

\* Rows of sessions are marked: revoked, reused, expired or bound, never the reverse.
Marked ==
  /\ history' = history
  /\ session' = [s \in Session |-> session'[s]]
  /\ \A s \in Session :
       \/ session'[s] = session[s]
       \/ /\ s \in SignedIn!InUse
          /\ \E f \in {"bound", "revoked", "reused", "expired"} :
               session'[s] = [session[s] EXCEPT ![f] = TRUE]
       \/ /\ s \in SignedIn!InUse
          /\ session'[s] = [session[s] EXCEPT !.reused = TRUE, !.revoked = TRUE]

\* A session begins, with a token of generation 0.
Begun(s) ==
  /\ s \in Session \ SignedIn!InUse
  /\ \E row \in SignedIn!SessionRows :
       /\ row.gen = 0 /\ row.kid = None
       /\ session' = [session EXCEPT ![s] = row]
  /\ history' = [history EXCEPT ![s] =
       <<SignedIn!CurrentRow(None, SignedIn!RandomSecret, FALSE)>>]

\* A recovery window closes.
Closed(s) ==
  /\ s \in SignedIn!InUse /\ session' = session
  /\ \E g \in 0..session[s].gen :
       /\ SignedIn!Row(s, g).recovery = "open"
       /\ history' = [history EXCEPT ![s][g + 1].recovery = "closed"]

SessionEffect ==
  \/ UNCHANGED <<session, history>>
  \/ \E s \in Session : Rotated(s) \/ Begun(s) \/ Closed(s)
  \/ Marked

LEMMA ServeEffect ==
  ASSUME SessionTables, NEW s \in SignedIn!InUse, NEW g, NEW c,
         NEW a \in Attempt \union {None}, NEW p \in BOOLEAN, SignedIn!Serve(s, g, c, a, p)
  PROVE  /\ SessionEffect
         /\ SignedIn!Answer(s, g, c, a, p) = "rotated" =>
              g = session[s].gen /\ SignedIn!RotateCurrent(s, a, p)
<1>1. s \in Session
  BY DEF SignedIn!InUse
<1>2. SignedIn!Answer(s, g, c, a, p) = "rotated" =>
        SignedIn!Live(s) /\ g = session[s].gen
  BY DEF SignedIn!Answer, SignedIn!RecoverConsumed
<1>3. CASE /\ SignedIn!Answer(s, g, c, a, p) = "rotated"
           /\ session[s].gen < MaxGeneration /\ SignedIn!RotateCurrent(s, a, p)
  BY <1>1, <1>2, <1>3 DEF SessionEffect, Rotated
<1>4. CASE /\ SignedIn!Answer(s, g, c, a, p) = "reused"
           /\ session' = [session EXCEPT ![s].reused = TRUE, ![s].revoked = TRUE]
           /\ UNCHANGED history
  BY <1>1, <1>4 DEF SessionEffect, Marked, SessionTables
<1>5. CASE /\ SignedIn!Answer(s, g, c, a, p) \in {"refused", "recovered"}
           /\ UNCHANGED <<session, history>>
  BY <1>5 DEF SessionEffect
<1> QED
  BY <1>3, <1>4, <1>5 DEF SignedIn!Serve

LEMMA CreateEffect ==
  ASSUME SessionTables, NEW s \in Session, NEW u \in Owner, NEW d \in Device,
         NEW c \in SignedIn!Callers, SignedIn!CreateSession(s, u, d, c)
  PROVE  Begun(s)
<1> DEFINE row == [state |-> "used", user |-> u, device |-> d,
                   transport |-> SignedIn!NewTransport(c),
                   gen |-> 0, kid |-> None, bound |-> FALSE,
                   revoked |-> FALSE, reused |-> FALSE, expired |-> FALSE]
<1>1. SignedIn!NewTransport(c) \in SignedIn!Transports
  BY DEF SignedIn!CreateSession, SignedIn!NewTransport, SignedIn!Transports, SignedIn!Callers
<1>2. 0 \in SignedIn!Generations
  BY IdentityAssumption DEF SignedIn!Generations
<1>3. row \in SignedIn!SessionRows
  BY <1>1, <1>2 DEF SignedIn!SessionRows
<1> QED
  BY <1>3 DEF Begun, SignedIn!CreateSession

\* What the tabs keep are tokens that were made: in storage, and while a request is
\* under way the one it carries; an answered rotation has made the next one.
TabsNameSessions ==
  /\ storage \in SignedIn!Tokens \union {None}
  /\ tab \in [Tab -> [seen : SignedIn!Tokens \union {None}, used : SignedIn!Tokens \union {None},
                      fresh : BOOLEAN,
                      phase : {"idle", "sent", "answered", "refused", "retry", "leaving"}]]
  /\ storage # None => /\ storage.sid \in SignedIn!InUse
                       /\ storage.gen <= session[storage.sid].gen
  /\ \A t \in Tab :
       /\ tab[t].phase # "idle" => /\ tab[t].used # None
                                   /\ tab[t].used.sid \in SignedIn!InUse
                                   /\ tab[t].used.gen <= session[tab[t].used.sid].gen
       /\ tab[t].phase = "answered" => tab[t].used.gen + 1 <= session[tab[t].used.sid].gen

\* Every step of the server, the tabs and the operators is one of these.
LEMMA StepEffect ==
  ASSUME SessionTables, TabsNameSessions, SignedIn!Next
  PROVE  SessionEffect
<1>1. ASSUME NEW s \in Session, NEW g, NEW c \in SignedIn!Callers,
             NEW a \in Attempt \union {None}, NEW p \in BOOLEAN, SignedIn!Refresh(s, g, c, a, p)
      PROVE  SessionEffect
  BY <1>1, ServeEffect DEF SignedIn!Refresh
<1>2. ASSUME NEW s \in Session, NEW u \in Owner, NEW d \in Device, NEW c \in SignedIn!Callers,
             SignedIn!SignInElsewhere(s, u, d, c)
      PROVE  SessionEffect
  BY <1>2, CreateEffect DEF SignedIn!SignInElsewhere, SessionEffect
<1>3. ASSUME NEW s \in Session, SignedIn!Expire(s) \/ SignedIn!IssueBinding(s)
      PROVE  SessionEffect
  <2>1. \E f \in {"bound", "expired"} : /\ s \in SignedIn!InUse /\ history' = history
                                        /\ session' = [session EXCEPT ![s][f] = TRUE]
    BY <1>3 DEF SignedIn!Expire, SignedIn!IssueBinding
  <2> QED
    BY <2>1 DEF SessionEffect, Marked, SessionTables
<1>4. ASSUME NEW s \in Session, NEW g \in 0..MaxGeneration, SignedIn!LapseRecovery(s, g)
      PROVE  SessionEffect
  BY <1>4 DEF SignedIn!LapseRecovery, SessionEffect, Closed
<1>5. ASSUME NEW t \in Tab, NEW s \in Session, NEW u \in Owner, SignedIn!SignIn(t, s, u)
      PROVE  SessionEffect
  <2>1. SignedIn!WebCaller \in SignedIn!Callers /\ Browser \in Device
    BY IdentityAssumption DEF SignedIn!WebCaller, SignedIn!Callers
  <2> QED
    BY <1>5, <2>1, CreateEffect DEF SignedIn!SignIn, SessionEffect
<1>6. ASSUME NEW t \in Tab, SignedIn!ServeTab(t), tab[t].used.sid \in SignedIn!InUse
      PROVE  SessionEffect
  BY <1>6, ServeEffect DEF SignedIn!ServeTab
<1>7. ASSUME NEW t \in Tab, NEW everywhere \in BOOLEAN, SignedIn!SignOut(t, everywhere),
             storage.sid \in SignedIn!InUse
      PROVE  SessionEffect
  <2> DEFINE s == storage.sid
             ended == SignedIn!Ended(s, everywhere)
  <2>1. ended \in SUBSET SignedIn!InUse
    BY <1>7 DEF SignedIn!Ended
  <2>2. \/ session' = session
        \/ session' = [o \in Session |-> IF o \in ended
                         THEN [session[o] EXCEPT !.revoked = TRUE] ELSE session[o]]
    BY <1>7 DEF SignedIn!SignOut
  <2>3. history' = history
    BY SMTT(30), <1>7 DEF SignedIn!SignOut
  <2> HIDE DEF ended
  <2> QED
    BY <2>1, <2>2, <2>3 DEF SessionEffect, Marked, SignedIn!InUse
<1>8. CASE \/ \E s \in Session : SignedIn!RevokeBinding(s)
           \/ \E u \in Owner : SignedIn!Bar(u)
           \/ SignedIn!Redeploy
           \/ \E t \in Tab : \/ SignedIn!StartRefresh(t) \/ SignedIn!LoseAnswer(t)
                             \/ SignedIn!TakeAnswer(t) \/ SignedIn!RetryRequest(t)
                             \/ SignedIn!FinishSignOut(t)
  BY <1>8 DEF SignedIn!RevokeBinding, SignedIn!Bar, SignedIn!Redeploy, SignedIn!StartRefresh,
              SignedIn!LoseAnswer, SignedIn!TakeAnswer, SignedIn!RetryRequest,
              SignedIn!FinishSignOut, SessionEffect
<1>9. ASSUME NEW t \in Tab
      PROVE  /\ SignedIn!ServeTab(t) => tab[t].used.sid \in SignedIn!InUse
             /\ \A e \in BOOLEAN : SignedIn!SignOut(t, e) => storage.sid \in SignedIn!InUse
  BY DEF TabsNameSessions, SignedIn!ServeTab, SignedIn!SignOut
<1> QED
  BY <1>1, <1>2, <1>3, <1>4, <1>5, <1>6, <1>7, <1>8, <1>9
     DEF SignedIn!Next, SignedIn!Server, SignedIn!Tabs

\* A session in use stays so, its generation never falls, and once it has ended
\* its generation and its end stand.
LEMMA EffectForward ==
  ASSUME SessionTables, SessionEffect, NEW s \in SignedIn!InUse
  PROVE  /\ s \in SignedIn!InUse'
         /\ session[s].gen \in Nat /\ session'[s].gen \in Nat
         /\ session[s].gen <= session'[s].gen
         /\ ~SignedIn!Live(s) => session'[s].gen = session[s].gen /\ ~SignedIn!Live(s)'
<1>1. s \in Session /\ session[s] \in SignedIn!SessionRows
  BY DEF SessionTables, SignedIn!InUse
<1>2. session[s].gen \in Nat /\ session[s].state = "used"
  BY <1>1, IdentityAssumption DEF SignedIn!SessionRows, SignedIn!Generations
<1>3. CASE UNCHANGED <<session, history>>
  BY <1>1, <1>2, <1>3 DEF SignedIn!InUse, SignedIn!Live
<1>4. ASSUME NEW o \in Session, Rotated(o)
      PROVE  /\ s \in SignedIn!InUse'
             /\ session'[s].gen \in Nat /\ session[s].gen <= session'[s].gen
             /\ ~SignedIn!Live(s) => session'[s].gen = session[s].gen /\ ~SignedIn!Live(s)'
  <2>1. PICK k : session' = [session EXCEPT ![o].gen = @ + 1, ![o].kid = k]
    BY <1>4 DEF Rotated, SignedIn!RotateCurrent
  <2>2. CASE o = s
    BY <1>1, <1>2, <1>4, <2>1, <2>2
       DEF SessionTables, Rotated, SignedIn!InUse, SignedIn!Live, SignedIn!SessionRows
  <2>3. CASE o # s
    <3>1. session'[s] = session[s]
      BY <1>1, <2>1, <2>3 DEF SessionTables
    <3> QED
      BY <1>1, <1>2, <3>1 DEF SignedIn!InUse, SignedIn!Live
  <2> QED
    BY <2>2, <2>3
<1>5. ASSUME NEW o \in Session, Begun(o) \/ Closed(o)
      PROVE  /\ s \in SignedIn!InUse'
             /\ session'[s].gen \in Nat /\ session[s].gen <= session'[s].gen
             /\ ~SignedIn!Live(s) => session'[s].gen = session[s].gen /\ ~SignedIn!Live(s)'
  <2>1. session'[s] = session[s]
    BY <1>1, <1>5 DEF SessionTables, Begun, Closed
  <2> QED
    BY <1>1, <1>2, <2>1 DEF SignedIn!InUse, SignedIn!Live
<1>6. CASE Marked
  <2>1. /\ session'[s].state = "used" /\ session'[s].gen = session[s].gen
        /\ session[s].revoked => session'[s].revoked
        /\ session[s].reused => session'[s].reused
        /\ session[s].expired => session'[s].expired
    <3>1. CASE session'[s] = session[s]
      BY <1>2, <3>1
    <3>2. CASE \E f \in {"bound", "revoked", "reused", "expired"} :
                 session'[s] = [session[s] EXCEPT ![f] = TRUE]
      BY <1>1, <1>2, <3>2 DEF SignedIn!SessionRows
    <3>3. CASE session'[s] = [session[s] EXCEPT !.reused = TRUE, !.revoked = TRUE]
      BY <1>1, <1>2, <3>3 DEF SignedIn!SessionRows
    <3> QED
      BY <1>1, <1>6, <3>1, <3>2, <3>3 DEF Marked
  <2> QED
    BY <1>1, <1>2, <2>1 DEF SignedIn!InUse, SignedIn!Live
<1> QED
  BY <1>2, <1>3, <1>4, <1>5, <1>6 DEF SessionEffect

-----------------------------------------------------------------------------
(* Sessions: the history of a family *)

\* A rotation consumes the last row and adds the next one; which attempt and key
\* they name is what recovery will ask for.
LEMMA RotationRows ==
  ASSUME SessionTables, NEW s \in Session, Rotated(s)
  PROVE  \E a \in Attempt \union {None}, k \in Kid \union {None}, b \in BOOLEAN :
           LET h == history[s]
               n == session[s].gen + 1
               secret == IF a = None THEN SignedIn!RandomSecret ELSE SignedIn!Derived(k, a)
           IN /\ a # None => k # None /\ b
              /\ session' = [session EXCEPT ![s].gen = n, ![s].kid = k]
              /\ history' = [history EXCEPT ![s] =
                   Append([h EXCEPT ![n] = SignedIn!Consumed(h[n], a, k)],
                          SignedIn!CurrentRow(k, secret, b))]
<1>1. PICK a \in Attempt \union {None}, p \in BOOLEAN : SignedIn!RotateCurrent(s, a, p)
  BY DEF Rotated
<1> DEFINE derives == SignedIn!Derives(s, a, p)
           att == IF derives THEN a ELSE None
           kid == IF derives THEN keyring.current ELSE None
           bound == a # None /\ p
           secret == IF derives THEN SignedIn!Derived(kid, a) ELSE SignedIn!RandomSecret
<1>2. keyring.current \in Kid /\ None \notin Kid
  BY IdentityAssumption DEF SessionTables
<1>3. att \in Attempt \union {None} /\ kid \in Kid \union {None} /\ bound \in BOOLEAN
  BY <1>2
<1>4. att # None => kid # None /\ bound
  BY <1>2 DEF SignedIn!Derives
<1>5. secret = IF att = None THEN SignedIn!RandomSecret ELSE SignedIn!Derived(kid, att)
  <2>1. CASE derives
    <3>1. a # None
      BY <2>1 DEF SignedIn!Derives
    <3>2. att = a /\ secret = SignedIn!Derived(kid, a)
      BY <2>1
    <3> HIDE DEF att, secret, kid
    <3> QED
      BY <3>1, <3>2
  <2>2. CASE ~derives
    <3>1. att = None /\ secret = SignedIn!RandomSecret
      BY <2>2, Zenon
    <3> HIDE DEF att, secret, kid
    <3> QED
      BY <3>1
  <2> QED
    BY <2>1, <2>2
<1>6. session' = [session EXCEPT ![s].gen = session[s].gen + 1, ![s].kid = kid]
  BY <1>1 DEF SignedIn!RotateCurrent
<1>7. history' = [history EXCEPT ![s] =
        Append([history[s] EXCEPT ![session[s].gen + 1] =
                  SignedIn!Consumed(history[s][session[s].gen + 1], att, kid)],
               SignedIn!CurrentRow(kid, secret, bound))]
  BY <1>1 DEF SignedIn!RotateCurrent, SignedIn!Last, SignedIn!Row
<1> HIDE DEF derives, att, kid, bound, secret
<1> QED
  BY <1>3, <1>4, <1>5, <1>6, <1>7

\* The same for a sequence of rows: the rows before, the consumed one, the new one.
LEMMA RowsAppended ==
  ASSUME NEW h \in Seq(SignedIn!HistoryRows), NEW n \in Nat, Len(h) = n, n > 0,
         NEW old \in SignedIn!HistoryRows, NEW new \in SignedIn!HistoryRows
  PROVE  LET h2 == Append([h EXCEPT ![n] = old], new) IN
         /\ h2 \in Seq(SignedIn!HistoryRows) /\ Len(h2) = n + 1
         /\ h2[n] = old /\ h2[n + 1] = new
         /\ \A i \in 1..(n - 1) : h2[i] = h[i]
<1> DEFINE m == [h EXCEPT ![n] = old]
<1>1. m \in Seq(SignedIn!HistoryRows) /\ Len(m) = n /\ m[n] = old
  <2>1. DOMAIN h = 1..n /\ \A i \in 1..n : h[i] \in SignedIn!HistoryRows
    OBVIOUS
  <2>2. m \in [1..n -> SignedIn!HistoryRows] /\ m[n] = old
    BY <2>1
  <2> HIDE DEF m
  <2> QED
    BY <2>2
<1>2. \A i \in 1..(n - 1) : m[i] = h[i]
  OBVIOUS
<1> HIDE DEF m
<1> DEFINE h2 == Append(m, new)
<1>3. h2 \in Seq(SignedIn!HistoryRows) /\ Len(h2) = n + 1 /\ h2[n + 1] = new
  BY <1>1
<1>4. \A i \in 1..n : h2[i] = m[i]
  BY <1>1
<1> QED
  BY <1>1, <1>2, <1>3, <1>4 DEF m


LEMMA ConsumedType ==
  ASSUME NEW row \in SignedIn!HistoryRows,
         NEW a \in Attempt \union {None}, NEW k \in Kid \union {None}
  PROVE  /\ SignedIn!Consumed(row, a, k) \in SignedIn!HistoryRows
         /\ SignedIn!Consumed(row, a, k).state = "consumed"
         /\ SignedIn!Consumed(row, a, k).attempt = a
         /\ SignedIn!Consumed(row, a, k).successorKid = k
         /\ SignedIn!Consumed(row, a, k).kid = row.kid
         /\ SignedIn!Consumed(row, a, k).secret = row.secret
         /\ SignedIn!Consumed(row, a, k).recovery # "none" => a # None
         /\ row.bound \/ a # None => SignedIn!Consumed(row, a, k).bound
BY ZenonT(60) DEF SignedIn!Consumed, SignedIn!HistoryRows

LEMMA CurrentType ==
  ASSUME NEW k \in Kid \union {None}, NEW b \in BOOLEAN,
         NEW secret \in (Kid \union {None}) \X (Attempt \union {None})
  PROVE  SignedIn!CurrentRow(k, secret, b) \in SignedIn!HistoryRows
BY DEF SignedIn!CurrentRow, SignedIn!HistoryRows

\* What the rows of a family say of each other. Whoever rotated with a proof can
\* be recognised: the row consumed names the attempt and the key, and the next row
\* was derived from them and is bound.
Family(s) ==
  LET n == session[s].gen
      row(g) == history[s][g + 1]
  IN /\ session[s] \in SignedIn!SessionRows
     /\ history[s] \in Seq(SignedIn!HistoryRows) /\ Len(history[s]) = n + 1
     /\ \A g \in 0..n : row(g).state = "current" <=> g = n
     /\ row(n).kid = session[s].kid
     /\ \A g \in 0..(n - 1) : row(g).recovery # "none" =>
          /\ row(g).attempt # None /\ row(g).bound /\ row(g).successorKid # None
          /\ row(g + 1).secret = SignedIn!Derived(row(g).successorKid, row(g).attempt)
          /\ row(g + 1).kid = row(g).successorKid /\ row(g + 1).bound

Families == SessionTables /\ \A s \in SignedIn!InUse : Family(s)

LEMMA BegunFamily ==
  ASSUME SessionTables, NEW s \in Session, Begun(s)
  PROVE  Family(s)'
<1> DEFINE first == SignedIn!CurrentRow(None, SignedIn!RandomSecret, FALSE)
<1>1. /\ history'[s] = <<first>>
      /\ session'[s] \in SignedIn!SessionRows /\ session'[s].gen = 0 /\ session'[s].kid = None
  BY DEF Begun, SessionTables
<1>2. first \in SignedIn!HistoryRows /\ first.state = "current" /\ first.kid = None
  BY DEF SignedIn!CurrentRow, SignedIn!HistoryRows, SignedIn!RandomSecret
<1> HIDE DEF first
<1>3. history'[s] \in Seq(SignedIn!HistoryRows) /\ Len(history'[s]) = 1 /\ history'[s][1] = first
  BY <1>1, <1>2
<1> QED
  BY <1>1, <1>2, <1>3 DEF Family

LEMMA ClosedFamily ==
  ASSUME SessionTables, NEW s \in Session, Closed(s), Family(s)
  PROVE  Family(s)'
<1>1. PICK g \in 0..session[s].gen :
        /\ history[s][g + 1].recovery = "open"
        /\ history' = [history EXCEPT ![s][g + 1].recovery = "closed"]
  BY DEF Closed, SignedIn!Row
<1> DEFINE h == history[s]
           n == session[s].gen
           row == [h[g + 1] EXCEPT !.recovery = "closed"]
<1>2. n \in Nat /\ h \in Seq(SignedIn!HistoryRows) /\ Len(h) = n + 1 /\ g \in 0..n /\ session' = session
  BY IdentityAssumption DEF Family, Closed, SignedIn!SessionRows, SignedIn!Generations
<1>3. history'[s] = [h EXCEPT ![g + 1] = row]
  BY <1>1 DEF SessionTables
<1> HIDE DEF n, h
<1>4. DOMAIN h = 1..(n + 1) /\ \A i \in 1..(n + 1) : h[i] \in SignedIn!HistoryRows
  BY <1>2
<1>5. h[g + 1] \in SignedIn!HistoryRows
  BY <1>2, <1>4
<1>6. /\ row \in SignedIn!HistoryRows /\ row.state = h[g + 1].state /\ row.kid = h[g + 1].kid
      /\ row.secret = h[g + 1].secret /\ row.bound = h[g + 1].bound
      /\ row.attempt = h[g + 1].attempt /\ row.successorKid = h[g + 1].successorKid
  BY <1>5 DEF SignedIn!HistoryRows
<1>7. h[g + 1].recovery = "open"
  BY <1>1 DEF h
<1> HIDE DEF row
<1>8. /\ history'[s] \in [1..(n + 1) -> SignedIn!HistoryRows]
      /\ history'[s][g + 1] = row
      /\ \A i \in 1..(n + 1) : i # g + 1 => history'[s][i] = h[i]
  BY <1>2, <1>3, <1>4, <1>6
<1> DEFINE h2 == history'[s]
<1>9. \A i \in 1..(n + 1) :
        /\ h2[i].state = h[i].state /\ h2[i].kid = h[i].kid /\ h2[i].secret = h[i].secret
        /\ h2[i].bound = h[i].bound /\ h2[i].attempt = h[i].attempt
        /\ h2[i].successorKid = h[i].successorKid
        /\ h2[i].recovery # "none" => h[i].recovery # "none"
  BY <1>6, <1>7, <1>8
<1>10. h2 \in Seq(SignedIn!HistoryRows) /\ Len(h2) = n + 1
  BY <1>2, <1>8
<1>11. session'[s] = session[s] /\ session[s].gen = n
  BY <1>2 DEF n
<1>12. /\ session[s] \in SignedIn!SessionRows
       /\ \A i \in 0..n : h[i + 1].state = "current" <=> i = n
       /\ h[n + 1].kid = session[s].kid
       /\ \A i \in 0..(n - 1) : h[i + 1].recovery # "none" =>
            /\ h[i + 1].attempt # None /\ h[i + 1].bound /\ h[i + 1].successorKid # None
            /\ h[i + 2].secret = SignedIn!Derived(h[i + 1].successorKid, h[i + 1].attempt)
            /\ h[i + 2].kid = h[i + 1].successorKid /\ h[i + 2].bound
  BY <1>2 DEF Family, h, n
<1> SUFFICES /\ \A i \in 0..n : h2[i + 1].state = "current" <=> i = n
             /\ h2[n + 1].kid = session[s].kid
             /\ \A i \in 0..(n - 1) : h2[i + 1].recovery # "none" =>
                  /\ h2[i + 1].attempt # None /\ h2[i + 1].bound /\ h2[i + 1].successorKid # None
                  /\ h2[i + 2].secret = SignedIn!Derived(h2[i + 1].successorKid, h2[i + 1].attempt)
                  /\ h2[i + 2].kid = h2[i + 1].successorKid /\ h2[i + 2].bound
  BY <1>2, <1>10, <1>11, <1>12 DEF Family
<1> HIDE DEF h2
<1>13. \A i \in 0..n : i + 1 \in 1..(n + 1) /\ (i < n => i + 2 \in 1..(n + 1))
  BY <1>2
<1>14. ASSUME NEW i \in 0..n
       PROVE  h2[i + 1].state = "current" <=> i = n
  BY <1>9, <1>12, <1>13
<1>15. h2[n + 1].kid = session[s].kid
  <2>1. n + 1 \in 1..(n + 1)
    BY <1>2
  <2> QED
    BY <2>1, <1>9, <1>12
<1>16. ASSUME NEW i \in 0..(n - 1), h2[i + 1].recovery # "none"
       PROVE  /\ h2[i + 1].attempt # None /\ h2[i + 1].bound /\ h2[i + 1].successorKid # None
              /\ h2[i + 2].secret = SignedIn!Derived(h2[i + 1].successorKid, h2[i + 1].attempt)
              /\ h2[i + 2].kid = h2[i + 1].successorKid /\ h2[i + 2].bound
  <2>1. i + 1 \in 1..(n + 1) /\ i + 2 \in 1..(n + 1)
    BY <1>2
  <2>2. h[i + 1].recovery # "none"
    BY <1>9, <1>16, <2>1
  <2>3. /\ h2[i + 1].attempt = h[i + 1].attempt /\ h2[i + 1].bound = h[i + 1].bound
        /\ h2[i + 1].successorKid = h[i + 1].successorKid
        /\ h2[i + 2].secret = h[i + 2].secret /\ h2[i + 2].kid = h[i + 2].kid
        /\ h2[i + 2].bound = h[i + 2].bound
    BY <1>9, <2>1
  <2> QED
    BY <1>12, <2>2, <2>3
<1> QED
  BY <1>14, <1>15, <1>16

LEMMA RotatedFamily ==
  ASSUME SessionTables, NEW s \in Session, Rotated(s), Family(s)
  PROVE  Family(s)'
<1> DEFINE h == history[s]
           n == session[s].gen + 1
           h2 == history'[s]
<1>1. /\ session[s].gen \in Nat /\ session[s].gen < MaxGeneration
      /\ session[s] \in SignedIn!SessionRows
      /\ h \in Seq(SignedIn!HistoryRows) /\ Len(h) = n
      /\ \A i \in 0..(n - 1) : h[i + 1].state = "current" <=> i = n - 1
      /\ h[n].kid = session[s].kid
      /\ \A i \in 0..(n - 2) : h[i + 1].recovery # "none" =>
           /\ h[i + 1].attempt # None /\ h[i + 1].bound /\ h[i + 1].successorKid # None
           /\ h[i + 2].secret = SignedIn!Derived(h[i + 1].successorKid, h[i + 1].attempt)
           /\ h[i + 2].kid = h[i + 1].successorKid /\ h[i + 2].bound
  BY SMTT(30), IdentityAssumption DEF Family, Rotated, SignedIn!SessionRows, SignedIn!Generations
<1> DEFINE secret(a, k) == IF a = None THEN SignedIn!RandomSecret ELSE SignedIn!Derived(k, a)
<1>2. PICK a \in Attempt \union {None}, k \in Kid \union {None}, b \in BOOLEAN :
        /\ a # None => k # None /\ b
        /\ session' = [session EXCEPT ![s].gen = n, ![s].kid = k]
        /\ history' = [history EXCEPT ![s] =
             Append([h EXCEPT ![n] = SignedIn!Consumed(h[n], a, k)],
                    SignedIn!CurrentRow(k, secret(a, k), b))]
  BY RotationRows
<1> DEFINE old == SignedIn!Consumed(h[n], a, k)
           new == SignedIn!CurrentRow(k, secret(a, k), b)
<1>3. /\ session'[s] \in SignedIn!SessionRows /\ session'[s].gen = n /\ session'[s].kid = k
  <2>1. n \in SignedIn!Generations
    BY <1>1, IdentityAssumption DEF SignedIn!Generations
  <2>2. session'[s] = [session[s] EXCEPT !.gen = n, !.kid = k]
    BY <1>2 DEF SessionTables
  <2> HIDE DEF n
  <2> QED
    BY ZenonT(60), <1>1, <2>1, <2>2 DEF SignedIn!SessionRows
<1>4. h2 = Append([h EXCEPT ![n] = old], new)
  BY <1>2 DEF SessionTables
<1>5. h[n] \in SignedIn!HistoryRows
  BY <1>1
<1>6. /\ old \in SignedIn!HistoryRows /\ old.state = "consumed" /\ old.attempt = a
      /\ old.successorKid = k /\ old.kid = h[n].kid /\ old.secret = h[n].secret
      /\ old.recovery # "none" => a # None
      /\ h[n].bound \/ a # None => old.bound
  <2> DEFINE last == h[n]
  <2>1. last \in SignedIn!HistoryRows
    BY <1>5
  <2> HIDE DEF last
  <2>2. /\ SignedIn!Consumed(last, a, k) \in SignedIn!HistoryRows
        /\ SignedIn!Consumed(last, a, k).state = "consumed"
        /\ SignedIn!Consumed(last, a, k).attempt = a
        /\ SignedIn!Consumed(last, a, k).successorKid = k
        /\ SignedIn!Consumed(last, a, k).kid = last.kid
        /\ SignedIn!Consumed(last, a, k).secret = last.secret
        /\ SignedIn!Consumed(last, a, k).recovery # "none" => a # None
        /\ last.bound \/ a # None => SignedIn!Consumed(last, a, k).bound
    BY <2>1, ConsumedType
  <2> QED
    BY <2>2 DEF last
<1>7. secret(a, k) \in (Kid \union {None}) \X (Attempt \union {None})
  BY DEF SignedIn!RandomSecret, SignedIn!Derived
<1>8. /\ new \in SignedIn!HistoryRows /\ new.state = "current" /\ new.kid = k /\ new.bound = b
      /\ new.secret = secret(a, k)
  BY <1>7, CurrentType DEF SignedIn!CurrentRow
<1>9. a # None => new.secret = SignedIn!Derived(k, a)
  BY <1>8
<1> HIDE DEF old, new, n, h, secret, h2
<1>10. n \in Nat /\ n > 0
  BY <1>1 DEF n
<1>11. /\ h2 \in Seq(SignedIn!HistoryRows) /\ Len(h2) = n + 1
       /\ h2[n] = old /\ h2[n + 1] = new
       /\ \A i \in 1..(n - 1) : h2[i] = h[i]
  BY <1>1, <1>4, <1>6, <1>8, <1>10, RowsAppended
<1>12. \A i \in 0..n : h2[i + 1].state = "current" <=> i = n
  <2> TAKE i \in 0..n
  <2>1. CASE i = n
    BY <1>8, <1>11, <2>1
  <2>2. CASE i = n - 1
    BY <1>6, <1>10, <1>11, <2>2
  <2>3. CASE i < n - 1
    <3>1. i + 1 \in 1..(n - 1) /\ i \in 0..(n - 1)
      BY <1>10, <2>3
    <3> QED
      BY <1>1, <1>10, <1>11, <2>3, <3>1
  <2> QED
    BY <1>10, <2>1, <2>2, <2>3
<1>13. \A i \in 0..(n - 1) : h2[i + 1].recovery # "none" =>
         /\ h2[i + 1].attempt # None /\ h2[i + 1].bound /\ h2[i + 1].successorKid # None
         /\ h2[i + 2].secret = SignedIn!Derived(h2[i + 1].successorKid, h2[i + 1].attempt)
         /\ h2[i + 2].kid = h2[i + 1].successorKid /\ h2[i + 2].bound
  <2> TAKE i \in 0..(n - 1)
  <2> HAVE h2[i + 1].recovery # "none"
  <2>1. CASE i = n - 1
    <3>1. h2[i + 1] = old /\ h2[i + 2] = new
      BY <1>10, <1>11, <2>1
    <3> QED
      BY <1>2, <1>6, <1>8, <1>9, <3>1
  <2>2. CASE i = n - 2
    <3>1. i \in 0..(n - 2) /\ h2[i + 1] = h[i + 1] /\ h2[i + 2] = old /\ h[i + 2] = h[n]
      BY <1>10, <1>11, <2>2
    <3> QED
      BY <1>1, <1>6, <3>1
  <2>3. CASE i < n - 2
    <3>1. i \in 0..(n - 2) /\ h2[i + 1] = h[i + 1] /\ h2[i + 2] = h[i + 2]
      BY <1>10, <1>11, <2>3
    <3> QED
      BY <1>1, <3>1
  <2> QED
    BY <1>10, <2>1, <2>2, <2>3
<1>14. h2[n + 1].kid = k
  BY <1>8, <1>11
<1>15. \A i \in 0..(n - 1) : (i + 1) + 1 = i + 2
  BY <1>10
<1> QED
  BY <1>3, <1>11, <1>12, <1>13, <1>14, <1>15 DEF Family, h2

\* A session none of whose rows changed, or that was only marked.
LEMMA KeptFamily ==
  ASSUME NEW s \in Session, Family(s), history'[s] = history[s],
         session'[s] \in SignedIn!SessionRows,
         session'[s].gen = session[s].gen, session'[s].kid = session[s].kid
  PROVE  Family(s)'
BY SMTT(30) DEF Family

LEMMA MarkedRow ==
  ASSUME SessionTables, Marked, NEW s \in SignedIn!InUse
  PROVE  /\ session'[s] \in SignedIn!SessionRows /\ session'[s].state = "used"
         /\ session'[s].gen = session[s].gen /\ session'[s].kid = session[s].kid
         /\ session[s].bound => session'[s].bound
<1>1. s \in Session /\ session[s] \in SignedIn!SessionRows
  BY DEF SessionTables, SignedIn!InUse
<1>2. CASE session'[s] = session[s]
  BY <1>1, <1>2 DEF SignedIn!SessionRows
<1>3. CASE \E f \in {"bound", "revoked", "reused", "expired"} :
             session'[s] = [session[s] EXCEPT ![f] = TRUE]
  BY ZenonT(60), <1>1, <1>3 DEF SignedIn!SessionRows
<1>4. CASE session'[s] = [session[s] EXCEPT !.reused = TRUE, !.revoked = TRUE]
  BY ZenonT(60), <1>1, <1>4 DEF SignedIn!SessionRows
<1> QED
  BY <1>1, <1>2, <1>3, <1>4 DEF Marked

\* Every step keeps the families, and the sessions in use are those that were and
\* at most the one that begins.
LEMMA EffectFamilies ==
  ASSUME Families, SessionEffect
  PROVE  /\ session' = [s \in Session |-> session'[s]] /\ history' = [s \in Session |-> history'[s]]
         /\ \A s \in SignedIn!InUse' : Family(s)'
         /\ \A s \in SignedIn!InUse : session[s].bound => session'[s].bound
<1>1. SessionTables /\ \A s \in SignedIn!InUse : Family(s)
  BY DEF Families
<1>2. CASE UNCHANGED <<session, history>>
  <2>1. session' = session /\ history' = history
    BY <1>2
  <2> QED
    BY <1>1, <2>1 DEF SessionTables, SignedIn!InUse, Family
<1>3. ASSUME NEW o \in Session, Rotated(o) \/ Begun(o) \/ Closed(o)
      PROVE  /\ session' = [s \in Session |-> session'[s]]
             /\ history' = [s \in Session |-> history'[s]]
             /\ \A s \in SignedIn!InUse' : Family(s)'
             /\ \A s \in SignedIn!InUse : session[s].bound => session'[s].bound
  <2>1. /\ session' = [s \in Session |-> session'[s]] /\ history' = [s \in Session |-> history'[s]]
        /\ \A s \in Session \ {o} : session'[s] = session[s] /\ history'[s] = history[s]
    <3>1. CASE Rotated(o)
      <4>1. PICK k, rows : /\ session' = [session EXCEPT ![o].gen = session[o].gen + 1, ![o].kid = k]
                           /\ history' = [history EXCEPT ![o] = rows]
        BY <3>1 DEF Rotated, SignedIn!RotateCurrent
      <4> QED
        BY <1>1, <4>1 DEF SessionTables
    <3>2. CASE Begun(o)
      BY <1>1, <3>2 DEF SessionTables, Begun
    <3>3. CASE Closed(o)
      BY <1>1, <3>3 DEF SessionTables, Closed
    <3> QED
      BY <1>3, <3>1, <3>2, <3>3
  <2>2. Family(o)'
    <3>1. Rotated(o) \/ Closed(o) => Family(o)
      BY <1>1 DEF Rotated, Closed
    <3> QED
      BY <1>1, <1>3, <3>1, RotatedFamily, BegunFamily, ClosedFamily
  <2>3. \A s \in SignedIn!InUse' : s = o \/ s \in SignedIn!InUse
    BY <2>1 DEF SignedIn!InUse
  <2>4. ASSUME NEW s \in SignedIn!InUse', s # o
        PROVE  Family(s)'
    <3>1. s \in Session /\ s \in SignedIn!InUse /\ Family(s)
      BY <1>1, <2>3, <2>4 DEF SignedIn!InUse
    <3>2. session'[s] = session[s] /\ history'[s] = history[s]
      BY <2>1, <2>4, <3>1
    <3>3. session[s] \in SignedIn!SessionRows
      BY <3>1 DEF Family
    <3> QED
      BY <3>1, <3>2, <3>3, KeptFamily
  <2>5. ASSUME NEW s \in SignedIn!InUse, session[s].bound
        PROVE  session'[s].bound
    <3>1. CASE s # o
      BY <2>1, <2>5, <3>1 DEF SignedIn!InUse
    <3>2. CASE s = o
      <4>1. Rotated(o) \/ Closed(o)
        BY <1>3, <2>5, <3>2 DEF Begun
      <4>2. CASE Rotated(o)
        <5>1. PICK k : session' = [session EXCEPT ![o].gen = session[o].gen + 1, ![o].kid = k]
          BY <4>2 DEF Rotated, SignedIn!RotateCurrent
        <5> QED
          BY ZenonT(60), <1>1, <2>5, <3>2, <5>1 DEF SessionTables, SignedIn!SessionRows
      <4>3. CASE Closed(o)
        BY <2>5, <3>2, <4>3 DEF Closed
      <4> QED
        BY <4>1, <4>2, <4>3
    <3> QED
      BY <3>1, <3>2
  <2> QED
    BY <2>1, <2>2, <2>4, <2>5
<1>4. CASE Marked
  <2>1. \A s \in SignedIn!InUse : Family(s)' /\ (session[s].bound => session'[s].bound)
    <3> TAKE s \in SignedIn!InUse
    <3>1. s \in Session /\ history' = history
      BY <1>4 DEF Marked, SignedIn!InUse
    <3> QED
      BY <1>1, <1>4, <3>1, MarkedRow, KeptFamily
  <2>2. SignedIn!InUse' = SignedIn!InUse
    <3>1. \A s \in Session : session'[s] = session[s] \/ s \in SignedIn!InUse
      BY <1>4 DEF Marked
    <3> QED
      BY SMTT(30), <1>1, <1>4, <3>1, MarkedRow DEF SignedIn!InUse
  <2>3. session' = [s \in Session |-> session'[s]] /\ history' = [s \in Session |-> history'[s]]
    BY <1>1, <1>4 DEF Marked, SessionTables
  <2> QED
    BY <2>1, <2>2, <2>3
<1> QED
  BY <1>2, <1>3, <1>4 DEF SessionEffect

-----------------------------------------------------------------------------
(* Sessions: what is true in every state *)

\* A session with an active binding names it, and only sessions in use have one.
BindingsNamed ==
  /\ \A s \in SignedIn!InUse : binding[s] = "active" => session[s].bound
  /\ \A s \in Session \ SignedIn!InUse : binding[s] = "none"

SessionsInv == Families /\ BindingsNamed /\ TabsNameSessions

LEMMA InitSessions == SignedIn!Init => SessionsInv
<1> SUFFICES ASSUME SignedIn!Init PROVE SessionsInv
  OBVIOUS
<1>1. SignedIn!InUse = {}
  BY DEF SignedIn!Init, SignedIn!Unused, SignedIn!InUse
<1>2. Families
  BY <1>1 DEF SignedIn!Init, Families, SessionTables
<1>3. BindingsNamed
  BY <1>1 DEF SignedIn!Init, BindingsNamed
<1>4. TabsNameSessions
  BY DEF SignedIn!Init, SignedIn!Idle, TabsNameSessions
<1> QED
  BY <1>2, <1>3, <1>4 DEF SessionsInv

LEMMA StepTables ==
  ASSUME SessionsInv, SignedIn!Next
  PROVE  Families' /\ BindingsNamed'
<1>1. SessionTables /\ TabsNameSessions /\ Families /\ BindingsNamed
  BY DEF SessionsInv, Families
<1>2. SessionEffect
  BY <1>1, StepEffect
<1>3. /\ session' = [s \in Session |-> session'[s]] /\ history' = [s \in Session |-> history'[s]]
      /\ \A s \in SignedIn!InUse' : Family(s)'
      /\ \A s \in SignedIn!InUse : session[s].bound => session'[s].bound
  BY SMTT(30), <1>1, <1>2, EffectFamilies
<1>4. keyring' = keyring
      \/ \E k \in keyring.known : \/ keyring' = [keyring EXCEPT !.current = k]
                                  \/ keyring' = [keyring EXCEPT !.known = keyring.known \ {k}]
  BY ZenonT(60) DEF SignedIn!Next, SignedIn!Server, SignedIn!Tabs, SignedIn!Refresh, SignedIn!SignInElsewhere,
         SignedIn!Expire, SignedIn!IssueBinding, SignedIn!RevokeBinding, SignedIn!LapseRecovery,
         SignedIn!Bar, SignedIn!Redeploy, SignedIn!SignIn, SignedIn!StartRefresh,
         SignedIn!ServeTab, SignedIn!LoseAnswer, SignedIn!TakeAnswer, SignedIn!RetryRequest,
         SignedIn!FinishSignOut, SignedIn!SignOut
<1>5. \/ binding' = binding
      \/ \E s \in SignedIn!InUse : /\ binding' = [binding EXCEPT ![s] = "active"]
                                   /\ session' = [session EXCEPT ![s].bound = TRUE]
      \/ \E s \in Session : /\ binding[s] = "active" /\ session' = session
                            /\ binding' = [binding EXCEPT ![s] = "revoked"]
  BY ZenonT(60) DEF SignedIn!Next, SignedIn!Server, SignedIn!Tabs, SignedIn!Refresh, SignedIn!SignInElsewhere,
         SignedIn!Expire, SignedIn!IssueBinding, SignedIn!RevokeBinding, SignedIn!LapseRecovery,
         SignedIn!Bar, SignedIn!Redeploy, SignedIn!SignIn, SignedIn!StartRefresh,
         SignedIn!ServeTab, SignedIn!LoseAnswer, SignedIn!TakeAnswer, SignedIn!RetryRequest,
         SignedIn!FinishSignOut, SignedIn!SignOut
<1>6. Families'
  <2>1. keyring' \in [current : Kid, known : SUBSET Kid]
    BY <1>1, <1>4 DEF SessionTables
  <2>2. binding' = [s \in Session |-> binding'[s]]
    BY <1>1, <1>5 DEF SessionTables
  <2>3. \A s \in SignedIn!InUse' : /\ session'[s] \in SignedIn!SessionRows
                                   /\ history'[s] \in Seq(SignedIn!HistoryRows)
                                   /\ Len(history'[s]) = session'[s].gen + 1
    BY <1>3 DEF Family
  <2> QED
    BY <1>3, <2>1, <2>2, <2>3 DEF Families, SessionTables
<1>7. \A s \in Session : s \in SignedIn!InUse => s \in SignedIn!InUse'
  BY <1>1, <1>2, EffectForward
<1>8. BindingsNamed'
  <2>1. CASE binding' = binding
    <3>1. \A s \in Session : s \notin SignedIn!InUse => binding[s] = "none"
      BY <1>1 DEF BindingsNamed
    <3>2. \A s \in SignedIn!InUse' : s \in Session
      BY DEF SignedIn!InUse
    <3> QED
      BY <1>1, <1>3, <1>7, <2>1, <3>1, <3>2 DEF BindingsNamed
  <2>2. ASSUME NEW o \in SignedIn!InUse, binding' = [binding EXCEPT ![o] = "active"],
               session' = [session EXCEPT ![o].bound = TRUE]
        PROVE  BindingsNamed'
    <3>1. o \in Session /\ session[o] \in SignedIn!SessionRows
      BY <1>1 DEF SessionTables, SignedIn!InUse
    <3>2. session'[o].bound /\ session'[o].state = "used"
      BY <1>1, <2>2, <3>1 DEF SessionTables, SignedIn!SessionRows
    <3>3. \A s \in Session \ {o} : session'[s] = session[s] /\ binding'[s] = binding[s]
      BY <1>1, <2>2 DEF SessionTables
    <3>4. o \in SignedIn!InUse'
      BY <3>1, <3>2 DEF SignedIn!InUse
    <3> QED
      BY <1>1, <3>1, <3>2, <3>3, <3>4 DEF BindingsNamed, SignedIn!InUse
  <2>3. ASSUME NEW o \in Session, binding[o] = "active", session' = session,
               binding' = [binding EXCEPT ![o] = "revoked"]
        PROVE  BindingsNamed'
    BY <1>1, <2>3 DEF BindingsNamed, SignedIn!InUse, SessionTables
  <2> QED
    BY <1>5, <2>1, <2>2, <2>3
<1> QED
  BY <1>6, <1>8

\* A step that leaves storage and tabs alone only makes what they name older.
LEMMA TabsKept ==
  ASSUME SessionsInv, SignedIn!Next, UNCHANGED <<storage, tab>>
  PROVE  TabsNameSessions'
<1>1. SessionTables /\ SessionEffect
  BY StepEffect DEF SessionsInv, Families
<1>2. storage' = storage /\ tab' = tab
  OBVIOUS
<1>3. \A s \in SignedIn!InUse : /\ s \in SignedIn!InUse' /\ session[s].gen \in Nat
                               /\ session'[s].gen \in Nat /\ session[s].gen <= session'[s].gen
  BY <1>1, EffectForward
<1>4. TabsNameSessions
  BY DEF SessionsInv
<1>5. \A t \in Tab : (tab[t].used # None => tab[t].used.gen \in Nat)
                     /\ (storage # None => storage.gen \in Nat)
  BY <1>4, IdentityAssumption DEF TabsNameSessions, SignedIn!Tokens, SignedIn!Generations
<1>6. \A t \in Tab : tab[t].phase # "idle" =>
        /\ tab[t].used.sid \in SignedIn!InUse'
        /\ tab[t].used.gen <= session'[tab[t].used.sid].gen
  BY <1>3, <1>4, <1>5 DEF TabsNameSessions
<1>7. \A t \in Tab : tab[t].phase = "answered" =>
        tab[t].used.gen + 1 <= session'[tab[t].used.sid].gen
  BY <1>3, <1>4, <1>5 DEF TabsNameSessions
<1>8. storage # None => /\ storage.sid \in SignedIn!InUse'
                        /\ storage.gen <= session'[storage.sid].gen
  <2> SUFFICES ASSUME storage # None
               PROVE  /\ storage.sid \in SignedIn!InUse'
                      /\ storage.gen <= session'[storage.sid].gen
    OBVIOUS
  <2>1. storage.sid \in SignedIn!InUse /\ storage.gen <= session[storage.sid].gen
    BY <1>4 DEF TabsNameSessions
  <2>2. storage.gen \in Nat
    BY <1>4, IdentityAssumption DEF TabsNameSessions, SignedIn!Tokens, SignedIn!Generations
  <2> QED
    BY <1>3, <2>1, <2>2
<1> QED
  BY <1>2, <1>4, <1>6, <1>7, <1>8 DEF TabsNameSessions

\* What the tabs do themselves, one tab at a time: the others keep their requests.
TabRow == [seen : SignedIn!Tokens \union {None}, used : SignedIn!Tokens \union {None},
           fresh : BOOLEAN,
           phase : {"idle", "sent", "answered", "refused", "retry", "leaving"}]

LEMMA TabsStep ==
  ASSUME SessionsInv, SignedIn!Next, NEW t \in Tab, NEW row \in TabRow,
         tab' = [tab EXCEPT ![t] = row],
         storage' \in SignedIn!Tokens \union {None},
         storage' # None => /\ storage'.sid \in SignedIn!InUse'
                            /\ storage'.gen <= session'[storage'.sid].gen,
         row.phase # "idle" => /\ row.used # None /\ row.used.sid \in SignedIn!InUse'
                               /\ row.used.gen <= session'[row.used.sid].gen,
         row.phase = "answered" => row.used.gen + 1 <= session'[row.used.sid].gen
  PROVE  TabsNameSessions'
<1>1. SessionTables /\ SessionEffect
  BY StepEffect DEF SessionsInv, Families
<1>2. tab \in [Tab -> TabRow]
  BY DEF SessionsInv, TabsNameSessions, TabRow
<1>3. tab' \in [Tab -> TabRow] /\ tab'[t] = row /\ \A u \in Tab \ {t} : tab'[u] = tab[u]
  BY <1>2
<1>4. ASSUME NEW u \in Tab, u # t
      PROVE  /\ tab[u].phase # "idle" => /\ tab[u].used # None
                                         /\ tab[u].used.sid \in SignedIn!InUse'
                                         /\ tab[u].used.gen <= session'[tab[u].used.sid].gen
             /\ tab[u].phase = "answered" =>
                  tab[u].used.gen + 1 <= session'[tab[u].used.sid].gen
  <2> DEFINE k == tab[u].used
  <2> SUFFICES ASSUME tab[u].phase # "idle"
               PROVE  /\ k # None /\ k.sid \in SignedIn!InUse' /\ k.gen <= session'[k.sid].gen
                      /\ tab[u].phase = "answered" => k.gen + 1 <= session'[k.sid].gen
    OBVIOUS
  <2>1. /\ k # None /\ k.sid \in SignedIn!InUse /\ k.gen <= session[k.sid].gen
        /\ tab[u].phase = "answered" => k.gen + 1 <= session[k.sid].gen
    BY DEF SessionsInv, TabsNameSessions
  <2>2. k \in SignedIn!Tokens
    BY <1>2, <2>1 DEF TabRow
  <2>3. k.gen \in Nat
    BY <2>2, IdentityAssumption DEF SignedIn!Tokens, SignedIn!Generations
  <2>4. /\ k.sid \in SignedIn!InUse' /\ session[k.sid].gen \in Nat
        /\ session'[k.sid].gen \in Nat /\ session[k.sid].gen <= session'[k.sid].gen
    BY <1>1, <2>1, EffectForward
  <2> HIDE DEF k
  <2> QED
    BY <2>1, <2>3, <2>4
<1> QED
  BY <1>3, <1>4 DEF TabsNameSessions, TabRow

LEMMA StepTabs ==
  ASSUME SessionsInv, SignedIn!Next
  PROVE  TabsNameSessions'
<1>1. SessionTables /\ SessionEffect /\ TabsNameSessions
  BY StepEffect DEF SessionsInv, Families
<1>2. /\ tab \in [Tab -> TabRow] /\ storage \in SignedIn!Tokens \union {None}
      /\ \A t \in Tab : tab[t] \in TabRow
  BY <1>1 DEF TabsNameSessions, TabRow
<1>3. \A s \in SignedIn!InUse :
        /\ s \in Session /\ s \in SignedIn!InUse'
        /\ session[s].gen \in Nat /\ session'[s].gen \in Nat /\ session[s].gen <= session'[s].gen
  BY <1>1, EffectForward DEF SignedIn!InUse
<1>4. \A k \in SignedIn!Tokens : k.sid \in Session /\ k.gen \in Nat
  BY IdentityAssumption DEF SignedIn!Tokens, SignedIn!Generations
\* A token that named a session still does.
<1>5. \A k \in SignedIn!Tokens :
        k.sid \in SignedIn!InUse /\ k.gen <= session[k.sid].gen
          => k.sid \in SignedIn!InUse' /\ k.gen <= session'[k.sid].gen
  BY <1>3, <1>4
<1>6. storage # None => /\ storage \in SignedIn!Tokens
                        /\ storage.sid \in SignedIn!InUse' /\ storage.gen <= session'[storage.sid].gen
  BY <1>1, <1>2, <1>5 DEF TabsNameSessions
<1>7. SignedIn!Idle \in TabRow /\ SignedIn!Idle.phase = "idle"
  BY DEF SignedIn!Idle, TabRow
<1>8. ASSUME NEW t \in Tab, NEW s \in Session, NEW u \in Owner, SignedIn!SignIn(t, s, u)
      PROVE  TabsNameSessions'
  <2> DEFINE k == SignedIn!Token(s, 0)
             row == [tab[t] EXCEPT !.seen = k, !.fresh = FALSE]
  <2>1. k \in SignedIn!Tokens /\ k.sid = s /\ k.gen = 0
    BY IdentityAssumption DEF SignedIn!Token, SignedIn!Tokens, SignedIn!Generations
  <2>2. /\ storage' = k /\ tab' = [tab EXCEPT ![t].seen = k, ![t].fresh = FALSE]
        /\ session'[s].state = "used" /\ session'[s].gen = 0
    BY <1>1, <1>8 DEF SignedIn!SignIn, SignedIn!Store, SignedIn!CreateSession, SessionTables
  <2> HIDE DEF k
  <2>3. tab' = [tab EXCEPT ![t] = row]
    BY <1>2, <2>2
  <2>4. row \in TabRow /\ row.phase = tab[t].phase /\ row.used = tab[t].used
    BY <1>2, <2>1 DEF TabRow
  <2>5. row.phase # "idle" => /\ row.used # None /\ row.used.sid \in SignedIn!InUse'
                              /\ row.used.gen <= session'[row.used.sid].gen
    BY <1>1, <1>2, <1>5, <2>4 DEF TabsNameSessions, TabRow
  <2>6. row.phase = "answered" => row.used.gen + 1 <= session'[row.used.sid].gen
    <3> SUFFICES ASSUME tab[t].phase = "answered"
                 PROVE  tab[t].used.gen + 1 <= session'[tab[t].used.sid].gen
      BY <2>4
    <3>1. /\ tab[t].used # None /\ tab[t].used.sid \in SignedIn!InUse
          /\ tab[t].used.gen + 1 <= session[tab[t].used.sid].gen
      BY <1>1 DEF TabsNameSessions
    <3>2. tab[t].used.gen \in Nat
      BY <1>2, <1>4, <3>1 DEF TabRow
    <3> QED
      BY <1>3, <3>1, <3>2
  <2>7. storage'.sid \in SignedIn!InUse' /\ storage'.gen <= session'[storage'.sid].gen
    BY <2>1, <2>2 DEF SignedIn!InUse
  <2> HIDE DEF row
  <2> QED
    BY <2>1, <2>2, <2>3, <2>4, <2>5, <2>6, <2>7, TabsStep
<1>9. ASSUME NEW t \in Tab, NEW e \in BOOLEAN, SignedIn!StartRefresh(t) \/ SignedIn!SignOut(t, e)
      PROVE  TabsNameSessions'
  <2>1. PICK ph \in {"sent", "leaving"} :
          tab' = [tab EXCEPT ![t] = [seen |-> storage, phase |-> ph, used |-> storage, fresh |-> TRUE]]
    BY <1>9 DEF SignedIn!StartRefresh, SignedIn!SignOut
  <2>2. storage # None /\ storage' = storage
    BY <1>9 DEF SignedIn!StartRefresh, SignedIn!SignOut
  <2> DEFINE row == [seen |-> storage, phase |-> ph, used |-> storage, fresh |-> TRUE]
  <2>3. row \in TabRow /\ row.used = storage /\ row.phase = ph
    BY <1>2 DEF TabRow
  <2>4. tab' = [tab EXCEPT ![t] = row]
    BY <2>1
  <2> HIDE DEF row
  <2> QED
    BY <1>6, <2>2, <2>3, <2>4, TabsStep
<1>10. ASSUME NEW t \in Tab, SignedIn!ServeTab(t)
       PROVE  TabsNameSessions'
  <2> DEFINE k == tab[t].used
             answer == SignedIn!Answer(k.sid, k.gen, SignedIn!WebCaller, None, FALSE)
             row == [tab[t] EXCEPT !.phase = IF answer = "rotated" THEN "answered" ELSE "refused"]
  <2>1. k # None /\ k \in SignedIn!Tokens /\ k.sid \in SignedIn!InUse /\ k.gen <= session[k.sid].gen
    BY <1>1, <1>2, <1>10 DEF SignedIn!ServeTab, TabsNameSessions, TabRow
  <2>2. answer = "rotated" => k.gen = session[k.sid].gen
                              /\ SignedIn!RotateCurrent(k.sid, None, FALSE)
    BY ZenonT(60), <1>1, <1>10, <2>1, ServeEffect DEF SignedIn!ServeTab
  <2>3. answer = "rotated" => k.gen + 1 = session'[k.sid].gen
    <3> SUFFICES ASSUME answer = "rotated" PROVE k.gen + 1 = session'[k.sid].gen
      BY SMTT(30)
    <3>1. PICK kid : session' = [session EXCEPT ![k.sid].gen = session[k.sid].gen + 1,
                                                ![k.sid].kid = kid]
      BY <2>2 DEF SignedIn!RotateCurrent
    <3> HIDE DEF answer, row
    <3>2. k.sid \in Session /\ session[k.sid] \in SignedIn!SessionRows
      BY <1>1, <2>1, <1>3 DEF SessionTables
    <3> QED
      BY ZenonT(60), <1>1, <2>2, <3>1, <3>2 DEF SessionTables, SignedIn!SessionRows
  <2>4. tab' = [tab EXCEPT ![t] = row] /\ storage' = storage
    BY <1>2, <1>10 DEF SignedIn!ServeTab
  <2>5. /\ row \in TabRow /\ row.used = k
        /\ row.phase = IF answer = "rotated" THEN "answered" ELSE "refused"
    BY <1>2 DEF TabRow
  <2> HIDE DEF row, answer
  <2>6. k.sid \in SignedIn!InUse' /\ k.gen <= session'[k.sid].gen
    BY <1>5, <2>1
  <2>7. row.phase = "answered" => k.gen + 1 <= session'[k.sid].gen
    <3> SUFFICES ASSUME answer = "rotated" PROVE k.gen + 1 <= session'[k.sid].gen
      BY <2>5
    <3> QED
      BY <1>3, <2>1, <2>3
  <2> HIDE DEF k
  <2> QED
    BY <1>2, <1>6, <2>1, <2>4, <2>5, <2>6, <2>7, TabsStep
<1>11. ASSUME NEW t \in Tab, NEW row \in TabRow, row.phase = "idle",
              tab' = [tab EXCEPT ![t] = row], storage' = storage \/ storage' = None
       PROVE  TabsNameSessions'
  BY <1>2, <1>6, <1>11, TabsStep
<1>12. ASSUME NEW t \in Tab, SignedIn!LoseAnswer(t)
       PROVE  TabsNameSessions'
  <2>1. /\ [tab[t] EXCEPT !.phase = "idle"] \in TabRow
        /\ [tab[t] EXCEPT !.phase = "idle"].phase = "idle"
    BY <1>2 DEF TabRow
  <2>2. tab' = [tab EXCEPT ![t] = [tab[t] EXCEPT !.phase = "idle"]] /\ storage' = storage
    BY <1>12 DEF SignedIn!LoseAnswer
  <2> QED
    BY <1>11, <2>1, <2>2
<1>13. ASSUME NEW t \in Tab,
              tab' = [tab EXCEPT ![t].seen = storage, ![t].fresh = FALSE, ![t].phase = "idle"],
              storage' = storage
       PROVE  TabsNameSessions'
  <2> DEFINE row == [tab[t] EXCEPT !.seen = storage, !.fresh = FALSE, !.phase = "idle"]
  <2>1. row \in TabRow /\ row.phase = "idle"
    BY <1>2 DEF TabRow
  <2>2. tab' = [tab EXCEPT ![t] = row]
    BY <1>2, <1>13
  <2> HIDE DEF row
  <2> QED
    BY <1>11, <1>13, <2>1, <2>2
<1>14. ASSUME NEW t \in Tab, SignedIn!TakeAnswer(t)
       PROVE  TabsNameSessions'
  <2> DEFINE k == tab[t].used
             next == SignedIn!Token(k.sid, k.gen + 1)
             row == [seen |-> next, phase |-> "retry", used |-> next, fresh |-> TRUE]
  <2>1. CASE tab[t].phase = "answered" /\ storage' = next /\ tab' = [tab EXCEPT ![t] = row]
    <3>1. k \in SignedIn!Tokens /\ k.sid \in SignedIn!InUse /\ k.gen + 1 <= session[k.sid].gen
      BY <1>1, <1>2, <2>1 DEF TabsNameSessions, TabRow
    <3>2. session[k.sid].gen \in 0..MaxGeneration
      BY <1>1, <3>1 DEF SessionTables, SignedIn!SessionRows, SignedIn!Generations
    <3>3. k.gen + 1 \in SignedIn!Generations /\ k.sid \in Session
      BY <1>4, <3>1, <3>2, IdentityAssumption DEF SignedIn!Generations
    <3>4. next \in SignedIn!Tokens /\ next.sid = k.sid /\ next.gen = k.gen + 1
      BY <3>3 DEF SignedIn!Token, SignedIn!Tokens
    <3>5. next.sid \in SignedIn!InUse' /\ next.gen <= session'[next.sid].gen
      BY <1>5, <3>1, <3>4
    <3>6. next # None
      BY <3>4, IdentityAssumption DEF SignedIn!Tokens, SignedIn!Generations
    <3> HIDE DEF next
    <3>7. row \in TabRow /\ row.used = next /\ row.phase = "retry"
      BY SMTT(30), <3>4 DEF TabRow
    <3> HIDE DEF row
    <3> QED
      BY <2>1, <3>4, <3>5, <3>6, <3>7, TabsStep
  <2> QED
    BY <1>7, <1>11, <1>13, <1>14, <2>1 DEF SignedIn!TakeAnswer
<1>15. ASSUME NEW t \in Tab, SignedIn!RetryRequest(t) \/ SignedIn!FinishSignOut(t)
       PROVE  TabsNameSessions'
  BY <1>7, <1>11, <1>13, <1>15 DEF SignedIn!RetryRequest, SignedIn!FinishSignOut
<1>16. CASE SignedIn!Server
  <2>1. UNCHANGED <<storage, tab>>
    BY <1>16 DEF SignedIn!Server, SignedIn!Refresh, SignedIn!SignInElsewhere, SignedIn!Expire,
                 SignedIn!IssueBinding, SignedIn!RevokeBinding, SignedIn!LapseRecovery,
                 SignedIn!Bar, SignedIn!Redeploy
  <2> QED
    BY <2>1, TabsKept
<1> QED
  BY <1>8, <1>9, <1>10, <1>12, <1>14, <1>15, <1>16 DEF SignedIn!Next, SignedIn!Tabs

LEMMA SessionsFrame == SessionsInv /\ UNCHANGED sessionPart => SessionsInv'
<1> SUFFICES ASSUME SessionsInv, UNCHANGED sessionPart PROVE SessionsInv'
  OBVIOUS
<1>1. /\ keyring' = keyring /\ session' = session /\ history' = history /\ binding' = binding
      /\ storage' = storage /\ tab' = tab
  BY DEF sessionPart
<1>2. SignedIn!InUse' = SignedIn!InUse
  BY <1>1 DEF SignedIn!InUse
<1>3. SessionTables'
  BY <1>1, <1>2 DEF SessionsInv, Families, SessionTables
<1>4. \A s \in SignedIn!InUse' : Family(s)'
  BY <1>1, <1>2 DEF SessionsInv, Families, Family
<1>5. BindingsNamed' /\ TabsNameSessions'
  BY <1>1, <1>2 DEF SessionsInv, BindingsNamed, TabsNameSessions
<1> QED
  BY <1>3, <1>4, <1>5 DEF SessionsInv, Families

LEMMA SessionsAlways == Spec => []SessionsInv
<1>1. Init => SessionsInv
  BY InitSessions DEF Init
<1>2. SessionsInv /\ [Next]_identityVars => SessionsInv'
  <2>1. SessionsInv /\ SignedIn!Next => SessionsInv'
    BY StepTables, StepTabs DEF SessionsInv
  <2> QED
    BY <2>1, SessionsFrame DEF Next, identityVars, sessionPart
<1> QED
  BY <1>1, <1>2, PTL DEF Spec

\* However often tokens are used again, the last row of a family, and no other, is
\* current and described by the session row; and while its recovery window is open
\* a proven rotation whose answer was lost is answered again with its successor.
THEOREM RotationsStayRecorded == Spec => []RotationsAreRecorded
<1>1. SessionsInv => SignedIn!HistoryMatchesSession
  <2> SUFFICES ASSUME SessionsInv, NEW s \in SignedIn!InUse
               PROVE  /\ \A g \in 0..session[s].gen :
                           SignedIn!Row(s, g).state = "current" <=> g = session[s].gen
                      /\ SignedIn!Last(s).kid = session[s].kid
                      /\ \A g \in 0..(session[s].gen - 1) : SignedIn!Row(s, g).recovery # "none" =>
                           SignedIn!Row(s, g + 1).secret =
                             SignedIn!Derived(SignedIn!Row(s, g).successorKid,
                                              SignedIn!Row(s, g).attempt)
    BY DEF SignedIn!HistoryMatchesSession
  <2>1. Family(s)
    BY DEF SessionsInv, Families
  <2> QED
    BY <2>1 DEF Family, SignedIn!Row, SignedIn!Last
<1>2. SessionsInv => SignedIn!LostAnswerIsRecovered
  <2> SUFFICES ASSUME SessionsInv, NEW s \in SignedIn!InUse, NEW c \in SignedIn!Callers,
                      NEW g, g = session[s].gen - 1, g >= 1, SignedIn!Live(s),
                      SignedIn!TransportAllows(session[s].transport, c),
                      SignedIn!Row(s, g).recovery = "open", session[s].kid \in keyring.known,
                      binding[s] = "active"
               PROVE  /\ SignedIn!Answer(s, g, c, SignedIn!Row(s, g).attempt, TRUE) = "recovered"
                      /\ SignedIn!Authorized(s) => SignedIn!BootstrapAccepts(s, g + 1, c, TRUE)
    BY DEF SignedIn!LostAnswerIsRecovered
  <2> DEFINE row == SignedIn!Row(s, g)
             last == SignedIn!Last(s)
  <2>1. session[s].gen \in Nat /\ Family(s) /\ session[s].bound
    BY IdentityAssumption
       DEF SessionsInv, Families, Family, BindingsNamed, SignedIn!SessionRows, SignedIn!Generations
  <2>2. g \in 0..(session[s].gen - 1) /\ g + 1 = session[s].gen /\ g # session[s].gen /\ g # 0
    BY SMTT(30), <2>1
  <2>3. /\ row.attempt # None /\ row.bound /\ row.successorKid # None
        /\ last.secret = SignedIn!Derived(row.successorKid, row.attempt)
        /\ last.kid = row.successorKid /\ last.bound
        /\ last.kid = session[s].kid /\ last.state = "current"
    <3>1. /\ row = history[s][g + 1] /\ last = history[s][session[s].gen + 1]
          /\ last = history[s][(g + 1) + 1] /\ row.recovery # "none"
      BY <2>2 DEF SignedIn!Row, SignedIn!Last
    <3>2. last.kid = session[s].kid /\ last.state = "current"
      BY SMTT(30), <2>1, <3>1 DEF Family
    <3> HIDE DEF row, last
    <3> QED
      BY ZenonT(60), <2>1, <2>2, <3>1, <3>2 DEF Family
  <2>4. SignedIn!VerifiesBinding(s)
    BY <2>1 DEF SignedIn!VerifiesBinding
  <2>5. SignedIn!RecoverConsumed(s, g, row.attempt, TRUE) = "recovered"
    BY <2>2, <2>3, <2>4 DEF SignedIn!RecoverConsumed
  <2>6. SignedIn!Answer(s, g, c, row.attempt, TRUE) = "recovered"
    BY <2>2, <2>5 DEF SignedIn!Answer
  <2>7. SignedIn!Authorized(s) => SignedIn!BootstrapAccepts(s, g + 1, c, TRUE)
    BY <2>2, <2>3, <2>4 DEF SignedIn!BootstrapAccepts
  <2> QED
    BY <2>6, <2>7
<1> QED
  BY <1>1, <1>2, SessionsAlways, PTL DEF RotationsAreRecorded

\* A tab's step writes to storage nothing, or the token of a new session, or the
\* successor of the token in it, which the server has made.
LEMMA StorageStep ==
  ASSUME SessionsInv, SignedIn!Next, storage' # storage, storage' # None
  PROVE  \/ storage'.gen = 0 /\ storage'.sid \notin SignedIn!InUse
         \/ /\ storage # None /\ storage'.sid = storage.sid
            /\ storage'.gen = storage.gen + 1 /\ storage'.gen <= session[storage.sid].gen
<1>1. \/ \E t \in Tab, s \in Session, u \in Owner : SignedIn!SignIn(t, s, u)
      \/ \E t \in Tab : SignedIn!TakeAnswer(t)
  BY ZenonT(60) DEF SignedIn!Next, SignedIn!Server, SignedIn!Tabs, SignedIn!Refresh, SignedIn!SignInElsewhere,
         SignedIn!Expire, SignedIn!IssueBinding, SignedIn!RevokeBinding, SignedIn!LapseRecovery,
         SignedIn!Bar, SignedIn!Redeploy, SignedIn!StartRefresh, SignedIn!ServeTab,
         SignedIn!LoseAnswer, SignedIn!RetryRequest, SignedIn!FinishSignOut, SignedIn!SignOut
<1>2. ASSUME NEW t \in Tab, NEW s \in Session, NEW u \in Owner, SignedIn!SignIn(t, s, u)
      PROVE  storage'.gen = 0 /\ storage'.sid \notin SignedIn!InUse
  BY <1>2 DEF SignedIn!SignIn, SignedIn!Store, SignedIn!CreateSession, SignedIn!Token
<1>3. ASSUME NEW t \in Tab, SignedIn!TakeAnswer(t)
      PROVE  /\ storage # None /\ storage'.sid = storage.sid
             /\ storage'.gen = storage.gen + 1 /\ storage'.gen <= session[storage.sid].gen
  <2>1. /\ tab[t].phase = "answered" /\ storage = tab[t].used
        /\ storage' = SignedIn!Token(storage.sid, storage.gen + 1)
    BY <1>3 DEF SignedIn!TakeAnswer
  <2>2. tab[t].used # None /\ tab[t].used.gen + 1 <= session[tab[t].used.sid].gen
    BY <2>1 DEF SessionsInv, TabsNameSessions
  <2> QED
    BY <2>1, <2>2 DEF SignedIn!Token
<1> QED
  BY <1>1, <1>2, <1>3

\* A session that was signed out, found reused or ran out makes no token again and
\* is never served; a late answer never undoes what was stored since.
THEOREM SessionsOnlyMoveForward == Spec => SessionsMoveForward
<1>1. SessionsInv /\ [Next]_identityVars
        => [\A s \in SignedIn!InUse : ~SignedIn!Live(s) =>
              session'[s].gen = session[s].gen /\ ~SignedIn!Live(s)']_(SignedIn!vars)
  <2>1. SessionsInv /\ SignedIn!Next =>
          \A s \in SignedIn!InUse : ~SignedIn!Live(s) =>
              session'[s].gen = session[s].gen /\ ~SignedIn!Live(s)'
    BY StepEffect, EffectForward DEF SessionsInv, Families
  <2>2. UNCHANGED sessionPart => UNCHANGED SignedIn!vars
    BY DEF sessionPart, SignedIn!vars
  <2> QED
    BY <2>1, <2>2 DEF Next, identityVars, sessionPart
<1>2. SessionsInv /\ [Next]_identityVars
        => [(storage' # storage /\ storage' # None) =>
              \/ storage'.gen = 0 /\ storage'.sid \notin SignedIn!InUse
              \/ /\ storage # None /\ storage'.sid = storage.sid
                 /\ storage'.gen = storage.gen + 1
                 /\ storage'.gen <= session[storage.sid].gen]_(SignedIn!vars)
  <2>2. UNCHANGED sessionPart => UNCHANGED SignedIn!vars
    BY DEF sessionPart, SignedIn!vars
  <2> QED
    BY <2>2, StorageStep DEF Next, identityVars, sessionPart
<1>3. Spec => SignedIn!EndedSessionStaysEnded
  BY <1>1, SessionsAlways, PTL DEF Spec, SignedIn!EndedSessionStaysEnded
<1>4. Spec => SignedIn!StorageMovesForward
  BY <1>2, SessionsAlways, PTL DEF Spec, SignedIn!StorageMovesForward
<1> QED
  BY <1>3, <1>4 DEF SessionsMoveForward
=============================================================================
