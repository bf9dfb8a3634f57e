------------------------------- MODULE Media -------------------------------
(***************************************************************************)
(* Images: the upload gateway and the asset endpoints                      *)
(* (services/api/src/modules/media), the upload of the web client          *)
(* (apps/web/app/lib/media-upload.ts), the worker's processing             *)
(* (services/worker/src/media.ts) and the triggers of migration 0022 that   *)
(* guard the tables.                                                       *)
(*                                                                         *)
(* The row of an asset, the leases of its uploads and the objects in the    *)
(* provider's store change in steps of their own: a request may die between *)
(* any two of them, and its capability may be used twice.  A generation     *)
(* stands for the lease, the staging key and the object version of the one  *)
(* upload it admits.  row_version is left out: whatever changes it changes  *)
(* the generation too, or follows the commit that reads it.                 *)
(***************************************************************************)
EXTENDS Integers, FiniteSets

CONSTANTS
  User, Asset,  \* an asset is one selected file: its attempt id is the client's
  Slot,         \* sort orders of the one event's pictures, 0..5 in the code
  Group,        \* groups of the same host
  Worker,
  Nothing,
  MaxGeneration,  \* bounds capability_generation
  MaxRenewed,     \* bounds the assets whose capability is renewed
  Retries,        \* claims after which a failure is final, 5 in the code
  MaxClaims,      \* claims the table's CHECK admits, 20 in the code
  MaxUploads      \* bounds the uploads that are pending at a time

ASSUME MediaAssumption ==
  /\ MaxGeneration \in Nat /\ {Retries, MaxUploads} \subseteq Nat \ {0}
  /\ MaxClaims \in Nat /\ MaxClaims >= Retries
  /\ Nothing \notin Asset \union (0..MaxGeneration)

VARIABLES
  purpose,   \* what the files are for: files for different things never meet
  asset,     \* media.assets
  lease,     \* media.gateway_upload_leases: the state, by asset and generation
  upload,    \* what the request that holds the lease is doing
  store,     \* objects the provider holds: <<asset, generation>>
  client,    \* the browser's MediaUploadAttempt: stage, and the last answer it got
  picture,   \* events.event_media of the event
  avatar,    \* profiles.avatar_asset_id
  cover,     \* groups.cover_asset_id
  covering,  \* transactions that are setting a cover
  host,      \* who organises the event and owns the groups
  live,      \* the accounts that have not been merged away
  work       \* the asset a worker is processing

vars == <<purpose, asset, lease, upload, store, client, picture, avatar, cover, covering, host, live, work>>
requests == <<upload, client, work>>
places == <<picture, avatar, cover, covering, host, live, purpose>>

Generation == 0..MaxGeneration
Purpose == {"event_cover", "profile_avatar", "group_cover"}
Ended == {"abandoned", "deleted"}

NoAsset == [state |-> "none"]
NewAsset(u) ==
  [state |-> "pending_upload", owner |-> u, generation |-> 0,
   object |-> Nothing, completed |-> FALSE, closed |-> FALSE,
   moderation |-> "pending", locked |-> "no", attempts |-> 0]

Init ==
  /\ purpose \in Purpose
  /\ asset = [a \in Asset |-> NoAsset]
  /\ lease = [a \in Asset |-> [g \in Generation |-> "none"]]
  /\ upload = [a \in Asset |-> [g \in Generation |-> "none"]]
  /\ store = {}
  /\ client = [a \in Asset |-> [stage |-> "selected", answer |-> Nothing]]
  /\ picture = [s \in Slot |-> Nothing]
  /\ avatar = [u \in User |-> Nothing]
  /\ cover = [r \in Group |-> Nothing]
  /\ covering = [r \in Group |-> Nothing]
  /\ host \in User /\ live = User
  /\ work = [w \in Worker |-> Nothing]

Exists(a) == asset[a] # NoAsset
CurrentLease(a) == lease[a][asset[a].generation]
\* A row a transaction has locked: the others wait for it.
Locked(a) == \E r \in Group : covering[r] # Nothing /\ covering[r].asset = a

\* renewal_disabled_at is set as the asset ends.
Renewable(a) == asset[a].state = "pending_upload" /\ ~asset[a].closed

-----------------------------------------------------------------------------
(* The intent, and the recovery of an attempt. *)

\* A failed upload whose object is known to be absent gives way to the next
\* generation.
Rotates(a) == CurrentLease(a) = "failed_clean" /\ Renewable(a)

Capability(g) == [says |-> "capability", generation |-> g]
Committed == [says |-> "committed"]
InProgress == [says |-> "in_progress"]
Closed == [says |-> "closed"]
Unavailable == [says |-> "unavailable"]

\* recoveryResponse(): what the server says of the attempt, g its generation.
Answer(a, g) ==
  CASE asset[a].object # Nothing /\ lease[a][g] = "committed" -> Committed
    [] asset[a].object # Nothing /\ lease[a][g] # "committed" -> Unavailable
    [] asset[a].object = Nothing /\ ~Renewable(a) -> Closed
    [] asset[a].object = Nothing /\ Renewable(a) /\ lease[a][g] = "none" -> Capability(g)
    [] OTHER -> InProgress

\* The intent is sent once per selected file and key, and sent again, or looked
\* up by that key, after a lost answer.
Stage(a, answer) ==
  CASE answer = Committed -> "uploaded"
    [] answer.says \in {"capability", "in_progress"} -> "intent-created"
    [] OTHER -> client[a].stage

Hear(a, answer, heard) ==
  client' = IF heard THEN [client EXCEPT ![a] = [stage |-> Stage(a, answer), answer |-> answer]]
            ELSE client

CreateIntent(u, a, heard) ==
  /\ asset[a] = NoAsset /\ client[a].stage = "selected"
  /\ u \in live /\ (purpose # "profile_avatar" => u = host)  \* bound: who organises uploads the covers
  /\ Cardinality({b \in Asset : asset[b].state = "pending_upload"}) < MaxUploads
  /\ asset' = [asset EXCEPT ![a] = NewAsset(u)]
  /\ Hear(a, Capability(0), heard)
  /\ UNCHANGED <<lease, upload, store, work, places>>

RecoverAttempt(a, heard) ==
  LET next == asset[a].generation + 1 IN
  /\ Exists(a) /\ ~Locked(a)
  /\ client[a].stage \in {"selected", "intent-created"}
  /\ \/ /\ Rotates(a) /\ next \in Generation
        /\ Cardinality({b \in Asset : Exists(b) /\ asset[b].generation > 0} \union {a}) <= MaxRenewed
        /\ asset' = [asset EXCEPT ![a].generation = next]
        /\ Hear(a, Answer(a, next), heard)
     \/ /\ ~Rotates(a) /\ heard /\ Answer(a, asset[a].generation) # Unavailable
        /\ Hear(a, Answer(a, asset[a].generation), heard)
        /\ UNCHANGED asset
  /\ UNCHANGED <<lease, upload, store, work, places>>

-----------------------------------------------------------------------------
(* The upload: one request per lease, and a step for each thing it waits for. *)

\* capabilityMatchesAsset: the capability of generation g still opens the asset.
Admits(a, g) == Renewable(a) /\ asset[a].object = Nothing /\ asset[a].generation = g

Move(a, g, from, to) == upload[a][g] = from /\ upload' = [upload EXCEPT ![a][g] = to]
SetLease(a, g, from, to) == lease[a][g] = from /\ lease' = [lease EXCEPT ![a][g] = to]

\* The client puts the bytes it captured, under the headers it was given.
Holds(a, g) == client[a].answer = Capability(g)

ClaimUpload(a, g) ==
  /\ Exists(a) /\ ~Locked(a) /\ Holds(a, g)
  /\ Admits(a, g)
  /\ SetLease(a, g, "none", "receiving") /\ Move(a, g, "none", "receiving")
  /\ UNCHANGED <<asset, store, client, work, places>>

\* The bytes are in, with their size and digest: the lease is advanced before
\* the provider is written to.
Receive(a, g) ==
  /\ SetLease(a, g, "receiving", "provider_writing") /\ Move(a, g, "receiving", "writing")
  /\ UNCHANGED <<asset, store, client, work, places>>

Put(a, g) ==
  /\ Move(a, g, "writing", "written")
  /\ store' = store \union {<<a, g>>}
  /\ UNCHANGED <<asset, lease, client, work, places>>

\* The deadline passes, or the answer is no receipt; the object may be there all
\* the same.
PutFails(a, g) ==
  /\ Move(a, g, "writing", "unknown")
  /\ store' \in {store, store \union {<<a, g>>}}
  /\ UNCHANGED <<asset, lease, client, work, places>>

\* The lease and the asset are both written, or neither.
Commit(a, g, heard) ==
  /\ Admits(a, g) /\ ~Locked(a)
  /\ SetLease(a, g, "provider_writing", "committed")
  /\ asset' = [asset EXCEPT ![a].object = g]
  /\ Move(a, g, "written", "over")
  /\ Hear(a, Committed, heard /\ Holds(a, g))
  /\ UNCHANGED <<store, work, places>>

\* deleteExactObject.
Deleted(a, g) == store \ {<<a, g>>}

\* The asset has moved on, or the transaction failed: the object is deleted again
\* if the provider will.
Lose(a, g, gone) ==
  /\ Move(a, g, "written", IF gone THEN "absent" ELSE "unknown")
  /\ store' = IF gone THEN Deleted(a, g) ELSE store
  /\ UNCHANGED <<asset, lease, client, work, places>>

\* markGatewayFailure: clean only where nothing was sent to the provider, or its
\* absence is confirmed.
MarkFailure_AlwaysClean(a, g) ==
  /\ \E at \in {"receiving", "absent", "unknown"} : Move(a, g, at, "over")
  /\ lease' = [lease EXCEPT ![a][g] = "failed_clean"]
  /\ UNCHANGED <<asset, store, client, work, places>>

MarkFailure(a, g) ==
  /\ \/ Move(a, g, "receiving", "over") /\ SetLease(a, g, "receiving", "failed_clean")
     \/ Move(a, g, "absent", "over") /\ SetLease(a, g, "provider_writing", "failed_clean")
     \/ Move(a, g, "unknown", "over") /\ SetLease(a, g, "provider_writing", "failed_cleanup_pending")
  /\ UNCHANGED <<asset, store, client, work, places>>

\* The process dies, or cannot record the failure.
Crash(a, g) ==
  /\ upload[a][g] \notin {"none", "over"}
  /\ upload' = [upload EXCEPT ![a][g] = "over"]
  /\ UNCHANGED <<asset, lease, store, client, work, places>>

\* assertVerifiedObject: the provider still holds the object the asset names.
Verified(a) == <<a, asset[a].object>> \in store

\* The same bytes once more under the same key: complete() answers from its receipt.
Complete(a, heard) ==
  /\ Exists(a) /\ ~Locked(a) /\ client[a].stage = "uploaded"
  /\ \/ /\ ~asset[a].completed /\ Renewable(a)
        /\ asset[a].object = asset[a].generation
        /\ CurrentLease(a) = "committed" /\ Verified(a)
        /\ asset' = [asset EXCEPT ![a].state = "uploaded", ![a].completed = TRUE]
     \/ asset[a].completed /\ heard /\ UNCHANGED asset
  /\ client' = IF heard THEN [client EXCEPT ![a] = [stage |-> "completed", answer |-> Nothing]]
             ELSE client
  /\ UNCHANGED <<lease, upload, store, work, places>>

-----------------------------------------------------------------------------
(* Where an asset is shown, and its end. *)

Referenced(a) ==
  \/ \E s \in Slot : picture[s] = a
  \/ \E u \in User : avatar[u] = a
  \/ \E r \in Group : cover[r] = a

\* The busy check reads the gateway's leases, and the worker's in a table the
\* worker does not write: a lock of the worker does not stop it.
Busy(a) == \E g \in Generation : lease[a][g] \in {"receiving", "provider_writing"}

EndedAsset(a, state) == [asset[a] EXCEPT !.state = state, !.closed = TRUE]

Abandon(a) ==
  LET next == asset[a].generation + 1 IN
  /\ Exists(a) /\ ~Locked(a) /\ asset[a].state \notin Ended
  /\ ~Referenced(a) /\ ~Busy(a) /\ next \in Generation
  /\ asset' = [asset EXCEPT ![a] = [EndedAsset(a,
       IF asset[a].state = "pending_upload" THEN "abandoned" ELSE "deleted")
       EXCEPT !.generation = next]]
  /\ UNCHANGED <<lease, store, requests, places>>

Mine(a, u, use) == Exists(a) /\ ~Locked(a) /\ asset[a].owner = u /\ purpose = use
Attachable(a) == asset[a].state = "ready" /\ asset[a].moderation = "approved"
\* A lost answer is given again from the receipt of the attachment.
Attached(a) == client' = [client EXCEPT ![a].stage = "attached"]

\* Every attachment locks the place and then the asset.  The picture that had the
\* slot is left as it is.
AttachEvent(a, s) ==
  /\ Mine(a, host, "event_cover") /\ client[a].stage \in {"completed", "attached"}
  /\ asset[a].completed /\ asset[a].state \in {"uploaded", "processing", "ready"}
  /\ asset[a].moderation # "rejected"
  /\ picture' = [picture EXCEPT ![s] = a]
  /\ Attached(a)
  /\ UNCHANGED <<asset, lease, upload, store, work, avatar, cover, covering, host, live, purpose>>

\* The avatar that was there is deleted, unless a profile still shows it.
AttachProfile(a) ==
  LET u == asset[a].owner
      old == avatar[u]
      now == [avatar EXCEPT ![u] = a]
      deletes == /\ old \notin {Nothing, a} /\ asset[old].owner = u
                 /\ \A v \in User : now[v] # old
  IN
  /\ Exists(a) /\ Mine(a, u, "profile_avatar") /\ client[a].stage \in {"completed", "attached"}
  /\ Attachable(a)
  /\ avatar' = now
  /\ asset' = IF deletes THEN [asset EXCEPT ![old] = EndedAsset(old, "deleted")] ELSE asset
  /\ Attached(a)
  /\ UNCHANGED <<lease, upload, store, work, picture, cover, covering, host, live, purpose>>

\* The cover that was there is deleted unless another group shows it, which the
\* statement reads as it starts: it waits for a transaction that has locked the
\* old cover, and then does not look again, for that one changed no column of it.
BeginCover(a, r) ==
  /\ Mine(a, host, "group_cover") /\ client[a].stage \in {"completed", "attached"}
  /\ covering[r] = Nothing /\ Attachable(a)
  /\ covering' = [covering EXCEPT ![r] = [asset |-> a,
       deletes |-> /\ cover[r] \notin {Nothing, a} /\ asset[cover[r]].owner = host
                   /\ \A q \in Group \ {r} : cover[q] # cover[r]]]
  /\ UNCHANGED <<asset, lease, upload, store, client, work, picture, avatar, cover, host, live, purpose>>

EndCover(r) ==
  LET old == cover[r] IN
  /\ covering[r] # Nothing
  /\ covering[r].deletes => \A q \in Group \ {r} : covering[q] = Nothing \/ covering[q].asset # old
  /\ cover' = [cover EXCEPT ![r] = covering[r].asset]
  /\ asset' = IF covering[r].deletes THEN [asset EXCEPT ![old] = EndedAsset(old, "deleted")] ELSE asset
  /\ covering' = [covering EXCEPT ![r] = Nothing]
  /\ UNCHANGED <<lease, upload, store, client, work, picture, avatar, host, live, purpose>>

\* No code of the repository writes a moderation verdict: it comes from outside.
Moderate(a, verdict) ==
  /\ Exists(a) /\ ~Locked(a) /\ asset[a].moderation = "pending"
  /\ asset[a].state = "ready"
  /\ asset' = [asset EXCEPT ![a].moderation = verdict]
  /\ UNCHANGED <<lease, store, requests, places>>

\* apply_account_merge and the profile part of performAccountMerge: everything of u
\* becomes v's, and the capabilities issued to u are void.
Merge(u, v) ==
  LET moved == {a \in Asset : Exists(a) /\ asset[a].owner = u} IN
  /\ u # v /\ {u, v} \subseteq live /\ moved # {}
  /\ \A a \in moved : ~Locked(a) /\ asset[a].generation + 1 \in Generation
  /\ asset' = [a \in Asset |-> IF a \notin moved THEN asset[a]
       ELSE [asset[a] EXCEPT !.owner = v, !.generation = @ + 1]]
  /\ host' = IF host = u THEN v ELSE host
  /\ live' = live \ {u}
  /\ avatar' = [avatar EXCEPT ![v] = IF @ = Nothing THEN avatar[u] ELSE @, ![u] = Nothing]
  /\ UNCHANGED <<lease, store, requests, picture, cover, covering, purpose>>

-----------------------------------------------------------------------------
(* The worker. *)

\* A worker that dies leaves its claim counted.  When the CHECK refuses one more,
\* the job fails and the asset waits for ever.
ClaimAsset(w, a) ==
  /\ work[w] = Nothing /\ Exists(a) /\ ~Locked(a)
  /\ asset[a].state \in {"uploaded", "processing"} /\ asset[a].object # Nothing
  /\ asset[a].locked \in {"no", "stale"} /\ asset[a].attempts < MaxClaims
  /\ asset' = [asset EXCEPT ![a].state = "processing", ![a].locked = "yes", ![a].attempts = @ + 1]
  /\ work' = [work EXCEPT ![w] = [asset |-> a, attempts |-> asset[a].attempts + 1]]
  /\ UNCHANGED <<lease, upload, store, client, places>>

\* Five minutes pass: the worker may still be at it.
LockAges(a) ==
  /\ Exists(a) /\ asset[a].locked = "yes"
  /\ asset' = [asset EXCEPT ![a].locked = "stale"]
  /\ UNCHANGED <<lease, store, requests, places>>

Finished_Unguarded(a, state) == [asset EXCEPT ![a].state = state, ![a].locked = "no"]

\* The worker writes by id alone; the trigger refuses to bring an ended asset back,
\* and then the job of that cycle fails and leaves the row alone.
Finished(a, state) ==
  IF asset[a].state \in Ended THEN asset
  ELSE [asset EXCEPT ![a].state = state, ![a].locked = "no"]

Ready(w) ==
  /\ work[w] # Nothing /\ ~Locked(work[w].asset)
  /\ <<work[w].asset, asset[work[w].asset].object>> \in store
  /\ asset' = Finished(work[w].asset, "ready")
  /\ work' = [work EXCEPT ![w] = Nothing]
  /\ UNCHANGED <<lease, upload, store, client, places>>

\* A failure that may pass is retried until the attempts are used up; the others
\* (infected, undecodable, another type) reject at once.
Fail(w, retryable) ==
  /\ work[w] # Nothing /\ ~Locked(work[w].asset)
  /\ asset' = Finished(work[w].asset,
       IF retryable /\ work[w].attempts < Retries THEN "uploaded" ELSE "rejected")
  /\ work' = [work EXCEPT ![w] = Nothing]
  /\ UNCHANGED <<lease, upload, store, client, places>>

WorkerDies(w) ==
  /\ work[w] # Nothing /\ work' = [work EXCEPT ![w] = Nothing]
  /\ UNCHANGED <<asset, lease, upload, store, client, places>>

-----------------------------------------------------------------------------
UploadStep(a) ==
  \E g \in Generation :
    \/ ClaimUpload(a, g) \/ Receive(a, g) \/ Put(a, g) \/ PutFails(a, g)
    \/ \E heard \in BOOLEAN : Commit(a, g, heard)
    \/ \E gone \in BOOLEAN : Lose(a, g, gone)
    \/ MarkFailure(a, g) \/ Crash(a, g)

AssetStep(a) ==
  \/ \E u \in User, heard \in BOOLEAN : CreateIntent(u, a, heard)
  \/ \E heard \in BOOLEAN : RecoverAttempt(a, heard) \/ Complete(a, heard)
  \/ \E s \in Slot : AttachEvent(a, s)
  \/ \E r \in Group : BeginCover(a, r)
  \/ \E verdict \in {"approved", "rejected"} : Moderate(a, verdict)
  \/ AttachProfile(a) \/ Abandon(a) \/ LockAges(a)

WorkStep(w) ==
  \/ \E a \in Asset : ClaimAsset(w, a)
  \/ \E retryable \in BOOLEAN : Fail(w, retryable)
  \/ Ready(w) \/ WorkerDies(w)

Next ==
  \/ \E a \in Asset : UploadStep(a) \/ AssetStep(a)
  \/ \E w \in Worker : WorkStep(w)
  \/ \E r \in Group : EndCover(r)
  \/ \E u, v \in User : Merge(u, v)

Spec == Init /\ [][Next]_vars

-----------------------------------------------------------------------------
(* Properties. *)

\* The tables hold what their columns admit, and an asset's generation never
\* passes its leases: what a request holds is about a lease that was taken.
TypeOK ==
  /\ \A a \in Asset : asset[a] \in {NoAsset} \union
       [state : {"pending_upload", "uploaded", "processing", "ready", "rejected"} \union Ended,
        owner : User, generation : Generation,
        object : Generation \union {Nothing}, completed : BOOLEAN, closed : BOOLEAN,
        moderation : {"pending", "approved", "rejected"},
        locked : {"no", "yes", "stale"}, attempts : 0..MaxClaims]
  /\ store \subseteq Asset \X Generation
  /\ \A a \in Asset, g \in Generation :
       /\ lease[a][g] \in {"none", "receiving", "provider_writing", "committed",
                           "failed_cleanup_pending", "failed_clean"}
       /\ upload[a][g] \in {"none", "receiving", "writing", "written", "unknown", "absent", "over"}
       /\ lease[a][g] # "none" => Exists(a) /\ g <= asset[a].generation

\* The object an asset names is in the store, and no other object is there unless
\* its lease says that it may be: deleting a loser never takes the winner
\* (putVerifiedObject, commitProviderReceipt, deleteExactObject), and no failure
\* forgets an object it has not seen gone (markGatewayFailure). A picture of an
\* event and an avatar are never those of an asset that has ended: attaching,
\* replacing and abandoning meet on the asset's row.
AssetsAreAccountedFor ==
  /\ \A a \in Asset, g \in Generation :
       /\ Exists(a) /\ asset[a].object = g => <<a, g>> \in store /\ lease[a][g] = "committed"
       /\ <<a, g>> \in store /\ asset[a].object # g =>
            lease[a][g] \in {"provider_writing", "failed_cleanup_pending"}
  /\ \A s \in Slot : picture[s] # Nothing => asset[picture[s]].state \notin Ended
  /\ \A u \in User : avatar[u] # Nothing => asset[avatar[u]].state \notin Ended

\* An asset that has been abandoned or deleted stays so, whatever a worker that
\* took it before brings home.
EndedStaysEnded ==
  [][\A a \in Asset : Exists(a) /\ asset[a].state \in Ended => asset'[a].state = asset[a].state]_vars

=============================================================================
