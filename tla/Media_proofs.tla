---------------------------- MODULE Media_proofs ----------------------------
(***************************************************************************)
(* Proofs about the images, for any number of users, files, groups,        *)
(* workers and uploads: the tables keep their types, every object in the   *)
(* store is accounted for, and an asset that ended stays ended.            *)
(*                                                                         *)
(* The inductive invariant has three parts: the types; what a lease and    *)
(* the request that holds it say of the store (Leases); and what is known  *)
(* of an asset as long as something refers to it (Places).                 *)
(***************************************************************************)
EXTENDS Media, TLAPS

LeaseStates ==
  {"none", "receiving", "provider_writing", "committed", "failed_cleanup_pending", "failed_clean"}
UploadStates == {"none", "receiving", "writing", "written", "unknown", "absent", "over"}
AssetStates == {"pending_upload", "uploaded", "processing", "ready", "rejected"} \union Ended

Rows ==
  [state : AssetStates, owner : User, generation : Generation,
   object : Generation \union {Nothing}, completed : BOOLEAN, closed : BOOLEAN,
   moderation : {"pending", "approved", "rejected"},
   locked : {"no", "yes", "stale"}, attempts : 0..MaxClaims]

AssetTable == asset \in [Asset -> {NoAsset} \union Rows]

Tables ==
  /\ AssetTable
  /\ lease \in [Asset -> [Generation -> LeaseStates]]
  /\ upload \in [Asset -> [Generation -> UploadStates]]
  /\ store \subseteq Asset \X Generation

PlaceTables ==
  /\ picture \in [Slot -> Asset \union {Nothing}]
  /\ avatar \in [User -> Asset \union {Nothing}]
  /\ cover \in [Group -> Asset \union {Nothing}]
  /\ covering \in [Group -> [asset : Asset, deletes : BOOLEAN] \union {Nothing}]
  /\ work \in [Worker -> [asset : Asset, attempts : Nat] \union {Nothing}]

\* A request between two of its steps holds the lease its step has left, and knows whether the
\* provider has the object; a lease is committed for the object the asset names, and for no other.
LeaseOf(a, g) ==
  /\ lease[a][g] # "none" => Exists(a) /\ g <= asset[a].generation
  /\ upload[a][g] = "receiving" => lease[a][g] = "receiving"
  /\ upload[a][g] \in {"writing", "written", "unknown", "absent"} => lease[a][g] = "provider_writing"
  /\ upload[a][g] = "written" => <<a, g>> \in store
  /\ upload[a][g] \in {"writing", "absent"} => <<a, g>> \notin store
  /\ <<a, g>> \in store => lease[a][g] \in {"provider_writing", "committed", "failed_cleanup_pending"}
  /\ lease[a][g] = "committed" => asset[a].object = g
  /\ Exists(a) /\ asset[a].object = g => <<a, g>> \in store /\ lease[a][g] = "committed"

Leases == \A a \in Asset, g \in Generation : LeaseOf(a, g)

\* What has been completed once: it never waits for an upload again, and is never abandoned.
Past(a) == Exists(a) /\ asset[a].state \notin {"pending_upload", "abandoned"}

\* Files for different things never meet, and what refers to an asset refers to one that has
\* been completed; an event's picture and an avatar have not ended.
Places ==
  /\ purpose # "event_cover" => \A s \in Slot : picture[s] = Nothing
  /\ purpose # "profile_avatar" => \A u \in User : avatar[u] = Nothing
  /\ purpose # "group_cover" => \A r \in Group : cover[r] = Nothing /\ covering[r] = Nothing
  /\ \A s \in Slot : picture[s] # Nothing => Past(picture[s]) /\ asset[picture[s]].state \notin Ended
  /\ \A u \in User : avatar[u] # Nothing => Past(avatar[u]) /\ asset[avatar[u]].state \notin Ended
  /\ \A r \in Group : cover[r] # Nothing => Past(cover[r])
  /\ \A r \in Group : covering[r] # Nothing =>
       Past(covering[r].asset) /\ (covering[r].deletes => cover[r] # Nothing)
  /\ \A w \in Worker : work[w] # Nothing => Past(work[w].asset)

MediaInv == Tables /\ PlaceTables /\ Leases /\ Places

-----------------------------------------------------------------------------
(* What a step may do to the row of an asset. *)

\* No step forgets an asset, ends one that an event or a profile will show, revives one that
\* has ended, or brings one back to wait for its upload.
RowMay(a) ==
  /\ Exists(a) => Exists(a)' /\ asset'[a].generation >= asset[a].generation
  /\ Exists(a) /\ asset[a].state \in Ended => asset'[a].state = asset[a].state
  /\ Past(a) => Past(a)'
  /\ asset[a].state \notin Ended /\ asset'[a].state \in Ended =>
       (\A s \in Slot : picture'[s] # a) /\ (\A u \in User : avatar'[u] # a)

\* The object an asset names is the commit's to set.
ObjectStays(a) ==
  /\ Exists(a) => asset'[a].object = asset[a].object
  /\ ~Exists(a) => ~Exists(a)' \/ asset'[a].object = Nothing

LEMMA RowFacts ==
  ASSUME AssetTable, NEW a \in Asset
  PROVE  /\ Exists(a) => asset[a] \in Rows /\ asset[a].state # "none"
         /\ ~Exists(a) => asset[a].state = "none"
BY DEF AssetTable, Exists, NoAsset, Rows, AssetStates, Ended

LEMMA SameRows ==
  ASSUME AssetTable, asset' = asset
  PROVE  AssetTable' /\ \A a \in Asset : RowMay(a) /\ ObjectStays(a)
<1>1. \A a \in Asset : Exists(a) => asset[a].generation \in Generation
  BY DEF AssetTable, Exists, Rows
<1> QED
  BY <1>1 DEF AssetTable, RowMay, ObjectStays, Exists, Past, Generation

\* One row changes: what has to be known of it.
LEMMA OneRow ==
  ASSUME AssetTable, NEW a \in Asset, NEW row \in Rows,
         asset' = [asset EXCEPT ![a] = row],
         Exists(a) => row.generation >= asset[a].generation,
         Exists(a) /\ asset[a].state \in Ended => row.state = asset[a].state,
         Past(a) => row.state \notin {"pending_upload", "abandoned"},
         asset[a].state \notin Ended /\ row.state \in Ended =>
           (\A s \in Slot : picture'[s] # a) /\ (\A u \in User : avatar'[u] # a)
  PROVE  /\ AssetTable'
         /\ \A b \in Asset : RowMay(b)
         /\ asset'[a] = row /\ \A b \in Asset \ {a} : ObjectStays(b)
         /\ (IF Exists(a) THEN row.object = asset[a].object ELSE row.object = Nothing) => ObjectStays(a)
<1>1. asset'[a] = row /\ \A b \in Asset \ {a} : asset'[b] = asset[b]
  BY DEF AssetTable
<1>2. AssetTable'
  BY DEF AssetTable
<1>3. row # NoAsset /\ row.generation \in Generation
  BY DEF Rows, NoAsset, AssetStates, Ended
<1>4. \A b \in Asset \ {a} : RowMay(b) /\ ObjectStays(b)
  <2> SUFFICES ASSUME NEW b \in Asset \ {a} PROVE RowMay(b) /\ ObjectStays(b)
    OBVIOUS
  <2>1. Exists(b) => asset[b].generation \in Generation
    BY RowFacts DEF Rows
  <2> QED
    BY <1>1, <2>1 DEF RowMay, ObjectStays, Exists, Past, Generation
<1>5. RowMay(a)
  BY <1>1, <1>3 DEF RowMay, Exists, Past
<1> QED
  BY <1>1, <1>2, <1>3, <1>4, <1>5 DEF ObjectStays, Exists

\* What every step but a commit does to the assets.
Quietly == AssetTable' /\ \A b \in Asset : RowMay(b) /\ ObjectStays(b)

LEMMA CreateIntentRows ==
  ASSUME Tables, Places, NEW u \in User, NEW a \in Asset, NEW heard \in BOOLEAN, CreateIntent(u, a, heard)
  PROVE  Quietly
<1>1. asset[a] = NoAsset /\ asset' = [asset EXCEPT ![a] = NewAsset(u)]
  BY DEF CreateIntent
<1>2. NewAsset(u) \in Rows /\ NewAsset(u).object = Nothing /\ NewAsset(u).state = "pending_upload"
  BY MediaAssumption DEF NewAsset, Rows, AssetStates, Ended, Generation
<1>3. ~Exists(a) /\ ~Past(a)
  BY <1>1 DEF Exists, Past
<1> HIDE DEF CreateIntent
<1> QED
  BY <1>1, <1>2, <1>3, OneRow DEF Quietly, Tables, Ended

LEMMA RecoverAttemptRows ==
  ASSUME Tables, Places, NEW a \in Asset, NEW heard \in BOOLEAN, RecoverAttempt(a, heard)
  PROVE  Quietly
<1>1. CASE asset' = asset
  BY <1>1, SameRows DEF Quietly, Tables
<1>2. CASE asset' # asset
  <2> DEFINE next == asset[a].generation + 1
             row == [asset[a] EXCEPT !.generation = next]
  <2>1. Exists(a) /\ next \in Generation /\ asset' = [asset EXCEPT ![a].generation = next]
    BY <1>2 DEF RecoverAttempt
  <2>2. asset[a] \in Rows /\ next >= asset[a].generation
    BY <2>1, RowFacts DEF Tables, Rows, Generation
  <2>3. /\ asset' = [asset EXCEPT ![a] = row]
        /\ row \in Rows /\ row.generation = next
        /\ row.state = asset[a].state /\ row.object = asset[a].object
    BY <2>1, <2>2 DEF Rows, Tables, AssetTable
  <2> HIDE DEF row, next
  <2> QED
    BY ZenonT(60), <2>1, <2>2, <2>3, OneRow DEF Quietly, Tables, Past
<1> QED
  BY <1>1, <1>2

LEMMA CompleteRows ==
  ASSUME Tables, Places, NEW a \in Asset, NEW heard \in BOOLEAN, Complete(a, heard)
  PROVE  Quietly
<1>1. CASE asset' = asset
  BY <1>1, SameRows DEF Quietly, Tables
<1>2. CASE asset' # asset
  <2> DEFINE row == [asset[a] EXCEPT !.state = "uploaded", !.completed = TRUE]
  <2>1. /\ Exists(a) /\ asset[a].state = "pending_upload"
        /\ asset' = [asset EXCEPT ![a].state = "uploaded", ![a].completed = TRUE]
    BY <1>2 DEF Complete, Renewable
  <2>2. asset[a] \in Rows
    BY <2>1, RowFacts DEF Tables
  <2>3. asset' = [asset EXCEPT ![a] = row]
    BY <2>1 DEF Tables, AssetTable
  <2>4. row \in Rows
    BY <2>2 DEF Rows, AssetStates
  <2>5. /\ row.generation >= asset[a].generation
        /\ row.state = "uploaded" /\ row.object = asset[a].object
    BY <2>2 DEF Rows, Generation
  <2> HIDE DEF row
  <2> QED
    BY ZenonT(60), <2>1, <2>3, <2>4, <2>5, OneRow DEF Quietly, Tables, Past, Ended
<1> QED
  BY <1>1, <1>2

\* An asset ends: what the code deletes is not shown, or no longer.
LEMMA EndingRow ==
  ASSUME Tables, NEW a \in Asset, Exists(a), NEW n \in Generation, NEW s \in Ended,
         n >= asset[a].generation,
         asset' = [asset EXCEPT ![a] = [asset[a] EXCEPT !.state = s, !.closed = TRUE, !.generation = n]],
         asset[a].state \in Ended => s = asset[a].state,
         Past(a) => s = "deleted",
         \A x \in Slot : picture'[x] # a,
         \A u \in User : avatar'[u] # a
  PROVE  Quietly
<1> DEFINE row == [asset[a] EXCEPT !.state = s, !.closed = TRUE, !.generation = n]
<1>1. asset[a] \in Rows
  BY RowFacts DEF Tables
<1>2. /\ row \in Rows /\ row.generation = n
      /\ row.state = s /\ row.object = asset[a].object
  BY <1>1 DEF Rows, AssetStates
<1>3. asset' = [asset EXCEPT ![a] = row]
  OBVIOUS
<1>4. Past(a) => row.state \notin {"pending_upload", "abandoned"}
  BY <1>2
<1>5. /\ AssetTable
      /\ row.generation >= asset[a].generation
      /\ asset[a].state \in Ended => row.state = asset[a].state
  BY <1>2 DEF Tables
<1> HIDE DEF row
<1> QED
  <2>1. /\ AssetTable' /\ \A b \in Asset : RowMay(b)
        /\ \A b \in Asset \ {a} : ObjectStays(b)
        /\ (IF Exists(a) THEN row.object = asset[a].object ELSE row.object = Nothing) => ObjectStays(a)
    BY <1>2, <1>3, <1>4, <1>5, OneRow, ZenonT(60)
  <2> QED
    BY <1>2, <2>1 DEF Quietly

LEMMA AbandonRows ==
  ASSUME Tables, Places, NEW a \in Asset, Abandon(a)
  PROVE  Quietly
<1> DEFINE n == asset[a].generation + 1
           s == IF asset[a].state = "pending_upload" THEN "abandoned" ELSE "deleted"
<1>1. /\ Exists(a) /\ n \in Generation /\ asset[a].state \notin Ended /\ ~Referenced(a)
      /\ picture' = picture /\ avatar' = avatar
      /\ asset' = [asset EXCEPT ![a] = [EndedAsset(a, s) EXCEPT !.generation = n]]
  BY DEF Abandon, places
<1>2. asset[a] \in Rows /\ n >= asset[a].generation
  BY <1>1, RowFacts DEF Tables, Rows, Generation
<1>3. [EndedAsset(a, s) EXCEPT !.generation = n]
        = [asset[a] EXCEPT !.state = s, !.closed = TRUE, !.generation = n]
  BY <1>2 DEF EndedAsset, Rows
<1>4. s \in Ended /\ (Past(a) => s = "deleted")
  BY DEF Ended, Past
<1>5. (\A x \in Slot : picture'[x] # a) /\ (\A u \in User : avatar'[u] # a)
  BY <1>1 DEF Referenced
<1> HIDE DEF n, s
<1> QED
  BY <1>1, <1>2, <1>3, <1>4, <1>5, EndingRow

LEMMA AttachProfileRows ==
  ASSUME Tables, PlaceTables, Places, NEW a \in Asset, AttachProfile(a)
  PROVE  Quietly
<1> DEFINE u == asset[a].owner
           old == avatar[u]
<1>1. CASE asset' = asset
  BY <1>1, SameRows DEF Quietly, Tables
<1>2. CASE asset' # asset
  <2>1. /\ Exists(a) /\ purpose = "profile_avatar" /\ old \notin {Nothing, a}
        /\ asset' = [asset EXCEPT ![old] = EndedAsset(old, "deleted")]
        /\ picture' = picture /\ \A v \in User : avatar'[v] # old
    BY <1>2 DEF AttachProfile, Mine
  <2>2. u \in User
    BY <2>1, RowFacts DEF Tables, Rows
  <2>3. old \in Asset /\ Past(old) /\ asset[old].state \notin Ended
    BY <2>1, <2>2 DEF PlaceTables, Places
  <2>4. Exists(old) /\ asset[old] \in Rows /\ asset[old].generation \in Generation
    BY <2>3, RowFacts DEF Past, Tables, Rows
  <2>5. EndedAsset(old, "deleted")
          = [asset[old] EXCEPT !.state = "deleted", !.closed = TRUE, !.generation = asset[old].generation]
    BY <2>4 DEF EndedAsset, Rows
  <2>6. \A x \in Slot : picture'[x] # old
    BY <2>1 DEF Places
  <2>7. asset[old].generation >= asset[old].generation /\ "deleted" \in Ended
    BY <2>4 DEF Generation, Ended
  <2> HIDE DEF old, u
  <2> QED
    BY <2>1, <2>3, <2>4, <2>5, <2>6, <2>7, EndingRow
<1> QED
  BY <1>1, <1>2

LEMMA EndCoverRows ==
  ASSUME Tables, PlaceTables, Places, NEW r \in Group, EndCover(r)
  PROVE  Quietly
<1> DEFINE old == cover[r]
<1>1. CASE asset' = asset
  BY <1>1, SameRows DEF Quietly, Tables
<1>2. CASE asset' # asset
  <2>1. /\ covering[r] # Nothing /\ covering[r].deletes
        /\ asset' = [asset EXCEPT ![old] = EndedAsset(old, "deleted")]
        /\ picture' = picture /\ avatar' = avatar
    BY <1>2 DEF EndCover
  <2>2. purpose = "group_cover" /\ old # Nothing
    BY <2>1 DEF Places
  <2>3. old \in Asset /\ Past(old)
    BY <2>2 DEF PlaceTables, Places
  <2>4. Exists(old) /\ asset[old] \in Rows /\ asset[old].generation \in Generation
    BY <2>3, RowFacts DEF Past, Tables, Rows
  <2>5. EndedAsset(old, "deleted")
          = [asset[old] EXCEPT !.state = "deleted", !.closed = TRUE, !.generation = asset[old].generation]
    BY <2>4 DEF EndedAsset, Rows
  <2>6. (\A x \in Slot : picture'[x] # old) /\ (\A u \in User : avatar'[u] # old)
    BY <2>1, <2>2, <2>3, MediaAssumption DEF Places
  <2>7. asset[old].generation >= asset[old].generation /\ "deleted" \in Ended
        /\ (asset[old].state \in Ended => "deleted" = asset[old].state)
    BY <2>3, <2>4 DEF Generation, Ended, Past
  <2> HIDE DEF old
  <2> QED
    BY <2>1, <2>3, <2>4, <2>5, <2>6, <2>7, EndingRow
<1> QED
  BY <1>1, <1>2

LEMMA ModerateRows ==
  ASSUME Tables, Places, NEW a \in Asset, NEW verdict \in {"approved", "rejected"}, Moderate(a, verdict)
  PROVE  Quietly
<1> DEFINE row == [asset[a] EXCEPT !.moderation = verdict]
<1>1. Exists(a) /\ asset' = [asset EXCEPT ![a].moderation = verdict]
  BY DEF Moderate
<1>2. asset[a] \in Rows
  BY <1>1, RowFacts DEF Tables
<1>3. asset' = [asset EXCEPT ![a] = row]
  BY <1>1 DEF Tables, AssetTable
<1>4. row \in Rows
  BY <1>2 DEF Rows
<1>5. /\ row.generation >= asset[a].generation /\ row.state = asset[a].state
      /\ row.object = asset[a].object
  BY <1>2 DEF Rows, Generation
<1> HIDE DEF row
<1> QED
  BY ZenonT(60), <1>1, <1>3, <1>4, <1>5, OneRow DEF Quietly, Tables, Past

LEMMA LockAgesRows ==
  ASSUME Tables, Places, NEW a \in Asset, LockAges(a)
  PROVE  Quietly
<1> DEFINE row == [asset[a] EXCEPT !.locked = "stale"]
<1>1. Exists(a) /\ asset' = [asset EXCEPT ![a].locked = "stale"]
  BY DEF LockAges
<1>2. asset[a] \in Rows
  BY <1>1, RowFacts DEF Tables
<1>3. asset' = [asset EXCEPT ![a] = row]
  BY <1>1 DEF Tables, AssetTable
<1>4. row \in Rows
  BY <1>2 DEF Rows
<1>5. /\ row.generation >= asset[a].generation /\ row.state = asset[a].state
      /\ row.object = asset[a].object
  BY <1>2 DEF Rows, Generation
<1> HIDE DEF row
<1> QED
  BY ZenonT(60), <1>1, <1>3, <1>4, <1>5, OneRow DEF Quietly, Tables, Past

LEMMA ClaimAssetRows ==
  ASSUME Tables, Places, NEW a \in Asset, NEW w \in Worker, ClaimAsset(w, a)
  PROVE  Quietly
<1> DEFINE n == asset[a].attempts + 1
           row == [asset[a] EXCEPT !.state = "processing", !.locked = "yes", !.attempts = n]
<1>1. /\ Exists(a) /\ asset[a].state \in {"uploaded", "processing"} /\ asset[a].attempts < MaxClaims
      /\ asset' = [asset EXCEPT ![a].state = "processing", ![a].locked = "yes", ![a].attempts = n]
  BY DEF ClaimAsset
<1>2. asset[a] \in Rows
  BY <1>1, RowFacts DEF Tables
<1>3. n \in 0..MaxClaims
  BY <1>1, <1>2, MediaAssumption DEF Rows
<1> HIDE DEF n
<1>4. asset' = [asset EXCEPT ![a] = row]
  BY <1>1 DEF Tables, AssetTable
<1>5. row \in Rows
  BY <1>2, <1>3 DEF Rows, AssetStates
<1>6. /\ row.generation >= asset[a].generation /\ row.state = "processing"
      /\ row.object = asset[a].object
  BY <1>2 DEF Rows, Generation
<1> HIDE DEF row
<1> QED
  BY ZenonT(60), <1>1, <1>4, <1>5, <1>6, OneRow DEF Quietly, Tables, Past, Ended

\* What a worker brings home.
LEMMA FinishedRows ==
  ASSUME Tables, Places, NEW a \in Asset, Past(a), NEW s \in {"uploaded", "ready", "rejected"},
         asset' = Finished(a, s)
  PROVE  Quietly
<1> DEFINE row == [asset[a] EXCEPT !.state = s, !.locked = "no"]
<1>1. CASE asset[a].state \in Ended
  BY <1>1, SameRows DEF Quietly, Tables, Finished
<1>2. CASE asset[a].state \notin Ended
  <2>1. Exists(a) /\ asset' = [asset EXCEPT ![a].state = s, ![a].locked = "no"]
    BY <1>2 DEF Finished, Past
  <2>2. asset[a] \in Rows
    BY <2>1, RowFacts DEF Tables
  <2>3. asset' = [asset EXCEPT ![a] = row]
    BY <2>1 DEF Tables, AssetTable
  <2>4. row \in Rows
    BY <2>2 DEF Rows, AssetStates
  <2>5. /\ row.generation >= asset[a].generation /\ row.state = s
        /\ row.object = asset[a].object
    BY <2>2 DEF Rows, Generation
  <2>6. row.state \notin Ended /\ row.state \notin {"pending_upload", "abandoned"}
    BY <2>5 DEF Ended
  <2> HIDE DEF row
  <2> QED
    BY ZenonT(60), <1>2, <2>1, <2>3, <2>4, <2>5, <2>6, OneRow DEF Quietly, Tables
<1> QED
  BY <1>1, <1>2

LEMMA MergeRows ==
  ASSUME Tables, Places, NEW u \in User, NEW v \in User, Merge(u, v)
  PROVE  Quietly
<1>1. PICK moved \in SUBSET {a \in Asset : Exists(a)} :
        /\ \A a \in moved : asset[a].generation + 1 \in Generation
        /\ asset' = [a \in Asset |-> IF a \notin moved THEN asset[a]
             ELSE [asset[a] EXCEPT !.owner = v, !.generation = @ + 1]]
  BY DEF Merge
<1>2. \A a \in moved : /\ asset'[a] \in Rows /\ asset'[a].generation >= asset[a].generation
                       /\ asset'[a].state = asset[a].state /\ asset'[a].object = asset[a].object
  <2> SUFFICES ASSUME NEW a \in moved
               PROVE  /\ asset'[a] \in Rows /\ asset'[a].generation >= asset[a].generation
                      /\ asset'[a].state = asset[a].state /\ asset'[a].object = asset[a].object
    OBVIOUS
  <2> DEFINE n == asset[a].generation + 1
  <2>1. asset[a] \in Rows
    BY RowFacts DEF Tables
  <2>2. asset'[a] = [asset[a] EXCEPT !.owner = v, !.generation = n] /\ n \in Generation
    BY <1>1
  <2>3. n >= asset[a].generation
    BY <2>1 DEF Rows, Generation
  <2> HIDE DEF n
  <2> QED
    BY <2>1, <2>2, <2>3 DEF Rows
<1>3. \A a \in Asset \ moved : asset'[a] = asset[a]
  BY <1>1
<1>4. \A a \in Asset : Exists(a) => asset[a].generation \in Generation
  BY SMTT(30), RowFacts DEF Tables, Rows
<1>5. AssetTable'
  BY <1>1, <1>2, <1>3 DEF Tables, AssetTable
<1>6. \A a \in moved : asset'[a] # NoAsset
  BY <1>2 DEF Rows, NoAsset, AssetStates, Ended
<1>7. \A b \in Asset : RowMay(b) /\ ObjectStays(b)
  BY <1>2, <1>3, <1>4, <1>6 DEF RowMay, ObjectStays, Exists, Past, Generation
<1> QED
  BY <1>5, <1>7 DEF Quietly

LEMMA CommitRows ==
  ASSUME Tables, NEW a \in Asset, NEW g \in Generation, NEW heard \in BOOLEAN, Commit(a, g, heard)
  PROVE  /\ AssetTable' /\ \A b \in Asset : RowMay(b)
         /\ \A b \in Asset \ {a} : ObjectStays(b)
         /\ asset[a].object = Nothing /\ asset'[a].object = g
         /\ asset[a].generation = g /\ asset'[a].generation = g
         /\ Exists(a) /\ Exists(a)'
<1> DEFINE row == [asset[a] EXCEPT !.object = g]
<1>1. /\ asset[a].state = "pending_upload" /\ asset[a].object = Nothing /\ asset[a].generation = g
      /\ asset' = [asset EXCEPT ![a].object = g]
  BY DEF Commit, Admits, Renewable
<1>2. Exists(a) /\ asset[a] \in Rows
  BY <1>1, RowFacts DEF Tables
<1>3. asset' = [asset EXCEPT ![a] = row]
  BY <1>1 DEF Tables, AssetTable
<1>4. row \in Rows
  BY <1>2 DEF Rows
<1>5. /\ row.generation = g /\ row.state = asset[a].state /\ row.object = g
      /\ row.generation >= asset[a].generation
  BY <1>1, <1>2 DEF Rows, Generation
<1>6. row.state \notin Ended
  BY <1>1, <1>5 DEF Ended
<1> HIDE DEF row
<1>7. /\ AssetTable' /\ \A b \in Asset : RowMay(b)
      /\ asset'[a] = row /\ \A b \in Asset \ {a} : ObjectStays(b)
  BY <1>3, <1>4, <1>5, <1>6, OneRow DEF Tables, Past
<1> QED
  BY <1>1, <1>2, <1>5, <1>7 DEF RowMay

-----------------------------------------------------------------------------
(* Leases *)

\* A step that touches no lease, no upload and no object.
LEMMA QuietLeases ==
  ASSUME Tables, Leases, Quietly, lease' = lease, upload' = upload, store' = store
  PROVE  Tables' /\ Leases'
<1>1. Tables'
  BY DEF Tables, Quietly
<1>2. ASSUME NEW a \in Asset, NEW g \in Generation
      PROVE  LeaseOf(a, g)'
  <2>1. LeaseOf(a, g) /\ RowMay(a) /\ ObjectStays(a)
    BY DEF Leases, Quietly
  <2>2. Nothing # g
    BY MediaAssumption DEF Generation
  <2>3. Exists(a) => asset[a].generation \in Nat
    BY RowFacts, MediaAssumption DEF Tables, Rows, Generation
  <2>4. Exists(a)' => asset'[a].generation \in Nat
    BY <1>1, MediaAssumption DEF Tables, AssetTable, Rows, Generation, Exists
  <2>5. g \in Nat
    BY MediaAssumption DEF Generation
  <2>6. Exists(a) /\ g <= asset[a].generation => g <= asset'[a].generation
    BY <2>1, <2>3, <2>4, <2>5 DEF RowMay
  <2> QED
    BY <2>1, <2>2, <2>6 DEF LeaseOf, RowMay, ObjectStays
<1> QED
  BY <1>1, <1>2 DEF Leases

\* Of the assets, the object of a may have become g.
ObjectOnly(a, g) ==
  /\ AssetTable' /\ \A b \in Asset : asset'[b] = asset[b] \/ b = a
  /\ (Exists(a) <=> Exists(a)') /\ asset'[a].generation = asset[a].generation
  /\ asset'[a].object = asset[a].object \/ (asset[a].object = Nothing /\ asset'[a].object = g)

\* One lease and the request that holds it move, and its object with them.
LEMMA OneLease ==
  ASSUME Tables, Leases, NEW a \in Asset, NEW g \in Generation,
         NEW x \in UploadStates, NEW y \in LeaseStates,
         upload' = [upload EXCEPT ![a][g] = x],
         lease' = [lease EXCEPT ![a][g] = y],
         store' = store \/ store' = store \union {<<a, g>>} \/ store' = store \ {<<a, g>>},
         ObjectOnly(a, g),
         upload'[a][g] = x /\ lease'[a][g] = y => LeaseOf(a, g)'
  PROVE  Tables' /\ Leases'
<1>1. /\ upload'[a][g] = x /\ lease'[a][g] = y
      /\ \A b \in Asset, h \in Generation : b # a \/ h # g =>
           upload'[b][h] = upload[b][h] /\ lease'[b][h] = lease[b][h]
  BY DEF Tables
<1>2. \A b \in Asset, h \in Generation : b # a \/ h # g => (<<b, h>> \in store' <=> <<b, h>> \in store)
  OBVIOUS
<1>3. Tables'
  <2>1. upload' \in [Asset -> [Generation -> UploadStates]]
    BY DEF Tables
  <2>2. lease' \in [Asset -> [Generation -> LeaseStates]]
    BY DEF Tables
  <2>3. store' \subseteq Asset \X Generation
    BY DEF Tables
  <2> QED
    BY <2>1, <2>2, <2>3 DEF Tables, ObjectOnly
<1>4. ASSUME NEW b \in Asset, NEW h \in Generation, b # a \/ h # g
      PROVE  LeaseOf(b, h)'
  <2>1. LeaseOf(b, h)
    BY DEF Leases
  <2>2. /\ upload'[b][h] = upload[b][h] /\ lease'[b][h] = lease[b][h]
        /\ (<<b, h>> \in store' <=> <<b, h>> \in store)
    BY <1>1, <1>2, <1>4
  <2>3. (Exists(b) <=> Exists(b)') /\ asset'[b].generation = asset[b].generation
    BY DEF Exists, ObjectOnly
  <2>4. \/ asset'[b].object = asset[b].object
        \/ asset[b].object = Nothing /\ asset'[b].object # h
    BY <1>4 DEF ObjectOnly
  <2>5. Nothing # h
    BY MediaAssumption DEF Generation
  <2> QED
    BY <2>1, <2>2, <2>3, <2>4, <2>5 DEF LeaseOf
<1> QED
  BY <1>1, <1>3, <1>4 DEF Leases

\* The same where no asset changes.
LEMMA OneLeaseOnly ==
  ASSUME Tables, Leases, NEW a \in Asset, NEW g \in Generation,
         NEW x \in UploadStates, NEW y \in LeaseStates, asset' = asset,
         upload' = [upload EXCEPT ![a][g] = x],
         lease' = [lease EXCEPT ![a][g] = y],
         store' = store \/ store' = store \union {<<a, g>>} \/ store' = store \ {<<a, g>>},
         upload'[a][g] = x /\ lease'[a][g] = y => LeaseOf(a, g)'
  PROVE  Tables' /\ Leases'
<1>1. ObjectOnly(a, g)
  BY DEF Tables, AssetTable, ObjectOnly, Exists
<1> QED
  BY <1>1, OneLease

LEMMA LeaseStays ==
  ASSUME Tables, NEW a \in Asset, NEW g \in Generation, lease' = lease
  PROVE  lease' = [lease EXCEPT ![a][g] = lease[a][g]] /\ lease[a][g] \in LeaseStates
BY DEF Tables

LEMMA UploadLeases ==
  ASSUME Tables, Leases, NEW a \in Asset, UploadStep(a)
  PROVE  Tables' /\ Leases'
<1>1. PICK g \in Generation :
        \/ ClaimUpload(a, g) \/ Receive(a, g) \/ Put(a, g) \/ PutFails(a, g)
        \/ \E heard \in BOOLEAN : Commit(a, g, heard)
        \/ \E gone \in BOOLEAN : Lose(a, g, gone)
        \/ MarkFailure(a, g) \/ Crash(a, g)
  BY DEF UploadStep
<1> DEFINE was == lease[a][g]
<1>2. LeaseOf(a, g) /\ was \in LeaseStates
  BY DEF Leases, Tables
<1>3. \A s \in {"receiving", "provider_writing", "committed", "failed_clean", "failed_cleanup_pending"} :
        s \in LeaseStates
  BY DEF LeaseStates
<1>4. \A s \in {"receiving", "writing", "written", "unknown", "absent", "over"} : s \in UploadStates
  BY DEF UploadStates
<1>5. CASE ClaimUpload(a, g)
  <2>1. /\ Exists(a) /\ asset[a].object = Nothing /\ asset[a].generation = g
        /\ lease[a][g] = "none" /\ upload[a][g] = "none"
        /\ lease' = [lease EXCEPT ![a][g] = "receiving"]
        /\ upload' = [upload EXCEPT ![a][g] = "receiving"]
        /\ asset' = asset /\ store' = store
    BY <1>5 DEF ClaimUpload, Admits, SetLease, Move, places
  <2>2. g <= g
    BY MediaAssumption DEF Generation
  <2>3. upload'[a][g] = "receiving" /\ lease'[a][g] = "receiving" => LeaseOf(a, g)'
    BY <1>2, <2>1, <2>2, MediaAssumption DEF LeaseOf, Exists, Generation
  <2> QED
    BY <1>3, <1>4, <2>1, <2>3, OneLeaseOnly
<1>6. CASE Receive(a, g)
  <2>1. /\ lease[a][g] = "receiving" /\ upload[a][g] = "receiving"
        /\ lease' = [lease EXCEPT ![a][g] = "provider_writing"]
        /\ upload' = [upload EXCEPT ![a][g] = "writing"]
        /\ asset' = asset /\ store' = store
    BY <1>6 DEF Receive, SetLease, Move, places
  <2>2. upload'[a][g] = "writing" /\ lease'[a][g] = "provider_writing" => LeaseOf(a, g)'
    BY <1>2, <2>1 DEF LeaseOf, Exists
  <2> QED
    BY <1>3, <1>4, <2>1, <2>2, OneLeaseOnly
<1>7. CASE Put(a, g)
  <2>1. /\ upload[a][g] = "writing" /\ lease' = lease
        /\ upload' = [upload EXCEPT ![a][g] = "written"]
        /\ asset' = asset /\ store' = store \union {<<a, g>>}
    BY <1>7 DEF Put, Move, places
  <2>2. upload'[a][g] = "written" /\ lease'[a][g] = was => LeaseOf(a, g)'
    BY <1>2, <2>1 DEF LeaseOf, Exists
  <2>3. lease' = [lease EXCEPT ![a][g] = was]
    BY <2>1, LeaseStays
  <2> HIDE DEF was
  <2> QED
    BY <1>2, <1>4, <2>1, <2>2, <2>3, OneLeaseOnly
<1>8. CASE PutFails(a, g)
  <2>1. /\ upload[a][g] = "writing" /\ lease' = lease
        /\ upload' = [upload EXCEPT ![a][g] = "unknown"]
        /\ asset' = asset /\ (store' = store \/ store' = store \union {<<a, g>>})
    BY <1>8 DEF PutFails, Move, places
  <2>2. upload'[a][g] = "unknown" /\ lease'[a][g] = was => LeaseOf(a, g)'
    BY <1>2, <2>1 DEF LeaseOf, Exists
  <2>3. lease' = [lease EXCEPT ![a][g] = was]
    BY <2>1, LeaseStays
  <2> HIDE DEF was
  <2> QED
    BY <1>2, <1>4, <2>1, <2>2, <2>3, OneLeaseOnly
<1>9. ASSUME NEW heard \in BOOLEAN, Commit(a, g, heard)
      PROVE  Tables' /\ Leases'
  <2>1. /\ lease[a][g] = "provider_writing" /\ upload[a][g] = "written"
        /\ lease' = [lease EXCEPT ![a][g] = "committed"]
        /\ upload' = [upload EXCEPT ![a][g] = "over"]
        /\ asset' = [asset EXCEPT ![a].object = g] /\ store' = store
    BY <1>9 DEF Commit, SetLease, Move, places
  <2>2. /\ AssetTable'
        /\ asset[a].object = Nothing /\ asset'[a].object = g
        /\ asset[a].generation = g /\ asset'[a].generation = g
        /\ Exists(a) /\ Exists(a)'
    BY <1>9, CommitRows
  <2>3. ObjectOnly(a, g)
    BY <2>1, <2>2 DEF Tables, AssetTable, ObjectOnly
  <2>4. upload'[a][g] = "over" /\ lease'[a][g] = "committed" => LeaseOf(a, g)'
    BY <1>2, <2>1, <2>2 DEF LeaseOf
  <2> QED
    BY <1>3, <1>4, <2>1, <2>3, <2>4, OneLease
<1>10. ASSUME NEW gone \in BOOLEAN, Lose(a, g, gone)
       PROVE  Tables' /\ Leases'
  <2>1. /\ upload[a][g] = "written" /\ lease' = lease /\ asset' = asset
        /\ upload' = [upload EXCEPT ![a][g] = IF gone THEN "absent" ELSE "unknown"]
        /\ store' = IF gone THEN store \ {<<a, g>>} ELSE store
    BY <1>10 DEF Lose, Deleted, Move, places
  <2>2. lease' = [lease EXCEPT ![a][g] = was]
    BY <2>1, LeaseStays
  <2>3. ASSUME NEW x \in {"absent", "unknown"}, x = "absent" <=> gone, upload'[a][g] = x, lease'[a][g] = was
        PROVE  LeaseOf(a, g)'
    BY <1>2, <2>1, <2>3 DEF LeaseOf, Exists
  <2> HIDE DEF was
  <2>4. CASE gone
    BY <1>2, <1>4, <2>1, <2>2, <2>3, <2>4, OneLeaseOnly
  <2>5. CASE ~gone
    BY <1>2, <1>4, <2>1, <2>2, <2>3, <2>5, OneLeaseOnly
  <2> QED
    BY <2>4, <2>5
<1>11. CASE MarkFailure(a, g)
  <2>1. PICK y \in {"failed_clean", "failed_cleanup_pending"} :
        /\ \/ upload[a][g] \in {"receiving", "absent"}
           \/ upload[a][g] = "unknown" /\ y = "failed_cleanup_pending"
        /\ lease' = [lease EXCEPT ![a][g] = y]
        /\ upload' = [upload EXCEPT ![a][g] = "over"]
        /\ asset' = asset /\ store' = store
    BY <1>11 DEF MarkFailure, SetLease, Move, places
  <2>2. upload'[a][g] = "over" /\ lease'[a][g] = y => LeaseOf(a, g)'
    BY <1>2, <2>1 DEF LeaseOf, Exists
  <2> QED
    BY <1>3, <1>4, <2>1, <2>2, OneLeaseOnly
<1>12. CASE Crash(a, g)
  <2>1. /\ lease' = lease /\ upload' = [upload EXCEPT ![a][g] = "over"]
        /\ asset' = asset /\ store' = store
    BY <1>12 DEF Crash, places
  <2>2. lease' = [lease EXCEPT ![a][g] = was]
    BY <2>1, LeaseStays
  <2>3. upload'[a][g] = "over" /\ lease'[a][g] = was => LeaseOf(a, g)'
    BY <1>2, <2>1 DEF LeaseOf, Exists
  <2> HIDE DEF was
  <2> QED
    BY <1>2, <1>4, <2>1, <2>2, <2>3, OneLeaseOnly
<1> QED
  BY <1>1, <1>5, <1>6, <1>7, <1>8, <1>9, <1>10, <1>11, <1>12

-----------------------------------------------------------------------------
(* Places *)

\* What refers to an asset afterwards did so before, or has just been given one that will do.
LEMMA PlacesNext ==
  ASSUME Places, PlaceTables', purpose' = purpose,
         \A b \in Asset : RowMay(b),
         \A s \in Slot :
           \/ picture'[s] = picture[s]
           \/ /\ purpose = "event_cover"
              /\ Past(picture[s])' /\ asset'[picture'[s]].state \notin Ended,
         \A u \in User :
           \/ avatar'[u] = Nothing
           \/ \E v \in User : avatar'[u] = avatar[v]
           \/ /\ purpose = "profile_avatar"
              /\ Past(avatar[u])' /\ asset'[avatar'[u]].state \notin Ended,
         \A r \in Group :
           \/ cover'[r] = cover[r]
           \/ covering[r] # Nothing /\ cover'[r] = covering[r].asset /\ covering'[r] = Nothing,
         \A r \in Group :
           \/ covering'[r] = covering[r] /\ cover'[r] = cover[r]
           \/ covering'[r] = Nothing
           \/ /\ purpose = "group_cover" /\ Past(covering[r].asset)'
              /\ cover'[r] = cover[r] /\ (covering'[r].deletes => cover[r] # Nothing),
         \A w \in Worker : work'[w] = work[w] \/ work'[w] = Nothing \/ Past(work[w].asset)'
  PROVE  Places'
<1>1. \A b \in Asset : Past(b) => Past(b)'
  BY DEF RowMay
<1>2. \A b \in Asset : asset[b].state \notin Ended /\ asset'[b].state \in Ended =>
        (\A s \in Slot : picture'[s] # b) /\ (\A u \in User : avatar'[u] # b)
  BY DEF RowMay
<1>3. /\ purpose' # "event_cover" => \A s \in Slot : picture'[s] = Nothing
      /\ purpose' # "profile_avatar" => \A u \in User : avatar'[u] = Nothing
      /\ purpose' # "group_cover" => \A r \in Group : cover'[r] = Nothing /\ covering'[r] = Nothing
  BY DEF Places
<1>4. ASSUME NEW s \in Slot, picture'[s] # Nothing
      PROVE  Past(picture[s])' /\ asset'[picture'[s]].state \notin Ended
  <2>1. picture'[s] \in Asset
    BY <1>4 DEF PlaceTables
  <2> QED
    BY <1>1, <1>2, <1>4, <2>1 DEF Places, Past, Exists
<1>5. ASSUME NEW u \in User, avatar'[u] # Nothing
      PROVE  Past(avatar[u])' /\ asset'[avatar'[u]].state \notin Ended
  <2>1. avatar'[u] \in Asset
    BY <1>5 DEF PlaceTables
  <2> QED
    BY <1>1, <1>2, <1>5, <2>1 DEF Places, Past, Exists
<1>6. ASSUME NEW r \in Group, cover'[r] # Nothing
      PROVE  Past(cover[r])'
  <2>1. cover'[r] \in Asset
    BY <1>6 DEF PlaceTables
  <2> QED
    BY <1>1, <1>6, <2>1 DEF Places, Past, Exists
<1>7. ASSUME NEW r \in Group, covering'[r] # Nothing
      PROVE  Past(covering[r].asset)' /\ (covering'[r].deletes => cover'[r] # Nothing)
  <2>1. covering'[r].asset \in Asset
    BY <1>7 DEF PlaceTables
  <2>2. CASE covering'[r] = covering[r]
    BY <1>1, <1>7, <2>1, <2>2 DEF Places, Past, Exists
  <2>3. CASE covering'[r] # covering[r]
    BY <1>7, <2>3 DEF Past, Exists
  <2> QED
    BY <2>2, <2>3
<1>8. ASSUME NEW w \in Worker, work'[w] # Nothing
      PROVE  Past(work[w].asset)'
  <2>1. work'[w].asset \in Asset
    BY <1>8 DEF PlaceTables
  <2> QED
    BY <1>1, <1>8, <2>1 DEF Places, Past, Exists
<1> QED
  BY <1>3, <1>4, <1>5, <1>6, <1>7, <1>8 DEF Places, Past, Exists

LEMMA PlacesFrame ==
  ASSUME Places, PlaceTables, UNCHANGED <<work, places>>, \A b \in Asset : RowMay(b)
  PROVE  PlaceTables' /\ Places'
<1>1. /\ picture' = picture /\ avatar' = avatar /\ cover' = cover /\ covering' = covering
      /\ work' = work /\ purpose' = purpose
  BY DEF places
<1>2. PlaceTables'
  BY <1>1 DEF PlaceTables
<1> QED
  BY <1>1, <1>2, PlacesNext DEF Past, Exists

LEMMA AttachEventPlaces ==
  ASSUME MediaInv, NEW a \in Asset, NEW s \in Slot, AttachEvent(a, s)
  PROVE  Quietly /\ PlaceTables' /\ Places'
<1>1. /\ purpose = "event_cover" /\ purpose' = purpose /\ asset' = asset
      /\ Exists(a) /\ asset[a].state \in {"uploaded", "processing", "ready"}
      /\ picture' = [picture EXCEPT ![s] = a]
      /\ avatar' = avatar /\ cover' = cover /\ covering' = covering /\ work' = work
  BY DEF AttachEvent, Mine
<1>2. Quietly
  BY <1>1, SameRows DEF Quietly, MediaInv, Tables
<1>3. Past(a)' /\ asset'[a].state \notin Ended
  BY <1>1 DEF Past, Exists, Ended
<1>4. PlaceTables'
  BY <1>1 DEF PlaceTables, MediaInv
<1>5. \A x \in Slot : picture'[x] = picture[x] \/ picture'[x] = a
  BY <1>1 DEF PlaceTables, MediaInv
<1>6. Places'
  BY <1>1, <1>2, <1>3, <1>4, <1>5, PlacesNext DEF Quietly, MediaInv, Past, Exists
<1> QED
  BY <1>2, <1>4, <1>6

LEMMA AttachProfilePlaces ==
  ASSUME MediaInv, NEW a \in Asset, AttachProfile(a)
  PROVE  Quietly /\ PlaceTables' /\ Places'
<1> DEFINE u == asset[a].owner
<1>1. /\ purpose = "profile_avatar" /\ purpose' = purpose
      /\ Exists(a) /\ asset[a].state = "ready"
      /\ avatar' = [avatar EXCEPT ![u] = a]
      /\ \/ asset' = asset
         \/ avatar[u] # a /\ asset' = [asset EXCEPT ![avatar[u]] = EndedAsset(avatar[u], "deleted")]
      /\ picture' = picture /\ cover' = cover /\ covering' = covering /\ work' = work
  BY DEF AttachProfile, Mine, Attachable
<1>2. Quietly
  BY AttachProfileRows DEF MediaInv
<1>3. asset'[a] = asset[a]
  BY <1>1 DEF MediaInv, Tables, AssetTable
<1>4. Past(a)' /\ asset'[a].state \notin Ended
  BY <1>1, <1>3 DEF Past, Exists, Ended
<1> HIDE DEF u
<1>5. PlaceTables' /\ \A v \in User : avatar'[v] = avatar[v] \/ avatar'[v] = a
  BY <1>1 DEF PlaceTables, MediaInv
<1>6. Places'
  BY <1>1, <1>2, <1>4, <1>5, PlacesNext DEF Quietly, MediaInv, Past, Exists
<1> QED
  BY <1>2, <1>5, <1>6

LEMMA BeginCoverPlaces ==
  ASSUME MediaInv, NEW a \in Asset, NEW r \in Group, BeginCover(a, r)
  PROVE  Quietly /\ PlaceTables' /\ Places'
<1>1. PICK d \in BOOLEAN :
        /\ covering' = [covering EXCEPT ![r] = [asset |-> a, deletes |-> d]]
        /\ d => cover[r] # Nothing
  BY DEF BeginCover
<1>2. /\ purpose = "group_cover" /\ purpose' = purpose /\ asset' = asset
      /\ Exists(a) /\ asset[a].state = "ready"
      /\ picture' = picture /\ avatar' = avatar /\ cover' = cover /\ work' = work
  BY DEF BeginCover, Mine, Attachable
<1>3. Quietly
  BY <1>2, SameRows DEF Quietly, MediaInv, Tables
<1>4. Past(a)'
  BY <1>2 DEF Past, Exists
<1>5. PlaceTables'
  BY <1>1, <1>2 DEF PlaceTables, MediaInv
<1>7. \A q \in Group :
        covering'[q] = covering[q] \/ (q = r /\ covering'[q].asset = a /\ covering'[q].deletes = d)
  BY <1>1 DEF PlaceTables, MediaInv
<1>6. Places'
  BY <1>1, <1>2, <1>3, <1>4, <1>5, <1>7, PlacesNext DEF Quietly, MediaInv, Past, Exists
<1> QED
  BY <1>3, <1>5, <1>6

LEMMA EndCoverPlaces ==
  ASSUME MediaInv, NEW r \in Group, EndCover(r)
  PROVE  Quietly /\ PlaceTables' /\ Places'
<1>1. /\ purpose' = purpose /\ covering[r] # Nothing
      /\ cover' = [cover EXCEPT ![r] = covering[r].asset]
      /\ covering' = [covering EXCEPT ![r] = Nothing]
      /\ picture' = picture /\ avatar' = avatar /\ work' = work
  BY DEF EndCover
<1>2. Quietly
  BY EndCoverRows DEF MediaInv
<1>3. covering[r].asset \in Asset
  BY <1>1 DEF MediaInv, PlaceTables
<1> DEFINE c == covering[r].asset
<1>4. cover' = [cover EXCEPT ![r] = c] /\ c \in Asset
  BY <1>1, <1>3
<1> HIDE DEF c
<1>5. /\ PlaceTables'
      /\ cover'[r] = c /\ covering'[r] = Nothing
      /\ \A q \in Group \ {r} : cover'[q] = cover[q] /\ covering'[q] = covering[q]
  BY <1>1, <1>4 DEF PlaceTables, MediaInv
<1>6. \A q \in Group :
        \/ cover'[q] = cover[q]
        \/ covering[q] # Nothing /\ cover'[q] = covering[q].asset /\ covering'[q] = Nothing
  BY <1>1, <1>5 DEF c
<1>7. \A q \in Group : (covering'[q] = covering[q] /\ cover'[q] = cover[q]) \/ covering'[q] = Nothing
  BY <1>5
<1>8. Places'
  BY <1>1, <1>2, <1>5, <1>6, <1>7, PlacesNext DEF Quietly, MediaInv, Past, Exists
<1> QED
  BY <1>2, <1>5, <1>8

LEMMA MergePlaces ==
  ASSUME MediaInv, NEW u \in User, NEW v \in User, Merge(u, v)
  PROVE  Quietly /\ PlaceTables' /\ Places'
<1>1. /\ purpose' = purpose /\ picture' = picture /\ cover' = cover /\ covering' = covering
      /\ work' = work
      /\ avatar' = [avatar EXCEPT ![v] = IF @ = Nothing THEN avatar[u] ELSE @, ![u] = Nothing]
  BY DEF Merge, requests
<1>2. Quietly
  BY MergeRows DEF MediaInv
<1>3. PlaceTables' /\ \A x \in User : avatar'[x] = Nothing \/ \E y \in User : avatar'[x] = avatar[y]
  BY <1>1 DEF PlaceTables, MediaInv
<1>4. Places'
  BY <1>1, <1>2, <1>3, PlacesNext DEF Quietly, MediaInv, Past, Exists
<1> QED
  BY <1>2, <1>3, <1>4

LEMMA WorkPlaces ==
  ASSUME MediaInv, NEW w \in Worker, WorkStep(w)
  PROVE  Quietly /\ PlaceTables' /\ Places'
<1>1. /\ Quietly /\ PlaceTables' /\ purpose' = purpose
      /\ picture' = picture /\ avatar' = avatar /\ cover' = cover /\ covering' = covering
      /\ \A x \in Worker : work'[x] = work[x] \/ work'[x] = Nothing \/ Past(work[x].asset)'
  <2>1. /\ purpose' = purpose /\ picture' = picture /\ avatar' = avatar
        /\ cover' = cover /\ covering' = covering
    BY DEF WorkStep, ClaimAsset, Fail, Ready, WorkerDies, places
  <2>2. ASSUME work' = [work EXCEPT ![w] = Nothing]
        PROVE  PlaceTables' /\ \A x \in Worker : work'[x] = work[x] \/ work'[x] = Nothing
    BY <2>1, <2>2 DEF PlaceTables, MediaInv
  <2>3. ASSUME NEW a \in Asset, ClaimAsset(w, a)
        PROVE  /\ Quietly /\ PlaceTables'
               /\ \A x \in Worker : work'[x] = work[x] \/ Past(work[x].asset)'
    <3> DEFINE n == asset[a].attempts + 1
    <3>1. Quietly
      BY <2>3, ClaimAssetRows DEF MediaInv
    <3>2. /\ work' = [work EXCEPT ![w] = [asset |-> a, attempts |-> n]]
          /\ Exists(a) /\ asset[a].state \in {"uploaded", "processing"}
      BY <2>3 DEF ClaimAsset
    <3>3. n \in Nat
      BY <3>2, RowFacts, MediaAssumption DEF MediaInv, Tables, Rows
    <3> HIDE DEF n
    <3>4. Past(a)'
      BY <3>1, <3>2 DEF Quietly, RowMay, Past
    <3> QED
      BY <2>1, <3>1, <3>2, <3>3, <3>4 DEF PlaceTables, MediaInv
  <2>4. ASSUME work[w] # Nothing
        PROVE  work[w].asset \in Asset /\ Past(work[w].asset)
    BY <2>4 DEF MediaInv, PlaceTables, Places
  <2>5. ASSUME NEW retryable \in BOOLEAN, Fail(w, retryable) \/ Ready(w)
        PROVE  Quietly /\ work' = [work EXCEPT ![w] = Nothing]
    <3>1. PICK s \in {"uploaded", "ready", "rejected"} :
            work[w] # Nothing /\ asset' = Finished(work[w].asset, s)
      BY <2>5 DEF Fail, Ready
    <3>2. Quietly
      BY <2>4, <3>1, FinishedRows DEF MediaInv
    <3> QED
      BY <2>5, <3>2 DEF Fail, Ready
  <2>6. WorkerDies(w) => Quietly /\ work' = [work EXCEPT ![w] = Nothing]
    BY SameRows DEF WorkerDies, Quietly, MediaInv, Tables
  <2> QED
    BY <2>1, <2>2, <2>3, <2>5, <2>6 DEF WorkStep
<1> QED
  BY <1>1, PlacesNext DEF Quietly, MediaInv, Past, Exists

-----------------------------------------------------------------------------
(* All of it *)

LEMMA AssetStepInv ==
  ASSUME MediaInv, NEW a \in Asset, AssetStep(a)
  PROVE  MediaInv' /\ \A b \in Asset : RowMay(b)
<1>1. lease' = lease /\ upload' = upload /\ store' = store
  BY DEF AssetStep, CreateIntent, RecoverAttempt, Complete, AttachEvent, BeginCover, Moderate,
         AttachProfile, Abandon, LockAges, requests
<1>2. ASSUME \/ \E u \in User, heard \in BOOLEAN : CreateIntent(u, a, heard)
             \/ \E heard \in BOOLEAN : RecoverAttempt(a, heard) \/ Complete(a, heard)
             \/ \E verdict \in {"approved", "rejected"} : Moderate(a, verdict)
             \/ Abandon(a) \/ LockAges(a)
      PROVE  Quietly /\ UNCHANGED <<work, places>>
  <2>1. Quietly
    BY <1>2, CreateIntentRows, RecoverAttemptRows, CompleteRows, ModerateRows, AbandonRows, LockAgesRows
       DEF MediaInv
  <2>2. UNCHANGED <<work, places>>
    BY <1>2 DEF CreateIntent, RecoverAttempt, Complete, Moderate, Abandon, LockAges, requests
  <2> QED
    BY <2>1, <2>2
<1>3. Quietly /\ PlaceTables' /\ Places'
  BY <1>2, PlacesFrame, AttachEventPlaces, BeginCoverPlaces, AttachProfilePlaces
     DEF AssetStep, MediaInv, Quietly
<1> QED
  BY SMTT(30), <1>1, <1>3, QuietLeases DEF MediaInv, Quietly

LEMMA UploadRows ==
  ASSUME MediaInv, NEW a \in Asset, UploadStep(a)
  PROVE  UNCHANGED <<work, places>> /\ \A b \in Asset : RowMay(b)
<1>1. UNCHANGED <<work, places>>
  BY DEF UploadStep, ClaimUpload, Receive, Put, PutFails, Commit, Lose, MarkFailure, Crash
<1>2. CASE asset' = asset
  BY <1>1, <1>2, SameRows DEF MediaInv, Tables
<1>3. CASE asset' # asset
  <2>1. \E g \in Generation, heard \in BOOLEAN : Commit(a, g, heard)
    BY <1>3 DEF UploadStep, ClaimUpload, Receive, Put, PutFails, Lose, MarkFailure, Crash
  <2> QED
    BY <1>1, <2>1, CommitRows DEF MediaInv
<1> QED
  BY <1>2, <1>3

LEMMA MediaStep ==
  ASSUME MediaInv, [Next]_vars
  PROVE  MediaInv' /\ \A b \in Asset : RowMay(b)
<1>1. ASSUME NEW a \in Asset, UploadStep(a)
      PROVE  MediaInv' /\ \A b \in Asset : RowMay(b)
  BY <1>1, UploadRows, UploadLeases, PlacesFrame DEF MediaInv
<1>2. ASSUME NEW w \in Worker, WorkStep(w)
      PROVE  MediaInv' /\ \A b \in Asset : RowMay(b)
  <2>1. lease' = lease /\ upload' = upload /\ store' = store
    BY <1>2 DEF WorkStep, ClaimAsset, Fail, Ready, WorkerDies
  <2> QED
    BY <1>2, <2>1, WorkPlaces, QuietLeases DEF MediaInv, Quietly
<1>3. ASSUME NEW r \in Group, EndCover(r)
      PROVE  MediaInv' /\ \A b \in Asset : RowMay(b)
  <2>1. lease' = lease /\ upload' = upload /\ store' = store
    BY <1>3 DEF EndCover
  <2> QED
    BY <1>3, <2>1, EndCoverPlaces, QuietLeases DEF MediaInv, Quietly
<1>4. ASSUME NEW u \in User, NEW v \in User, Merge(u, v)
      PROVE  MediaInv' /\ \A b \in Asset : RowMay(b)
  <2>1. lease' = lease /\ upload' = upload /\ store' = store
    BY <1>4 DEF Merge, requests
  <2> QED
    BY <1>4, <2>1, MergePlaces, QuietLeases DEF MediaInv, Quietly
<1>5. CASE UNCHANGED vars
  <2>1. UNCHANGED <<work, places>> /\ asset' = asset /\ lease' = lease /\ upload' = upload /\ store' = store
    BY <1>5 DEF vars, places
  <2>2. Quietly
    BY <2>1, SameRows DEF Quietly, MediaInv, Tables
  <2> QED
    BY <2>1, <2>2, PlacesFrame, QuietLeases DEF MediaInv, Quietly
<1> QED
  BY <1>1, <1>2, <1>3, <1>4, <1>5, AssetStepInv DEF Next

LEMMA MediaInit == Init => MediaInv
<1> SUFFICES ASSUME Init PROVE MediaInv
  OBVIOUS
<1>1. Tables
  BY DEF Init, Tables, AssetTable, LeaseStates, UploadStates
<1>2. PlaceTables
  BY DEF Init, PlaceTables
<1>3. Leases
  BY DEF Init, Leases, LeaseOf, Exists
<1>4. Places
  BY DEF Init, Places
<1> QED
  BY <1>1, <1>2, <1>3, <1>4 DEF MediaInv

LEMMA MediaShown == MediaInv => TypeOK /\ AssetsAreAccountedFor
<1> SUFFICES ASSUME MediaInv PROVE TypeOK /\ AssetsAreAccountedFor
  OBVIOUS
<1>1. TypeOK
  <2>1. \A a \in Asset : asset[a] \in {NoAsset} \union Rows
    BY DEF MediaInv, Tables, AssetTable
  <2>2. \A a \in Asset, g \in Generation : lease[a][g] \in LeaseStates /\ upload[a][g] \in UploadStates
    BY DEF MediaInv, Tables
  <2> QED
    BY <2>1, <2>2 DEF TypeOK, MediaInv, Tables, Leases, LeaseOf, Rows, AssetStates, LeaseStates, UploadStates
<1>2. AssetsAreAccountedFor
  <2>1. \A a \in Asset, g \in Generation : LeaseOf(a, g)
    BY DEF MediaInv, Leases
  <2>2. ASSUME NEW a \in Asset, NEW g \in Generation
        PROVE  /\ Exists(a) /\ asset[a].object = g => <<a, g>> \in store /\ lease[a][g] = "committed"
               /\ <<a, g>> \in store /\ asset[a].object # g =>
                    lease[a][g] \in {"provider_writing", "failed_cleanup_pending"}
    BY <2>1 DEF LeaseOf
  <2> QED
    BY <2>2 DEF AssetsAreAccountedFor, MediaInv, Places
<1> QED
  BY <1>1, <1>2

LEMMA MediaAlways == Spec => []MediaInv
<1>1. MediaInv /\ [Next]_vars => MediaInv'
  BY MediaStep
<1> QED
  BY <1>1, MediaInit, PTL DEF Spec

\* The tables of the images hold what their columns admit, and no lease is of a generation its
\* asset has not reached.
THEOREM MediaTypesCorrect == Spec => []TypeOK
BY MediaAlways, MediaShown, PTL

\* However requests die, uploads race and answers are lost: the object an asset names is in the
\* store under a committed lease, any other object there is one a lease still answers for, and
\* nothing an event or a profile shows has ended.
THEOREM AssetsAlwaysAccounted == Spec => []AssetsAreAccountedFor
BY MediaAlways, MediaShown, PTL

\* No step revives an asset that was abandoned or deleted, that of a worker which took it before
\* included.
THEOREM EndedAlwaysStay == Spec => EndedStaysEnded
<1>1. MediaInv /\ [Next]_vars =>
        [\A a \in Asset : Exists(a) /\ asset[a].state \in Ended => asset'[a].state = asset[a].state]_vars
  BY MediaStep DEF RowMay
<1> QED
  BY <1>1, MediaAlways, PTL DEF Spec, EndedStaysEnded
=============================================================================
