----------------------------- MODULE PullProofs -----------------------------
(***************************************************************************)
(* From the counts of chunks to the clients that pull: ref_count is exact, *)
(* the chunks of published commits are held, and a client that pulls        *)
(* commits that are not being written gets whole files.                    *)
(***************************************************************************)
EXTENDS Pull, StrataProofs, FiniteSetTheorems

\* What a push in flight has made of its manifest: the hashes are those of
\* rows of chunks (if the client has uploaded them), its file versions list
\* them, and they are counted once, between the insert of the last version and
\* the write of the ref.
PushCounts(q) ==
  /\ ClientsUploadFirst /\ q.pc # "idle"
       => ManifestHashes(q.manifest) \subseteq chunks
  /\ \A p \in Paths \ q.files : q.manifest[p] = {}
  /\ q.pc \notin {"idle", "check"} =>
       /\ \A p \in fileVersions[q.id] : chunkHashes[q.id][p] = q.manifest[p]
       /\ q.pc # "advance" => q.id \notin counted
  /\ q.pc = "advance" => HashesOf(q.id) = {} \/ q.id \in counted

\* Only file versions list hashes, of chunks that are there if clients upload
\* first; only commits are counted, only rows have counts, and a merge commit
\* has no file version.
CountInv ==
  /\ \A c \in CommitIds : \A p \in Paths \ fileVersions[c] : chunkHashes[c][p] = {}
  /\ ClientsUploadFirst =>
       \A c \in CommitIds : \A p \in Paths : chunkHashes[c][p] \subseteq chunks
  /\ counted \subseteq commits
  /\ \A h \in Hashes \ chunks : refCount[h] = 0
  /\ \A r \in Pushers : PushCounts(pushes[r])
  /\ \A r \in Mergers : HasMerged(merges[r]) => fileVersions[merges[r].id] = {}

\* Only a push in its loop over the files writes file versions.
LEMMA ListsWritten ==
  ASSUME [Next]_vars
  PROVE  \/ UNCHANGED <<fileVersions, chunkHashes>>
         \/ \E r \in Pushers, p \in Paths : CreateVersion(r, p)
<1>1. ASSUME NEW r \in Pushers, PushStep(r) \/ AbortPush(r)
      PROVE  \/ UNCHANGED <<fileVersions, chunkHashes>>
             \/ \E p \in Paths : CreateVersion(r, p)
  BY <1>1 DEF PushStep, AbortPush, CheckHead, RejectPush, InsertPushCommit,
     ReadParentSnapshot, WritePushSnapshot, CountChunks, AdvanceRef, storeVars
<1>2. ASSUME NEW r \in Mergers, MergeStep(r) \/ AbortMerge(r)
      PROVE  UNCHANGED <<fileVersions, chunkHashes>>
  BY <1>2 DEF MergeStep, AbortMerge, PanicMerge, AnalyzeMerge, RereadSource, RereadTarget,
     FastForward, ResolveMerge, RejectMerge, InsertMergeCommit,
     WriteMergeSnapshot, AdvanceTarget, storeVars
<1>3. ASSUME NEW r \in Branchers, CreateStep(r) \/ AbortCreateBranch(r)
      PROVE  UNCHANGED <<fileVersions, chunkHashes>>
  BY <1>3 DEF CreateStep, CheckBranchExists, CreateBranchRef, AbortCreateBranch,
     storeVars
<1>4. CASE UNCHANGED storeVars
  BY <1>4 DEF storeVars
<1>5. QED
  BY <1>1, <1>2, <1>3, <1>4, TableCases

\* They are those of its own commit.
LEMMA HashesKept ==
  ASSUME StoreInv, [Next]_vars, NEW c \in CommitIds,
         \A r \in Pushers : pushes[r].pc = "files" => pushes[r].id # c
  PROVE  /\ fileVersions'[c] = fileVersions[c] /\ chunkHashes'[c] = chunkHashes[c]
         /\ HashesOf(c)' = HashesOf(c)
<1>1. ASSUME NEW r \in Pushers, NEW p \in Paths, CreateVersion(r, p)
      PROVE  fileVersions'[c] = fileVersions[c] /\ chunkHashes'[c] = chunkHashes[c]
  BY <1>1 DEF CreateVersion, InsertFileVersion, StoreInv, StoreTypeOK
<1>2. QED
  BY <1>1, ListsWritten DEF HashesOf

\* A push that a step neither advances nor writes for keeps what it has.
LEMMA PushCountsKept ==
  ASSUME NEW q \in Pushers, PushCounts(pushes[q]), pushes'[q] = pushes[q],
         chunks \subseteq chunks', counted \subseteq counted',
         pushes[q].pc \notin {"idle", "check"} =>
           /\ fileVersions'[pushes[q].id] = fileVersions[pushes[q].id]
           /\ chunkHashes'[pushes[q].id] = chunkHashes[pushes[q].id]
           /\ pushes[q].id \in counted' => pushes[q].id \in counted
  PROVE  PushCounts(pushes[q])'
BY DEF PushCounts, HashesOf

\* When all the versions of a push are there, its commit lists its manifest.
LEMMA ListedIsManifest ==
  ASSUME NEW q, PushCounts(q), q.pc \notin {"idle", "check"},
         q.files \subseteq fileVersions[q.id],
         \A p \in Paths \ fileVersions[q.id] : chunkHashes[q.id][p] = {}
  PROVE  HashesOf(q.id) = ManifestHashes(q.manifest)
<1>1. \A p \in Paths : chunkHashes[q.id][p] = q.manifest[p]
  BY DEF PushCounts
<1>2. QED
  BY <1>1 DEF HashesOf, ManifestHashes

\* The commits that are counted, or need not be.
Counted(c) == HashesOf(c) = {} \/ c \in counted

-----------------------------------------------------------------------------
(* The steps of a push.                                                    *)

\* CreateCommit counts the chunks of its manifest at most once, before the ref.
LEMMA PushStepCounts ==
  ASSUME StoreInv, IdsUnique, CountInv, NEW r \in Pushers,
         PushStep(r) \/ AbortPush(r), UNCHANGED chunks
  PROVE  /\ \A q \in Pushers : PushCounts(pushes[q])'
         /\ counted' \in {counted, counted \cup {pushes[r].id}}
         /\ counted' \subseteq commits'
<1> DEFINE q == pushes[r]
<1>1. /\ pushes \in [Pushers -> PushRecord] /\ q \in PushRecord
      /\ fileVersions \in [CommitIds -> SUBSET Paths]
      /\ chunkHashes \in [CommitIds -> [Paths -> SUBSET Hashes]]
      /\ commits \subseteq CommitIds
      /\ counted \subseteq commits
      /\ PushCounts(q)
      /\ q.pc \notin {"idle", "check"} => q.id \in CommitIds
      /\ q.pc \notin {"idle", "check", "create"} => q.id \in commits
  BY DEF StoreInv, StoreTypeOK, PushTypeOK, PushReady, CountInv, IdsUnique
<1>2. /\ \A p \in Pushers \ {r} : pushes'[p] = pushes[p]
      /\ commits \subseteq commits'
      /\ counted' \in {counted, counted \cup {q.id}}
      /\ counted' \subseteq commits'
  BY <1>1 DEF PushStep, AbortPush, CheckHead, RejectPush, InsertPushCommit,
     CreateCommit, ReadParentSnapshot, CreateVersion, WritePushSnapshot, CountChunks,
     AdvanceRef, EndPush, storeVars
<1>3. ASSUME NEW p \in Pushers, p # r PROVE PushCounts(pushes[p])'
  <2>1. PushCounts(pushes[p]) /\ pushes'[p] = pushes[p]
    BY <1>2, <1>3 DEF CountInv
  <2>2. ASSUME pushes[p].pc \notin {"idle", "check"}
        PROVE  /\ fileVersions'[pushes[p].id] = fileVersions[pushes[p].id]
               /\ chunkHashes'[pushes[p].id] = chunkHashes[pushes[p].id]
               /\ pushes[p].id # q.id
    <3>1. pushes[p].id \in CommitIds
      BY <2>2 DEF StoreInv, PushReady
    <3>2. pushes[p].id # Nil
      BY <3>1, IdSets
    <3>3. pushes[p].id # q.id
      BY <1>3, <3>2 DEF IdsUnique
    <3>4. \/ UNCHANGED <<fileVersions, chunkHashes>>
          \/ \E f \in Paths : q.pc = "files"
                             /\ InsertFileVersion(q.id, f, q.manifest[f])
      BY DEF PushStep, AbortPush, CheckHead, RejectPush, InsertPushCommit,
         ReadParentSnapshot, CreateVersion, WritePushSnapshot, CountChunks,
         AdvanceRef, storeVars
    <3>5. QED
      BY <1>1, <3>1, <3>3, <3>4 DEF InsertFileVersion
  <2>3. QED
    BY <1>2, <2>1, <2>2, PushCountsKept
<1>4. CASE EndPush(r)
  <2>1. pushes'[r] = IdlePush
    BY <1>1, <1>4 DEF EndPush
  <2>2. PushCounts(pushes[r])'
    BY <2>1 DEF PushCounts, IdlePush
  <2>3. QED
    BY <1>2, <1>3, <2>2
<1>5. CASE CheckHead(r)
  <2>1. /\ pushes'[r].pc = "create" /\ pushes'[r].id = lastID + 1
        /\ pushes'[r].files = q.files /\ pushes'[r].manifest = q.manifest
        /\ q.pc = "check" /\ UNCHANGED <<fileVersions, counted>>
    BY <1>1, <1>5 DEF CheckHead, PushRecord
  <2>2. lastID + 1 \notin commits /\ lastID + 1 \in CommitIds
    BY <1>5, MaxCommitsAssumption DEF CheckHead, IdsUnique, StoreInv,
       StoreTypeOK, Versions, CommitIds
  <2>3. fileVersions[lastID + 1] = {} /\ lastID + 1 \notin counted
    BY <1>1, <2>2 DEF IdsUnique
  <2>4. PushCounts(pushes[r])'
    BY <1>1, <2>1, <2>3 DEF PushCounts
  <2>5. QED
    BY <1>2, <1>3, <2>4
<1>6. CASE InsertPushCommit(r) \/ ReadParentSnapshot(r)
  <2>1. /\ pushes'[r].pc \in {"parent", "files"} /\ pushes'[r].id = q.id
        /\ pushes'[r].files = q.files /\ pushes'[r].manifest = q.manifest
        /\ q.pc \in {"create", "parent"}
        /\ UNCHANGED <<fileVersions, chunkHashes, counted>>
    BY <1>1, <1>6 DEF InsertPushCommit, ReadParentSnapshot, PushRecord, storeVars
  <2>2. PushCounts(pushes[r])'
    BY <1>1, <2>1 DEF PushCounts
  <2>3. QED
    BY <1>2, <1>3, <2>2
<1>7. ASSUME NEW f \in Paths, CreateVersion(r, f)
      PROVE  PushCounts(pushes[r])'
  <2>1. /\ pushes'[r].pc = "files" /\ pushes'[r].id = q.id
        /\ pushes'[r].files = q.files /\ pushes'[r].manifest = q.manifest
        /\ q.pc = "files" /\ UNCHANGED counted
    BY <1>1, <1>7 DEF CreateVersion, PushRecord
  <2>2. /\ fileVersions'[q.id] = fileVersions[q.id] \cup {f}
        /\ chunkHashes'[q.id] = [chunkHashes[q.id] EXCEPT ![f] = q.manifest[f]]
        /\ chunkHashes[q.id] \in [Paths -> SUBSET Hashes]
        /\ fileVersions[q.id] \subseteq Paths
    BY <1>1, <1>7, <2>1 DEF CreateVersion, InsertFileVersion
  <2>3. \A p \in fileVersions'[q.id] : chunkHashes'[q.id][p] = q.manifest[p]
    BY <1>1, <2>1, <2>2 DEF PushCounts
  <2>4. QED
    BY <1>1, <2>1, <2>3 DEF PushCounts
<1>8. ASSUME q.pc \in {"files", "count"}, q.files \subseteq fileVersions[q.id]
      PROVE  HashesOf(q.id) = ManifestHashes(q.manifest)
  <2>1. \A p \in Paths \ fileVersions[q.id] : chunkHashes[q.id][p] = {}
    BY <1>1, <1>8 DEF CountInv
  <2>2. QED
    BY <1>1, <1>8, <2>1, ListedIsManifest
<1>9. CASE WritePushSnapshot(r)
  <2>1. /\ pushes'[r].pc = IF ManifestHashes(q.manifest) = {} THEN "advance" ELSE "count"
        /\ pushes'[r].id = q.id /\ q.files \subseteq fileVersions[q.id]
        /\ pushes'[r].files = q.files /\ pushes'[r].manifest = q.manifest
        /\ q.pc = "files" /\ UNCHANGED <<fileVersions, chunkHashes, counted>>
    BY <1>1, <1>9 DEF WritePushSnapshot, PushRecord
  <2>2. HashesOf(q.id)' = HashesOf(q.id)
    BY <2>1 DEF HashesOf
  <2>3. PushCounts(pushes[r])'
    BY <1>1, <1>8, <2>1, <2>2 DEF PushCounts
  <2>4. QED
    BY <1>2, <1>3, <2>3
<1>10. CASE CountChunks(r)
  <2>1. /\ pushes'[r].pc = "advance" /\ pushes'[r].id = q.id
        /\ pushes'[r].files = q.files /\ pushes'[r].manifest = q.manifest
        /\ q.pc = "count" /\ counted' = counted \cup {q.id}
        /\ UNCHANGED <<fileVersions, chunkHashes>>
    BY <1>1, <1>10 DEF CountChunks, PushRecord, storeVars
  <2>2. PushCounts(pushes[r])'
    BY <1>1, <2>1 DEF PushCounts
  <2>3. QED
    BY <1>2, <1>3, <2>2
<1>11. QED
  BY <1>2, <1>3, <1>4, <1>5, <1>6, <1>7, <1>9, <1>10
     DEF PushStep, AbortPush, RejectPush, AdvanceRef

-----------------------------------------------------------------------------
(* The steps of the server.                                                *)

\* The steps as the chunks and their counts see them.
LEMMA ChunkCases ==
  ASSUME [Next]_vars
  PROVE  \/ \E r \in Pushers, u \in Users, b \in PushRefs,
               parent \in commits \cup {Nil}, files \in SUBSET Paths,
               manifest \in [Paths -> SUBSET Hashes] :
              BeginPush(r, u, b, parent, files, manifest) /\ UNCHANGED mergeVars
         \/ \E r \in Pushers :
              (PushStep(r) \/ AbortPush(r)) /\ UNCHANGED mergeVars
         \/ UNCHANGED <<chunkVars, pushVars>>
         \/ ChunksNext /\ UNCHANGED <<storeVars, pushVars, mergeVars>>
BY DEF Next, Begin, Abort, DoPush, DoMerge, DoCreate, vars

\* Rows of chunks stay, and outside CountChunks so do the counts.
LEMMA CountsWritten ==
  ASSUME ChunksInv, CountInv, [Next]_vars
  PROVE  /\ chunks \subseteq chunks'
         /\ \/ \A h \in Hashes : refCount'[h] = refCount[h]
            \/ \E r \in Pushers : CountChunks(r)
         /\ \A h \in Hashes \ chunks' : refCount'[h] = 0
<1>1. refCount \in [Hashes -> Nat] /\ \A h \in Hashes \ chunks : refCount[h] = 0
  BY DEF ChunksInv, ChunksTypeOK, CountInv
<1>2. CASE UNCHANGED chunkVars
  BY <1>1, <1>2 DEF chunkVars
<1>3. ASSUME NEW r \in Pushers, PushStep(r)
      PROVE  UNCHANGED chunkVars \/ CountChunks(r)
  BY <1>3, PushStepFrame
<1>4. ASSUME NEW r \in Pushers, CountChunks(r)
      PROVE  UNCHANGED chunks /\ \A h \in Hashes \ chunks' : refCount'[h] = 0
  BY <1>1, <1>4 DEF CountChunks, IncrementRefCount
<1>5. ASSUME NEW r \in Uploaders, InsertChunk(r)
      PROVE  /\ chunks \subseteq chunks'
             /\ \A h \in Hashes : refCount'[h] = refCount[h]
             /\ \A h \in Hashes \ chunks' : refCount'[h] = 0
  BY <1>1, <1>5 DEF InsertChunk
<1>6. CASE ChunksNext
  BY <1>1, <1>5, <1>6 DEF ChunksNext, BeginUpload, PutBlob, AbortUpload
<1>7. ASSUME NEW r \in Pushers, NEW u \in Users, NEW b \in PushRefs,
             NEW parent \in commits \cup {Nil}, NEW files \in SUBSET Paths,
             NEW manifest \in [Paths -> SUBSET Hashes],
             BeginPush(r, u, b, parent, files, manifest)
      PROVE  UNCHANGED chunkVars
  BY <1>7 DEF BeginPush
<1>8. ASSUME NEW r \in Pushers, AbortPush(r) PROVE UNCHANGED chunkVars
  BY <1>8 DEF AbortPush
<1>9. QED
  BY <1>2, <1>3, <1>4, <1>6, <1>7, <1>8, ChunkCases

\* A merge commit never gets a file version.
LEMMA MergeListsNothing ==
  ASSUME StoreInv, IdsUnique, IdsUnique', CountInv, [Next]_vars, NEW r \in Mergers,
         HasMerged(merges'[r])
  PROVE  fileVersions'[merges'[r].id] = {}
<1>1. ASSUME HasMerged(merges[r]), merges'[r].id = merges[r].id
      PROVE  fileVersions'[merges'[r].id] = {}
  <2>1. merges[r].id \in CommitIds /\ fileVersions[merges[r].id] = {}
    BY <1>1 DEF StoreInv, MergeReady, ReadyMerge, CountInv
  <2>2. \A q \in Pushers : pushes[q].id # merges[r].id
    BY <2>1, IdSets DEF IdsUnique
  <2>3. QED
    BY <1>1, <2>1, <2>2, HashesKept
<1>2. ASSUME merges'[r].pc = "create", merges'[r].id \in CommitIds
      PROVE  fileVersions'[merges'[r].id] = {}
  BY <1>2 DEF IdsUnique
<1>3. /\ merges \in [Mergers -> MergeRecord] /\ merges[r] \in MergeRecord
      /\ lastID < MaxCommits => lastID + 1 \in CommitIds
  BY MaxCommitsAssumption DEF StoreInv, StoreTypeOK, MergeTypeOK, Versions, CommitIds
<1>4. CASE merges'[r] = merges[r]
  BY <1>1, <1>4
<1>5. ASSUME NEW q \in Mergers, MergeStep(q) \/ AbortMerge(q)
      PROVE  fileVersions'[merges'[r].id] = {}
  <2>1. CASE q # r
    <3>1. merges'[r] = merges[r]
      BY <1>3, <1>5, <2>1
         DEF MergeStep, AbortMerge, PanicMerge, AnalyzeMerge, RereadSource, RereadTarget,
             FastForward, ResolveMerge, RejectMerge, InsertMergeCommit,
             WriteMergeSnapshot, AdvanceTarget, EndMerge
    <3>2. QED
      BY <1>4, <3>1
  <2>2. CASE q = r /\ ResolveMerge(r)
    <3>1. merges'[r].pc = "create" /\ merges'[r].id \in CommitIds
      BY <1>3, <2>2 DEF ResolveMerge, MergeRecord
    <3>2. QED
      BY <1>2, <3>1
  <2>3. CASE q = r /\ (InsertMergeCommit(r) \/ (WriteMergeSnapshot(r) /\ ~ EndMerge(r)))
    <3>1. HasMerged(merges[r]) /\ merges'[r].id = merges[r].id
      BY <1>3, <2>3 DEF InsertMergeCommit, WriteMergeSnapshot, MergeRecord, HasMerged
    <3>2. QED
      BY <1>1, <3>1
  <2>4. CASE q = r /\ EndMerge(r)
    <3>1. merges'[r] = IdleMerge
      BY <1>3, <2>4 DEF EndMerge
    <3>2. QED
      BY <3>1, IdleTypes DEF HasMerged
  <2>5. CASE q = r /\ ((AnalyzeMerge(r) /\ ~ EndMerge(r))
                         \/ RereadSource(r) \/ RereadTarget(r))
    <3>1. ~ HasMerged(merges'[r])
      BY <1>3, <2>5 DEF AnalyzeMerge, RereadSource, RereadTarget, MergeRecord,
         HasMerged
    <3>2. QED
      BY <3>1
  <2>6. QED
    BY <1>5, <2>1, <2>2, <2>3, <2>4, <2>5
       DEF MergeStep, AbortMerge, AnalyzeMerge, PanicMerge, FastForward,
           RejectMerge, WriteMergeSnapshot, AdvanceTarget
<1>6. ASSUME NEW q \in Mergers, NEW source \in Branches, NEW target \in Branches,
             BeginMerge(q, source, target)
      PROVE  merges'[r] = merges[r]
  BY <1>3, <1>6 DEF BeginMerge, IdleMerge, HasMerged
<1>7. QED
  BY <1>4, <1>5, <1>6, NextCases
     DEF mergeVars, BeginCreateBranch, CreateStep, CheckBranchExists,
         CreateBranchRef, AbortCreateBranch

\* No row of commits is deleted.
LEMMA CommitsGrow ==
  ASSUME [Next]_vars
  PROVE  commits \subseteq commits'
<1>1. ASSUME NEW r \in Pushers, PushStep(r) \/ AbortPush(r)
      PROVE  commits \subseteq commits'
  BY <1>1 DEF PushStep, AbortPush, CheckHead, RejectPush, InsertPushCommit,
     ReadParentSnapshot, CreateVersion, WritePushSnapshot, CountChunks,
     AdvanceRef, CreateCommit, storeVars
<1>2. ASSUME NEW r \in Mergers, MergeStep(r) \/ AbortMerge(r)
      PROVE  commits \subseteq commits'
  BY <1>2 DEF MergeStep, AbortMerge, PanicMerge, AnalyzeMerge, RereadSource, RereadTarget,
     FastForward, ResolveMerge, RejectMerge, InsertMergeCommit,
     WriteMergeSnapshot, AdvanceTarget, CreateCommit, storeVars
<1>3. ASSUME NEW r \in Branchers, CreateStep(r) \/ AbortCreateBranch(r)
      PROVE  commits \subseteq commits'
  BY <1>3 DEF CreateStep, CheckBranchExists, CreateBranchRef, AbortCreateBranch,
     storeVars
<1>4. CASE UNCHANGED storeVars
  BY <1>4 DEF storeVars
<1>5. QED
  BY <1>1, <1>2, <1>3, <1>4, TableCases

\* An accepted push has uploaded its chunks, and disturbs no other.
LEMMA BeginPushCounts ==
  ASSUME StoreInv, CountInv,
         NEW r \in Pushers, NEW u \in Users, NEW b \in PushRefs,
         NEW parent \in commits \cup {Nil}, NEW files \in SUBSET Paths,
         NEW manifest \in [Paths -> SUBSET Hashes],
         BeginPush(r, u, b, parent, files, manifest)
  PROVE  /\ UNCHANGED counted
         /\ \A q \in Pushers : PushCounts(pushes[q])'
<1>1. /\ pushes \in [Pushers -> PushRecord]
      /\ UNCHANGED <<counted, chunks, fileVersions, chunkHashes>>
      /\ \A q \in Pushers \ {r} : pushes'[q] = pushes[q]
  BY DEF StoreInv, PushTypeOK, BeginPush, storeVars, chunkVars
<1>2. /\ pushes'[r].pc = "check" /\ pushes'[r].files = files
      /\ pushes'[r].manifest = manifest
  BY <1>1 DEF BeginPush, IdlePush
<1>3. /\ ClientsUploadFirst => ManifestHashes(manifest) \subseteq chunks
      /\ \A p \in Paths \ files : manifest[p] = {}
  BY DEF BeginPush, CheckExisting
<1>4. PushCounts(pushes[r])'
  BY <1>1, <1>2, <1>3 DEF PushCounts
<1>5. ASSUME NEW q \in Pushers, q # r PROVE PushCounts(pushes[q])'
  BY <1>1, <1>5, PushCountsKept DEF CountInv
<1>6. QED
  BY <1>1, <1>4, <1>5

\* Every step of the server keeps what the pushes in flight have counted.
LEMMA PushesCount ==
  ASSUME StoreInv, ChunksInv, IdsUnique, CountInv, [Next]_vars
  PROVE  /\ counted' \subseteq commits'
         /\ \A q \in Pushers : PushCounts(pushes[q])'
<1>1. chunks \subseteq chunks' /\ commits \subseteq commits'
  BY CountsWritten, CommitsGrow
<1>2. ASSUME NEW r \in Pushers, PushStep(r) \/ AbortPush(r)
      PROVE  /\ counted' \subseteq commits'
             /\ \A q \in Pushers : PushCounts(pushes[q])'
  <2>1. UNCHANGED chunks
    BY <1>2, PushStepFrame DEF AbortPush, CountChunks, chunkVars
  <2>2. QED
    BY <1>2, <2>1, PushStepCounts
<1>3. CASE UNCHANGED <<fileVersions, chunkHashes, pushVars>>
  <2>1. ASSUME NEW q \in Pushers PROVE PushCounts(pushes[q])'
    BY <1>1, <1>3, PushCountsKept DEF CountInv, pushVars
  <2>2. QED
    BY <1>1, <1>3, <2>1 DEF CountInv, pushVars
<1>4. ASSUME NEW r \in Pushers, NEW p \in Paths, CreateVersion(r, p)
      PROVE  PushStep(r)
  BY <1>4 DEF PushStep
<1>5. CASE UNCHANGED <<chunkVars, pushVars>>
  BY <1>2, <1>3, <1>4, <1>5, ListsWritten
<1>6. CASE UNCHANGED <<storeVars, pushVars>>
  BY <1>3, <1>6 DEF storeVars
<1>7. QED
  BY <1>1, <1>2, <1>5, <1>6, ChunkCases, BeginPushCounts DEF CountInv

\* Every step of the server keeps the invariant of the counting.
LEMMA CountStep ==
  ASSUME StoreInv, ChunksInv, IdsUnique, IdsUnique', CountInv, [Next]_vars
  PROVE  CountInv'
<1>1. /\ fileVersions \in [CommitIds -> SUBSET Paths]
      /\ chunkHashes \in [CommitIds -> [Paths -> SUBSET Hashes]]
  BY DEF StoreInv, StoreTypeOK
<1>2. ASSUME NEW r \in Pushers, NEW f \in Paths, CreateVersion(r, f),
             NEW c \in CommitIds, NEW p \in Paths \ fileVersions'[c]
      PROVE  chunkHashes'[c][p] = {}
  BY <1>1, <1>2 DEF CreateVersion, InsertFileVersion, CountInv
<1>3. \A c \in CommitIds : \A p \in Paths \ fileVersions'[c] : chunkHashes'[c][p] = {}
  BY <1>2, ListsWritten DEF CountInv
<1>4. ASSUME ClientsUploadFirst, NEW c \in CommitIds, NEW p \in Paths
      PROVE  chunkHashes'[c][p] \subseteq chunks'
  <2>1. chunkHashes[c][p] \subseteq chunks /\ chunks \subseteq chunks'
    BY <1>4, CountsWritten DEF CountInv
  <2>2. ASSUME NEW r \in Pushers, NEW f \in Paths, CreateVersion(r, f)
        PROVE  chunkHashes'[c][p] \subseteq chunks
    <3>1. ManifestHashes(pushes[r].manifest) \subseteq chunks
      BY <1>4, <2>2 DEF CountInv, PushCounts, CreateVersion
    <3>2. chunkHashes'[c][p] \in {chunkHashes[c][p], pushes[r].manifest[p]}
      BY <1>1, <2>2 DEF CreateVersion, InsertFileVersion
    <3>3. QED
      BY <2>1, <3>1, <3>2 DEF ManifestHashes
  <2>3. QED
    BY <2>1, <2>2, ListsWritten
<1>5. QED
  BY <1>3, <1>4, PushesCount, CountsWritten, MergeListsNothing DEF CountInv

-----------------------------------------------------------------------------
(* ref_count.                                                              *)

\* The commits that ref_count[h] stands for.
Counters(h) == {c \in counted : h \in HashesOf(c)}

\* There are finitely many.
LEMMA CountersFinite ==
  ASSUME StoreInv, CountInv, NEW h
  PROVE  IsFiniteSet(Counters(h))
<1>1. CommitIds = 1..MaxCommits /\ MaxCommits \in Int /\ 1 \in Int
  BY MaxCommitsAssumption DEF CommitIds
<1>2. IsFiniteSet(CommitIds)
  BY <1>1, FS_Interval
<1>3. Counters(h) \subseteq CommitIds
  BY DEF Counters, CountInv, StoreInv, StoreTypeOK
<1>4. QED
  BY <1>2, <1>3, FS_Subset

\* Only CountChunks counts a commit.
LEMMA CountedWritten ==
  ASSUME [Next]_vars
  PROVE  UNCHANGED counted \/ \E r \in Pushers : CountChunks(r)
<1>1. ASSUME NEW r \in Pushers, PushStep(r) \/ AbortPush(r)
      PROVE  UNCHANGED counted \/ CountChunks(r)
  BY <1>1 DEF PushStep, AbortPush, CheckHead, RejectPush, InsertPushCommit,
     ReadParentSnapshot, CreateVersion, WritePushSnapshot, AdvanceRef
<1>2. ASSUME NEW r \in Pushers, NEW u \in Users, NEW b \in PushRefs,
             NEW parent \in commits \cup {Nil}, NEW files \in SUBSET Paths,
             NEW manifest \in [Paths -> SUBSET Hashes],
             BeginPush(r, u, b, parent, files, manifest)
      PROVE  UNCHANGED counted
  BY <1>2 DEF BeginPush
<1>3. UNCHANGED pushVars => UNCHANGED counted
  BY DEF pushVars
<1>4. QED
  BY <1>1, <1>2, <1>3, NextCases

\* A counted commit lists the same chunks for ever.
LEMMA CountedKept ==
  ASSUME StoreInv, CountInv, [Next]_vars, NEW c \in counted
  PROVE  HashesOf(c)' = HashesOf(c)
<1>1. c \in CommitIds
  BY DEF CountInv, StoreInv, StoreTypeOK
<1>2. \A r \in Pushers : pushes[r].pc = "files" => pushes[r].id # c
  BY DEF CountInv, PushCounts
<1>3. QED
  BY <1>1, <1>2, HashesKept

\* One round of CountChunks adds the commit to the chunks that it lists.
LEMMA CountChunksExact ==
  ASSUME ClientsUploadFirst, StoreInv, CountInv, PushesList, RefCountExact,
         NEW r \in Pushers, CountChunks(r)
  PROVE  RefCountExact'
<1> DEFINE q == pushes[r]
<1>1. /\ q.pc = "count" /\ PushCounts(q) /\ q.id \in CommitIds
      /\ q.files \subseteq fileVersions[q.id]
  BY DEF CountChunks, CountInv, StoreInv, PushReady, PushesList, PushLists
<1>2. HashesOf(q.id) = ManifestHashes(q.manifest)
  BY <1>1, ListedIsManifest DEF CountInv
<1>3. q.id \notin counted /\ ManifestHashes(q.manifest) \subseteq chunks
  BY <1>1 DEF PushCounts
<1>4. /\ counted' = counted \cup {q.id}
      /\ \A c : HashesOf(c)' = HashesOf(c)
      /\ \A h \in Hashes : refCount'[h] = IF h \in HashesOf(q.id)
                                          THEN refCount[h] + 1 ELSE refCount[h]
  BY <1>2, <1>3 DEF CountChunks, IncrementRefCount, HashesOf, storeVars
<1>5. ASSUME NEW h \in Hashes
      PROVE  refCount'[h] = Cardinality(Counters(h)')
  <2>1. refCount[h] = Cardinality(Counters(h)) /\ IsFiniteSet(Counters(h))
    BY CountersFinite DEF RefCountExact, Counters
  <2>2. CASE h \in HashesOf(q.id)
    <3>1. Counters(h)' = Counters(h) \cup {q.id} /\ q.id \notin Counters(h)
      BY <1>3, <1>4, <2>2 DEF Counters
    <3>2. Cardinality(Counters(h)') = Cardinality(Counters(h)) + 1
      BY <2>1, <3>1, FS_AddElement
    <3>3. QED
      BY <1>4, <2>1, <2>2, <3>2
  <2>3. CASE h \notin HashesOf(q.id)
    <3>1. Counters(h)' = Counters(h)
      BY <1>4, <2>3 DEF Counters
    <3>2. QED
      BY <1>4, <2>1, <2>3, <3>1
  <2>4. QED
    BY <2>2, <2>3
<1>6. QED
  BY <1>5 DEF RefCountExact, Counters

\* No other step changes a count or what it stands for.
LEMMA RefCountStep ==
  ASSUME ClientsUploadFirst, StoreInv, ChunksInv, CountInv, PushesList,
         RefCountExact, [Next]_vars
  PROVE  RefCountExact'
<1>1. CASE \E r \in Pushers : CountChunks(r)
  BY <1>1, CountChunksExact
<1>2. CASE ~ \E r \in Pushers : CountChunks(r)
  <2>1. UNCHANGED counted /\ \A h \in Hashes : refCount'[h] = refCount[h]
    BY <1>2, CountedWritten, CountsWritten
  <2>2. \A h : Counters(h)' = Counters(h)
    BY <2>1, CountedKept DEF Counters
  <2>3. QED
    BY <2>1, <2>2 DEF RefCountExact, Counters
<1>3. QED
  BY <1>1, <1>2

\* In the empty project nothing is counted.
LEMMA InitCounts == Init => CountInv /\ RefCountExact
<1> SUFFICES ASSUME Init PROVE CountInv /\ RefCountExact
  OBVIOUS
<1>1. CountInv
  BY IdleTypes DEF Init, StoreInit, ChunksInit, PushInit, MergeInit, CountInv,
     PushCounts, IdlePush, HasMerged
<1>2. \A h : {c \in counted : h \in HashesOf(c)} = {}
  BY DEF Init, PushInit
<1>3. RefCountExact
  BY <1>2, FS_EmptySet DEF RefCountExact, Init, ChunksInit
<1>4. QED
  BY <1>1, <1>3

\* The counting keeps its invariant, whether clients upload first or not.
LEMMA AlwaysCounted == Spec => []CountInv
<1>1. StoreInv /\ ChunksInv /\ IdsUnique /\ IdsUnique' /\ CountInv /\ [Next]_vars
        => CountInv'
  BY CountStep
<1>2. TypeInv => StoreInv /\ ChunksInv
  BY DEF TypeInv
<1>3. QED
  BY <1>1, <1>2, InitCounts, IdsAlwaysUnique, AlwaysTypeInv, PTL DEF Spec

\* IncrementRefCount loses no increment and invents none, however pushes and
\* uploads interleave and wherever they are cut off: the ref_count of a chunk is
\* the number of commits that were counted and list it.
THEOREM RefCountAlwaysExact ==
  ASSUME ClientsUploadFirst
  PROVE  Spec => []RefCountExact
<1>1. /\ StoreInv /\ ChunksInv /\ CountInv /\ PushesList
      /\ RefCountExact /\ [Next]_vars
      => RefCountExact'
  BY RefCountStep
<1>2. TypeInv => StoreInv /\ ChunksInv
  BY DEF TypeInv
<1>3. QED
  BY <1>1, <1>2, InitCounts, AlwaysCounted, PushesAlwaysList, AlwaysTypeInv, PTL
     DEF Spec

-----------------------------------------------------------------------------
(* The chunks of published commits.                                        *)

\* Some set of finished commits that are counted holds all that is published.
HeldInv == \E G \in SUBSET commits : Finished(G) /\ \A c \in G : Counted(c)

\* A finished commit stays counted.
LEMMA CountedStays ==
  ASSUME StoreInv, CountInv, NEW G \in SUBSET commits, Finished(G), [Next]_vars,
         NEW c \in G, Counted(c)
  PROVE  Counted(c)'
<1>1. c \in CommitIds /\ \A r \in Pushers : pushes[r].id # c
  BY DEF StoreInv, StoreTypeOK, Finished
<1>2. HashesOf(c)' = HashesOf(c)
  BY <1>1, HashesKept
<1>3. counted \subseteq counted'
  BY CountedWritten DEF CountChunks
<1>4. QED
  BY <1>2, <1>3 DEF Counted

\* The commit that a request publishes is counted, or lists no chunk.
LEMMA HeadsCounted ==
  ASSUME StoreInv, CountInv, NEW G \in SUBSET commits, Finished(G),
         \A c \in G : Counted(c), [Next]_vars, NEW c \in Heads'
  PROVE  Counted(c)'
<1>1. CASE c \in G
  BY <1>1, CountedStays
<1>2. CASE UNCHANGED refs \/ \E b \in Branches, d \in G : refs' = [refs EXCEPT ![b] = d]
  <2>1. c \in G
    BY <1>2 DEF Heads, Finished, StoreInv, StoreTypeOK
  <2>2. QED
    BY <1>1, <2>1
<1>3. ASSUME NEW r \in Pushers, AdvanceRef(r), pushes[r].ref # NoRef
      PROVE  Counted(c)'
  <2>1. c \in G \/ c = pushes[r].id
    BY <1>3 DEF AdvanceRef, UpsertRef, Heads, Finished, StoreInv, StoreTypeOK
  <2>2. Counted(pushes[r].id)
    BY <1>3 DEF AdvanceRef, CountInv, PushCounts, Counted
  <2>3. UNCHANGED <<chunkHashes, counted>>
    BY <1>3 DEF AdvanceRef
  <2>4. QED
    BY <1>1, <2>1, <2>2, <2>3 DEF Counted, HashesOf
<1>4. ASSUME NEW r \in Mergers, AdvanceTarget(r)
      PROVE  Counted(c)'
  <2>1. c \in G \/ c = merges[r].id
    BY <1>4 DEF AdvanceTarget, UpsertRef, Heads, Finished, StoreInv, StoreTypeOK
  <2>2. merges[r].id \in CommitIds /\ fileVersions[merges[r].id] = {}
    BY <1>4 DEF AdvanceTarget, HasMerged, StoreInv, MergeReady, ReadyMerge,
       CountInv
  <2>3. HashesOf(merges[r].id) = {} /\ UNCHANGED chunkHashes
    BY <1>4, <2>2 DEF CountInv, HashesOf, AdvanceTarget
  <2>4. QED
    BY <1>1, <2>1, <2>3 DEF Counted, HashesOf
<1>5. QED
  BY <1>2, <1>3, <1>4, RefMoves

\* Every step of the server publishes counted commits only.
LEMMA HeldStep ==
  ASSUME StoreInv, IdsUnique, CountInv, HeldInv, [Next]_vars
  PROVE  HeldInv'
<1>1. PICK G \in SUBSET commits : Finished(G) /\ \A c \in G : Counted(c)
  BY DEF HeldInv
<1>2. PICK H \in SUBSET commits' : H = G \cup Heads' /\ Finished(H)'
  BY <1>1, HistoryStep DEF FinishedWith
<1>3. \A c \in H : Counted(c)'
  BY <1>1, <1>2, CountedStays, HeadsCounted
<1>4. QED
  BY <1>2, <1>3 DEF HeldInv

\* Some finished and counted commits hold all that is published, always.
LEMMA AlwaysHeld == Spec => []HeldInv
<1>1. Init => HeldInv
  BY InitFinished DEF HeldInv
<1>2. StoreInv /\ IdsUnique /\ CountInv /\ HeldInv /\ [Next]_vars => HeldInv'
  BY HeldStep
<1>3. TypeInv => StoreInv
  BY DEF TypeInv
<1>4. QED
  BY <1>1, <1>2, <1>3, AlwaysCounted, IdsAlwaysUnique, AlwaysTypeInv, PTL DEF Spec

\* What is counted is held.
LEMMA CountedIsHeld ==
  ASSUME StoreInv, ChunksInv, CountInv, RefCountExact,
         NEW c \in commits, Counted(c), NEW h \in HashesOf(c)
  PROVE  h \in Hashes /\ h \in chunks /\ refCount[h] > 0 /\ blobs[h] = h
<1>1. c \in counted /\ c \in CommitIds
  BY DEF Counted, StoreInv, StoreTypeOK
<1>2. h \in Hashes
  BY <1>1 DEF HashesOf, StoreInv, StoreTypeOK
<1>3. c \in Counters(h) /\ IsFiniteSet(Counters(h))
  BY <1>1, CountersFinite DEF Counters
<1>4. Cardinality(Counters(h)) \in Nat /\ Cardinality(Counters(h)) # 0
  BY <1>3, FS_CardinalityType, FS_EmptySet
<1>5. refCount[h] = Cardinality(Counters(h))
  BY <1>2 DEF RefCountExact, Counters
<1>6. h \in chunks
  BY <1>2, <1>4, <1>5 DEF CountInv
<1>7. QED
  BY <1>2, <1>4, <1>5, <1>6 DEF ChunksInv, ChunkRowHasBlob

\* A file of a published commit can always be downloaded, and none of its
\* chunks looks unreferenced: the bytes precede the row, the row precedes the
\* push, and the count precedes the move of the ref.
THEOREM PublishedChunksAlwaysHeld ==
  ASSUME ClientsUploadFirst
  PROVE  Spec => []PublishedChunksHeld
<1>1. StoreInv /\ ChunksInv /\ CountInv /\ RefCountExact /\ HeldInv
        => PublishedChunksHeld
  <2> SUFFICES ASSUME StoreInv, ChunksInv, CountInv, RefCountExact, HeldInv
               PROVE  PublishedChunksHeld
    OBVIOUS
  <2>1. PICK G \in SUBSET commits : Finished(G) /\ \A c \in G : Counted(c)
    BY DEF HeldInv
  <2>2. Published \subseteq G
    BY <2>1, FinishedPublished
  <2>3. QED
    BY <2>1, <2>2, CountedIsHeld DEF PublishedChunksHeld
<1>2. TypeInv => StoreInv /\ ChunksInv
  BY DEF TypeInv
<1>3. QED
  BY <1>1, <1>2, AlwaysHeld, AlwaysCounted, RefCountAlwaysExact, AlwaysTypeInv,
     PTL

-----------------------------------------------------------------------------
(* Pulls.                                                                  *)

\* The commits whose file versions are final.
Settled == {c \in commits : ~ BeingWritten(c)}

\* A push that inserts versions goes on with the id it has.
LEMMA WritersKept ==
  ASSUME StoreInv, [Next]_vars, NEW r \in Pushers,
         pushes'[r].pc \in {"parent", "files"}
  PROVE  /\ pushes[r].pc \in {"create", "parent", "files"}
         /\ pushes[r].id = pushes'[r].id
<1> DEFINE Kept == /\ pushes[r].pc \in {"create", "parent", "files"}
                   /\ pushes[r].id = pushes'[r].id
<1>0. /\ pushes \in [Pushers -> PushRecord]
      /\ pushes' = pushes => Kept
  BY DEF StoreInv, PushTypeOK
<1>1. ASSUME NEW q \in Pushers, NEW u \in Users, NEW b \in PushRefs,
             NEW parent \in commits \cup {Nil}, NEW files \in SUBSET Paths,
             NEW manifest \in [Paths -> SUBSET Hashes],
             BeginPush(q, u, b, parent, files, manifest)
      PROVE  Kept
  <2>1. q # r
    BY <1>0, <1>1, IdleTypes DEF BeginPush, IdlePush
  <2>2. QED
    BY <1>0, <1>1, <2>1 DEF BeginPush
<1>2. ASSUME NEW q \in Pushers, PushStep(q) \/ AbortPush(q)
      PROVE  Kept
  <2>1. CASE q = r
    <3>1. CASE RejectPush(r) \/ AdvanceRef(r) \/ AbortPush(r)
      BY <1>0, <3>1, IdleTypes DEF RejectPush, AdvanceRef, AbortPush, EndPush
    <3>2. CASE CheckHead(r) \/ WritePushSnapshot(r) \/ CountChunks(r)
      BY <1>0, <3>2 DEF CheckHead, WritePushSnapshot, CountChunks, PushRecord
    <3>3. CASE InsertPushCommit(r) \/ ReadParentSnapshot(r)
      BY <1>0, <3>3 DEF InsertPushCommit, ReadParentSnapshot, PushRecord
    <3>4. ASSUME NEW p \in Paths, CreateVersion(r, p)
          PROVE  Kept
      BY <1>0, <3>4 DEF CreateVersion, PushRecord
    <3>5. QED
      BY <1>2, <2>1, <3>1, <3>2, <3>3, <3>4 DEF PushStep
  <2>2. CASE q # r
    BY <1>0, <1>2, <2>2 DEF PushStep, AbortPush, CheckHead, RejectPush,
       InsertPushCommit, ReadParentSnapshot, CreateVersion, WritePushSnapshot,
       CountChunks, AdvanceRef, EndPush
  <2>3. QED
    BY <2>1, <2>2
<1>3. QED
  BY <1>0, <1>1, <1>2, NextCases DEF pushVars

\* What is settled stays settled, with the chunks it lists: an id is handed out
\* once, so no push comes back to a commit that is there.
LEMMA SettledKept ==
  ASSUME StoreInv, IdsUnique, [Next]_vars, NEW c \in Settled
  PROVE  c \in Settled' /\ chunkHashes'[c] = chunkHashes[c] /\ HashesOf(c)' = HashesOf(c)
<1>1. c \in commits /\ c \in CommitIds /\ c \in commits'
  BY CommitsGrow DEF Settled, StoreInv, StoreTypeOK
<1>2. \A r \in Pushers : pushes[r].id = c => pushes[r].pc \notin {"create", "parent", "files"}
  BY <1>1 DEF Settled, BeingWritten, IdsUnique
<1>3. \A r \in Pushers : pushes'[r].id = c => pushes'[r].pc \notin {"parent", "files"}
  BY <1>2, WritersKept
<1>4. QED
  BY <1>1, <1>2, <1>3, HashesKept DEF Settled, BeingWritten

\* A client picks commits that are there.  One that is not early holds settled
\* commits only, has the chunks of what it holds, and of what it is pulling it
\* has a chunk or still needs it.
PullHeld(q) ==
  /\ q.pc # "idle" => q.to \in commits
  /\ ClientsUploadFirst => q.needed \subseteq chunks
  /\ ~ q.early =>
       /\ q.at \in Settled \cup {Nil}
       /\ q.at # Nil => HashesOf(q.at) \subseteq q.local
       /\ \A p \in Paths : /\ q.tree[p] \in Settled \cup {Nil}
                           /\ q.tree[p] # Nil
                                => chunkHashes[q.tree[p]][p] \subseteq q.local
       /\ q.pc \in {"fetch", "fetchRef"} =>
            /\ q.to \in Settled
            /\ \A p \in q.files : chunkHashes[q.to][p] \subseteq q.local \cup q.needed
       /\ q.pc = "fetch" => HashesOf(q.to) \subseteq q.local \cup q.needed

PullsHeld == PullTypeOK /\ \A r \in Pullers : PullHeld(pulls[r])

\* No step of the server changes what a client holds or waits for.
LEMMA PullsKept ==
  ASSUME StoreInv, ChunksInv, IdsUnique, CountInv, [Next]_vars, UNCHANGED pulls,
         PullsHeld
  PROVE  PullsHeld'
<1>1. /\ commits \subseteq commits' /\ chunks \subseteq chunks'
      /\ \A c \in Settled : /\ c \in Settled' /\ chunkHashes'[c] = chunkHashes[c]
                            /\ HashesOf(c)' = HashesOf(c)
  BY CommitsGrow, CountsWritten, SettledKept
<1>2. ASSUME NEW r \in Pullers PROVE PullHeld(pulls[r])'
  <2>1. pulls[r] \in PullRecord /\ PullHeld(pulls[r]) /\ pulls'[r] = pulls[r]
    BY DEF PullsHeld, PullTypeOK
  <2> DEFINE q == pulls[r]
  <2>2. (q.pc # "idle" => q.to \in commits') /\ (ClientsUploadFirst => q.needed \subseteq chunks')
    BY <1>1, <2>1 DEF PullHeld
  <2>3. ASSUME ~ q.early
        PROVE  /\ q.at \in Settled' \cup {Nil}
               /\ q.at # Nil => HashesOf(q.at)' \subseteq q.local
               /\ \A p \in Paths : /\ q.tree[p] \in Settled' \cup {Nil}
                                   /\ q.tree[p] # Nil
                                        => chunkHashes'[q.tree[p]][p] \subseteq q.local
               /\ q.pc \in {"fetch", "fetchRef"} =>
                    /\ q.to \in Settled'
                    /\ \A p \in q.files :
                         chunkHashes'[q.to][p] \subseteq q.local \cup q.needed
               /\ q.pc = "fetch" => HashesOf(q.to)' \subseteq q.local \cup q.needed
    BY <1>1, <2>1, <2>3 DEF PullHeld
  <2>4. QED
    BY <2>1, <2>2, <2>3 DEF PullHeld, HashesOf
<1>3. QED
  BY <1>2 DEF PullsHeld, PullTypeOK

\* What a diff leaves out, the client has.
LEMMA DiffComplete ==
  ASSUME StoreInv, CountInv, NEW to \in commits, NEW from, NEW local,
         from # Nil => HashesOf(from) \subseteq local
  PROVE  LET files == ChangedFiles(from, to)
             needed == UNION {NeededChunks(from, to, p) : p \in files}
         IN  HashesOf(to) \subseteq local \cup needed
<1> DEFINE files == ChangedFiles(from, to)
           needed == UNION {NeededChunks(from, to, p) : p \in files}
<1>1. to \in CommitIds
  BY DEF StoreInv, StoreTypeOK
<1>2. ASSUME NEW p \in Paths, NEW h \in chunkHashes[to][p]
      PROVE  h \in local \cup needed
  <2>1. p \in ListFileTree(to)
    BY <1>1, <1>2 DEF CountInv, ListFileTree
  <2>2. CASE h \in NeededChunks(from, to, p)
    BY <2>1, <2>2 DEF ChangedFiles
  <2>3. CASE h \notin NeededChunks(from, to, p)
    BY <1>2, <2>3 DEF NeededChunks, HaveChunks
  <2>4. QED
    BY <2>2, <2>3
<1>3. QED
  BY <1>2 DEF HashesOf

\* The answer of a diff from a commit whose chunks the client has, or from
\* nothing, makes it whole.
LEMMA DiffHeld ==
  ASSUME StoreInv, CountInv, PullsHeld, NEW r \in Pullers, NEW pc \in PullPC,
         NEW from \in {Nil, pulls[r].at}, NEW to \in commits,
         AnswerDiff(r, pc, from, to)
  PROVE  /\ \A q \in Pullers \ {r} : pulls'[q] = pulls[q]
         /\ pulls'[r] \in PullRecord
         /\ PullHeld(pulls'[r])
<1> DEFINE old == IF from = Nil THEN IdlePull ELSE pulls[r]
           files == ChangedFiles(from, to)
           needed == UNION {NeededChunks(from, to, p) : p \in files}
           early == old.early \/ BeingWritten(to)
           new == [old EXCEPT !.pc = pc, !.from = from, !.to = to,
                              !.files = files, !.needed = needed, !.early = early]
<1>1. pulls \in [Pullers -> PullRecord] /\ PullHeld(pulls[r])
  BY DEF PullTypeOK, PullsHeld
<1>2. /\ commits \subseteq CommitIds
      /\ from \in Versions /\ to \in CommitIds /\ to \in Versions
  BY <1>1, IdSets DEF StoreInv, StoreTypeOK, PullRecord
<1>3. IdlePull \in PullRecord /\ PullHeld(IdlePull)
  BY IdSets DEF IdlePull, PullRecord, PullPC, PullHeld, EmptySnapshot, Nil,
     NoVersion
<1>4. old \in PullRecord /\ PullHeld(old)
  BY <1>1, <1>3
<1>5. files \in SUBSET Paths /\ needed \subseteq HashesOf(to)
  BY <1>2 DEF ChangedFiles, ListFileTree, NeededChunks, HashesOf, StoreInv,
     StoreTypeOK
<1>6. /\ HashesOf(to) \in SUBSET Hashes
      /\ ClientsUploadFirst => HashesOf(to) \subseteq chunks
  BY <1>2 DEF HashesOf, CountInv, StoreInv, StoreTypeOK
<1>7. ASSUME ~ early
      PROVE  /\ to \in Settled /\ HashesOf(to) \subseteq old.local \cup needed
             /\ \A p \in files : chunkHashes[to][p] \subseteq old.local \cup needed
  <2>1. from # Nil => HashesOf(from) \subseteq old.local
    BY <1>1, <1>7 DEF PullHeld
  <2>2. HashesOf(to) \subseteq old.local \cup needed
    BY <2>1, DiffComplete
  <2>3. QED
    BY <1>5, <1>7, <2>2 DEF HashesOf, Settled
<1>8. pulls' = [pulls EXCEPT ![r] = new]
  BY DEF AnswerDiff
<1>9. old.early \in BOOLEAN /\ early \in BOOLEAN
  BY <1>4 DEF PullRecord
<1> HIDE DEF old, files, needed, early
<1>10. new \in PullRecord
  BY <1>2, <1>4, <1>5, <1>6, <1>9 DEF PullRecord
<1>11. PullHeld(new)
  <2>1. /\ new.at = old.at /\ new.tree = old.tree /\ new.local = old.local
        /\ new.pc = pc /\ new.to = to /\ new.files = files
        /\ new.needed = needed /\ new.early = early
    BY <1>4 DEF PullRecord
  <2> HIDE DEF new
  <2>2. ~ early => ~ old.early
    BY DEF early
  <2>3. QED
    BY <1>4, <1>5, <1>6, <1>7, <2>1, <2>2 DEF PullHeld
<1>12. QED
  BY <1>1, <1>8, <1>10, <1>11

\* Every request of a client keeps what clients hold.
LEMMA PullStepHeld ==
  ASSUME StoreInv, CountInv, HistoryInv, PullsHeld, NEW r \in Pullers, PullStep(r),
         UNCHANGED vars
  PROVE  PullsHeld'
<1> DEFINE q == pulls[r]
<1>1. /\ pulls \in [Pullers -> PullRecord] /\ q \in PullRecord
      /\ \A s \in Pullers : PullHeld(pulls[s])
      /\ \A b \in Branches : refs[b] # Nil => refs[b] \in commits
      /\ commits \subseteq CommitIds /\ commits \subseteq Versions
  BY IdSets DEF PullTypeOK, PullsHeld, HistoryInv, Finished, StoreInv, StoreTypeOK
<1>2. ASSUME /\ \A s \in Pullers \ {r} : pulls'[s] = pulls[s]
             /\ pulls'[r] \in PullRecord
             /\ PullHeld(pulls'[r])
             /\ \E new : pulls' = [pulls EXCEPT ![r] = new]
      PROVE  PullsHeld'
  <2>1. UNCHANGED <<chunkHashes, commits, chunks, pushes>>
    BY DEF vars, storeVars, chunkVars, pushVars
  <2>2. ASSUME NEW s \in Pullers PROVE PullHeld(pulls'[s])
    BY <1>1, <1>2
  <2>3. ASSUME NEW s \in Pullers PROVE PullHeld(pulls[s])'
    BY <2>1, <2>2 DEF PullHeld, HashesOf, Settled, BeingWritten
  <2>4. pulls' \in [Pullers -> PullRecord]
    BY <1>1, <1>2
  <2>5. QED
    BY <2>3, <2>4 DEF PullTypeOK, PullsHeld
<1>3. ASSUME NEW c \in commits,
             pulls' = [pulls EXCEPT ![r].pc = "resolved", ![r].to = c]
      PROVE  PullsHeld'
  <2>1. /\ pulls'[r].pc = "resolved" /\ pulls'[r].to = c
        /\ pulls'[r].at = q.at /\ pulls'[r].tree = q.tree
        /\ pulls'[r].local = q.local /\ pulls'[r].needed = q.needed
        /\ pulls'[r].early = q.early
    BY <1>1, <1>3 DEF PullRecord
  <2>2. PullHeld(pulls'[r])
    BY <1>1, <2>1 DEF PullHeld
  <2>3. pulls'[r] \in PullRecord
    BY <1>1, <1>3 DEF PullRecord, PullPC
  <2>4. PICK new : new = [q EXCEPT !.pc = "resolved", !.to = c]
    OBVIOUS
  <2>5. pulls' = [pulls EXCEPT ![r] = new]
    BY <1>1, <1>3, <2>4
  <2>6. QED
    BY <1>1, <1>2, <2>2, <2>3, <2>5
<1>4. ASSUME NEW pc \in PullPC, NEW from \in {Nil, q.at}, NEW to \in commits,
             AnswerDiff(r, pc, from, to)
      PROVE  PullsHeld'
  <2>1. /\ \A s \in Pullers \ {r} : pulls'[s] = pulls[s]
        /\ pulls'[r] \in PullRecord /\ PullHeld(pulls'[r])
    BY <1>4, DiffHeld
  <2>2. QED
    BY <1>2, <1>4, <2>1 DEF AnswerDiff
<1>5. ASSUME NEW from \in {Nil, q.at}, Diff(r, from)
      PROVE  PullsHeld'
  <2>1. q.to \in commits
    BY <1>1, <1>5 DEF Diff, PullHeld
  <2>2. QED
    BY <1>4, <1>5, <2>1 DEF Diff, PullPC
<1>6. ASSUME NEW from \in {Nil, q.at}, NEW b \in Branches, DiffRef(r, from, b)
      PROVE  PullsHeld'
  BY <1>1, <1>4, <1>6 DEF DiffRef, PullPC
<1>7. ASSUME NEW h \in Hashes, DownloadChunk(r, h)
      PROVE  PullsHeld'
  <2>1. /\ pulls' = [pulls EXCEPT ![r].needed = @ \ {h}, ![r].local = @ \cup {h}]
        /\ h \in q.needed
    BY <1>7 DEF DownloadChunk
  <2>2. /\ pulls'[r].pc = q.pc /\ pulls'[r].to = q.to /\ pulls'[r].files = q.files
        /\ pulls'[r].at = q.at /\ pulls'[r].tree = q.tree
        /\ pulls'[r].needed = q.needed \ {h} /\ pulls'[r].local = q.local \cup {h}
        /\ pulls'[r].early = q.early
    BY <1>1, <2>1 DEF PullRecord
  <2>3. PullHeld(pulls'[r])
    BY <1>1, <2>2 DEF PullHeld
  <2>4. pulls'[r] \in PullRecord
    BY <1>1, <2>1 DEF PullRecord
  <2>5. PICK new : new = [q EXCEPT !.needed = q.needed \ {h},
                                   !.local = q.local \cup {h}]
    OBVIOUS
  <2>6. pulls' = [pulls EXCEPT ![r] = new]
    BY <1>1, <2>1, <2>5
  <2>7. QED
    BY <1>1, <1>2, <2>3, <2>4, <2>6
<1>8. ASSUME NEW at \in Versions, NEW tree \in Snapshot,
             pulls' = [pulls EXCEPT ![r] = EndPull(q, at, tree)],
             ~ q.early => /\ at \in Settled \cup {Nil}
                          /\ at # Nil => HashesOf(at) \subseteq q.local
                          /\ \A p \in Paths :
                               /\ tree[p] \in Settled \cup {Nil}
                               /\ tree[p] # Nil
                                    => chunkHashes[tree[p]][p] \subseteq q.local
      PROVE  PullsHeld'
  <2>1. /\ pulls'[r] = EndPull(q, at, tree)
        /\ pulls'[r].pc = "idle" /\ pulls'[r].needed = {}
        /\ pulls'[r].at = at /\ pulls'[r].tree = tree
        /\ pulls'[r].local = q.local /\ pulls'[r].early = q.early
    BY <1>1, <1>8 DEF EndPull, IdlePull
  <2>2. PullHeld(pulls'[r])
    BY <1>8, <2>1 DEF PullHeld
  <2>3. pulls'[r] \in PullRecord
    BY <1>1, <1>8, <2>1, IdSets DEF EndPull, IdlePull, PullRecord, PullPC
  <2>4. QED
    BY <1>1, <1>2, <1>8, <2>2, <2>3
<1>9. CASE FinishPull(r)
  <2> DEFINE tree == [p \in Paths |-> IF p \in q.files THEN q.to ELSE q.tree[p]]
             at == IF q.pc = "fetch" THEN q.to ELSE q.at
  <2>1. /\ q.pc \in {"fetch", "fetchRef"} /\ q.needed = {}
        /\ pulls' = [pulls EXCEPT ![r] = EndPull(q, at, tree)]
    BY <1>9 DEF FinishPull
  <2>2. tree \in Snapshot /\ at \in Versions
    BY <1>1 DEF PullRecord, Snapshot
  <2>3. ASSUME ~ q.early
        PROVE  /\ at \in Settled \cup {Nil}
               /\ at # Nil => HashesOf(at) \subseteq q.local
               /\ \A p \in Paths : /\ tree[p] \in Settled \cup {Nil}
                                   /\ tree[p] # Nil
                                        => chunkHashes[tree[p]][p] \subseteq q.local
    BY <1>1, <2>1, <2>3 DEF PullHeld
  <2>4. QED
    BY <1>8, <2>1, <2>2, <2>3
<1>10. CASE AbandonPull(r)
  BY <1>1, <1>8, <1>10 DEF AbandonPull, PullHeld, PullRecord
<1>11. QED
  BY <1>1, <1>3, <1>5, <1>6, <1>7, <1>9, <1>10 DEF PullStep, ListRefs, ListCommits

\* Clients change nothing on the server.
LEMMA PullsOnlyRead == PullSpec => Spec
<1>1. PullInit => Init
  BY DEF PullInit
<1>2. [PullNext]_<<vars, pulls>> => [Next]_vars
  BY DEF PullNext
<1>3. QED
  BY <1>1, <1>2, PTL DEF PullSpec, Spec

\* The invariant of the pulls holds in every reachable state.
LEMMA PullsAlwaysHeld == PullSpec => []PullsHeld
<1>1. PullInit => PullsHeld
  <2> SUFFICES ASSUME PullInit PROVE PullsHeld
    OBVIOUS
  <2>1. IdlePull \in PullRecord /\ PullHeld(IdlePull)
    BY IdSets DEF IdlePull, PullRecord, PullPC, PullHeld, EmptySnapshot, Nil,
       NoVersion
  <2>2. QED
    BY <2>1 DEF PullInit, PullTypeOK, PullsHeld
<1>2. /\ StoreInv /\ ChunksInv /\ IdsUnique /\ CountInv /\ HistoryInv
      /\ PullsHeld /\ [PullNext]_<<vars, pulls>>
      => PullsHeld'
  <2> SUFFICES ASSUME StoreInv, ChunksInv, IdsUnique, CountInv, HistoryInv,
                      PullsHeld, [PullNext]_<<vars, pulls>>
               PROVE  PullsHeld'
    OBVIOUS
  <2>1. CASE [Next]_vars /\ UNCHANGED pulls
    BY <2>1, PullsKept
  <2>2. CASE \E r \in Pullers : PullStep(r) /\ UNCHANGED vars
    BY <2>2, PullStepHeld
  <2>3. QED
    BY <2>1, <2>2 DEF PullNext
<1>3. TypeInv => StoreInv /\ ChunksInv
  BY DEF TypeInv
<1>4. QED
  BY <1>1, <1>2, <1>3, PullsOnlyRead, AlwaysCounted, IdsAlwaysUnique,
     AlwaysFinished, AlwaysTypeInv, PTL DEF PullSpec

\* Whatever commits a client clones, skips, gives up or pulls again while pushes
\* race and branches lose commits, the files it holds have all their chunks:
\* ComputeDiff leaves out only what an earlier answer made the client fetch.  The
\* one exception are the clients that have diffed a commit of GET /commits whose
\* versions were still being inserted.
THEOREM PulledFilesAlwaysComplete == PullSpec => []PulledFilesComplete
<1>1. PullsHeld => PulledFilesComplete
  BY DEF PullsHeld, PullHeld, PulledFilesComplete
<1>2. QED
  BY <1>1, PullsAlwaysHeld, PTL

\* A client that takes its commits from GET /refs, or names a branch, meets no
\* such commit: the versions precede the move of the ref.
THEOREM HeadsAreNeverEarly == PullSpec => []HeadsNeverEarly
<1>1. HistoryInv => HeadsNeverEarly
  BY DEF HistoryInv, Finished, HeadsNeverEarly, BeingWritten
<1>2. QED
  BY <1>1, PullsOnlyRead, AlwaysFinished, PTL

\* If clients upload before they push, a pull under way can always be finished,
\* also when its commit has dropped out of the branch meanwhile or is not
\* finished itself.
THEOREM PullsNeverStuck ==
  ASSUME ClientsUploadFirst
  PROVE  PullSpec => []PullNeverStuck
<1>1. StoreInv /\ ChunksInv /\ CountInv /\ PullsHeld => PullNeverStuck
  <2> SUFFICES ASSUME StoreInv, ChunksInv, CountInv, PullsHeld,
                      NEW r \in Pullers, pulls[r].pc # "idle",
                      NEW h \in HashesOf(pulls[r].to) \cup pulls[r].needed
               PROVE  Downloadable(h)
    BY DEF PullNeverStuck
  <2>1. pulls[r].to \in CommitIds
    BY DEF PullsHeld, PullHeld, StoreInv, StoreTypeOK
  <2>2. h \in chunks
    BY <2>1 DEF HashesOf, CountInv, PullsHeld, PullHeld
  <2>3. h \in Hashes /\ blobs[h] = h
    BY <2>2 DEF ChunksInv, ChunksTypeOK, ChunkRowHasBlob
  <2>4. QED
    BY <2>2, <2>3, ChunksAssumption DEF Downloadable
<1>2. TypeInv => StoreInv /\ ChunksInv
  BY DEF TypeInv
<1>3. QED
  BY <1>1, <1>2, PullsAlwaysHeld, PullsOnlyRead, AlwaysCounted, AlwaysTypeInv, PTL

=============================================================================
