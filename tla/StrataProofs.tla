---------------------------- MODULE StrataProofs ----------------------------
(***************************************************************************)
(* Published history is complete and immutable, for any project and any    *)
(* number of concurrent requests that are cut off anywhere.                *)
(***************************************************************************)
EXTENDS StrataTypeProofs

-----------------------------------------------------------------------------
(* Ids are handed out once.                                                *)

\* The empty project has handed out no id.
LEMMA InitIds == Init => IdsUnique
BY IdleTypes DEF Init, StoreInit, PushInit, MergeInit, IdsUnique, HasMerged, Nil

\* A step of CreateCommit takes a fresh id or keeps the one it has.
LEMMA PushStepIds ==
  ASSUME StoreInv, IdsUnique, NEW r \in Pushers, PushStep(r) \/ AbortPush(r),
         UNCHANGED mergeVars
  PROVE  IdsUnique'
<1> USE DEF mergeVars
<1>0. /\ pushes \in [Pushers -> PushRecord] /\ pushes[r] \in PushRecord
      /\ merges \in [Mergers -> MergeRecord]
      /\ commits \subseteq CommitIds /\ lastID \in Nat
      /\ fileVersions \in [CommitIds -> SUBSET Paths]
      /\ \A c \in CommitIds : c \in Nat
      /\ \A q \in Pushers : pushes[q].id \in Nat
      /\ \A q \in Mergers : merges[q].id \in Nat
  <2>1. /\ pushes \in [Pushers -> PushRecord]
        /\ merges \in [Mergers -> MergeRecord]
        /\ commits \subseteq CommitIds /\ lastID \in Versions
        /\ fileVersions \in [CommitIds -> SUBSET Paths]
    BY DEF StoreInv, StoreTypeOK, PushTypeOK, MergeTypeOK
  <2>2. Versions \subseteq Nat /\ \A c \in CommitIds : c \in Nat
    BY MaxCommitsAssumption DEF Versions, CommitIds
  <2>3. \A q \in Pushers : pushes[q].id \in Versions
    BY <2>1 DEF PushRecord
  <2>4. \A q \in Mergers : merges[q].id \in Versions
    BY <2>1 DEF MergeRecord
  <2>5. QED
    BY <2>1, <2>2, <2>3, <2>4
<1>1. CASE CheckHead(r)
  <2>1. /\ pushes'[r].pc = "create" /\ pushes'[r].id = lastID + 1
        /\ \A q \in Pushers \ {r} : pushes'[q] = pushes[q]
        /\ lastID' = lastID + 1
        /\ UNCHANGED <<commits, fileVersions, merges>>
    BY <1>0, <1>1 DEF CheckHead, PushRecord
  <2>2. QED
    BY <1>0, <2>1 DEF IdsUnique, Nil
<1>2. CASE EndPush(r) /\ UNCHANGED <<commits, fileVersions, lastID>>
  <2>1. /\ pushes'[r].pc = "idle" /\ pushes'[r].id = Nil
        /\ \A q \in Pushers \ {r} : pushes'[q] = pushes[q]
    BY <1>0, <1>2, IdleTypes DEF EndPush
  <2>2. QED
    BY <1>0, <1>2, <2>1 DEF IdsUnique, Nil
<1>3. CASE InsertPushCommit(r)
  <2>1. /\ pushes[r].pc = "create"
        /\ pushes'[r].pc \in {"files", "parent"} /\ pushes'[r].id = pushes[r].id
        /\ \A q \in Pushers \ {r} : pushes'[q] = pushes[q]
        /\ commits' = commits \cup {pushes[r].id}
        /\ UNCHANGED <<lastID, fileVersions, merges>>
    BY <1>0, <1>3 DEF InsertPushCommit, CreateCommit, PushRecord
  <2>2. QED
    BY <1>0, <2>1 DEF IdsUnique, Nil, HasMerged
<1>4. ASSUME NEW p \in Paths, CreateVersion(r, p)
      PROVE  IdsUnique'
  <2>1. /\ pushes[r].pc = "files"
        /\ pushes'[r].pc = "files" /\ pushes'[r].id = pushes[r].id
        /\ \A q \in Pushers \ {r} : pushes'[q] = pushes[q]
        /\ \A c \in CommitIds : c # pushes[r].id
                                  => fileVersions'[c] = fileVersions[c]
        /\ UNCHANGED <<lastID, commits, merges>>
    BY <1>0, <1>4 DEF CreateVersion, InsertFileVersion, PushRecord
  <2>2. QED
    BY <1>0, <2>1 DEF IdsUnique
<1>5. CASE ReadParentSnapshot(r) \/ WritePushSnapshot(r) \/ CountChunks(r)
  <2>1. /\ pushes[r].pc \notin {"idle", "check", "create"}
        /\ pushes'[r].pc \notin {"idle", "check", "create"}
        /\ pushes'[r].id = pushes[r].id
        /\ \A q \in Pushers \ {r} : pushes'[q] = pushes[q]
        /\ UNCHANGED <<lastID, commits, fileVersions, merges>>
    BY <1>0, <1>5 DEF ReadParentSnapshot, WritePushSnapshot, CountChunks,
       PushRecord, storeVars
  <2>2. QED
    BY <1>0, <2>1 DEF IdsUnique
<1>6. QED
  BY <1>1, <1>2, <1>3, <1>4, <1>5
     DEF PushStep, AbortPush, RejectPush, AdvanceRef, storeVars

\* A step of Execute takes a fresh id or keeps the one it has.
LEMMA MergeStepIds ==
  ASSUME StoreInv, IdsUnique, NEW r \in Mergers, MergeStep(r) \/ AbortMerge(r),
         UNCHANGED pushVars
  PROVE  IdsUnique'
<1> USE DEF pushVars
<1>0. /\ pushes \in [Pushers -> PushRecord]
      /\ merges \in [Mergers -> MergeRecord] /\ merges[r] \in MergeRecord
      /\ commits \subseteq CommitIds /\ lastID \in Nat
      /\ fileVersions \in [CommitIds -> SUBSET Paths]
      /\ \A q \in Pushers : pushes[q].id \in Nat
      /\ \A q \in Mergers : merges[q].id \in Nat
      /\ \A c \in CommitIds : c \in Nat
  BY MaxCommitsAssumption DEF StoreInv, StoreTypeOK, PushTypeOK, MergeTypeOK,
     PushRecord, MergeRecord, Versions, CommitIds
<1>1. CASE ResolveMerge(r)
  <2>1. /\ merges'[r].pc = "create" /\ merges'[r].id = lastID + 1
        /\ \A q \in Mergers \ {r} : merges'[q] = merges[q]
        /\ lastID' = lastID + 1
        /\ UNCHANGED <<commits, fileVersions, pushes>>
    BY <1>0, <1>1 DEF ResolveMerge, MergeRecord
  <2>2. QED
    BY <1>0, <2>1 DEF IdsUnique, Nil, HasMerged
<1>2. CASE EndMerge(r) /\ UNCHANGED <<commits, fileVersions, lastID>>
  <2>1. /\ merges'[r].pc = "idle" /\ merges'[r].id = Nil
        /\ \A q \in Mergers \ {r} : merges'[q] = merges[q]
    BY <1>0, <1>2, IdleTypes DEF EndMerge
  <2>2. QED
    BY <1>0, <1>2, <2>1 DEF IdsUnique, Nil, HasMerged
<1>3. CASE InsertMergeCommit(r)
  <2>1. /\ merges[r].pc = "create"
        /\ merges'[r].pc = "snapshot" /\ merges'[r].id = merges[r].id
        /\ \A q \in Mergers \ {r} : merges'[q] = merges[q]
        /\ commits' = commits \cup {merges[r].id}
        /\ UNCHANGED <<lastID, fileVersions, pushes>>
    BY <1>0, <1>3 DEF InsertMergeCommit, CreateCommit, MergeRecord
  <2>2. QED
    BY <1>0, <2>1 DEF IdsUnique, Nil, HasMerged
<1>4. CASE WriteMergeSnapshot(r) /\ ~ EndMerge(r)
  <2>1. /\ merges[r].pc = "snapshot"
        /\ merges'[r].pc = "advance" /\ merges'[r].id = merges[r].id
        /\ \A q \in Mergers \ {r} : merges'[q] = merges[q]
        /\ UNCHANGED <<lastID, commits, fileVersions, pushes>>
    BY <1>0, <1>4 DEF WriteMergeSnapshot, MergeRecord
  <2>2. QED
    BY <1>0, <2>1 DEF IdsUnique, HasMerged
<1>5. CASE \/ AnalyzeMerge(r) /\ ~ EndMerge(r)
           \/ RereadSource(r) \/ RereadTarget(r)
  <2>1. /\ ~ HasMerged(merges[r]) /\ ~ HasMerged(merges'[r])
        /\ merges'[r].pc \notin {"create", "snapshot", "advance"}
        /\ merges'[r].id = merges[r].id
        /\ \A q \in Mergers \ {r} : merges'[q] = merges[q]
        /\ UNCHANGED <<lastID, commits, fileVersions, pushes>>
    BY <1>0, <1>5 DEF AnalyzeMerge, RereadSource, RereadTarget, MergeRecord,
       HasMerged, storeVars
  <2>2. QED
    BY <1>0, <2>1 DEF IdsUnique, HasMerged
<1>6. QED
  BY <1>1, <1>2, <1>3, <1>4, <1>5
     DEF MergeStep, AbortMerge, AnalyzeMerge, PanicMerge, FastForward, RejectMerge,
         WriteMergeSnapshot, AdvanceTarget, storeVars

\* No step of the server makes two requests share a commit id.
LEMMA StepIds == StoreInv /\ IdsUnique /\ [Next]_vars => IdsUnique'
<1> SUFFICES ASSUME StoreInv, IdsUnique, [Next]_vars PROVE IdsUnique'
  OBVIOUS
<1>0. lastID \in Nat
  BY MaxCommitsAssumption DEF StoreInv, StoreTypeOK, Versions
<1>1. ASSUME NEW r \in Pushers, NEW u \in Users, NEW b \in PushRefs,
             NEW parent \in commits \cup {Nil}, NEW files \in SUBSET Paths,
             NEW manifest \in [Paths -> SUBSET Hashes],
             BeginPush(r, u, b, parent, files, manifest), UNCHANGED mergeVars
      PROVE  IdsUnique'
  <2>1. /\ pushes'[r].pc = "check" /\ pushes'[r].id = Nil
        /\ \A q \in Pushers \ {r} : pushes'[q] = pushes[q]
        /\ pushes[r].pc = "idle" /\ UNCHANGED storeVars
    BY <1>1 DEF BeginPush, IdlePush, StoreInv, PushTypeOK
  <2>2. QED
    BY <1>0, <1>1, <2>1 DEF IdsUnique, storeVars, mergeVars, Nil
<1>2. ASSUME NEW r \in Mergers, NEW source \in Branches,
             NEW target \in Branches, BeginMerge(r, source, target),
             UNCHANGED pushVars
      PROVE  IdsUnique'
  <2>1. /\ merges'[r].pc = "target" /\ merges'[r].id = Nil
        /\ \A q \in Mergers \ {r} : merges'[q] = merges[q]
        /\ merges[r].pc = "idle" /\ UNCHANGED storeVars
    BY <1>2 DEF BeginMerge, IdleMerge, StoreInv, MergeTypeOK
  <2>2. QED
    BY <1>0, <1>2, <2>1 DEF IdsUnique, storeVars, pushVars, HasMerged, Nil
<1>3. CASE UNCHANGED <<commits, lastID, fileVersions, merges, pushes>>
  BY <1>3 DEF IdsUnique
<1>4. QED
  BY <1>1, <1>2, <1>3, NextCases, PushStepIds, MergeStepIds
     DEF BeginCreateBranch, CreateStep, CheckBranchExists, CreateBranchRef,
         AbortCreateBranch, storeVars, pushVars, mergeVars

-----------------------------------------------------------------------------
(* What a step leaves alone.                                               *)

\* The rows of commit c.
RowsKept(c) ==
  /\ parentID'[c] = parentID[c]
  /\ sourceID'[c] = sourceID[c]
  /\ fileVersions'[c] = fileVersions[c]
  /\ commitFiles'[c] = commitFiles[c]

\* A step writes the rows of at most one commit w, and only adds versions.
WritesOnly(w) ==
  /\ \A c \in CommitIds : c # w => RowsKept(c)
  /\ \A c \in CommitIds : fileVersions[c] \subseteq fileVersions'[c]
  /\ commits \subseteq commits'

\* Finished commits that a step does not write stay finished.
LEMMA FinishedKept ==
  ASSUME StoreInv, NEW G \in SUBSET commits, Finished(G),
         NEW w \in Versions, w \notin G, WritesOnly(w)
  PROVE  /\ ClosedUnderParents(G)'
         /\ \A c \in G : SnapshotBuilt(c)' /\ VersionsExist(c)'
<1>1. G \subseteq CommitIds /\ \A c \in G : RowsKept(c)
  BY DEF StoreInv, StoreTypeOK, WritesOnly
<1>2. ClosedUnderParents(G)'
  BY <1>1 DEF Finished, ClosedUnderParents, ParentIDs, RowsKept
<1>3. ASSUME NEW c \in G PROVE SnapshotBuilt(c)'
  <2>1. parentID[c] # Nil => parentID[c] \in G
    BY DEF Finished, ClosedUnderParents, ParentIDs
  <2>2. SnapshotBuilt(c)
    BY DEF Finished
  <2>3. /\ RowsKept(c)
        /\ parentID[c] # Nil => RowsKept(parentID[c])
    BY <1>1, <2>1
  <2>4. QED
    BY <2>2, <2>3 DEF SnapshotBuilt, LaidOver, GetCommitSnapshot, IsMergeCommit, RowsKept,
       KeepsFiles
<1>4. ASSUME NEW c \in G PROVE VersionsExist(c)'
  <2>1. \A p \in Paths : commitFiles[c][p] \in Versions
    BY <1>1 DEF StoreInv, StoreTypeOK, Snapshot
  <2>2. \A p \in Paths : commitFiles[c][p] # NoVersion
                            => commitFiles[c][p] \in CommitIds
    BY <2>1, IdSets DEF Nil, NoVersion
  <2>3. VersionsExist(c) /\ RowsKept(c)
    BY <1>1 DEF Finished
  <2>4. QED
    BY <2>2, <2>3 DEF VersionsExist, RowsKept, WritesOnly
<1>5. QED
  BY <1>2, <1>3, <1>4

\* A request that a step neither advances nor writes for stays prepared.
LEMMA PushKept ==
  ASSUME StoreInv, NEW G \in SUBSET commits, Finished(G),
         NEW w \in Versions, w \notin G, WritesOnly(w),
         NEW r \in Pushers, pushes'[r] = pushes[r],
         w # Nil => pushes[r].id # w
  PROVE  PushPrepared(pushes[r], G)'
<1> SUFFICES ASSUME pushes[r].ref # NoRef, pushes[r].pc \notin {"idle", "check"}
             PROVE  PushPrepared(pushes[r], G)'
  BY DEF PushPrepared, Finished
<1>1. pushes[r].id \in CommitIds
  BY DEF StoreInv, PushReady
<1>2. RowsKept(pushes[r].id)
  BY <1>1, IdSets DEF WritesOnly
<1>3. G \subseteq CommitIds
  BY DEF StoreInv, StoreTypeOK
<1>4. pushes[r].parent # Nil => RowsKept(pushes[r].parent)
  BY <1>3 DEF Finished, PushPrepared, WritesOnly
<1>5. PushPrepared(pushes[r], G)
  BY DEF Finished
<1>6. QED
  BY <1>2, <1>4, <1>5 DEF PushPrepared, LaidOver, GetCommitSnapshot, RowsKept

\* The same for a merge: what Execute has read and built stays valid.
LEMMA MergeKept ==
  ASSUME StoreInv, NEW G \in SUBSET commits, Finished(G),
         NEW w \in Versions, w \notin G, WritesOnly(w),
         NEW r \in Mergers, merges'[r] = merges[r],
         w # Nil => merges[r].id # w
  PROVE  MergePrepared(merges[r], G)'
<1> DEFINE m == merges[r]
<1>0. MergePrepared(m, G) /\ m \in MergeRecord
  BY DEF Finished, StoreInv, MergeTypeOK
<1>1. G \subseteq CommitIds /\ \A c \in G : RowsKept(c)
  BY DEF StoreInv, StoreTypeOK, WritesOnly
<1>2. HasMerged(m) => /\ RowsKept(m.id) /\ RowsKept(m.base) /\ RowsKept(m.s1)
                      /\ RowsKept(m.t1) /\ RowsKept(m.t2)
  BY <1>0, <1>1, IdSets DEF HasMerged, MergePrepared, HeadsRead, StoreInv,
     MergeReady, ReadyMerge, WritesOnly
<1>3. ASSUME HasMerged(m) PROVE HasEmptyVersion(m)' <=> HasEmptyVersion(m)
  <2>1. /\ commitFiles'[m.base] = commitFiles[m.base]
        /\ commitFiles'[m.s1] = commitFiles[m.s1]
        /\ commitFiles'[m.t1] = commitFiles[m.t1]
    BY <1>2, <1>3 DEF RowsKept
  <2>2. ConflictsOf(m)' = ConflictsOf(m)
    BY <2>1 DEF ConflictsOf
  <2>3. QED
    BY <2>2 DEF HasEmptyVersion
<1>4. HasMerged(m) => \A p \in Paths : m.merged[p] # NoVersion
                                  => p \in fileVersions'[m.merged[p]]
  <2>1. \A p \in Paths : m.merged[p] # NoVersion => m.merged[p] \in CommitIds
    BY <1>0, IdSets DEF MergeRecord, Snapshot, Nil, NoVersion
  <2>2. QED
    BY <1>0, <2>1 DEF MergePrepared, WritesOnly
<1>5. QED
  BY <1>0, <1>2, <1>3, <1>4 DEF MergePrepared, HasMerged, KeepsFiles, RowsKept

-----------------------------------------------------------------------------
(* How the set of finished commits grows.                                  *)

\* The commits of G are finished, and so are the heads of the branches.
FinishedWith(G) == \E H \in SUBSET commits : H = G \cup Heads /\ Finished(H)

\* A step of a push that publishes nothing keeps the finished commits.
LEMMA PushFrame ==
  ASSUME StoreInv, IdsUnique, NEW G \in SUBSET commits, Finished(G),
         NEW r \in Pushers, \A q \in Pushers \ {r} : pushes'[q] = pushes[q],
         WritesOnly(pushes[r].id), UNCHANGED <<refs, mergeVars>>,
         pushes'[r].id \notin G, PushPrepared(pushes[r], G)'
  PROVE  FinishedWith(G)'
<1>1. pushes[r].id \in Versions /\ pushes[r].id \notin G
  BY DEF StoreInv, PushTypeOK, PushRecord, Finished
<1>2. ClosedUnderParents(G)' /\ \A c \in G : SnapshotBuilt(c)' /\ VersionsExist(c)'
  BY <1>1, FinishedKept
<1>3. \A q \in Pushers : pushes'[q].id \notin G /\ PushPrepared(pushes[q], G)'
  <2>1. ASSUME NEW q \in Pushers, q # r
        PROVE  pushes'[q].id \notin G /\ PushPrepared(pushes[q], G)'
    <3>1. pushes[r].id # Nil => pushes[q].id # pushes[r].id
      BY <2>1 DEF IdsUnique
    <3>2. QED
      BY <1>1, <2>1, <3>1, PushKept DEF Finished
  <2>2. QED
    BY <2>1
<1>4. \A q \in Mergers : merges'[q].id \notin G /\ MergePrepared(merges[q], G)'
  <2>1. ASSUME NEW q \in Mergers
        PROVE  merges'[q].id \notin G /\ MergePrepared(merges[q], G)'
    <3>1. pushes[r].id # Nil => merges[q].id # pushes[r].id
      BY DEF IdsUnique
    <3>2. QED
      BY <1>1, <3>1, MergeKept DEF Finished, mergeVars
  <2>2. QED
    BY <2>1
<1>5. \A q \in Branchers : creates'[q].pc # "idle" => creates'[q].head \in G
  BY DEF Finished, mergeVars
<1>6. \A b \in Branches : refs'[b] # Nil => refs'[b] \in G
  BY DEF Finished
<1>7. Finished(G)'
  BY <1>2, <1>3, <1>4, <1>5, <1>6 DEF Finished
<1>8. G \in SUBSET commits' /\ G = G \cup Heads'
  BY <1>6 DEF WritesOnly, Heads
<1>9. QED
  BY <1>7, <1>8 DEF FinishedWith

\* The same for a step of a merge.
LEMMA MergeFrame ==
  ASSUME StoreInv, IdsUnique, NEW G \in SUBSET commits, Finished(G),
         NEW r \in Mergers, \A q \in Mergers \ {r} : merges'[q] = merges[q],
         WritesOnly(merges[r].id), UNCHANGED <<creates, pushVars>>,
         \A b \in Branches : refs'[b] = refs[b] \/ refs'[b] \in G,
         merges'[r].id \notin G, MergePrepared(merges[r], G)'
  PROVE  FinishedWith(G)'
<1>1. merges[r].id \in Versions /\ merges[r].id \notin G
  BY DEF StoreInv, MergeTypeOK, MergeRecord, Finished
<1>2. ClosedUnderParents(G)' /\ \A c \in G : SnapshotBuilt(c)' /\ VersionsExist(c)'
  BY <1>1, FinishedKept
<1>3. \A q \in Mergers : merges'[q].id \notin G /\ MergePrepared(merges[q], G)'
  <2>1. ASSUME NEW q \in Mergers, q # r
        PROVE  merges'[q].id \notin G /\ MergePrepared(merges[q], G)'
    <3>1. merges[r].id # Nil => merges[q].id # merges[r].id
      BY <2>1 DEF IdsUnique
    <3>2. QED
      BY <1>1, <2>1, <3>1, MergeKept DEF Finished
  <2>2. QED
    BY <2>1
<1>4. \A q \in Pushers : pushes'[q].id \notin G /\ PushPrepared(pushes[q], G)'
  <2>1. ASSUME NEW q \in Pushers
        PROVE  pushes'[q].id \notin G /\ PushPrepared(pushes[q], G)'
    <3>1. merges[r].id # Nil => pushes[q].id # merges[r].id
      BY DEF IdsUnique
    <3>2. QED
      BY <1>1, <3>1, PushKept DEF Finished, pushVars
  <2>2. QED
    BY <2>1
<1>5. \A q \in Branchers : creates'[q].pc # "idle" => creates'[q].head \in G
  BY DEF Finished
<1>6. \A b \in Branches : refs'[b] # Nil => refs'[b] \in G
  BY DEF Finished
<1>7. Finished(G)'
  BY <1>2, <1>3, <1>4, <1>5, <1>6 DEF Finished
<1>8. G \in SUBSET commits' /\ G = G \cup Heads'
  BY <1>6 DEF WritesOnly, Heads
<1>9. QED
  BY <1>7, <1>8 DEF FinishedWith

\* A finished commit is published: it joins the finished ones.
LEMMA Publish ==
  ASSUME StoreInv, NEW G \in SUBSET commits, Finished(G),
         NEW c \in commits, ParentIDs(c) \subseteq G, SnapshotBuilt(c),
         VersionsExist(c),
         UNCHANGED <<commits, parentID, sourceID, fileVersions, commitFiles, creates>>,
         \A b \in Branches : refs'[b] \in {refs[b], c},
         \E b \in Branches : refs'[b] = c,
         \A q \in Pushers : /\ pushes'[q].id # c
                            /\ pushes'[q] \in {pushes[q], IdlePush},
         \A q \in Mergers : /\ merges'[q].id # c
                            /\ merges'[q] \in {merges[q], IdleMerge}
  PROVE  FinishedWith(G)'
<1> DEFINE H == G \cup {c}
<1>1. ClosedUnderParents(H)'
  BY DEF Finished, ClosedUnderParents, ParentIDs
<1>2. \A d \in H : SnapshotBuilt(d)' /\ VersionsExist(d)'
  BY DEF Finished, SnapshotBuilt, LaidOver, GetCommitSnapshot, VersionsExist,
     IsMergeCommit
<1>3. \A b \in Branches : refs'[b] # Nil => refs'[b] \in H
  BY DEF Finished
<1>4. Nil \notin H
  BY IdSets DEF StoreInv, StoreTypeOK
<1>5. ASSUME NEW q \in Pushers
      PROVE  pushes'[q].id \notin H /\ PushPrepared(pushes[q], H)'
  <2>1. CASE pushes'[q] = IdlePush
    BY <1>4, <2>1, IdleTypes DEF PushPrepared
  <2>2. CASE pushes'[q] = pushes[q]
    BY <2>2 DEF Finished, PushPrepared, LaidOver, GetCommitSnapshot
  <2>3. QED
    BY <2>1, <2>2
<1>6. ASSUME NEW q \in Mergers
      PROVE  merges'[q].id \notin H /\ MergePrepared(merges[q], H)'
  <2>1. CASE merges'[q] = IdleMerge
    BY <1>4, <2>1, IdleTypes DEF MergePrepared, HasMerged
  <2>2. CASE merges'[q] = merges[q]
    BY <2>2 DEF Finished, MergePrepared, HasEmptyVersion, ConflictsOf, Conflicts,
       KeepsFiles
  <2>3. QED
    BY <2>1, <2>2
<1>7. \A q \in Branchers : creates'[q].pc # "idle" => creates'[q].head \in H
  BY DEF Finished
<1>8. Finished(H)'
  BY <1>1, <1>2, <1>3, <1>5, <1>6, <1>7 DEF Finished
<1>9. H \in SUBSET commits' /\ H = G \cup Heads'
  BY <1>3, <1>4 DEF Heads
<1>10. QED
  BY <1>8, <1>9 DEF FinishedWith

-----------------------------------------------------------------------------
(* The steps of a push.                                                    *)

\* Every step of CreateCommit publishes a finished commit or nothing.
LEMMA PushHistory ==
  ASSUME StoreInv, IdsUnique, NEW G \in SUBSET commits, Finished(G),
         NEW r \in Pushers, PushStep(r) \/ AbortPush(r), UNCHANGED mergeVars
  PROVE  FinishedWith(G)'
<1> DEFINE q == pushes[r]
<1>1. Finished(G)
  OBVIOUS
<1>2. /\ q \in PushRecord /\ pushes \in [Pushers -> PushRecord]
      /\ PushPrepared(q, G) /\ q.id \notin G
      /\ G \subseteq CommitIds /\ Nil \notin G
      /\ q.pc \notin {"idle", "check"} => q.id \in CommitIds
  BY <1>1, IdSets DEF StoreInv, StoreTypeOK, PushTypeOK, PushReady, Finished
<1>3. UNCHANGED <<commits, parentID, sourceID, fileVersions, commitFiles>>
        => WritesOnly(q.id)
  BY DEF WritesOnly, RowsKept
<1>4. EndPush(r) => /\ \A p \in Pushers \ {r} : pushes'[p] = pushes[p]
                    /\ pushes'[r] = IdlePush
                    /\ pushes'[r].id \notin G /\ PushPrepared(pushes[r], G)'
  BY <1>2, IdleTypes DEF EndPush, PushPrepared
<1>5. CASE CheckHead(r)
  <2>1. /\ pushes'[r].pc = "create" /\ pushes'[r].id = lastID + 1
        /\ pushes'[r].ref = q.ref /\ pushes'[r].parent = q.parent
        /\ pushes'[r].snapshot = q.snapshot
        /\ \A p \in Pushers \ {r} : pushes'[p] = pushes[p]
        /\ UNCHANGED <<commits, parentID, sourceID, fileVersions, commitFiles, refs>>
    BY <1>2, <1>5 DEF CheckHead, PushRecord
  <2>2. lastID + 1 \notin commits /\ lastID + 1 \in CommitIds
    BY <1>5, MaxCommitsAssumption DEF CheckHead, IdsUnique, StoreInv,
       StoreTypeOK, Versions, CommitIds
  <2>3. q.ref # NoRef => q.parent \in G \cup {Nil}
    BY <1>1, <1>2, <1>5 DEF CheckHead, ReadHead, GetRef, HeadMatches, Finished,
       PushRecord
  <2>4. fileVersions[lastID + 1] = {}
    BY <2>2 DEF IdsUnique
  <2>5. PushPrepared(pushes[r], G)'
    BY <1>2, <1>5, <2>1, <2>3, <2>4 DEF PushPrepared, CheckHead
  <2>6. QED
    BY <1>1, <1>3, <2>1, <2>2, <2>5, PushFrame
<1>6. CASE /\ EndPush(r)
           /\ UNCHANGED <<commits, parentID, sourceID, fileVersions, commitFiles, refs>>
  BY <1>1, <1>3, <1>4, <1>6, PushFrame
<1>7. CASE InsertPushCommit(r)
  <2>1. /\ q.pc = "create"
        /\ pushes'[r].pc = (IF q.parent = Nil THEN "files" ELSE "parent")
        /\ pushes'[r].id = q.id /\ pushes'[r].ref = q.ref
        /\ pushes'[r].parent = q.parent /\ pushes'[r].snapshot = q.snapshot
        /\ \A p \in Pushers \ {r} : pushes'[p] = pushes[p]
    BY <1>2, <1>7 DEF InsertPushCommit, PushRecord
  <2>2. /\ parentID'[q.id] = q.parent /\ sourceID'[q.id] = Nil
        /\ WritesOnly(q.id) /\ UNCHANGED <<fileVersions, commitFiles, refs>>
    BY <1>2, <1>7, <2>1 DEF InsertPushCommit, CreateCommit, WritesOnly, RowsKept,
       StoreInv, StoreTypeOK
  <2>3. q.ref # NoRef => fileVersions[q.id] = {} /\ q.snapshot = EmptySnapshot
    BY <1>2, <2>1 DEF PushPrepared
  <2>4. PushPrepared(pushes[r], G)'
    BY <1>2, <2>1, <2>2, <2>3 DEF PushPrepared, LaidOver, GetCommitSnapshot, EmptySnapshot
  <2>5. QED
    BY <1>1, <1>2, <2>1, <2>2, <2>4, PushFrame
<1>8. CASE ReadParentSnapshot(r)
  <2>1. /\ q.pc = "parent"
        /\ pushes'[r].pc = "files" /\ pushes'[r].id = q.id
        /\ pushes'[r].ref = q.ref /\ pushes'[r].parent = q.parent
        /\ pushes'[r].snapshot \in GetCommitSnapshot(q.parent)
        /\ \A p \in Pushers \ {r} : pushes'[p] = pushes[p]
        /\ UNCHANGED storeVars
    BY <1>2, <1>8 DEF ReadParentSnapshot, GetCommitSnapshot, PushRecord
  <2>2. PushPrepared(pushes[r], G)'
    BY <1>2, <2>1 DEF PushPrepared, LaidOver, GetCommitSnapshot, storeVars
  <2>3. QED
    BY <1>1, <1>2, <1>3, <2>1, <2>2, PushFrame DEF storeVars
<1>9. ASSUME NEW p \in Paths, CreateVersion(r, p)
      PROVE  FinishedWith(G)'
  <2>1. /\ q.pc = "files"
        /\ pushes'[r].pc = "files" /\ pushes'[r].id = q.id
        /\ pushes'[r].ref = q.ref /\ pushes'[r].parent = q.parent
        /\ pushes'[r].snapshot = [q.snapshot EXCEPT ![p] = q.id]
        /\ \A o \in Pushers \ {r} : pushes'[o] = pushes[o]
    BY <1>2, <1>9 DEF CreateVersion, PushRecord
  <2>2. /\ fileVersions'[q.id] = fileVersions[q.id] \cup {p}
        /\ WritesOnly(q.id)
        /\ UNCHANGED <<parentID, sourceID, commitFiles, refs>>
    BY <1>2, <1>9, <2>1 DEF CreateVersion, InsertFileVersion, WritesOnly, RowsKept,
       StoreInv, StoreTypeOK
  <2>3. q.snapshot \in [Paths -> Versions]
    BY <1>2 DEF PushRecord, Snapshot
  <2>4. PushPrepared(pushes[r], G)'
    BY <1>2, <2>1, <2>2, <2>3 DEF PushPrepared, LaidOver, GetCommitSnapshot
  <2>5. QED
    BY <1>1, <1>2, <2>1, <2>2, <2>4, PushFrame
<1>10. CASE WritePushSnapshot(r)
  <2>1. /\ q.pc = "files"
        /\ pushes'[r].pc \in {"count", "advance"} /\ pushes'[r].id = q.id
        /\ pushes'[r].ref = q.ref /\ pushes'[r].parent = q.parent
        /\ \A o \in Pushers \ {r} : pushes'[o] = pushes[o]
    BY <1>2, <1>10 DEF WritePushSnapshot, PushRecord
  <2>2. /\ commitFiles'[q.id] = q.snapshot
        /\ WritesOnly(q.id)
        /\ UNCHANGED <<parentID, sourceID, fileVersions, refs>>
    BY <1>2, <1>10, <2>1 DEF WritePushSnapshot, SetCommitFiles, WritesOnly,
       RowsKept, StoreInv, StoreTypeOK
  <2>3. q.ref # NoRef /\ q.parent # Nil => commitFiles'[q.parent] = commitFiles[q.parent]
    BY <1>2, <2>1, <2>2 DEF PushPrepared, WritesOnly, RowsKept
  <2>4. PushPrepared(pushes[r], G)'
    BY <1>2, <2>1, <2>2, <2>3 DEF PushPrepared, LaidOver, GetCommitSnapshot
  <2>5. QED
    BY <1>1, <1>2, <2>1, <2>2, <2>4, PushFrame
<1>11. CASE CountChunks(r)
  <2>1. /\ q.pc = "count"
        /\ pushes'[r].pc = "advance" /\ pushes'[r].id = q.id
        /\ pushes'[r].ref = q.ref /\ pushes'[r].parent = q.parent
        /\ \A o \in Pushers \ {r} : pushes'[o] = pushes[o]
        /\ UNCHANGED storeVars
    BY <1>2, <1>11 DEF CountChunks, PushRecord
  <2>2. PushPrepared(pushes[r], G)'
    BY <1>2, <2>1 DEF PushPrepared, LaidOver, GetCommitSnapshot, storeVars
  <2>3. QED
    BY <1>1, <1>2, <1>3, <2>1, <2>2, PushFrame DEF storeVars
<1>12. CASE AdvanceRef(r) /\ q.ref # NoRef
  <2>1. /\ q.pc = "advance" /\ q.id \in CommitIds /\ q.id \in commits
        /\ parentID[q.id] = q.parent /\ sourceID[q.id] = Nil
        /\ q.parent \in G \cup {Nil} /\ LaidOver(q.id, commitFiles[q.id], q.parent)
    BY <1>2, <1>12 DEF AdvanceRef, PushPrepared, IdsUnique
  <2>2. ParentIDs(q.id) \subseteq G
    BY <2>1 DEF ParentIDs
  <2>3. SnapshotBuilt(q.id)
    BY <2>1 DEF SnapshotBuilt, IsMergeCommit
  <2>4. VersionsExist(q.id)
    <3>1. PICK start \in {EmptySnapshot} \cup {commitFiles[c] : c \in G} :
            \A p \in Paths : commitFiles[q.id][p] =
              IF p \in fileVersions[q.id] THEN q.id ELSE start[p]
      BY <2>1 DEF LaidOver, GetCommitSnapshot
    <3>2. \A p \in Paths : start[p] # NoVersion => p \in fileVersions[start[p]]
      BY <1>1 DEF Finished, VersionsExist, EmptySnapshot
    <3>3. QED
      BY <3>1, <3>2 DEF VersionsExist
  <2>5. \A b \in Branches : refs'[b] \in {refs[b], q.id}
    BY <1>12 DEF AdvanceRef, UpsertRef, StoreInv, StoreTypeOK
  <2>6. \A o \in Pushers : /\ pushes'[o].id # q.id
                           /\ pushes'[o] \in {pushes[o], IdlePush}
    <3>1. q.id # Nil
      BY <2>1, IdSets
    <3>2. QED
      BY <1>4, <1>12, <3>1, IdleTypes DEF AdvanceRef, IdsUnique
  <2>7. \A o \in Mergers : merges'[o].id # q.id /\ merges'[o] = merges[o]
    BY <2>1, IdSets DEF IdsUnique, mergeVars
  <2>8. UNCHANGED <<commits, parentID, sourceID, fileVersions, commitFiles, creates>>
    BY <1>12 DEF AdvanceRef, mergeVars
  <2>9. q.ref \in Branches /\ refs'[q.ref] = q.id
    BY <1>2, <1>12 DEF AdvanceRef, UpsertRef, PushRecord, StoreInv, StoreTypeOK
  <2>10. QED
    BY <1>1, <2>1, <2>2, <2>3, <2>4, <2>5, <2>6, <2>7, <2>8, <2>9, Publish
<1>13. QED
  BY <1>5, <1>6, <1>7, <1>8, <1>9, <1>10, <1>11, <1>12
     DEF PushStep, AbortPush, RejectPush, AdvanceRef, storeVars

-----------------------------------------------------------------------------
(* The steps of a merge.                                                   *)

\* The walk over parent_ids stays among the finished commits.
LEMMA AncestorsFinished ==
  ASSUME NEW G \in SUBSET commits, ClosedUnderParents(G), NEW d \in G
  PROVE  Ancestors(d) \subseteq G
BY DEF Ancestors

\* What Execute builds out of finished commits: versions that exist, and every
\* file of the target head unless a resolution is "".
LEMMA MergedPrepared ==
  ASSUME StoreInv, NEW G \in SUBSET commits, \A c \in G : VersionsExist(c),
         NEW m, m.base \in G, m.s1 \in G, m.t1 \in G, m.t2 \in G,
         NEW res \in ResolutionsOf(m)
  PROVE  LET merged == MergedFrom(m, res)
         IN  /\ \A p \in Paths : merged[p] # NoVersion
                                   => p \in fileVersions[merged[p]]
             /\ \/ \E p \in ConflictsOf(m) : merged[p] = NoVersion
                \/ KeepsFiles(commitFiles[m.t2], merged)
<1> DEFINE merged == MergedFrom(m, res)
           source == commitFiles[m.s1]
           target == commitFiles[m.t1]
           base == commitFiles[m.base]
           only == SourceOnly(base, source, target)
<1>1. \A p \in Paths :
        merged[p] = IF p \in ConflictsOf(m) THEN res[p]
                    ELSE IF p \in only THEN source[p]
                    ELSE commitFiles[m.t2][p]
  BY DEF MergedFrom, MergedSnapshot, ConflictsOf
<1>2. \A p \in ConflictsOf(m) : res[p] \in {source[p], target[p], base[p]}
  BY DEF ResolutionsOf, ValidResolutions, ConflictsOf
<1>3. \A p \in only : source[p] # NoVersion
  BY DEF SourceOnly
<1>4. \A p \in Paths :
        merged[p] \in {source[p], target[p], base[p], commitFiles[m.t2][p]}
  BY <1>1, <1>2
<1>5. \A p \in Paths : merged[p] # NoVersion => p \in fileVersions[merged[p]]
  BY <1>4 DEF VersionsExist
<1>6. \/ \E p \in ConflictsOf(m) : merged[p] = NoVersion
      \/ KeepsFiles(commitFiles[m.t2], merged)
  BY <1>1, <1>3 DEF KeepsFiles
<1>7. QED
  BY <1>5, <1>6

\* Every step of Execute publishes a finished commit or nothing.
LEMMA MergeHistory ==
  ASSUME StoreInv, IdsUnique,
         NEW G \in SUBSET commits, Finished(G),
         NEW r \in Mergers, MergeStep(r) \/ AbortMerge(r), UNCHANGED pushVars
  PROVE  FinishedWith(G)'
<1> DEFINE m == merges[r]
<1>1. Finished(G)
  OBVIOUS
<1>2. /\ m \in MergeRecord /\ merges \in [Mergers -> MergeRecord]
      /\ MergePrepared(m, G) /\ m.id \notin G
      /\ G \subseteq CommitIds /\ Nil \notin G
      /\ ReadyMerge(m)
      /\ \A b \in Branches : refs[b] # Nil => refs[b] \in G
  BY <1>1, IdSets DEF StoreInv, StoreTypeOK, MergeTypeOK, MergeReady, Finished
<1>3. UNCHANGED <<commits, parentID, sourceID, fileVersions, commitFiles>>
        => WritesOnly(m.id)
  BY DEF WritesOnly, RowsKept
<1>4. EndMerge(r) => /\ \A p \in Mergers \ {r} : merges'[p] = merges[p]
                     /\ merges'[r] = IdleMerge
                     /\ merges'[r].id \notin G /\ MergePrepared(merges[r], G)'
  BY <1>2, IdleTypes DEF EndMerge, MergePrepared, HasMerged
<1>5. CASE /\ EndMerge(r)
           /\ UNCHANGED <<commits, parentID, sourceID, fileVersions, commitFiles,
                          refs, creates>>
  BY <1>1, <1>3, <1>4, <1>5, MergeFrame
<1>6. CASE AnalyzeMerge(r) /\ ~ EndMerge(r)
  <2>1. PICK base \in AnalysisBase(m.s1, refs[m.target]) :
          merges' = [merges EXCEPT ![r].pc = "source2", ![r].t1 = refs[m.target],
                                   ![r].base = base]
    BY <1>6 DEF AnalyzeMerge
  <2>2. m.pc = "target" /\ refs[m.target] # Nil /\ UNCHANGED <<storeVars, creates>>
    BY <1>6 DEF AnalyzeMerge
  <2>3. m.s1 \in G /\ refs[m.target] \in G
    BY <1>2, <2>2 DEF MergePrepared, ReadyMerge
  <2>4. base \in G
    BY <1>1, <2>1, <2>3, AncestorsFinished
       DEF Finished, AnalysisBase, FindMergeBase, CommonAncestors
  <2>5. /\ merges'[r].pc = "source2" /\ merges'[r].id = m.id
        /\ merges'[r].s1 = m.s1 /\ merges'[r].t1 = refs[m.target]
        /\ merges'[r].base = base /\ merges'[r].s2 = m.s2 /\ merges'[r].t2 = m.t2
        /\ \A p \in Mergers \ {r} : merges'[p] = merges[p]
    BY <1>2, <2>1 DEF MergeRecord
  <2>6. MergePrepared(merges[r], G)'
    BY <1>2, <2>2, <2>3, <2>4, <2>5 DEF MergePrepared, HasMerged
  <2>7. QED
    BY <1>1, <1>2, <1>3, <2>2, <2>5, <2>6, MergeFrame DEF storeVars
<1>7. CASE RereadSource(r)
  <2>1. /\ m.pc = "source2" /\ merges'[r].pc = "target2" /\ merges'[r].id = m.id
        /\ merges'[r].s1 = m.s1 /\ merges'[r].t1 = m.t1 /\ merges'[r].base = m.base
        /\ merges'[r].s2 \in {refs[m.source], Nil} /\ merges'[r].t2 = m.t2
        /\ \A p \in Mergers \ {r} : merges'[p] = merges[p]
        /\ UNCHANGED <<storeVars, creates>>
    BY <1>2, <1>7 DEF RereadSource, GetRef, MergeRecord
  <2>2. refs[m.source] \in G \cup {Nil}
    BY <1>2, <2>1 DEF ReadyMerge
  <2>3. MergePrepared(merges[r], G)'
    BY <1>2, <2>1, <2>2 DEF MergePrepared, HasMerged
  <2>4. QED
    BY <1>1, <1>2, <1>3, <2>1, <2>3, MergeFrame DEF storeVars
<1>8. CASE RereadTarget(r)
  <2>1. /\ m.pc = "target2" /\ merges'[r].pc \in {"fastForward", "resolve"}
        /\ merges'[r].id = m.id /\ merges'[r].s2 = m.s2
        /\ merges'[r].s1 = m.s1 /\ merges'[r].t1 = m.t1 /\ merges'[r].base = m.base
        /\ merges'[r].t2 \in {refs[m.target], Nil}
        /\ \A p \in Mergers \ {r} : merges'[p] = merges[p]
        /\ UNCHANGED <<storeVars, creates>>
    BY <1>2, <1>8 DEF RereadTarget, GetRef, MergeRecord
  <2>2. refs[m.target] \in G \cup {Nil}
    BY <1>2, <2>1 DEF ReadyMerge
  <2>3. MergePrepared(merges[r], G)'
    BY <1>2, <2>1, <2>2 DEF MergePrepared, HasMerged
  <2>4. QED
    BY <1>1, <1>2, <1>3, <2>1, <2>3, MergeFrame DEF storeVars
<1>9. CASE FastForward(r)
  <2>1. m.s2 \in G
    BY <1>2, <1>9 DEF FastForward, MergePrepared, HeadsRead
  <2>2. /\ \A b \in Branches : refs'[b] = refs[b] \/ refs'[b] \in G
        /\ EndMerge(r)
        /\ UNCHANGED <<commits, parentID, sourceID, fileVersions, commitFiles, creates>>
    BY <1>9, <2>1 DEF FastForward, UpsertRef, StoreInv, StoreTypeOK
  <2>3. QED
    BY <1>1, <1>3, <1>4, <2>2, MergeFrame
<1>10. CASE ResolveMerge(r)
  <2>1. PICK res \in ResolutionsOf(m) :
          merges' = [merges EXCEPT ![r].pc = "create", ![r].id = lastID + 1,
                                   ![r].merged = MergedFrom(m, res)]
    BY <1>10 DEF ResolveMerge
  <2>2. /\ merges'[r].pc = "create" /\ merges'[r].id = lastID + 1
        /\ merges'[r].s1 = m.s1 /\ merges'[r].t1 = m.t1 /\ merges'[r].base = m.base
        /\ merges'[r].s2 = m.s2 /\ merges'[r].t2 = m.t2
        /\ merges'[r].merged = MergedFrom(m, res)
        /\ \A p \in Mergers \ {r} : merges'[p] = merges[p]
    BY <1>2, <2>1 DEF MergeRecord
  <2>3. /\ m.pc = "resolve" /\ HeadsRead(m)
        /\ UNCHANGED <<commits, parentID, sourceID, fileVersions, commitFiles,
                       refs, creates>>
    BY <1>10 DEF ResolveMerge
  <2>4. lastID + 1 \notin G
    BY <1>2, MaxCommitsAssumption DEF IdsUnique, StoreInv, StoreTypeOK, Versions,
       CommitIds
  <2>5. m.s1 \in G /\ m.t1 \in G /\ m.base \in G /\ m.s2 \in G /\ m.t2 \in G
    BY <1>2, <2>3 DEF MergePrepared, HeadsRead
  <2>6. /\ \A p \in Paths : MergedFrom(m, res)[p] # NoVersion
                              => p \in fileVersions[MergedFrom(m, res)[p]]
        /\ \/ \E p \in ConflictsOf(m) : MergedFrom(m, res)[p] = NoVersion
           \/ KeepsFiles(commitFiles[m.t2], MergedFrom(m, res))
    BY <1>1, <2>1, <2>5, MergedPrepared DEF Finished
  <2>7. HasEmptyVersion(merges[r])'
          <=> \E p \in ConflictsOf(m) : MergedFrom(m, res)[p] = NoVersion
    BY <2>2, <2>3 DEF HasEmptyVersion, ConflictsOf, Conflicts
  <2>8. MergePrepared(merges[r], G)'
    BY <2>2, <2>3, <2>5, <2>6, <2>7 DEF MergePrepared, HasMerged, HeadsRead,
       KeepsFiles
  <2>9. QED
    BY <1>1, <1>3, <2>2, <2>3, <2>4, <2>8, MergeFrame
<1>11. CASE InsertMergeCommit(r)
  <2>1. /\ m.pc = "create" /\ merges'[r].pc = "snapshot"
        /\ merges'[r] = [m EXCEPT !.pc = "snapshot"]
        /\ merges'[r].id = m.id /\ merges'[r].merged = m.merged
        /\ merges'[r].s1 = m.s1 /\ merges'[r].t1 = m.t1 /\ merges'[r].base = m.base
        /\ merges'[r].s2 = m.s2 /\ merges'[r].t2 = m.t2
        /\ \A p \in Mergers \ {r} : merges'[p] = merges[p]
    BY <1>2, <1>11 DEF InsertMergeCommit, MergeRecord
  <2>2. m.id \in CommitIds
    BY <1>2, <2>1 DEF ReadyMerge, HasMerged
  <2>3. /\ parentID'[m.id] = m.t2 /\ sourceID'[m.id] = m.s2
        /\ WritesOnly(m.id)
        /\ UNCHANGED <<fileVersions, commitFiles, refs, creates>>
    BY <1>11, <2>2 DEF InsertMergeCommit, CreateCommit, WritesOnly, RowsKept,
       StoreInv, StoreTypeOK
  <2>4. HasEmptyVersion(merges[r])' <=> HasEmptyVersion(m)
    BY <2>1, <2>3 DEF HasEmptyVersion, ConflictsOf, Conflicts
  <2>5. MergePrepared(merges[r], G)'
    BY <1>2, <2>1, <2>3, <2>4 DEF MergePrepared, HasMerged, HeadsRead, KeepsFiles
  <2>6. QED
    BY <1>1, <1>2, <2>1, <2>3, <2>5, MergeFrame
<1>12. CASE WriteMergeSnapshot(r) /\ ~ HasEmptyVersion(m)
  <2>1. /\ m.pc = "snapshot" /\ ~ HasEmptyVersion(m)
        /\ merges'[r].pc = "advance"
        /\ merges'[r].id = m.id /\ merges'[r].merged = m.merged
        /\ merges'[r].s1 = m.s1 /\ merges'[r].t1 = m.t1 /\ merges'[r].base = m.base
        /\ merges'[r].s2 = m.s2 /\ merges'[r].t2 = m.t2
        /\ \A p \in Mergers \ {r} : merges'[p] = merges[p]
    BY <1>2, <1>12 DEF WriteMergeSnapshot, MergeRecord
  <2>2. m.id \in CommitIds
    BY <1>2, <2>1 DEF ReadyMerge, HasMerged
  <2>3. /\ commitFiles'[m.id] = m.merged
        /\ WritesOnly(m.id)
        /\ UNCHANGED <<parentID, sourceID, fileVersions, refs, creates>>
    BY <1>12, <2>1, <2>2 DEF WriteMergeSnapshot, SetCommitFiles, WritesOnly,
       RowsKept, StoreInv, StoreTypeOK
  <2>4. m.t2 \in G /\ commitFiles'[m.t2] = commitFiles[m.t2]
    BY <1>2, <2>1, <2>3 DEF MergePrepared, HasMerged, HeadsRead, WritesOnly,
       RowsKept
  <2>5. MergePrepared(merges[r], G)'
    BY <1>2, <2>1, <2>3, <2>4 DEF MergePrepared, HasMerged, HeadsRead, KeepsFiles
  <2>6. QED
    BY <1>1, <1>2, <2>1, <2>3, <2>5, MergeFrame
<1>13. CASE AdvanceTarget(r)
  <2>1. /\ m.pc = "advance" /\ m.id \in CommitIds /\ m.id \in commits
        /\ parentID[m.id] = m.t2 /\ sourceID[m.id] = m.s2
        /\ m.t2 \in G /\ m.s2 \in G
        /\ commitFiles[m.id] = m.merged
        /\ KeepsFiles(commitFiles[m.t2], m.merged)
        /\ \A p \in Paths : m.merged[p] # NoVersion
                              => p \in fileVersions[m.merged[p]]
    BY <1>2, <1>13 DEF AdvanceTarget, MergePrepared, HasMerged, HeadsRead, ReadyMerge,
       IdsUnique
  <2>2. ParentIDs(m.id) \subseteq G
    BY <2>1 DEF ParentIDs
  <2>3. SnapshotBuilt(m.id)
    BY <1>2, <2>1 DEF SnapshotBuilt, IsMergeCommit
  <2>4. VersionsExist(m.id)
    BY <2>1 DEF VersionsExist
  <2>5. \A b \in Branches : refs'[b] \in {refs[b], m.id}
    BY <1>13 DEF AdvanceTarget, UpsertRef, StoreInv, StoreTypeOK
  <2>6. \A o \in Mergers : /\ merges'[o].id # m.id
                           /\ merges'[o] \in {merges[o], IdleMerge}
    <3>1. m.id # Nil
      BY <2>1, IdSets
    <3>2. QED
      BY <1>4, <1>13, <3>1, IdleTypes DEF AdvanceTarget, IdsUnique
  <2>7. \A o \in Pushers : pushes'[o].id # m.id /\ pushes'[o] = pushes[o]
    BY <2>1, IdSets DEF IdsUnique, pushVars
  <2>8. UNCHANGED <<commits, parentID, sourceID, fileVersions, commitFiles, creates>>
    BY <1>13 DEF AdvanceTarget
  <2>9. m.target \in Branches /\ refs'[m.target] = m.id
    BY <1>2, <1>13, <2>1 DEF AdvanceTarget, UpsertRef, ReadyMerge, StoreInv,
       StoreTypeOK
  <2>10. QED
    BY <1>1, <2>1, <2>2, <2>3, <2>4, <2>5, <2>6, <2>7, <2>8, <2>9, Publish
<1>14. QED
  BY <1>5, <1>6, <1>7, <1>8, <1>9, <1>10, <1>11, <1>12, <1>13
     DEF MergeStep, AbortMerge, PanicMerge, AnalyzeMerge, RejectMerge,
         WriteMergeSnapshot, storeVars

-----------------------------------------------------------------------------
(* The steps of branch creation and the arrival of requests.               *)

\* A step that writes no row and leaves every request prepared.
LEMMA RequestFrame ==
  ASSUME NEW G \in SUBSET commits, Finished(G),
         UNCHANGED <<commits, parentID, sourceID, fileVersions, commitFiles>>,
         \A b \in Branches : refs'[b] = refs[b] \/ refs'[b] \in G,
         \A q \in Pushers : \/ pushes'[q] = pushes[q]
                            \/ pushes'[q].id \notin G /\ PushPrepared(pushes[q], G)',
         \A q \in Mergers : \/ merges'[q] = merges[q]
                            \/ merges'[q].id \notin G /\ MergePrepared(merges[q], G)',
         \A q \in Branchers : \/ creates'[q] = creates[q]
                              \/ creates'[q].pc # "idle" => creates'[q].head \in G
  PROVE  FinishedWith(G)'
<1>1. ClosedUnderParents(G)'
  BY DEF Finished, ClosedUnderParents, ParentIDs
<1>2. \A d \in G : SnapshotBuilt(d)' /\ VersionsExist(d)'
  BY DEF Finished, SnapshotBuilt, LaidOver, GetCommitSnapshot, VersionsExist,
     IsMergeCommit
<1>3. ASSUME NEW q \in Pushers
      PROVE  pushes'[q].id \notin G /\ PushPrepared(pushes[q], G)'
  <2>1. CASE pushes'[q] = pushes[q]
    BY <2>1 DEF Finished, PushPrepared, LaidOver, GetCommitSnapshot
  <2>2. CASE pushes'[q].id \notin G /\ PushPrepared(pushes[q], G)'
    BY <2>2
  <2>3. QED
    BY <2>1, <2>2
<1>4. \A q \in Mergers : merges'[q].id \notin G /\ MergePrepared(merges[q], G)'
  BY DEF Finished, MergePrepared, HasEmptyVersion, ConflictsOf, Conflicts, KeepsFiles
<1>5. \A b \in Branches : refs'[b] # Nil => refs'[b] \in G
  BY DEF Finished
<1>6. Finished(G)'
  BY <1>1, <1>2, <1>3, <1>4, <1>5 DEF Finished
<1>7. G = G \cup Heads'
  BY <1>5 DEF Heads
<1>8. QED
  BY <1>6, <1>7 DEF FinishedWith

\* A push request that arrives has nothing prepared yet.
LEMMA BeginPushHistory ==
  ASSUME StoreInv, NEW G \in SUBSET commits, Finished(G),
         NEW r \in Pushers, NEW u \in Users, NEW b \in PushRefs, NEW parent \in commits \cup {Nil},
         NEW files \in SUBSET Paths, NEW manifest \in [Paths -> SUBSET Hashes],
         BeginPush(r, u, b, parent, files, manifest), UNCHANGED mergeVars
  PROVE  FinishedWith(G)'
<1>1. Finished(G)
  OBVIOUS
<1>2. Nil \notin G
  BY IdSets DEF StoreInv, StoreTypeOK
<1>3. /\ pushes'[r].pc = "check" /\ pushes'[r].id = Nil
      /\ pushes'[r].snapshot = EmptySnapshot
      /\ \A q \in Pushers \ {r} : pushes'[q] = pushes[q]
      /\ UNCHANGED storeVars
  BY DEF BeginPush, IdlePush, StoreInv, PushTypeOK
<1>4. PushPrepared(pushes[r], G)'
  BY <1>3 DEF PushPrepared
<1>5. QED
  BY <1>1, <1>2, <1>3, <1>4, RequestFrame DEF storeVars, mergeVars

\* Analyze starts from a published, hence finished, source head.
LEMMA BeginMergeHistory ==
  ASSUME StoreInv, NEW G \in SUBSET commits, Finished(G),
         NEW r \in Mergers, NEW source \in Branches,
         NEW target \in Branches, BeginMerge(r, source, target), UNCHANGED pushVars
  PROVE  FinishedWith(G)'
<1>1. Finished(G)
  OBVIOUS
<1>2. Nil \notin G
  BY IdSets DEF StoreInv, StoreTypeOK
<1>3. /\ merges'[r].pc = "target" /\ merges'[r].id = Nil
      /\ merges'[r].s1 = refs[source]
      /\ merges'[r].s2 = Nil /\ merges'[r].t2 = Nil
      /\ \A q \in Mergers \ {r} : merges'[q] = merges[q]
      /\ UNCHANGED <<storeVars, creates>>
  BY DEF BeginMerge, IdleMerge, StoreInv, MergeTypeOK
<1>4. refs[source] \in G
  BY <1>1 DEF BeginMerge, Finished
<1>5. MergePrepared(merges[r], G)'
  BY <1>3, <1>4 DEF MergePrepared, HasMerged
<1>6. QED
  BY <1>1, <1>2, <1>3, <1>5, RequestFrame DEF storeVars, pushVars

\* CreateBranch only ever points a branch at a finished head.
LEMMA CreateHistory ==
  ASSUME StoreInv, NEW G \in SUBSET commits, Finished(G), NEW r \in Branchers,
         UNCHANGED pushVars,
         \/ \E name, fromRef \in Branches : BeginCreateBranch(r, name, fromRef)
         \/ CreateStep(r) \/ AbortCreateBranch(r)
  PROVE  FinishedWith(G)'
<1>1. Finished(G)
  OBVIOUS
<1>2. creates \in [Branchers -> CreateRecord] /\ refs \in [Branches -> Versions]
  BY DEF StoreInv, StoreTypeOK, MergeTypeOK
<1>3. /\ \A q \in Branchers \ {r} : creates'[q] = creates[q]
      /\ creates'[r].pc # "idle" => creates'[r].head \in G
      /\ UNCHANGED <<commits, parentID, sourceID, fileVersions, commitFiles, merges>>
      /\ \A b \in Branches : refs'[b] = refs[b] \/ refs'[b] \in G
  <2>1. CASE \E name, fromRef \in Branches : BeginCreateBranch(r, name, fromRef)
    BY <1>1, <1>2, <2>1 DEF BeginCreateBranch, IdleCreate, Finished, storeVars
  <2>2. CASE CheckBranchExists(r)
    BY <1>1, <1>2, <2>2, IdleTypes DEF CheckBranchExists, EndCreate, Finished,
       storeVars, CreateRecord
  <2>3. CASE CreateBranchRef(r)
    BY <1>1, <1>2, <2>3, IdleTypes DEF CreateBranchRef, EndCreate, UpsertRef, Finished
  <2>4. CASE AbortCreateBranch(r)
    BY <1>1, <1>2, <2>4, IdleTypes DEF AbortCreateBranch, EndCreate, storeVars
  <2>5. QED
    BY <2>1, <2>2, <2>3, <2>4 DEF CreateStep
<1>4. QED
  BY <1>1, <1>3, RequestFrame DEF pushVars

-----------------------------------------------------------------------------
(* The files of a push.                                                    *)

\* A push lists at least one file, and its versions are there before its ref
\* moves.
PushLists(q) ==
  /\ q.pc # "idle" => q.files # {}
  /\ q.pc \in {"count", "advance"} => q.files \subseteq fileVersions[q.id]

PushesList == \A r \in Pushers : PushLists(pushes[r])

\* A push keeps its files from its arrival to its end.
LEMMA PushStepLists ==
  ASSUME StoreInv, PushesList, NEW r \in Pushers, PushStep(r) \/ AbortPush(r)
  PROVE  \A q \in Pushers :
           \/ PushLists(pushes[q])'
           \/ q # r /\ pushes'[q] = pushes[q]
<1> DEFINE q == pushes[r]
<1>1. /\ pushes \in [Pushers -> PushRecord] /\ q \in PushRecord
      /\ PushLists(q)
      /\ fileVersions \in [CommitIds -> SUBSET Paths]
      /\ q.pc \notin {"idle", "check"} => q.id \in CommitIds
  BY DEF StoreInv, StoreTypeOK, PushTypeOK, PushReady, PushesList
<1>2. \A p \in Pushers \ {r} : pushes'[p] = pushes[p]
  BY <1>1 DEF PushStep, AbortPush, CheckHead, RejectPush, InsertPushCommit,
     ReadParentSnapshot, CreateVersion, WritePushSnapshot, CountChunks, AdvanceRef,
     EndPush
<1>3. CASE EndPush(r)
  <2>1. pushes'[r] = IdlePush
    BY <1>1, <1>3 DEF EndPush
  <2>2. QED
    BY <1>2, <2>1, IdleTypes DEF PushLists
<1>4. CASE \/ CheckHead(r) \/ InsertPushCommit(r) \/ ReadParentSnapshot(r)
           \/ \E p \in Paths : CreateVersion(r, p)
  <2>1. /\ q.pc # "idle" /\ pushes'[r].files = q.files
        /\ pushes'[r].pc \notin {"count", "advance"}
    BY <1>1, <1>4 DEF CheckHead, InsertPushCommit, ReadParentSnapshot,
       CreateVersion, PushRecord
  <2>2. QED
    BY <1>1, <1>2, <2>1 DEF PushLists
<1>5. CASE WritePushSnapshot(r) \/ CountChunks(r)
  <2>1. /\ q.pc # "idle" /\ pushes'[r].files = q.files /\ pushes'[r].id = q.id
        /\ q.files \subseteq fileVersions[q.id] /\ UNCHANGED fileVersions
    BY <1>1, <1>5 DEF WritePushSnapshot, CountChunks, PushRecord, PushLists,
       storeVars
  <2>2. QED
    BY <1>1, <1>2, <2>1 DEF PushLists
<1>6. QED
  BY <1>3, <1>4, <1>5 DEF PushStep, AbortPush, RejectPush, AdvanceRef

\* A request that arrives writes no table.
LEMMA TableCases ==
  ASSUME [Next]_vars
  PROVE  \/ UNCHANGED storeVars
         \/ \E r \in Pushers : PushStep(r) \/ AbortPush(r)
         \/ \E r \in Mergers : MergeStep(r) \/ AbortMerge(r)
         \/ \E r \in Branchers : CreateStep(r) \/ AbortCreateBranch(r)
<1>1. ASSUME NEW r \in Pushers, NEW u \in Users, NEW b \in PushRefs,
             NEW parent \in commits \cup {Nil}, NEW files \in SUBSET Paths,
             NEW manifest \in [Paths -> SUBSET Hashes],
             BeginPush(r, u, b, parent, files, manifest)
      PROVE  UNCHANGED storeVars
  BY <1>1 DEF BeginPush
<1>2. ASSUME NEW r \in Mergers, NEW source \in Branches, NEW target \in Branches,
             BeginMerge(r, source, target)
      PROVE  UNCHANGED storeVars
  BY <1>2 DEF BeginMerge
<1>3. ASSUME NEW r \in Branchers, NEW name \in Branches, NEW fromRef \in Branches,
             BeginCreateBranch(r, name, fromRef)
      PROVE  UNCHANGED storeVars
  BY <1>3 DEF BeginCreateBranch
<1>4. QED
  BY <1>1, <1>2, <1>3, NextCases

\* Only a push inserts file versions, and it removes none.
LEMMA VersionsGrow ==
  ASSUME StoreInv, [Next]_vars
  PROVE  \A c \in CommitIds : fileVersions[c] \subseteq fileVersions'[c]
<1>1. CASE UNCHANGED fileVersions
  BY <1>1
<1>2. ASSUME NEW r \in Pushers, PushStep(r) \/ AbortPush(r)
      PROVE  \A c \in CommitIds : fileVersions[c] \subseteq fileVersions'[c]
  <2>1. ASSUME NEW p \in Paths, CreateVersion(r, p)
        PROVE  \A c \in CommitIds : fileVersions[c] \subseteq fileVersions'[c]
    BY <2>1 DEF CreateVersion, InsertFileVersion, StoreInv, StoreTypeOK
  <2>2. QED
    BY <1>1, <1>2, <2>1
       DEF PushStep, AbortPush, CheckHead, RejectPush, InsertPushCommit,
           ReadParentSnapshot, WritePushSnapshot, CountChunks, AdvanceRef, storeVars
<1>3. ASSUME NEW r \in Mergers, MergeStep(r) \/ AbortMerge(r)
      PROVE  UNCHANGED fileVersions
  BY <1>3 DEF MergeStep, AbortMerge, PanicMerge, AnalyzeMerge, RereadSource, RereadTarget,
     FastForward, ResolveMerge, RejectMerge, InsertMergeCommit,
     WriteMergeSnapshot, AdvanceTarget, storeVars
<1>4. ASSUME NEW r \in Branchers, CreateStep(r) \/ AbortCreateBranch(r)
      PROVE  UNCHANGED fileVersions
  BY <1>4 DEF CreateStep, CheckBranchExists, CreateBranchRef, AbortCreateBranch,
     storeVars
<1>5. CASE UNCHANGED storeVars
  BY <1>5 DEF storeVars
<1>6. QED
  BY <1>1, <1>2, <1>3, <1>4, <1>5, TableCases

\* No step makes a push forget its files or lose a version.
LEMMA ListsKept ==
  ASSUME StoreInv, PushesList, [Next]_vars, NEW q \in Pushers
  PROVE  PushLists(pushes[q])'
<1>1. CASE pushes'[q] = pushes[q]
  <2>1. pushes[q].pc \in {"count", "advance"} => pushes[q].id \in CommitIds
    BY DEF StoreInv, PushReady
  <2>2. QED
    BY <1>1, <2>1, VersionsGrow DEF PushLists, PushesList
<1>2. ASSUME NEW r \in Pushers, NEW u \in Users, NEW b \in PushRefs,
             NEW parent \in commits \cup {Nil}, NEW files \in SUBSET Paths,
             NEW manifest \in [Paths -> SUBSET Hashes],
             BeginPush(r, u, b, parent, files, manifest)
      PROVE  PushLists(pushes[q])'
  <2>1. CASE q = r
    <3>1. pushes'[q].pc = "check" /\ pushes'[q].files = files /\ files # {}
      BY <1>2, <2>1 DEF BeginPush, IdlePush, StoreInv, PushTypeOK
    <3>2. QED
      BY <3>1 DEF PushLists
  <2>2. CASE q # r
    BY <1>1, <1>2, <2>2 DEF BeginPush, StoreInv, PushTypeOK
  <2>3. QED
    BY <2>1, <2>2
<1>3. ASSUME NEW r \in Pushers, PushStep(r) \/ AbortPush(r)
      PROVE  PushLists(pushes[q])'
  BY <1>1, <1>3, PushStepLists
<1>4. CASE UNCHANGED pushes
  BY <1>1, <1>4
<1>5. QED
  BY <1>2, <1>3, <1>4, NextCases DEF pushVars, BeginCreateBranch

-----------------------------------------------------------------------------
(* The theorems.                                                           *)

\* The empty project has the empty set of finished commits.
LEMMA InitFinished == Init => Finished({})
<1> SUFFICES ASSUME Init PROVE Finished({})
  OBVIOUS
<1>1. \A r \in Pushers : PushPrepared(pushes[r], {})
  BY IdleTypes DEF Init, PushInit, PushPrepared
<1>2. \A r \in Mergers : MergePrepared(merges[r], {})
  BY IdleTypes DEF Init, MergeInit, MergePrepared, HasMerged
<1>3. QED
  BY <1>1, <1>2, IdleTypes DEF Init, StoreInit, PushInit, MergeInit, Finished,
     ClosedUnderParents

\* Every step of the server keeps a set of finished commits finished, together
\* with the commit that it publishes.
LEMMA HistoryStep ==
  ASSUME StoreInv, IdsUnique, NEW G \in SUBSET commits, Finished(G), [Next]_vars
  PROVE  FinishedWith(G)'
<1>1. CASE UNCHANGED <<storeVars, pushVars, mergeVars>>
  BY <1>1, RequestFrame DEF storeVars, pushVars, mergeVars
<1>2. QED
  BY <1>1, NextCases, BeginPushHistory, BeginMergeHistory, CreateHistory,
     PushHistory, MergeHistory

\* What is published is finished.
LEMMA FinishedPublished ==
  ASSUME StoreInv, NEW G \in SUBSET commits, Finished(G)
  PROVE  /\ Published \subseteq G
         /\ \A b \in Branches : refs[b] # Nil => /\ refs[b] \in commits
                                                /\ Ancestors(refs[b]) \subseteq G
<1>1. \A b \in Branches : refs[b] # Nil => /\ refs[b] \in commits
                                           /\ Ancestors(refs[b]) \subseteq G
  BY AncestorsFinished DEF Finished
<1>2. ASSUME NEW b \in Branches PROVE Ancestors(refs[b]) \subseteq G
  <2>1. Nil \notin commits
    BY IdSets DEF StoreInv, StoreTypeOK
  <2>2. QED
    BY <1>1, <2>1 DEF Ancestors
<1>3. QED
  BY <1>1, <1>2 DEF Published

\* A snapshot that was built over what the parent's read has found is complete
\* when the error of that read cannot be dropped.
LEMMA BuiltIsComplete ==
  ASSUME "parentSnapshot" \notin Swallowed, NEW c, SnapshotBuilt(c)
  PROVE  SnapshotComplete(c)
<1>1. CASE IsMergeCommit(c)
  BY <1>1 DEF SnapshotBuilt, SnapshotComplete
<1>2. CASE ~ IsMergeCommit(c) /\ parentID[c] = Nil
  BY <1>2 DEF SnapshotBuilt, SnapshotComplete, LaidOver, EmptySnapshot
<1>3. CASE ~ IsMergeCommit(c) /\ parentID[c] # Nil
  BY <1>3 DEF SnapshotBuilt, SnapshotComplete, LaidOver, GetCommitSnapshot
<1>4. QED
  BY <1>1, <1>2, <1>3

\* Then the finished commits that the branches show are complete.
LEMMA FinishedComplete ==
  ASSUME "parentSnapshot" \notin Swallowed,
         StoreInv, NEW G \in SUBSET commits, Finished(G)
  PROVE  PublishedSnapshotsComplete
BY FinishedPublished, BuiltIsComplete
   DEF Finished, PublishedSnapshotsComplete, ClosedUnderParents

\* A step writes the rows of the commit of one request in flight, or none.
LEMMA StepWrites ==
  ASSUME StoreInv, NEW G \in SUBSET commits, Finished(G), [Next]_vars
  PROVE  \A c \in G : c \in commits' /\ RowsKept(c)
<1>0. /\ G \subseteq CommitIds
      /\ \A r \in Pushers : pushes[r].id \notin G
      /\ \A r \in Mergers : merges[r].id \notin G
      /\ parentID \in [CommitIds -> Versions] /\ sourceID \in [CommitIds -> Versions]
      /\ fileVersions \in [CommitIds -> SUBSET Paths]
      /\ commitFiles \in [CommitIds -> Snapshot]
  BY DEF StoreInv, StoreTypeOK, Finished
<1>1. CASE UNCHANGED <<commits, parentID, sourceID, fileVersions, commitFiles>>
  BY <1>1 DEF RowsKept
<1>2. ASSUME NEW r \in Pushers, PushStep(r) \/ AbortPush(r)
      PROVE  \A c \in G : c \in commits' /\ RowsKept(c)
  <2>1. CASE InsertPushCommit(r)
    BY <1>0, <2>1 DEF InsertPushCommit, CreateCommit, RowsKept
  <2>2. CASE WritePushSnapshot(r)
    BY <1>0, <2>2 DEF WritePushSnapshot, SetCommitFiles, RowsKept
  <2>3. CASE \E p \in Paths : CreateVersion(r, p)
    BY <1>0, <2>3 DEF CreateVersion, InsertFileVersion, RowsKept
  <2>4. QED
    BY <1>1, <1>2, <2>1, <2>2, <2>3
       DEF PushStep, AbortPush, CheckHead, RejectPush, ReadParentSnapshot,
           CountChunks, AdvanceRef, storeVars
<1>3. ASSUME NEW r \in Mergers, MergeStep(r) \/ AbortMerge(r)
      PROVE  \A c \in G : c \in commits' /\ RowsKept(c)
  <2>1. CASE InsertMergeCommit(r)
    BY <1>0, <2>1 DEF InsertMergeCommit, CreateCommit, RowsKept
  <2>2. CASE WriteMergeSnapshot(r)
    BY <1>0, <2>2 DEF WriteMergeSnapshot, SetCommitFiles, RowsKept
  <2>3. QED
    BY <1>1, <1>3, <2>1, <2>2
       DEF MergeStep, AbortMerge, PanicMerge, AnalyzeMerge, RereadSource, RereadTarget,
           FastForward, ResolveMerge, RejectMerge, AdvanceTarget, storeVars
<1>4. ASSUME NEW r \in Branchers, CreateStep(r) \/ AbortCreateBranch(r)
      PROVE  UNCHANGED <<commits, parentID, sourceID, fileVersions, commitFiles>>
  BY <1>4 DEF CreateStep, CheckBranchExists, CreateBranchRef, AbortCreateBranch,
     storeVars
<1>5. CASE UNCHANGED storeVars
  BY <1>1, <1>5 DEF storeVars
<1>6. QED
  BY <1>1, <1>2, <1>3, <1>4, <1>5, TableCases

\* The steps that write a ref.
LEMMA RefWrites ==
  ASSUME [Next]_vars
  PROVE  \/ UNCHANGED refs
         \/ \E r \in Pushers : AdvanceRef(r) /\ pushes[r].ref # NoRef
         \/ \E r \in Mergers : FastForward(r) \/ AdvanceTarget(r)
         \/ \E r \in Branchers : CreateBranchRef(r)
<1>1. ASSUME NEW r \in Pushers, PushStep(r) \/ AbortPush(r)
      PROVE  UNCHANGED refs \/ (AdvanceRef(r) /\ pushes[r].ref # NoRef)
  BY <1>1 DEF PushStep, AbortPush, CheckHead, RejectPush, InsertPushCommit,
     ReadParentSnapshot, CreateVersion, WritePushSnapshot, CountChunks, AdvanceRef,
     storeVars
<1>2. ASSUME NEW r \in Mergers, MergeStep(r) \/ AbortMerge(r)
      PROVE  UNCHANGED refs \/ FastForward(r) \/ AdvanceTarget(r)
  BY <1>2 DEF MergeStep, AbortMerge, PanicMerge, AnalyzeMerge, RereadSource, RereadTarget,
     ResolveMerge, RejectMerge, InsertMergeCommit, WriteMergeSnapshot, storeVars
<1>3. ASSUME NEW r \in Branchers, CreateStep(r) \/ AbortCreateBranch(r)
      PROVE  UNCHANGED refs \/ CreateBranchRef(r)
  BY <1>3 DEF CreateStep, CheckBranchExists, AbortCreateBranch, storeVars
<1>4. CASE UNCHANGED storeVars
  BY <1>4 DEF storeVars
<1>5. QED
  BY <1>1, <1>2, <1>3, <1>4, TableCases

\* A branch only moves to a commit that was shown before, or to the commit of
\* the push or merge that ends with this step.
LEMMA RefMoves ==
  ASSUME StoreInv, NEW G \in SUBSET commits, Finished(G), [Next]_vars
  PROVE  \/ UNCHANGED refs
         \/ \E b \in Branches, c \in G : refs' = [refs EXCEPT ![b] = c]
         \/ \E r \in Pushers : AdvanceRef(r) /\ pushes[r].ref # NoRef
         \/ \E r \in Mergers : AdvanceTarget(r)
<1>1. ASSUME NEW r \in Mergers, FastForward(r)
      PROVE  \E b \in Branches, c \in G : refs' = [refs EXCEPT ![b] = c]
  <2>1. merges[r].target \in Branches /\ merges[r].s2 \in G
    BY <1>1 DEF FastForward, HeadsRead, StoreInv, MergeReady, ReadyMerge,
       Finished, MergePrepared
  <2>2. QED
    BY <1>1, <2>1 DEF FastForward, UpsertRef
<1>2. ASSUME NEW r \in Branchers, CreateBranchRef(r)
      PROVE  \E b \in Branches, c \in G : refs' = [refs EXCEPT ![b] = c]
  <2>1. creates[r].name \in Branches /\ creates[r].head \in G
    BY <1>2 DEF CreateBranchRef, StoreInv, CreateReady, Finished
  <2>2. QED
    BY <1>2, <2>1 DEF CreateBranchRef, UpsertRef
<1>3. QED
  BY <1>1, <1>2, RefWrites

\* Ids are handed out once, in every behaviour: no two requests in flight, and
\* no request and a finished commit, ever share a commit id.
THEOREM IdsAlwaysUnique == Spec => []IdsUnique
<1>1. StoreInv /\ IdsUnique /\ [Next]_vars => IdsUnique'
  BY StepIds
<1>2. TypeInv => StoreInv
  BY DEF TypeInv
<1>3. QED
  BY <1>1, <1>2, InitIds, AlwaysTypeInv, PTL DEF Spec

\* A commit that a push shows has a version for every file of the request.
LEMMA PushesAlwaysList == Spec => []PushesList
<1>1. Init => PushesList
  BY IdleTypes DEF Init, PushInit, PushesList, PushLists
<1>2. StoreInv /\ PushesList /\ [Next]_vars => PushesList'
  BY ListsKept DEF PushesList
<1>3. TypeInv => StoreInv
  BY DEF TypeInv
<1>4. QED
  BY <1>1, <1>2, <1>3, AlwaysTypeInv, PTL DEF Spec

\* Some set of finished commits always holds all that is or can become
\* published, also when CreateCommit drops the error of a read.
THEOREM AlwaysFinished == Spec => []HistoryInv
<1>0. Init => HistoryInv
  BY InitFinished DEF HistoryInv
<1>1. StoreInv /\ IdsUnique /\ HistoryInv /\ [Next]_vars => HistoryInv'
  <2> SUFFICES ASSUME StoreInv, IdsUnique, HistoryInv, [Next]_vars
               PROVE  HistoryInv'
    OBVIOUS
  <2>1. PICK G \in SUBSET commits : Finished(G)
    BY DEF HistoryInv
  <2>2. FinishedWith(G)'
    BY <2>1, HistoryStep
  <2>3. QED
    BY <2>2 DEF FinishedWith, HistoryInv
<1>2. TypeInv => StoreInv
  BY DEF TypeInv
<1>3. QED
  BY <1>0, <1>1, <1>2, IdsAlwaysUnique, AlwaysTypeInv, PTL DEF Spec

\* Every commit that a branch shows is a complete snapshot with its whole
\* history behind it, however the handlers of CreateCommit, Execute and
\* CreateBranch interleave and wherever they are cut off, unless the dropped
\* read error of CreateCommit strikes.
THEOREM PublishedHistoryComplete ==
  ASSUME "parentSnapshot" \notin Swallowed
  PROVE  Spec => []PublishedSnapshotsComplete
<1>1. StoreInv /\ HistoryInv => PublishedSnapshotsComplete
  BY FinishedComplete DEF HistoryInv
<1>2. TypeInv => StoreInv
  BY DEF TypeInv
<1>3. QED
  BY <1>1, <1>2, AlwaysFinished, AlwaysTypeInv, PTL

\* No step of any handler writes a row of a published commit again.
THEOREM PublishedHistoryImmutable == Spec => PublishedCommitsImmutable
<1> DEFINE Kept == \A c \in Published :
                     /\ c \in commits'
                     /\ parentID'[c] = parentID[c]
                     /\ sourceID'[c] = sourceID[c]
                     /\ fileVersions'[c] = fileVersions[c]
                     /\ commitFiles'[c] = commitFiles[c]
<1>1. StoreInv /\ HistoryInv /\ [Next]_vars => [Kept]_vars
  <2> SUFFICES ASSUME StoreInv, HistoryInv, [Next]_vars PROVE Kept
    OBVIOUS
  <2>1. PICK G \in SUBSET commits : Finished(G)
    BY DEF HistoryInv
  <2>2. Published \subseteq G
    BY <2>1, FinishedPublished
  <2>3. \A c \in G : c \in commits' /\ RowsKept(c)
    BY <2>1, StepWrites
  <2>4. QED
    BY <2>2, <2>3 DEF RowsKept
<1>2. TypeInv => StoreInv
  BY DEF TypeInv
<1>3. QED
  BY <1>1, <1>2, AlwaysFinished, AlwaysTypeInv, PTL
     DEF Spec, PublishedCommitsImmutable

=============================================================================
