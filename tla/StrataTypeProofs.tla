-------------------------- MODULE StrataTypeProofs --------------------------
(***************************************************************************)
(* Locks and chunks on their own and within the server, and type           *)
(* correctness of the whole server, for any project and any number of      *)
(* concurrent requests.                                                    *)
(***************************************************************************)
EXTENDS Strata, TLAPS

-----------------------------------------------------------------------------
(* Module Locks.                                                           *)

\* The inductive strengthening of UndisturbedGrantIsHeld: a handler past its
\* first lookup knows its request, and as long as nobody else touched the row
\* the path is free until its own insert.
UndisturbedPathIsFree ==
  \A r \in Lockers :
    /\ acquires[r].pc # "idle" => /\ acquires[r].user \in Users
                                  /\ acquires[r].path \in Paths
    /\ acquires[r].pc \in {"lookup", "insert"} /\ r \notin disturbed
         => locks[acquires[r].path] = NoUser

LocksInv == LocksTypeOK /\ UndisturbedPathIsFree /\ UndisturbedGrantIsHeld

\* Before the first request no path is locked.
LEMMA LocksInitInv == LocksInit => LocksInv
BY DEF LocksInit, LocksInv, LocksTypeOK, UndisturbedPathIsFree,
       UndisturbedGrantIsHeld, IdleAcquire, AcquirePC

\* Every step of Acquire and Release keeps what an undisturbed handler knows.
LEMMA LocksStepInv == LocksInv /\ [LocksNext]_lockVars => LocksInv'
<1> SUFFICES ASSUME LocksInv, [LocksNext]_lockVars
             PROVE  LocksInv'
  OBVIOUS
<1> USE LocksAssumption DEF LocksInv, LocksTypeOK, UndisturbedPathIsFree,
        UndisturbedGrantIsHeld, IdleAcquire, AcquirePC
<1>1. ASSUME NEW r \in Lockers, NEW u \in Users, NEW p \in Paths,
             BeginAcquire(r, u, p)
      PROVE  LocksInv'
  BY <1>1 DEF BeginAcquire
<1>2. ASSUME NEW r \in Lockers, LookupAgain(r)
      PROVE  LocksInv'
  BY <1>2 DEF LookupAgain, EndAcquire
<1>3. ASSUME NEW r \in Lockers, InsertLock(r)
      PROVE  LocksInv'
  BY <1>3 DEF InsertLock, OthersOn
<1>4. ASSUME NEW r \in Lockers, AnswerAcquire(r) \/ AbortAcquire(r)
      PROVE  LocksInv'
  BY <1>4 DEF AnswerAcquire, AbortAcquire, EndAcquire
<1>5. ASSUME NEW p \in Paths, DeleteLock(p)
      PROVE  LocksInv'
  BY <1>5 DEF DeleteLock
<1>6. CASE UNCHANGED lockVars
  BY <1>6 DEF lockVars
<1>7. QED
  BY <1>1, <1>2, <1>3, <1>4, <1>5, <1>6
     DEF LocksNext, AcquireStep, Release, ForceRelease

\* The lock table and its handlers keep their types.
THEOREM LocksTypeCorrect == LocksSpec => []LocksTypeOK
<1>1. LocksInv => LocksTypeOK
  BY DEF LocksInv
<1>2. QED
  BY <1>1, LocksInitInv, LocksStepInv, PTL DEF LocksSpec

\* A 201 of an acquire that no other request disturbed is the truth.
THEOREM UndisturbedGrants == LocksSpec => []UndisturbedGrantIsHeld
<1>1. LocksInv => UndisturbedGrantIsHeld
  BY DEF LocksInv
<1>2. QED
  BY <1>1, LocksInitInv, LocksStepInv, PTL DEF LocksSpec

\* No statement replaces the owner of a row by another one.
LEMMA OwnersKept ==
  ASSUME LocksTypeOK, [LocksNext]_lockVars, NEW p \in Paths, locks[p] # NoUser
  PROVE  locks'[p] \in {locks[p], NoUser}
<1> USE DEF LocksTypeOK
<1>1. ASSUME NEW r \in Lockers, InsertLock(r)
      PROVE  locks'[p] \in {locks[p], NoUser}
  BY <1>1 DEF InsertLock
<1>2. ASSUME NEW q \in Paths, DeleteLock(q)
      PROVE  locks'[p] \in {locks[p], NoUser}
  BY <1>2 DEF DeleteLock
<1>3. CASE UNCHANGED locks
  BY <1>3
<1>4. QED
  BY <1>1, <1>2, <1>3 DEF LocksNext, AcquireStep, Release, ForceRelease,
     BeginAcquire, LookupAgain, AnswerAcquire, AbortAcquire, lockVars

\* No handler ever replaces the owner of a lock by another one.
THEOREM LocksNotStolen == LocksSpec => NoLockStolen
<1>1. LocksInv /\ [LocksNext]_lockVars
      => [\A p \in Paths :
            locks[p] # NoUser => locks'[p] \in {locks[p], NoUser}]_lockVars
  BY OwnersKept DEF LocksInv
<1>2. QED
  BY <1>1, LocksInitInv, LocksStepInv, PTL DEF LocksSpec, NoLockStolen

-----------------------------------------------------------------------------
(* The uploads of module Chunks.                                           *)

\* The inductive strengthening of ChunkRowHasBlob: an upload that is about to
\* insert the row has already stored the bytes.
BlobStored ==
  \A r \in Uploaders :
    /\ uploads[r].pc # "idle" => uploads[r].hash \in Hashes
    /\ uploads[r].pc = "insert" => blobs[uploads[r].hash] = uploads[r].hash

ChunksInv == ChunksTypeOK /\ BlobStored /\ ChunkRowHasBlob

\* Before the first upload there is no chunk row without bytes.
LEMMA ChunksInitInv == ChunksInit => ChunksInv
BY DEF ChunksInit, ChunksInv, ChunksTypeOK, BlobStored, ChunkRowHasBlob,
       IdleUpload

\* Every step of an upload, and its cut-off, keeps the bytes before the row.
LEMMA ChunksStepInv == ChunksInv /\ [ChunksNext]_chunkVars => ChunksInv'
<1> SUFFICES ASSUME ChunksInv, [ChunksNext]_chunkVars
             PROVE  ChunksInv'
  OBVIOUS
<1> USE DEF ChunksInv, ChunksTypeOK, BlobStored, ChunkRowHasBlob, IdleUpload
<1>1. ASSUME NEW r \in Uploaders, NEW h \in Hashes, NEW data \in Hashes,
             BeginUpload(r, h, data)
      PROVE  ChunksInv'
  BY <1>1 DEF BeginUpload
<1>2. ASSUME NEW r \in Uploaders, PutBlob(r)
      PROVE  ChunksInv'
  BY <1>2 DEF PutBlob
<1>3. ASSUME NEW r \in Uploaders, InsertChunk(r)
      PROVE  ChunksInv'
  BY <1>3 DEF InsertChunk
<1>4. ASSUME NEW r \in Uploaders, AbortUpload(r)
      PROVE  ChunksInv'
  BY <1>4 DEF AbortUpload
<1>5. CASE UNCHANGED chunkVars
  BY <1>5 DEF chunkVars
<1>6. QED
  BY <1>1, <1>2, <1>3, <1>4, <1>5 DEF ChunksNext

\* The tables and the handlers of the chunk component keep their types.
THEOREM ChunksTypeCorrect == ChunksSpec => []ChunksTypeOK
<1>1. ChunksInv => ChunksTypeOK
  BY DEF ChunksInv
<1>2. QED
  BY <1>1, ChunksInitInv, ChunksStepInv, PTL DEF ChunksSpec

\* A chunk row never precedes its bytes: whatever uploads run or are cut off,
\* a hash that CheckExisting reports can be downloaded.
THEOREM ChunkRowsHaveBlobs == ChunksSpec => []ChunkRowHasBlob
<1>1. ChunksInv => ChunkRowHasBlob
  BY DEF ChunksInv
<1>2. QED
  BY <1>1, ChunksInitInv, ChunksStepInv, PTL DEF ChunksSpec

-----------------------------------------------------------------------------
(* The invariant of the server.                                            *)

\* What a request in flight has at hand.  Types alone are not inductive: a
\* merge reads the snapshots of the heads it holds, so they must be commits.
PushReady ==
  \A r \in Pushers :
    /\ pushes[r].pc \notin {"idle", "check"} => pushes[r].id \in CommitIds
    /\ pushes[r].pc = "parent" => pushes[r].parent \in CommitIds

CreateReady ==
  \A r \in Branchers :
    creates[r].pc # "idle" => /\ creates[r].name \in Branches
                              /\ creates[r].head \in CommitIds

\* The heads that Execute reads again are there once it has built on them.
ReadyMerge(m) ==
  /\ m.pc # "idle" => /\ m.source \in Branches
                      /\ m.target \in Branches
                      /\ m.s1 \in CommitIds
  /\ m.pc \notin {"idle", "target"} => m.t1 \in CommitIds /\ m.base \in CommitIds
  /\ HasMerged(m) => HeadsRead(m) /\ m.id \in CommitIds

MergeReady == \A r \in Mergers : ReadyMerge(merges[r])

StoreInv ==
  /\ StoreTypeOK
  /\ PushTypeOK
  /\ MergeTypeOK
  /\ PushReady
  /\ CreateReady
  /\ MergeReady

TypeInv == StoreInv /\ ChunksInv /\ LocksInv

\* Commit ids, Nil and snapshots.
LEMMA IdSets == /\ MaxCommits \in Nat
                /\ CommitIds \subseteq Versions
                /\ Nil \in Versions
                /\ Nil \notin CommitIds
                /\ \A v \in Versions : v # Nil => v \in CommitIds
                /\ EmptySnapshot \in Snapshot
BY MaxCommitsAssumption
   DEF CommitIds, Versions, Nil, EmptySnapshot, Snapshot, NoVersion

\* The record of a handler that serves no request.
LEMMA IdleTypes == /\ IdlePush \in PushRecord
                   /\ IdleMerge \in MergeRecord
                   /\ IdleCreate \in CreateRecord
                   /\ IdlePush.pc = "idle" /\ IdlePush.id = Nil
                   /\ IdlePush.snapshot = EmptySnapshot
                   /\ IdleMerge.pc = "idle" /\ IdleMerge.id = Nil
                   /\ IdleMerge.s2 = Nil /\ IdleMerge.t2 = Nil
                   /\ IdleCreate.pc = "idle"
BY IdSets DEF IdlePush, PushRecord, PushPC, IdleMerge, MergeRecord, MergePC,
   IdleCreate, CreateRecord

\* The empty project has well-typed tables.
LEMMA InitTypeInv == Init => TypeInv
<1> SUFFICES ASSUME Init PROVE TypeInv
  OBVIOUS
<1>1. StoreTypeOK
  BY IdSets, MaxCommitsAssumption DEF Init, StoreInit, StoreTypeOK, Versions, Nil
<1>2. PushTypeOK /\ PushReady
  BY IdleTypes DEF Init, PushInit, PushTypeOK, PushReady
<1>3. MergeTypeOK /\ CreateReady /\ MergeReady
  BY IdleTypes DEF Init, MergeInit, MergeTypeOK, CreateReady, MergeReady,
     ReadyMerge, HasMerged
<1>4. QED
  BY <1>1, <1>2, <1>3, ChunksInitInv, LocksInitInv
     DEF Init, TypeInv, StoreInv

-----------------------------------------------------------------------------
(* Pushes.                                                                 *)

\* An accepted push request is well typed.
LEMMA BeginPushTypes ==
  ASSUME StoreTypeOK, PushTypeOK, PushReady,
         NEW r \in Pushers, NEW u \in Users, NEW b \in PushRefs,
         NEW parent \in commits \cup {Nil}, NEW files \in SUBSET Paths,
         NEW manifest \in [Paths -> SUBSET Hashes],
         BeginPush(r, u, b, parent, files, manifest)
  PROVE  UNCHANGED storeVars /\ PushTypeOK' /\ PushReady'
<1>1. UNCHANGED <<storeVars, counted>>
  BY DEF BeginPush
<1>2. PushTypeOK' /\ PushReady'
  <2> DEFINE q == [IdlePush EXCEPT !.pc = "check", !.user = u, !.ref = b,
                      !.parent = parent, !.files = files,
                      !.manifest = manifest]
  <2>1. q \in PushRecord /\ q.pc = "check"
    BY IdSets, PushRefsAssumption
       DEF PushRecord, PushPC, IdlePush, StoreTypeOK
  <2>2. pushes' = [pushes EXCEPT ![r] = q]
    BY DEF BeginPush
  <2> HIDE DEF q
  <2>3. QED
    BY <1>1, <2>1, <2>2 DEF PushTypeOK, PushReady
<1>3. QED
  BY <1>1, <1>2

\* It leaves the branch creations and merges alone.
LEMMA BeginPushType ==
  ASSUME StoreInv, NEW r \in Pushers, NEW u \in Users, NEW b \in PushRefs,
         NEW parent \in commits \cup {Nil}, NEW files \in SUBSET Paths,
         NEW manifest \in [Paths -> SUBSET Hashes],
         BeginPush(r, u, b, parent, files, manifest), UNCHANGED mergeVars
  PROVE  StoreInv'
BY BeginPushTypes DEF StoreInv, storeVars, mergeVars, StoreTypeOK, MergeTypeOK,
   CreateReady, MergeReady

\* Every step of CreateCommit keeps the types of what it writes.
LEMMA PushStepTypes ==
  ASSUME StoreTypeOK, PushTypeOK, PushReady, NEW r \in Pushers, PushStep(r)
  PROVE  StoreTypeOK' /\ PushTypeOK' /\ PushReady'
<1> USE DEF StoreTypeOK, PushTypeOK, PushReady
<1>0. pushes[r] \in PushRecord
  OBVIOUS
<1>1. CASE CheckHead(r)
  <2>1. lastID + 1 \in CommitIds
    BY <1>1, MaxCommitsAssumption DEF CheckHead, Versions, CommitIds
  <2>2. ReadHead(pushes[r]) \subseteq Versions
    BY <1>0, IdSets DEF ReadHead, GetRef, PushRecord
  <2>3. PICK head \in Versions :
          pushes' = [pushes EXCEPT ![r].pc = "create", ![r].id = lastID + 1,
                                   ![r].head = head]
    BY <1>1, <2>2 DEF CheckHead
  <2>4. /\ lastID' \in Versions
        /\ pushes' \in [Pushers -> PushRecord]
        /\ PushReady'
    BY <1>0, <1>1, <2>1, <2>3, IdSets DEF CheckHead, PushRecord, PushPC
  <2>5. QED
    BY <1>1, <2>4 DEF CheckHead
<1>2. CASE RejectPush(r)
  BY <1>2, IdleTypes DEF RejectPush, EndPush, storeVars
<1>3. CASE InsertPushCommit(r)
  <2>1. pushes[r].id \in CommitIds /\ pushes[r].parent \in Versions
    BY <1>0, <1>3 DEF InsertPushCommit, PushRecord
  <2>2. pushes' \in [Pushers -> PushRecord] /\ PushReady'
    BY <1>0, <1>3, <2>1, IdSets DEF InsertPushCommit, PushRecord, PushPC
  <2>3. StoreTypeOK'
    BY <1>3, <2>1, IdSets DEF InsertPushCommit, CreateCommit
  <2>4. QED
    BY <1>3, <2>2, <2>3 DEF InsertPushCommit
<1>4. CASE ReadParentSnapshot(r)
  <2>1. PICK snapshot \in {commitFiles[pushes[r].parent], EmptySnapshot} :
          pushes' = [pushes EXCEPT ![r].pc = "files", ![r].snapshot = snapshot]
    BY <1>4 DEF ReadParentSnapshot, GetCommitSnapshot
  <2>2. snapshot \in Snapshot
    BY <1>4, IdSets DEF ReadParentSnapshot
  <2>3. pushes' \in [Pushers -> PushRecord] /\ PushReady'
    BY <1>0, <1>4, <2>1, <2>2 DEF ReadParentSnapshot, PushRecord, PushPC
  <2>4. QED
    BY <1>4, <2>3 DEF ReadParentSnapshot, storeVars
<1>5. ASSUME NEW p \in Paths, CreateVersion(r, p)
      PROVE  StoreTypeOK' /\ PushTypeOK' /\ PushReady'
  <2>1. /\ pushes[r].id \in CommitIds
        /\ pushes[r].manifest \in [Paths -> SUBSET Hashes]
        /\ pushes[r].snapshot \in Snapshot
    BY <1>0, <1>5 DEF CreateVersion, PushRecord
  <2>2. [pushes[r].snapshot EXCEPT ![p] = pushes[r].id] \in Snapshot
    BY <2>1, IdSets DEF Snapshot
  <2>3. pushes' \in [Pushers -> PushRecord] /\ PushReady'
    BY <1>0, <1>5, <2>2 DEF CreateVersion, PushRecord, PushPC
  <2>4. fileVersions' \in [CommitIds -> SUBSET Paths]
    BY <1>5 DEF CreateVersion, InsertFileVersion
  <2>5. chunkHashes' \in [CommitIds -> [Paths -> SUBSET Hashes]]
    BY <1>5, <2>1 DEF CreateVersion, InsertFileVersion
  <2>6. QED
    BY <1>5, <2>3, <2>4, <2>5 DEF CreateVersion
<1>6. CASE WritePushSnapshot(r)
  <2>1. pushes' \in [Pushers -> PushRecord] /\ PushReady'
    BY <1>0, <1>6 DEF WritePushSnapshot, PushRecord, PushPC
  <2>2. commitFiles' \in [CommitIds -> Snapshot]
    BY <1>0, <1>6 DEF WritePushSnapshot, SetCommitFiles, PushRecord
  <2>3. QED
    BY <1>6, <2>1, <2>2 DEF WritePushSnapshot
<1>7. CASE CountChunks(r)
  <2>1. pushes' \in [Pushers -> PushRecord] /\ PushReady'
    BY <1>0, <1>7 DEF CountChunks, PushRecord, PushPC
  <2>2. counted' \in SUBSET CommitIds
    BY <1>7 DEF CountChunks
  <2>3. QED
    BY <1>7, <2>1, <2>2 DEF CountChunks, storeVars
<1>8. CASE AdvanceRef(r)
  <2>1. pushes' \in [Pushers -> PushRecord] /\ PushReady'
    BY <1>8, IdleTypes DEF AdvanceRef, EndPush
  <2>2. refs' \in [Branches -> Versions]
    BY <1>8, IdSets DEF AdvanceRef, UpsertRef
  <2>3. QED
    BY <1>8, <2>1, <2>2 DEF AdvanceRef
<1>9. QED
  BY <1>1, <1>2, <1>3, <1>4, <1>5, <1>6, <1>7, <1>8 DEF PushStep

\* A push that is cut off keeps them, too.
LEMMA AbortPushTypes ==
  ASSUME StoreTypeOK, PushTypeOK, PushReady, NEW r \in Pushers, AbortPush(r)
  PROVE  UNCHANGED storeVars /\ PushTypeOK' /\ PushReady'
BY IdleTypes DEF PushTypeOK, PushReady, AbortPush, EndPush

\* What a merge in flight has at hand does not depend on the pushes.
LEMMA PushStepType ==
  ASSUME StoreInv, NEW r \in Pushers, PushStep(r) \/ AbortPush(r),
         UNCHANGED mergeVars
  PROVE  StoreInv'
<1>1. StoreTypeOK' /\ PushTypeOK' /\ PushReady'
  <2>1. CASE PushStep(r)
    BY <2>1, PushStepTypes DEF StoreInv
  <2>2. CASE AbortPush(r)
    BY <2>2, AbortPushTypes DEF StoreInv, StoreTypeOK, storeVars
  <2>3. QED
    BY <2>1, <2>2
<1>2. QED
  BY <1>1 DEF StoreInv, MergeTypeOK, CreateReady, MergeReady, ReadyMerge,
     mergeVars

-----------------------------------------------------------------------------
(* Branch creations.                                                       *)

\* A resolved branch creation is well typed.
LEMMA BeginCreateType ==
  ASSUME StoreInv, NEW r \in Branchers, NEW name \in Branches,
         NEW fromRef \in Branches, BeginCreateBranch(r, name, fromRef),
         UNCHANGED pushVars
  PROVE  StoreInv'
<1> USE DEF StoreInv
<1>1. refs[fromRef] \in CommitIds
  BY IdSets DEF BeginCreateBranch, StoreTypeOK
<1>2. creates' \in [Branchers -> CreateRecord] /\ CreateReady'
  BY <1>1, IdSets DEF BeginCreateBranch, MergeTypeOK, CreateRecord, CreateReady,
     IdleCreate
<1>3. QED
  BY <1>2 DEF BeginCreateBranch, storeVars, pushVars, StoreTypeOK, PushTypeOK,
     MergeTypeOK, PushReady, MergeReady

\* Every step of CreateBranch keeps the types of what it writes.
LEMMA CreateStepTypes ==
  ASSUME StoreTypeOK, creates \in [Branchers -> CreateRecord], CreateReady,
         NEW r \in Branchers, CreateStep(r) \/ AbortCreateBranch(r)
  PROVE  /\ StoreTypeOK'
         /\ creates' \in [Branchers -> CreateRecord] /\ CreateReady'
<1> USE DEF StoreTypeOK, CreateReady
<1>1. CASE CheckBranchExists(r)
  <2>1. creates' \in [Branchers -> CreateRecord] /\ CreateReady'
    <3>1. CASE EndCreate(r)
      BY <3>1, IdleTypes DEF EndCreate
    <3>2. CASE creates' = [creates EXCEPT ![r].pc = "create"]
      <4>1. creates[r] \in CreateRecord /\ creates[r].pc # "idle"
        BY <1>1 DEF CheckBranchExists
      <4>2. QED
        BY <3>2, <4>1 DEF CreateRecord
    <3>3. QED
      BY <1>1, <3>1, <3>2 DEF CheckBranchExists
  <2>2. QED
    BY <1>1, <2>1 DEF CheckBranchExists, storeVars
<1>2. CASE CreateBranchRef(r)
  <2>1. creates' \in [Branchers -> CreateRecord] /\ CreateReady'
    BY <1>2, IdleTypes DEF CreateBranchRef, EndCreate
  <2>2. refs' \in [Branches -> Versions]
    BY <1>2, IdSets DEF CreateBranchRef, UpsertRef
  <2>3. QED
    BY <1>2, <2>1, <2>2 DEF CreateBranchRef
<1>3. CASE AbortCreateBranch(r)
  BY <1>3, IdleTypes DEF AbortCreateBranch, EndCreate, storeVars
<1>4. QED
  BY <1>1, <1>2, <1>3 DEF CreateStep

\* It leaves the pushes and merges alone.
LEMMA CreateStepType ==
  ASSUME StoreInv, NEW r \in Branchers, CreateStep(r) \/ AbortCreateBranch(r),
         UNCHANGED pushVars
  PROVE  StoreInv'
<1>1. /\ StoreTypeOK'
      /\ creates' \in [Branchers -> CreateRecord] /\ CreateReady'
  BY CreateStepTypes DEF StoreInv, MergeTypeOK
<1>2. UNCHANGED merges
  BY DEF CreateStep, CheckBranchExists, CreateBranchRef, AbortCreateBranch
<1>3. QED
  BY <1>1, <1>2 DEF StoreInv, MergeTypeOK, MergeReady, ReadyMerge,
     PushTypeOK, PushReady, pushVars

-----------------------------------------------------------------------------
(* Merges.                                                                 *)

\* The recursive query returns rows of the table.
LEMMA AncestorsAreCommits ==
  ASSUME StoreTypeOK, NEW s \in Versions, NEW t \in CommitIds
  PROVE  AnalysisBase(s, t) \subseteq CommitIds
BY DEF StoreTypeOK, AnalysisBase, FindMergeBase, CommonAncestors, Ancestors

\* A merge commit takes the versions of the snapshots it was built from.
LEMMA MergedIsSnapshot ==
  ASSUME StoreTypeOK, NEW m \in MergeRecord, m.base \in CommitIds,
         m.s1 \in CommitIds, m.t1 \in CommitIds, m.t2 \in CommitIds,
         NEW res \in ResolutionsOf(m)
  PROVE  MergedFrom(m, res) \in Snapshot
<1> DEFINE b == commitFiles[m.base]
           s == commitFiles[m.s1]
           t == commitFiles[m.t1]
           onto == commitFiles[m.t2]
<1>1. b \in Snapshot /\ s \in Snapshot /\ t \in Snapshot /\ onto \in Snapshot
  BY DEF StoreTypeOK
<1>2. res \in ValidResolutions(b, s, t)
  BY DEF ResolutionsOf
<1>3. MergedFrom(m, res) = MergedSnapshot(b, s, t, onto, res)
  BY DEF MergedFrom
<1> HIDE DEF b, s, t, onto
<1>4. \A p \in Conflicts(b, s, t) : p \in Paths /\ res[p] \in {s[p], t[p], b[p]}
  BY <1>2 DEF ValidResolutions, Conflicts
<1>5. MergedSnapshot(b, s, t, onto, res) \in Snapshot
  BY <1>1, <1>4 DEF MergedSnapshot, Snapshot
<1>6. QED
  BY <1>3, <1>5

\* An accepted merge request is well typed.
LEMMA BeginMergeType ==
  ASSUME StoreInv, NEW r \in Mergers, NEW source \in Branches,
         NEW target \in Branches, BeginMerge(r, source, target),
         UNCHANGED pushVars
  PROVE  StoreInv'
<1> USE DEF StoreInv
<1> DEFINE m == [IdleMerge EXCEPT !.pc = "target", !.source = source,
                                  !.target = target, !.s1 = refs[source]]
<1>1. refs[source] \in CommitIds
  BY IdSets DEF BeginMerge, StoreTypeOK
<1>2. /\ m \in MergeRecord
      /\ m.pc = "target" /\ m.source = source /\ m.target = target
      /\ m.s1 = refs[source]
  BY <1>1, IdSets DEF IdleMerge, MergeRecord, MergePC
<1>3. merges' = [merges EXCEPT ![r] = m] /\ UNCHANGED <<storeVars, creates>>
  BY DEF BeginMerge
<1> HIDE DEF m
<1>4. merges' \in [Mergers -> MergeRecord]
  BY <1>2, <1>3 DEF MergeTypeOK
<1>5. MergeReady'
  BY <1>1, <1>2, <1>3, IdSets DEF MergeTypeOK, MergeReady, ReadyMerge, HasMerged,
     storeVars
<1>6. QED
  BY <1>3, <1>4 , <1>5 DEF storeVars, pushVars, StoreTypeOK, PushTypeOK,
     MergeTypeOK, PushReady, CreateReady

\* What every step of a merge has to show: the new record is typed and ready,
\* and the tables keep their types.
LEMMA MergeRecordType ==
  ASSUME StoreInv, NEW r \in Mergers, NEW m \in MergeRecord,
         ReadyMerge(m), merges' = [merges EXCEPT ![r] = m],
         StoreTypeOK', UNCHANGED <<creates, pushVars>>
  PROVE  StoreInv'
<1>1. merges' \in [Mergers -> MergeRecord]
  BY DEF StoreInv, MergeTypeOK
<1>2. MergeReady'
  <2> SUFFICES ASSUME NEW q \in Mergers PROVE ReadyMerge(merges'[q])
    BY DEF MergeReady
  <2>1. CASE q = r
    BY <2>1 DEF StoreInv, MergeTypeOK
  <2>2. CASE q # r
    BY <2>2 DEF StoreInv, MergeTypeOK, MergeReady, ReadyMerge
  <2>3. QED
    BY <2>1, <2>2
<1>3. QED
  BY <1>1, <1>2 DEF StoreInv, MergeTypeOK, PushTypeOK, PushReady, CreateReady,
     pushVars

\* The end of a merge request keeps the types.
LEMMA EndMergeType ==
  ASSUME StoreInv, NEW r \in Mergers, EndMerge(r),
         StoreTypeOK', UNCHANGED <<creates, pushVars>>
  PROVE  StoreInv'
<1>1. ReadyMerge(IdleMerge)
  BY IdleTypes DEF ReadyMerge, HasMerged
<1>2. QED
  BY <1>1, IdleTypes, MergeRecordType DEF EndMerge

\* Every step of Execute keeps the types.
LEMMA MergeStepType ==
  ASSUME StoreInv, NEW r \in Mergers, MergeStep(r) \/ AbortMerge(r),
         UNCHANGED pushVars
  PROVE  StoreInv'
<1> DEFINE m == merges[r]
<1>0. /\ StoreTypeOK /\ m \in MergeRecord /\ ReadyMerge(m)
      /\ merges \in [Mergers -> MergeRecord]
  BY DEF StoreInv, MergeTypeOK, MergeReady
<1>a. UNCHANGED storeVars => StoreTypeOK'
  BY <1>0 DEF storeVars, StoreTypeOK
<1>b. ASSUME NEW c \in CommitIds, UpsertRef(m.target, c),
             UNCHANGED <<commits, parentID, sourceID, fileVersions, chunkHashes,
                         commitFiles, lastID>>
      PROVE  StoreTypeOK'
  BY <1>0, <1>b, IdSets DEF StoreTypeOK, UpsertRef
<1>1. CASE AnalyzeMerge(r)
  <2>1. CASE EndMerge(r)
    BY <1>1, <1>a, <2>1, EndMergeType DEF AnalyzeMerge
  <2>2. CASE \E base \in AnalysisBase(m.s1, refs[m.target]) :
                /\ refs[m.target] # Nil
                /\ merges' = [merges EXCEPT ![r].pc = "source2",
                      ![r].t1 = refs[m.target], ![r].base = base]
    <3>1. PICK base \in AnalysisBase(m.s1, refs[m.target]) :
                /\ refs[m.target] # Nil
                /\ merges' = [merges EXCEPT ![r].pc = "source2",
                      ![r].t1 = refs[m.target], ![r].base = base]
      BY <2>2
    <3>2. refs[m.target] \in CommitIds /\ m.pc = "target" /\ m.s1 \in Versions
      BY <1>0, <1>1, <3>1, IdSets DEF AnalyzeMerge, ReadyMerge, StoreTypeOK
    <3>3. base \in CommitIds
      BY <1>0, <3>2, AncestorsAreCommits
    <3>4. PICK n : n = [m EXCEPT !.pc = "source2", !.t1 = refs[m.target],
                                 !.base = base]
      OBVIOUS
    <3>5. n \in MergeRecord /\ ReadyMerge(n)
      BY <1>0, <3>1, <3>2, <3>3, <3>4, IdSets
         DEF MergeRecord, MergePC, ReadyMerge, HasMerged
    <3>6. merges' = [merges EXCEPT ![r] = n]
      BY <1>0, <3>1, <3>4
    <3>7. UNCHANGED <<storeVars, creates>>
      BY <1>1 DEF AnalyzeMerge
    <3>8. QED
      BY <1>a, <3>5, <3>6, <3>7, MergeRecordType
  <2>3. QED
    BY <1>1, <2>1, <2>2 DEF AnalyzeMerge
<1>2. CASE RereadSource(r)
  <2>0. PICK head \in Versions :
          merges' = [merges EXCEPT ![r].pc = "target2", ![r].s2 = head]
    BY <1>0, <1>2, IdSets DEF RereadSource, GetRef, ReadyMerge, StoreTypeOK
  <2>1. PICK n : n = [m EXCEPT !.pc = "target2", !.s2 = head]
    OBVIOUS
  <2>2. n \in MergeRecord /\ ReadyMerge(n)
    BY <1>0, <1>2, <2>1, IdSets DEF RereadSource, StoreTypeOK, MergeRecord,
       MergePC, ReadyMerge, HasMerged
  <2>3. merges' = [merges EXCEPT ![r] = n] /\ UNCHANGED <<storeVars, creates>>
    BY <1>0, <1>2, <2>0, <2>1 DEF RereadSource
  <2>4. QED
    BY <1>a, <2>2, <2>3, MergeRecordType
<1>3. CASE RereadTarget(r)
  <2>0. PICK head \in Versions :
          merges' = [merges EXCEPT
            ![r].pc = IF m.base = m.t1 THEN "fastForward" ELSE "resolve",
            ![r].t2 = head]
    BY <1>0, <1>3, IdSets DEF RereadTarget, GetRef, ReadyMerge, StoreTypeOK
  <2>1. PICK n : n = [m EXCEPT
           !.pc = IF m.base = m.t1 THEN "fastForward" ELSE "resolve",
           !.t2 = head]
    OBVIOUS
  <2>2. n \in MergeRecord /\ ReadyMerge(n)
    BY <1>0, <1>3, <2>1, IdSets DEF RereadTarget, StoreTypeOK, MergeRecord,
       MergePC, ReadyMerge, HasMerged
  <2>3. merges' = [merges EXCEPT ![r] = n] /\ UNCHANGED <<storeVars, creates>>
    BY <1>0, <1>3, <2>0, <2>1 DEF RereadTarget
  <2>4. QED
    BY <1>a, <2>2, <2>3, MergeRecordType
<1>4. CASE FastForward(r)
  <2>1. m.s2 \in CommitIds
    BY <1>0, <1>4, IdSets DEF FastForward, HeadsRead, MergeRecord
  <2>2. QED
    BY <1>b, <1>4, <2>1, EndMergeType DEF FastForward
<1>5. CASE ResolveMerge(r)
  <2>1. PICK res \in ResolutionsOf(m) :
          merges' = [merges EXCEPT ![r].pc = "create", ![r].id = lastID + 1,
                                   ![r].merged = MergedFrom(m, res)]
    BY <1>5 DEF ResolveMerge
  <2>2. /\ m.pc = "resolve" /\ m.base \in CommitIds /\ m.s1 \in CommitIds
        /\ m.t1 \in CommitIds /\ m.t2 \in CommitIds
    BY <1>0, <1>5, IdSets DEF ResolveMerge, HeadsRead, ReadyMerge, MergeRecord
  <2>3. MergedFrom(m, res) \in Snapshot
    BY <1>0, <2>2, MergedIsSnapshot
  <2>4. lastID + 1 \in CommitIds /\ StoreTypeOK' /\ refs' = refs
    BY <1>0, <1>5, MaxCommitsAssumption
       DEF ResolveMerge, StoreTypeOK, CommitIds, Versions
  <2>5. PICK n : n = [m EXCEPT !.pc = "create", !.id = lastID + 1,
                               !.merged = MergedFrom(m, res)]
    OBVIOUS
  <2>6. n \in MergeRecord /\ ReadyMerge(n)
    BY <1>0, <1>5, <2>2, <2>3, <2>4, <2>5, IdSets
       DEF MergeRecord, MergePC, ReadyMerge, HasMerged, HeadsRead, ResolveMerge
  <2>7. merges' = [merges EXCEPT ![r] = n] /\ UNCHANGED creates
    BY <1>0, <1>5, <2>1, <2>5 DEF ResolveMerge
  <2>8. QED
    BY <2>4, <2>6, <2>7, MergeRecordType
<1>6. CASE RejectMerge(r)
  BY <1>a, <1>6, EndMergeType DEF RejectMerge
<1>7. CASE InsertMergeCommit(r)
  <2>1. PICK n : n = [m EXCEPT !.pc = "snapshot"]
    OBVIOUS
  <2>2. n \in MergeRecord /\ ReadyMerge(n)
    BY <1>0, <1>7, <2>1 DEF InsertMergeCommit, MergeRecord, MergePC,
       ReadyMerge, HasMerged, HeadsRead
  <2>3. merges' = [merges EXCEPT ![r] = n] /\ UNCHANGED <<refs, creates>>
    BY <1>0, <1>7, <2>1 DEF InsertMergeCommit
  <2>4. m.id \in CommitIds /\ m.t2 \in Versions /\ m.s2 \in Versions
    BY <1>0, <1>7 DEF InsertMergeCommit, MergeRecord, ReadyMerge, HasMerged
  <2>5. StoreTypeOK'
    BY <1>0, <1>7, <2>4 DEF InsertMergeCommit, CreateCommit, StoreTypeOK
  <2>6. QED
    BY <2>2, <2>3, <2>5, MergeRecordType
<1>8. CASE WriteMergeSnapshot(r)
  <2>1. CASE HasEmptyVersion(m)
    <3>1. EndMerge(r) /\ UNCHANGED <<storeVars, creates>>
      BY <1>8, <2>1 DEF WriteMergeSnapshot, storeVars
    <3>2. QED
      BY <1>a, <3>1, EndMergeType
  <2>2. CASE ~ HasEmptyVersion(m)
    <3>1. PICK n : n = [m EXCEPT !.pc = "advance"]
      OBVIOUS
    <3>2. n \in MergeRecord /\ ReadyMerge(n)
      BY <1>0, <1>8, <3>1 DEF WriteMergeSnapshot, MergeRecord, MergePC,
         ReadyMerge, HasMerged, HeadsRead
    <3>3. merges' = [merges EXCEPT ![r] = n] /\ UNCHANGED <<refs, creates>>
      BY <1>0, <1>8, <2>2, <3>1 DEF WriteMergeSnapshot
    <3>4. StoreTypeOK'
      BY <1>0, <1>8, <2>2 DEF WriteMergeSnapshot, SetCommitFiles, StoreTypeOK,
         MergeRecord
    <3>5. QED
      BY <3>2, <3>3, <3>4, MergeRecordType
  <2>3. QED
    BY <2>1, <2>2
<1>9. CASE AdvanceTarget(r)
  <2>1. m.id \in CommitIds
    BY <1>0, <1>9 DEF AdvanceTarget, ReadyMerge, HasMerged
  <2>2. QED
    BY <1>b, <1>9, <2>1, EndMergeType DEF AdvanceTarget
<1>10. CASE PanicMerge(r) \/ AbortMerge(r)
  BY <1>a, <1>10, EndMergeType DEF PanicMerge, AbortMerge
<1>11. QED
  BY <1>1, <1>2, <1>3, <1>4, <1>5, <1>6, <1>7, <1>8, <1>9, <1>10 DEF MergeStep

-----------------------------------------------------------------------------
(* The composition.                                                        *)

\* Outside the chunk handlers only the ref counts of chunks change.
ChunksKept == UNCHANGED <<chunks, blobs, uploads>> /\ refCount' \in [Hashes -> Nat]

\* Steps that only count references keep the rows behind their bytes.
LEMMA ChunksKeptInv == ChunksInv /\ ChunksKept => ChunksInv'
BY DEF ChunksInv, ChunksKept, ChunksTypeOK, BlobStored, ChunkRowHasBlob

\* A push writes no lock, and of the chunks only their counts.
LEMMA PushStepFrame ==
  ASSUME NEW r, PushStep(r)
  PROVE  UNCHANGED lockVars /\ (UNCHANGED chunkVars \/ CountChunks(r))
<1>1. CASE CheckHead(r)
  BY <1>1 DEF CheckHead
<1>2. CASE RejectPush(r)
  BY <1>2 DEF RejectPush
<1>3. CASE InsertPushCommit(r)
  BY <1>3 DEF InsertPushCommit
<1>4. CASE ReadParentSnapshot(r)
  BY <1>4 DEF ReadParentSnapshot
<1>5. ASSUME NEW p \in Paths, CreateVersion(r, p)
      PROVE  UNCHANGED <<lockVars, chunkVars>>
  BY <1>5 DEF CreateVersion
<1>6. CASE WritePushSnapshot(r)
  BY <1>6 DEF WritePushSnapshot
<1>7. CASE CountChunks(r)
  BY <1>7 DEF CountChunks
<1>8. CASE AdvanceRef(r)
  BY <1>8 DEF AdvanceRef
<1>9. QED
  BY <1>1, <1>2, <1>3, <1>4, <1>5, <1>6, <1>7, <1>8 DEF PushStep

\* A request that arrives or is cut off writes neither.
LEMMA BeginAbortFrame ==
  ASSUME Begin \/ Abort
  PROVE  UNCHANGED lockVars /\ UNCHANGED chunkVars
<1>1. ASSUME NEW r, NEW u, NEW b, NEW parent, NEW files, NEW manifest,
             BeginPush(r, u, b, parent, files, manifest)
      PROVE  UNCHANGED <<lockVars, chunkVars>>
  BY <1>1 DEF BeginPush
<1>2. ASSUME NEW r, AbortPush(r) PROVE UNCHANGED <<lockVars, chunkVars>>
  BY <1>2 DEF AbortPush
<1>3. CASE Begin
  BY <1>1, <1>3 DEF Begin
<1>4. CASE Abort
  BY <1>2, <1>4 DEF Abort
<1>5. QED
  BY <1>3, <1>4

\* Only the lock handlers write the lock table.
LEMMA NextIsLocksNext == [Next]_vars => [LocksNext]_lockVars
<1> SUFFICES ASSUME [Next]_vars PROVE LocksNext \/ UNCHANGED lockVars
  OBVIOUS
<1>1. CASE Begin \/ Abort
  BY <1>1, BeginAbortFrame
<1>2. ASSUME NEW r \in Pushers, DoPush(r) PROVE UNCHANGED lockVars
  BY <1>2, PushStepFrame DEF DoPush
<1>3. ASSUME NEW r, DoMerge(r) \/ DoCreate(r) PROVE UNCHANGED lockVars
  BY <1>3 DEF DoMerge, DoCreate
<1>4. CASE UNCHANGED vars
  BY <1>4 DEF vars
<1>5. QED
  BY <1>1, <1>2, <1>3, <1>4 DEF Next

\* The other handlers leave the chunk component alone but for ref_count.
LEMMA NextKeepsChunks ==
  ASSUME ChunksInv, [Next]_vars
  PROVE  \/ ChunksNext
         \/ ChunksKept
<1>0. UNCHANGED chunkVars => ChunksKept
  BY DEF ChunksInv, ChunksTypeOK, ChunksKept, chunkVars
<1>1. CASE Begin \/ Abort
  BY <1>0, <1>1, BeginAbortFrame
<1>2. ASSUME NEW r \in Pushers, DoPush(r) PROVE ChunksKept
  <2>1. CASE CountChunks(r)
    BY <2>1 DEF CountChunks, IncrementRefCount, ChunksKept, ChunksInv, ChunksTypeOK
  <2>2. CASE ~ CountChunks(r)
    BY <1>0, <1>2, <2>2, PushStepFrame DEF DoPush
  <2>3. QED
    BY <2>1, <2>2
<1>3. ASSUME NEW r, DoMerge(r) \/ DoCreate(r) PROVE UNCHANGED chunkVars
  BY <1>3 DEF DoMerge, DoCreate
<1>4. CASE LocksNext /\ UNCHANGED <<storeVars, chunkVars, pushVars, mergeVars>>
  BY <1>0, <1>4
<1>5. ASSUME NEW r, DoMerge(r) \/ DoCreate(r) PROVE ChunksKept
  BY <1>0, <1>3, <1>5
<1>6. UNCHANGED vars => ChunksKept
  BY <1>0 DEF vars
<1>8. QED
  BY <1>1, <1>2, <1>4, <1>5, <1>6 DEF Next

\* The steps of the server, as the proofs about the version-control tables
\* need them.
LEMMA NextCases ==
  ASSUME [Next]_vars
  PROVE  \/ \E r \in Pushers, u \in Users, b \in PushRefs,
               parent \in commits \cup {Nil}, files \in SUBSET Paths,
               manifest \in [Paths -> SUBSET Hashes] :
              BeginPush(r, u, b, parent, files, manifest) /\ UNCHANGED mergeVars
         \/ \E r \in Mergers, source, target \in Branches :
              BeginMerge(r, source, target) /\ UNCHANGED pushVars
         \/ \E r \in Branchers, name, fromRef \in Branches :
              BeginCreateBranch(r, name, fromRef) /\ UNCHANGED pushVars
         \/ \E r \in Pushers :
              (PushStep(r) \/ AbortPush(r)) /\ UNCHANGED mergeVars
         \/ \E r \in Mergers :
              (MergeStep(r) \/ AbortMerge(r)) /\ UNCHANGED pushVars
         \/ \E r \in Branchers :
              (CreateStep(r) \/ AbortCreateBranch(r)) /\ UNCHANGED pushVars
         \/ UNCHANGED <<storeVars, pushVars, mergeVars>>
<1>1. CASE Begin
  BY <1>1 DEF Begin
<1>2. CASE Abort
  BY <1>2 DEF Abort
<1>3. QED
  BY <1>1, <1>2 DEF Next, DoPush, DoMerge, DoCreate, vars

\* Every step of the server keeps the types of the tables and handlers.
LEMMA StoreStep == StoreInv /\ [Next]_vars => StoreInv'
<1> SUFFICES ASSUME StoreInv, [Next]_vars PROVE StoreInv'
  OBVIOUS
<1>1. CASE UNCHANGED <<storeVars, pushVars, mergeVars>>
  BY <1>1 DEF StoreInv, storeVars, pushVars, mergeVars, StoreTypeOK,
     PushTypeOK, MergeTypeOK, PushReady, CreateReady, MergeReady
<1>2. QED
  BY <1>1, NextCases, BeginPushType, BeginMergeType, BeginCreateType,
     PushStepType, MergeStepType, CreateStepType

\* Every step of the server keeps the inductive type invariant.
LEMMA TypeStep == TypeInv /\ [Next]_vars => TypeInv'
<1> SUFFICES ASSUME TypeInv, [Next]_vars PROVE TypeInv'
  OBVIOUS
<1>1. StoreInv'
  BY StoreStep DEF TypeInv
<1>2. LocksInv'
  BY NextIsLocksNext, LocksStepInv DEF TypeInv
<1>3. ChunksInv'
  BY NextKeepsChunks, ChunksKeptInv, ChunksStepInv DEF TypeInv
<1>4. QED
  BY <1>1, <1>2, <1>3 DEF TypeInv

\* The inductive type invariant holds in every reachable state.
LEMMA AlwaysTypeInv == Spec => []TypeInv
BY InitTypeInv, TypeStep, PTL DEF Spec

\* Type correctness of the server, for every project, every set of concurrent
\* requests and every choice of failing reads.
THEOREM TypeCorrect == Spec => []TypeOK
<1>1. TypeInv => TypeOK
  BY DEF TypeInv, StoreInv, ChunksInv, LocksInv, TypeOK
<1>2. QED
  BY <1>1, AlwaysTypeInv, PTL

\* The whole server implements the lock component: pushes, merges and branch
\* creations never touch the lock table, so what is proved of LocksSpec (an
\* undisturbed grant is held, no lock is stolen) holds of the server.
THEOREM ServerImplementsLocks == Spec => LocksSpec
<1>1. Init => LocksInit
  BY DEF Init
<1>2. QED
  BY <1>1, NextIsLocksNext, PTL DEF Spec, LocksSpec

\* In the whole server, where pushes also update ref counts, a chunk row still
\* never precedes its bytes.
THEOREM ServerChunkRowsHaveBlobs == Spec => []ChunkRowHasBlob
<1>1. TypeInv => ChunkRowHasBlob
  BY DEF TypeInv, ChunksInv
<1>2. QED
  BY <1>1, AlwaysTypeInv, PTL

=============================================================================
