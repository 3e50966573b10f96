--------------------------- MODULE ProjectsProofs ---------------------------
(***************************************************************************)
(* The server with the deletion of the project: what still holds when the  *)
(* rows go away under the requests in flight, and why every request ends.  *)
(***************************************************************************)
EXTENDS LockHistory, StrataProofs, FiniteSetTheorems

-----------------------------------------------------------------------------
(* The invariant.                                                          *)

NoHeads == \A b \in Branches : refs[b] = Nil

\* The tables and the handlers are well typed whether or not the project is
\* there: a handler that read a head before the cascade still holds a commit,
\* and one that reads it afterwards finds none.  A live project has the history
\* of Strata, a deleted one no branch.
ProjectInv ==
  /\ project \in {"live", "deleted"}
  /\ LocksInv
  /\ ChunksInv
  /\ StoreInv
  /\ project = "live" => IdsUnique /\ HistoryInv
  /\ project = "deleted" => NoHeads

\* The empty project is live.
LEMMA ProjectInitInv == ProjectInit => ProjectInv
<1> SUFFICES ASSUME Init, project = "live" PROVE ProjectInv
  BY DEF ProjectInit
<1>1. TypeInv /\ IdsUnique
  BY InitTypeInv, InitIds
<1>2. HistoryInv
  BY InitFinished DEF HistoryInv
<1>3. QED
  BY <1>1, <1>2 DEF TypeInv, ProjectInv

-----------------------------------------------------------------------------
(* The steps.                                                              *)

\* A statement that fails ends its request as a cut-off does, so that all steps
\* but the cascade are steps of Strata that the foreign keys accept.
LEMMA ProjectSteps ==
  ASSUME [ProjectNext]_projectVars
  PROVE  \/ DeleteProject
         \/ [Next]_vars /\ ForeignKeys /\ UNCHANGED project
<1>1. ASSUME NEW r \in Pushers, PushFails(r)
      PROVE  Next /\ ForeignKeys /\ UNCHANGED project
  BY <1>1 DEF PushFails, Next, Abort, AbortPush, ForeignKeys, projectTables,
     storeVars, lockVars
<1>2. ASSUME NEW r \in Mergers, MergeFails(r)
      PROVE  Next /\ ForeignKeys /\ UNCHANGED project
  BY <1>2 DEF MergeFails, Next, Abort, AbortMerge, ForeignKeys, projectTables,
     storeVars, lockVars
<1>3. ASSUME NEW r \in Branchers, CreateFails(r)
      PROVE  Next /\ ForeignKeys /\ UNCHANGED project
  BY <1>3 DEF CreateFails, Next, Abort, AbortCreateBranch, ForeignKeys,
     projectTables, storeVars, lockVars
<1>4. ASSUME NEW r \in Lockers, AcquireFails(r)
      PROVE  Next /\ ForeignKeys /\ UNCHANGED project
  BY <1>4 DEF AcquireFails, Next, LocksNext, AbortAcquire, ForeignKeys,
     projectTables, storeVars, lockVars
<1>5. CASE UNCHANGED projectVars
  BY <1>5 DEF projectVars, vars, ForeignKeys, projectTables, storeVars, lockVars
<1>6. QED
  BY <1>1, <1>2, <1>3, <1>4, <1>5 DEF ProjectNext, Accepted

\* The cascade leaves no lock, and no undisturbed request on one.
LEMMA DeleteLocksInv == LocksInv /\ DeleteProject => LocksInv'
BY LocksAssumption
   DEF DeleteProject, DeleteRows, LocksInv, LocksTypeOK, UndisturbedPathIsFree,
       UndisturbedGrantIsHeld, AcquirePC

\* It empties the tables and leaves the requests what they have.
LEMMA DeleteTablesInv == StoreInv /\ DeleteProject => StoreInv' /\ NoHeads'
BY IdSets
   DEF DeleteProject, DeleteRows, StoreInv, NoHeads, StoreTypeOK, PushTypeOK,
       MergeTypeOK, PushReady, CreateReady, MergeReady, ReadyMerge, HeadsRead,
       HasMerged, pushVars, mergeVars

\* The inductive step.
LEMMA ProjectStep == ProjectInv /\ [ProjectNext]_projectVars => ProjectInv'
<1> SUFFICES ASSUME ProjectInv, [ProjectNext]_projectVars PROVE ProjectInv'
  OBVIOUS
<1>1. CASE DeleteProject
  <2>1. project' = "deleted" /\ UNCHANGED chunkVars
    BY <1>1 DEF DeleteProject
  <2>2. ChunksInv'
    BY <2>1, ChunksStepInv DEF ProjectInv
  <2>3. QED
    BY <1>1, <2>1, <2>2, DeleteLocksInv, DeleteTablesInv DEF ProjectInv
<1>2. CASE [Next]_vars /\ ForeignKeys /\ UNCHANGED project
  <2>1. LocksInv' /\ ChunksInv' /\ StoreInv'
    BY <1>2, NextIsLocksNext, LocksStepInv, NextKeepsChunks, ChunksKeptInv,
       ChunksStepInv, StoreStep DEF ProjectInv
  <2>2. CASE project = "live"
    <3>1. IdsUnique'
      BY <1>2, <2>2, StepIds DEF ProjectInv
    <3>2. PICK G \in SUBSET commits : Finished(G)
      BY <2>2 DEF ProjectInv, HistoryInv
    <3>3. FinishedWith(G)'
      BY <1>2, <2>2, <3>2, HistoryStep DEF ProjectInv
    <3>4. QED
      BY <1>2, <2>1, <2>2, <3>1, <3>3 DEF ProjectInv, FinishedWith, HistoryInv
  <2>3. CASE project = "deleted"
    BY <1>2, <2>1, <2>3 DEF ProjectInv, ForeignKeys, NoHeads, projectTables
  <2>4. QED
    BY <2>2, <2>3 DEF ProjectInv
<1>3. QED
  BY <1>1, <1>2, ProjectSteps

\* It holds in every reachable state, also of the deleted project.
LEMMA AlwaysProjectInv == ProjectSpec => []ProjectInv
BY ProjectInitInv, ProjectStep, PTL DEF ProjectSpec

-----------------------------------------------------------------------------
(* What is lost with a project, and what is not.                           *)

\* Type correctness, also of requests whose project is gone.
THEOREM ProjectTypeCorrect == ProjectSpec => []TypeOK
<1>1. ProjectInv => TypeOK
  BY DEF ProjectInv, StoreInv, ChunksInv, LocksInv, TypeOK
<1>2. QED
  BY <1>1, AlwaysProjectInv, PTL

\* Also when the cascade takes locks away, a 201 of an acquire that no other
\* request disturbed is the truth.
THEOREM ProjectGrantsHeld == ProjectSpec => []UndisturbedGrantIsHeld
<1>1. ProjectInv => UndisturbedGrantIsHeld
  BY DEF ProjectInv, LocksInv
<1>2. QED
  BY <1>1, AlwaysProjectInv, PTL

\* No request makes a commit of a deleted project visible again, or one that is
\* not finished: the foreign keys stop the refs, not a check of a handler.
THEOREM ProjectHistoryComplete ==
  ASSUME "parentSnapshot" \notin Swallowed
  PROVE  ProjectSpec => []PublishedSnapshotsComplete
<1>1. ProjectInv => PublishedSnapshotsComplete
  <2> SUFFICES ASSUME ProjectInv PROVE PublishedSnapshotsComplete
    OBVIOUS
  <2>1. CASE project = "live"
    BY <2>1, FinishedComplete DEF ProjectInv, HistoryInv
  <2>2. CASE NoHeads
    BY <2>2 DEF NoHeads, PublishedSnapshotsComplete
  <2>3. QED
    BY <2>1, <2>2 DEF ProjectInv
<1>2. QED
  BY <1>1, AlwaysProjectInv, PTL

-----------------------------------------------------------------------------
(* The locks of a push.                                                    *)

\* The inductive strengthening of LockedFilesKept: what the lock check has
\* found stays true all the way to the last store call.
PushLocks ==
  \A r \in Pushers : pushes[r].pc # "idle" =>
    \A p \in pushes[r].files :
      locks[p] \in {pushes[r].user, NoUser} \/ p \in taken[r]

LockHistoryInv == taken \in [Pushers -> SUBSET Paths] /\ PushLocks

\* A push keeps its user and its files until it ends, and begins with a lock
\* check that has found no lock of another user.
LEMMA PushRequestKept ==
  ASSUME "lockCheck" \notin Swallowed, StoreInv, [Next]_vars,
         NEW r \in Pushers, pushes'[r].pc # "idle"
  PROVE  \/ /\ pushes[r].pc # "idle"
            /\ pushes'[r].user = pushes[r].user
            /\ pushes'[r].files = pushes[r].files
         \/ /\ \A p \in pushes'[r].files : locks[p] \in {pushes'[r].user, NoUser}
            /\ UNCHANGED locks
<1> DEFINE Kept == /\ pushes[r].pc # "idle"
                   /\ pushes'[r].user = pushes[r].user
                   /\ pushes'[r].files = pushes[r].files
           Checked == /\ \A p \in pushes'[r].files :
                           locks[p] \in {pushes'[r].user, NoUser}
                      /\ UNCHANGED locks
<1>0. /\ pushes \in [Pushers -> PushRecord]
      /\ pushes' = pushes => Kept
  BY DEF StoreInv, PushTypeOK
<1>1. ASSUME NEW q \in Pushers, NEW u \in Users, NEW b \in PushRefs,
             NEW parent \in commits \cup {Nil}, NEW files \in SUBSET Paths,
             NEW manifest \in [Paths -> SUBSET Hashes],
             BeginPush(q, u, b, parent, files, manifest)
      PROVE  Kept \/ Checked
  <2>1. CASE q = r
    <3>1. pushes'[r].user = u /\ pushes'[r].files = files
      BY <1>0, <1>1, <2>1 DEF BeginPush, IdlePush
    <3>2. \A p \in files : locks[p] \in {u, NoUser}
      BY <1>1 DEF BeginPush, CheckPaths
    <3>3. QED
      BY <1>1, <3>1, <3>2 DEF BeginPush, lockVars
  <2>2. CASE q # r
    BY <1>0, <1>1, <2>2 DEF BeginPush
  <2>3. QED
    BY <2>1, <2>2
<1>2. ASSUME NEW q \in Pushers, PushStep(q) \/ AbortPush(q)
      PROVE  Kept
  <2>1. CASE q = r
    <3>1. CASE RejectPush(r) \/ AdvanceRef(r) \/ AbortPush(r)
      BY <1>0, <3>1, IdleTypes DEF RejectPush, AdvanceRef, AbortPush, EndPush
    <3>2. CASE CheckHead(r) \/ InsertPushCommit(r) \/ ReadParentSnapshot(r)
      BY <1>0, <3>2 DEF CheckHead, InsertPushCommit, ReadParentSnapshot, PushRecord
    <3>3. CASE WritePushSnapshot(r) \/ CountChunks(r)
      BY <1>0, <3>3 DEF WritePushSnapshot, CountChunks, PushRecord
    <3>4. ASSUME NEW p \in Paths, CreateVersion(r, p)
          PROVE  Kept
      BY <1>0, <3>4 DEF CreateVersion, PushRecord
    <3>5. QED
      BY <1>2, <2>1, <3>1, <3>2, <3>3, <3>4 DEF PushStep
  <2>2. CASE q # r
    BY <1>0, <1>2, <2>2 DEF PushStep, AbortPush, CheckHead, RejectPush,
       InsertPushCommit, ReadParentSnapshot, CreateVersion, WritePushSnapshot,
       CountChunks, AdvanceRef, EndPush
  <2>3. QED
    BY <2>1, <2>2
<1>3. QED
  BY <1>0, <1>1, <1>2, NextCases DEF pushVars

\* The inductive step.
LEMMA LockHistoryStep ==
  ASSUME "lockCheck" \notin Swallowed, ProjectInv, LockHistoryInv,
         [LockHistoryNext]_historyVars
  PROVE  LockHistoryInv'
<1>0. taken \in [Pushers -> SUBSET Paths] /\ [ProjectNext]_projectVars
  BY DEF LockHistoryInv, LockHistoryNext, historyVars
<1>1. CASE UNCHANGED historyVars
  BY <1>1 DEF LockHistoryInv, PushLocks, historyVars, projectVars, vars, pushVars,
     lockVars
<1>2. CASE LockHistoryNext
  <2>1. /\ \A r \in Pushers :
             taken'[r] = IF pushes'[r].pc = "idle"
                           THEN {} ELSE taken[r] \cup LockedNow(r)
        /\ \A r \in Pushers : LockedNow(r) \subseteq Paths
        /\ taken' \in [Pushers -> SUBSET Paths]
    <3>1. \A r \in Pushers : LockedNow(r) \subseteq Paths
      BY DEF LockedNow, ProjectInv, StoreInv, PushTypeOK, PushRecord
    <3>2. QED
      BY <1>0, <1>2, <3>1 DEF LockHistoryNext
  <2>2. ASSUME NEW r \in Pushers, pushes'[r].pc # "idle", NEW p \in pushes'[r].files
        PROVE  locks'[p] \in {pushes'[r].user, NoUser} \/ p \in taken'[r]
    <3>1. CASE DeleteProject
      <4>1. p \in Paths
        BY <3>1 DEF DeleteProject, pushVars, ProjectInv, StoreInv, PushTypeOK,
           PushRecord
      <4>2. QED
        BY <3>1, <4>1 DEF DeleteProject, DeleteRows
    <3>2. CASE [Next]_vars
      <4>1. CASE /\ \A f \in pushes'[r].files : locks[f] \in {pushes'[r].user, NoUser}
                 /\ UNCHANGED locks
        BY <4>1
      <4>2. CASE /\ pushes[r].pc # "idle"
                 /\ pushes'[r].user = pushes[r].user
                 /\ pushes'[r].files = pushes[r].files
        <5>1. /\ p \in pushes[r].files /\ p \in Paths
              /\ locks[p] \in {pushes[r].user, NoUser} \/ p \in taken[r]
          BY <4>2 DEF ProjectInv, StoreInv, PushTypeOK, PushRecord,
             LockHistoryInv, PushLocks
        <5>2. CASE locks[p] = NoUser
          BY <2>1, <2>2, <5>1, <5>2 DEF LockedNow
        <5>3. CASE locks[p] # NoUser
          <6>1. locks'[p] \in {locks[p], NoUser}
            BY <3>2, <5>1, <5>3, NextIsLocksNext, OwnersKept DEF ProjectInv, LocksInv
          <6>2. QED
            BY <2>1, <2>2, <4>2, <5>1, <5>3, <6>1
        <5>4. QED
          BY <5>2, <5>3
      <4>3. QED
        BY <2>2, <3>2, <4>1, <4>2, PushRequestKept DEF ProjectInv
    <3>3. QED
      BY <1>0, <3>1, <3>2, ProjectSteps
  <2>3. QED
    BY <2>1, <2>2 DEF LockHistoryInv, PushLocks
<1>3. QED
  BY <1>1, <1>2

\* For every number of concurrent pushes and lock requests, and wherever the
\* project is deleted: another user holds the lock of a file that a push has
\* committed only if that lock was acquired, on a free file, after the lock
\* check of the push.
THEOREM LocksEnforcedOnCommit ==
  ASSUME "lockCheck" \notin Swallowed
  PROVE  LockHistorySpec => LockedFilesKept
<1> DEFINE Kept ==
      \A r \in Pushers :
        pushes[r].pc = "advance" /\ pushes'[r].pc = "idle" /\ refs' # refs
          => \A p \in pushes[r].files :
               locks[p] \in {pushes[r].user, NoUser} \/ p \in taken[r]
<1>1. LockHistoryInit => ProjectInit /\ LockHistoryInv
  BY IdleTypes DEF LockHistoryInit, ProjectInit, Init, PushInit, LockHistoryInv,
     PushLocks
<1>2. [LockHistoryNext]_historyVars => [ProjectNext]_projectVars
  BY DEF LockHistoryNext, historyVars
<1>3. ProjectInv /\ LockHistoryInv /\ [LockHistoryNext]_historyVars => LockHistoryInv'
  BY LockHistoryStep
<1>4. LockHistoryInv => [Kept]_historyVars
  BY DEF LockHistoryInv, PushLocks
<1>5. QED
  BY <1>1, <1>2, <1>3, <1>4, AlwaysProjectInv, PTL
     DEF LockHistorySpec, ProjectSpec, LockedFilesKept

-----------------------------------------------------------------------------
(* Every request ends.                                                     *)

\* A step of CreateCommit lowers the rank of its push; a round over the files
\* takes one file off those that are left.
LEMMA PushLowers ==
  ASSUME IsFiniteSet(Paths), StoreInv, NEW r \in Pushers, PushStep(r) \/ AbortPush(r)
  PROVE  PushRank(pushes[r])' < PushRank(pushes[r])
<1> DEFINE q == pushes[r]
           left == q.files \ fileVersions[q.id]
<1>0. /\ q \in PushRecord /\ pushes \in [Pushers -> PushRecord]
      /\ q.pc \notin {"idle", "check"} => q.id \in CommitIds
      /\ fileVersions \in [CommitIds -> SUBSET Paths]
  BY DEF StoreInv, StoreTypeOK, PushTypeOK, PushReady
<1>1. /\ IsFiniteSet(q.files) /\ Cardinality(q.files) \in Nat
      /\ IsFiniteSet(left) /\ Cardinality(left) \in Nat
      /\ Cardinality(left) <= Cardinality(q.files)
  BY <1>0, FS_Subset, FS_CardinalityType DEF PushRecord
<1> HIDE DEF left
<1>2. /\ PushRank(q) \in Nat
      /\ q.pc # "idle" => PushRank(q) > 0
      /\ PushRank(IdlePush)' = 0
  BY <1>0, <1>1 DEF PushRank, PushRecord, PushPC, left, IdlePush
<1>3. CASE CheckHead(r)
  BY <1>0, <1>1, <1>3 DEF CheckHead, PushRank
<1>4. CASE InsertPushCommit(r)
  <2>1. /\ q.pc = "create" /\ pushes'[r].pc \in {"files", "parent"}
        /\ pushes'[r].files = q.files /\ pushes'[r].id = q.id
        /\ UNCHANGED fileVersions
    BY <1>0, <1>4 DEF InsertPushCommit
  <2>2. PushRank(q)' \in Nat /\ PushRank(q)' <= 4 + Cardinality(q.files)
    BY <1>1, <2>1 DEF PushRank, left
  <2>3. PushRank(q) = 5 + Cardinality(q.files)
    BY <2>1 DEF PushRank
  <2>4. QED
    BY <1>1, <1>2, <2>2, <2>3
<1>5. CASE ReadParentSnapshot(r)
  <2>1. /\ q.pc = "parent" /\ pushes'[r].pc = "files"
        /\ pushes'[r].files = q.files /\ pushes'[r].id = q.id
        /\ UNCHANGED fileVersions
    BY <1>0, <1>5 DEF ReadParentSnapshot, storeVars
  <2>2. PushRank(q)' = 3 + Cardinality(left)
    BY <2>1 DEF PushRank, left
  <2>3. QED
    BY <1>1, <2>1, <2>2 DEF PushRank
<1>6. ASSUME NEW p \in Paths, CreateVersion(r, p)
      PROVE  PushRank(q)' < PushRank(q)
  <2>1. /\ q.pc = "files" /\ pushes'[r].pc = "files"
        /\ pushes'[r].files = q.files /\ pushes'[r].id = q.id
        /\ p \in left
        /\ fileVersions'[q.id] = fileVersions[q.id] \cup {p}
    BY <1>0, <1>6 DEF CreateVersion, InsertFileVersion, left
  <2>2. q.files \ fileVersions'[q.id] = left \ {p}
    BY <2>1 DEF left
  <2>3. Cardinality(left \ {p}) = Cardinality(left) - 1
    BY <1>1, <2>1, FS_RemoveElement
  <2>4. /\ PushRank(q)' = 3 + Cardinality(left \ {p})
        /\ PushRank(q) = 3 + Cardinality(left)
    BY <2>1, <2>2 DEF PushRank, left
  <2>5. QED
    BY <1>1, <2>3, <2>4
<1>7. CASE WritePushSnapshot(r)
  <2>1. q.pc = "files" /\ pushes'[r].pc \in {"count", "advance"}
    BY <1>0, <1>7 DEF WritePushSnapshot
  <2>2. PushRank(q)' \in {1, 2} /\ PushRank(q) = 3 + Cardinality(left)
    BY <2>1 DEF PushRank, left
  <2>3. QED
    BY <1>1, <2>2
<1>8. CASE CountChunks(r)
  <2>1. q.pc = "count" /\ pushes'[r].pc = "advance"
    BY <1>0, <1>8 DEF CountChunks
  <2>2. QED
    BY <2>1 DEF PushRank
<1>9. CASE RejectPush(r) \/ AdvanceRef(r) \/ AbortPush(r)
  <2>1. q.pc # "idle" /\ pushes'[r] = IdlePush
    BY <1>0, <1>9 DEF RejectPush, AdvanceRef, AbortPush, EndPush
  <2>2. PushRank(q)' = PushRank(IdlePush)'
    BY <2>1 DEF PushRank
  <2>3. QED
    BY <1>2, <2>1, <2>2
<1>10. QED
  BY <1>3, <1>4, <1>5, <1>6, <1>7, <1>8, <1>9 DEF PushStep

\* Every step of Execute lowers the rank of its merge.
LEMMA MergeLowers ==
  ASSUME StoreInv, NEW r \in Mergers, MergeStep(r) \/ AbortMerge(r)
  PROVE  MergeRank(merges[r])' < MergeRank(merges[r])
<1> DEFINE m == merges[r]
<1>0. /\ m.pc \in MergePC /\ m \in MergeRecord
      /\ merges \in [Mergers -> MergeRecord]
  BY DEF StoreInv, MergeTypeOK, MergeRecord
<1>1. CASE EndMerge(r) /\ m.pc # "idle"
  <2>1. merges'[r].pc = "idle"
    BY <1>0, <1>1, IdleTypes DEF EndMerge
  <2>2. QED
    BY <1>0, <1>1, <2>1 DEF MergeRank, MergePC
<1>2. CASE AnalyzeMerge(r)
  <2>1. m.pc = "target"
    BY <1>2 DEF AnalyzeMerge
  <2>2. CASE \E base \in AnalysisBase(m.s1, refs[m.target]) :
               merges' = [merges EXCEPT ![r].pc = "source2",
                            ![r].t1 = refs[m.target], ![r].base = base]
    <3>1. merges'[r].pc = "source2"
      BY <1>0, <2>2
    <3>2. QED
      BY <2>1, <3>1 DEF MergeRank
  <2>3. QED
    BY <1>1, <1>2, <2>1, <2>2 DEF AnalyzeMerge
<1>3. CASE RereadSource(r)
  <2>1. m.pc = "source2" /\ merges'[r].pc = "target2"
    BY <1>0, <1>3 DEF RereadSource
  <2>2. QED
    BY <2>1 DEF MergeRank
<1>4. CASE RereadTarget(r)
  <2>1. m.pc = "target2" /\ merges'[r].pc \in {"fastForward", "resolve"}
    BY <1>0, <1>4 DEF RereadTarget
  <2>2. QED
    BY <2>1 DEF MergeRank
<1>5. CASE ResolveMerge(r)
  <2>1. merges'[r].pc = "create"
    BY <1>0, <1>5 DEF ResolveMerge
  <2>2. QED
    BY <1>5, <2>1 DEF ResolveMerge, MergeRank
<1>6. CASE InsertMergeCommit(r)
  <2>1. merges'[r].pc = "snapshot"
    BY <1>0, <1>6 DEF InsertMergeCommit
  <2>2. QED
    BY <1>6, <2>1 DEF InsertMergeCommit, MergeRank
<1>7. CASE WriteMergeSnapshot(r)
  <2>1. CASE merges' = [merges EXCEPT ![r].pc = "advance"]
    <3>1. merges'[r].pc = "advance"
      BY <1>0, <2>1
    <3>2. QED
      BY <1>7, <3>1 DEF WriteMergeSnapshot, MergeRank
  <2>2. QED
    BY <1>1, <1>7, <2>1 DEF WriteMergeSnapshot
<1>8. CASE \/ PanicMerge(r) \/ FastForward(r) \/ RejectMerge(r)
           \/ AdvanceTarget(r) \/ AbortMerge(r)
  BY <1>1, <1>8 DEF PanicMerge, FastForward, RejectMerge, AdvanceTarget, AbortMerge
<1>9. QED
  BY <1>2, <1>3, <1>4, <1>5, <1>6, <1>7, <1>8 DEF MergeStep

\* So does every step of CreateBranch.
LEMMA CreateLowers ==
  ASSUME StoreInv, NEW r \in Branchers, CreateStep(r) \/ AbortCreateBranch(r)
  PROVE  CreateRank(creates[r])' < CreateRank(creates[r])
<1>0. /\ creates[r].pc \in {"idle", "exists", "create"}
      /\ creates \in [Branchers -> CreateRecord] /\ creates[r] \in CreateRecord
  BY DEF StoreInv, MergeTypeOK, CreateRecord
<1>1. CASE EndCreate(r) /\ creates[r].pc # "idle"
  <2>1. creates'[r].pc = "idle"
    BY <1>0, <1>1, IdleTypes DEF EndCreate
  <2>2. QED
    BY <1>0, <1>1, <2>1 DEF CreateRank
<1>2. CASE CheckBranchExists(r)
  <2>1. creates[r].pc = "exists"
    BY <1>2 DEF CheckBranchExists
  <2>2. CASE creates' = [creates EXCEPT ![r].pc = "create", ![r].found = Nil]
    <3>1. creates'[r].pc = "create"
      BY <1>0, <2>2
    <3>2. QED
      BY <2>1, <3>1 DEF CreateRank
  <2>3. QED
    BY <1>1, <1>2, <2>1, <2>2 DEF CheckBranchExists
<1>3. CASE CreateBranchRef(r) \/ AbortCreateBranch(r)
  BY <1>1, <1>3 DEF CreateBranchRef, AbortCreateBranch
<1>4. QED
  BY <1>2, <1>3 DEF CreateStep

\* And every step of LockService.Acquire.
LEMMA AcquireLowers ==
  ASSUME LocksTypeOK, NEW r \in Lockers, AcquireStep(r) \/ AbortAcquire(r)
  PROVE  AcquireRank(acquires[r])' < AcquireRank(acquires[r])
<1>0. /\ acquires[r].pc \in AcquirePC
      /\ acquires \in [Lockers -> [pc : AcquirePC, user : Users \cup {NoUser},
                                   path : Paths \cup {NoPath}]]
  BY DEF LocksTypeOK
<1>1. CASE EndAcquire(r) /\ acquires[r].pc # "idle"
  <2>1. acquires'[r].pc = "idle"
    BY <1>0, <1>1 DEF EndAcquire, IdleAcquire
  <2>2. QED
    BY <1>0, <1>1, <2>1 DEF AcquireRank, AcquirePC
<1>2. CASE LookupAgain(r)
  <2>1. CASE ~ EndAcquire(r)
    <3>1. acquires[r].pc = "lookup" /\ acquires'[r].pc \in {"answer", "insert"}
      BY <1>0, <1>2, <2>1 DEF LookupAgain
    <3>2. QED
      BY <3>1 DEF AcquireRank
  <2>2. QED
    BY <1>1, <1>2, <2>1 DEF LookupAgain
<1>3. CASE InsertLock(r)
  <2>1. acquires[r].pc = "insert" /\ acquires'[r].pc = "answer"
    BY <1>0, <1>3 DEF InsertLock
  <2>2. QED
    BY <2>1 DEF AcquireRank
<1>4. CASE AnswerAcquire(r) \/ AbortAcquire(r)
  BY <1>1, <1>4 DEF AnswerAcquire, AbortAcquire
<1>5. QED
  BY <1>2, <1>3, <1>4 DEF AcquireStep

\* A step of one push is no step of another one, and writes no version of its
\* commit: in a live project ids are handed out once, and in a deleted one no
\* version is written at all.
LEMMA OtherPushKept ==
  ASSUME ProjectInv, ForeignKeys, NEW q \in Pushers, NEW r \in Pushers, q # r,
         PushStep(q) \/ AbortPush(q), pushes[r].pc # "idle"
  PROVE  /\ pushes'[r] = pushes[r]
         /\ pushes[r].pc = "files"
              => fileVersions'[pushes[r].id] = fileVersions[pushes[r].id]
<1>0. /\ pushes \in [Pushers -> PushRecord]
      /\ fileVersions \in [CommitIds -> SUBSET Paths]
      /\ \A p \in Pushers : pushes[p].pc \notin {"idle", "check"}
                              => pushes[p].id \in CommitIds
  BY DEF ProjectInv, StoreInv, StoreTypeOK, PushTypeOK, PushReady
<1>1. pushes'[r] = pushes[r]
  BY <1>0 DEF PushStep, AbortPush, CheckHead, RejectPush, InsertPushCommit,
     ReadParentSnapshot, CreateVersion, WritePushSnapshot, CountChunks, AdvanceRef,
     EndPush
<1>2. UNCHANGED fileVersions \/ \E p \in Paths : CreateVersion(q, p)
  BY DEF PushStep, AbortPush, CheckHead, RejectPush, InsertPushCommit,
     ReadParentSnapshot, WritePushSnapshot, CountChunks, AdvanceRef, storeVars
<1>3. ASSUME NEW p \in Paths, CreateVersion(q, p), pushes[r].pc = "files"
      PROVE  fileVersions'[pushes[r].id] = fileVersions[pushes[r].id]
  <2>1. pushes[q].id \in CommitIds /\ pushes[r].id \in CommitIds
    BY <1>0, <1>3 DEF CreateVersion
  <2>2. CASE project = "live"
    <3>1. pushes[q].id # pushes[r].id
      BY <2>1, <2>2, IdSets DEF ProjectInv, IdsUnique
    <3>2. QED
      BY <1>0, <1>3, <2>1, <3>1 DEF CreateVersion, InsertFileVersion
  <2>3. CASE project = "deleted"
    BY <2>3 DEF ForeignKeys, projectTables
  <2>4. QED
    BY <2>2, <2>3 DEF ProjectInv
<1>4. QED
  BY <1>1, <1>2, <1>3

\* What a step means for a push that is in flight.
LEMMA PushAdvances ==
  ASSUME IsFiniteSet(Paths), ProjectInv, [ProjectNext]_projectVars,
         NEW r \in Pushers, pushes[r].pc # "idle"
  PROVE  \/ PushRank(pushes[r])' < PushRank(pushes[r])
         \/ /\ pushes'[r] = pushes[r]
            /\ project' = project => PushRank(pushes[r])' = PushRank(pushes[r])
<1>0. StoreInv /\ pushes \in [Pushers -> PushRecord]
  BY DEF ProjectInv, StoreInv, PushTypeOK
<1>1. CASE /\ pushes'[r] = pushes[r]
           /\ pushes[r].pc = "files"
                => fileVersions'[pushes[r].id] = fileVersions[pushes[r].id]
  BY <1>1 DEF PushRank
<1>2. CASE DeleteProject
  BY <1>2 DEF DeleteProject, pushVars
<1>3. CASE [Next]_vars /\ ForeignKeys
  <2>1. CASE UNCHANGED <<pushes, fileVersions>>
    BY <1>1, <2>1
  <2>2. ASSUME NEW q \in Pushers, NEW u \in Users, NEW b \in PushRefs,
               NEW parent \in commits \cup {Nil}, NEW files \in SUBSET Paths,
               NEW manifest \in [Paths -> SUBSET Hashes],
               BeginPush(q, u, b, parent, files, manifest)
        PROVE  pushes'[r] = pushes[r] /\ UNCHANGED fileVersions
    BY <1>0, <2>2 DEF BeginPush, storeVars
  <2>3. CASE \E q \in Pushers, u \in Users, b \in PushRefs,
                parent \in commits \cup {Nil}, files \in SUBSET Paths,
                manifest \in [Paths -> SUBSET Hashes] :
               BeginPush(q, u, b, parent, files, manifest) /\ UNCHANGED mergeVars
    BY <1>1, <2>2, <2>3
  <2>4. ASSUME NEW q \in Pushers, PushStep(q) \/ AbortPush(q)
        PROVE  \/ PushRank(pushes[r])' < PushRank(pushes[r])
               \/ /\ pushes'[r] = pushes[r]
                  /\ PushRank(pushes[r])' = PushRank(pushes[r])
    <3>1. CASE q = r
      BY <1>0, <2>4, <3>1, PushLowers
    <3>2. CASE q # r
      <4>1. /\ pushes'[r] = pushes[r]
            /\ pushes[r].pc = "files"
                 => fileVersions'[pushes[r].id] = fileVersions[pushes[r].id]
        BY <1>3, <2>4, <3>2, OtherPushKept
      <4>2. QED
        BY <4>1 DEF PushRank
    <3>3. QED
      BY <3>1, <3>2
  <2>5. ASSUME NEW q, MergeStep(q) \/ AbortMerge(q)
        PROVE  UNCHANGED fileVersions
    BY <2>5 DEF MergeStep, AbortMerge, PanicMerge, AnalyzeMerge, RereadSource, RereadTarget,
       FastForward, ResolveMerge, RejectMerge, InsertMergeCommit,
       WriteMergeSnapshot, AdvanceTarget, storeVars
  <2>6. ASSUME NEW q, CreateStep(q) \/ AbortCreateBranch(q)
        PROVE  UNCHANGED fileVersions
    BY <2>6 DEF CreateStep, CheckBranchExists, CreateBranchRef, AbortCreateBranch,
       storeVars
  <2>7. ASSUME NEW q, NEW a, NEW b, BeginMerge(q, a, b) \/ BeginCreateBranch(q, a, b)
        PROVE  UNCHANGED fileVersions
    BY <2>7 DEF BeginMerge, BeginCreateBranch, storeVars
  <2>8. UNCHANGED <<storeVars, pushVars>> => UNCHANGED <<pushes, fileVersions>>
    BY DEF storeVars, pushVars
  <2>9. UNCHANGED pushVars => UNCHANGED pushes
    BY DEF pushVars
  <2>10. QED
    BY <1>3, <2>1, <2>3, <2>4, <2>5, <2>6, <2>7, <2>8, <2>9, NextCases
<1>4. QED
  BY <1>2, <1>3, ProjectSteps

\* For a merge and for a branch creation.
LEMMA MergeAdvances ==
  ASSUME ProjectInv, [ProjectNext]_projectVars,
         NEW r \in Mergers, merges[r].pc # "idle"
  PROVE  \/ MergeRank(merges[r])' < MergeRank(merges[r])
         \/ merges'[r] = merges[r]
<1>0. StoreInv /\ merges \in [Mergers -> MergeRecord]
  BY DEF ProjectInv, StoreInv, MergeTypeOK
<1>1. CASE DeleteProject \/ UNCHANGED mergeVars
  BY <1>1 DEF DeleteProject, mergeVars
<1>2. ASSUME NEW q \in Mergers, NEW source, NEW target, BeginMerge(q, source, target)
      PROVE  merges'[r] = merges[r]
  BY <1>0, <1>2 DEF BeginMerge
<1>3. ASSUME NEW q \in Mergers, MergeStep(q) \/ AbortMerge(q)
      PROVE  \/ MergeRank(merges[r])' < MergeRank(merges[r])
             \/ merges'[r] = merges[r]
  <2>1. CASE q = r
    BY <1>0, <1>3, <2>1, MergeLowers
  <2>2. CASE q # r
    BY <1>0, <1>3, <2>2 DEF MergeStep, AbortMerge, PanicMerge, AnalyzeMerge, RereadSource,
       RereadTarget, FastForward, ResolveMerge, RejectMerge, InsertMergeCommit,
       WriteMergeSnapshot, AdvanceTarget, EndMerge
  <2>3. QED
    BY <2>1, <2>2
<1>4. ASSUME NEW q, NEW a, NEW b,
             CreateStep(q) \/ AbortCreateBranch(q) \/ BeginCreateBranch(q, a, b)
      PROVE  UNCHANGED merges
  BY <1>4 DEF CreateStep, CheckBranchExists, CreateBranchRef, AbortCreateBranch,
     BeginCreateBranch
<1>5. [Next]_vars => \/ UNCHANGED mergeVars
                     \/ \E q \in Mergers, source, target \in Branches :
                          BeginMerge(q, source, target)
                     \/ \E q \in Mergers : MergeStep(q) \/ AbortMerge(q)
                     \/ UNCHANGED merges
  BY <1>4, NextCases DEF mergeVars
<1>6. QED
  BY <1>1, <1>2, <1>3, <1>5, ProjectSteps

LEMMA CreateAdvances ==
  ASSUME ProjectInv, [ProjectNext]_projectVars,
         NEW r \in Branchers, creates[r].pc # "idle"
  PROVE  \/ CreateRank(creates[r])' < CreateRank(creates[r])
         \/ creates'[r] = creates[r]
<1>0. StoreInv /\ creates \in [Branchers -> CreateRecord]
  BY DEF ProjectInv, StoreInv, MergeTypeOK
<1>1. CASE DeleteProject \/ UNCHANGED mergeVars
  BY <1>1 DEF DeleteProject, mergeVars
<1>2. ASSUME NEW q \in Branchers, NEW name, NEW fromRef,
             BeginCreateBranch(q, name, fromRef)
      PROVE  creates'[r] = creates[r]
  BY <1>0, <1>2 DEF BeginCreateBranch
<1>3. ASSUME NEW q \in Branchers, CreateStep(q) \/ AbortCreateBranch(q)
      PROVE  \/ CreateRank(creates[r])' < CreateRank(creates[r])
             \/ creates'[r] = creates[r]
  <2>1. CASE q = r
    BY <1>0, <1>3, <2>1, CreateLowers
  <2>2. CASE q # r
    BY <1>0, <1>3, <2>2 DEF CreateStep, CheckBranchExists, CreateBranchRef,
       AbortCreateBranch, EndCreate
  <2>3. QED
    BY <2>1, <2>2
<1>4. ASSUME NEW q, NEW a, NEW b, MergeStep(q) \/ AbortMerge(q) \/ BeginMerge(q, a, b)
      PROVE  UNCHANGED creates
  BY <1>4 DEF MergeStep, AbortMerge, PanicMerge, AnalyzeMerge, RereadSource, RereadTarget,
     FastForward, ResolveMerge, RejectMerge, InsertMergeCommit,
     WriteMergeSnapshot, AdvanceTarget, BeginMerge
<1>5. [Next]_vars => \/ UNCHANGED mergeVars
                     \/ \E q \in Branchers, name, fromRef \in Branches :
                          BeginCreateBranch(q, name, fromRef)
                     \/ \E q \in Branchers : CreateStep(q) \/ AbortCreateBranch(q)
                     \/ UNCHANGED creates
  BY <1>4, NextCases DEF mergeVars
<1>6. QED
  BY <1>1, <1>2, <1>3, <1>5, ProjectSteps

\* And for the acquisition of a lock.
LEMMA AcquireAdvances ==
  ASSUME ProjectInv, [ProjectNext]_projectVars,
         NEW r \in Lockers, acquires[r].pc # "idle"
  PROVE  \/ AcquireRank(acquires[r])' < AcquireRank(acquires[r])
         \/ acquires'[r] = acquires[r]
<1>0. /\ LocksTypeOK
      /\ acquires \in [Lockers -> [pc : AcquirePC, user : Users \cup {NoUser},
                                   path : Paths \cup {NoPath}]]
  BY DEF ProjectInv, LocksInv, LocksTypeOK
<1>1. CASE DeleteProject \/ UNCHANGED lockVars
  BY <1>1 DEF DeleteProject, lockVars
<1>2. ASSUME NEW q \in Lockers, NEW u, NEW p, BeginAcquire(q, u, p)
      PROVE  acquires'[r] = acquires[r]
  BY <1>0, <1>2 DEF BeginAcquire
<1>3. ASSUME NEW q \in Lockers, AcquireStep(q) \/ AbortAcquire(q)
      PROVE  \/ AcquireRank(acquires[r])' < AcquireRank(acquires[r])
             \/ acquires'[r] = acquires[r]
  <2>1. CASE q = r
    BY <1>0, <1>3, <2>1, AcquireLowers
  <2>2. CASE q # r
    BY <1>0, <1>3, <2>2 DEF AcquireStep, AbortAcquire, LookupAgain, InsertLock,
       AnswerAcquire, EndAcquire
  <2>3. QED
    BY <2>1, <2>2
<1>4. CASE LocksNext
  BY <1>2, <1>3, <1>4 DEF LocksNext, Release, ForceRelease, DeleteLock
<1>5. QED
  BY <1>1, <1>4, ProjectSteps, NextIsLocksNext

\* No request goes back or round in circles, whatever the others do and wherever
\* the project is deleted under it: from any state a request can take only
\* finitely many steps of its own.
THEOREM RequestsAlwaysAdvance ==
  ASSUME IsFiniteSet(Paths)
  PROVE  ProjectSpec => RequestsAdvance
<1> DEFINE Advance ==
      /\ \A r \in Pushers : pushes[r].pc # "idle" =>
           \/ PushRank(pushes[r])' < PushRank(pushes[r])
           \/ /\ pushes'[r] = pushes[r]
              /\ project' = project
                   => PushRank(pushes[r])' = PushRank(pushes[r])
      /\ \A r \in Mergers : merges[r].pc # "idle" =>
           \/ MergeRank(merges[r])' < MergeRank(merges[r])
           \/ merges'[r] = merges[r]
      /\ \A r \in Branchers : creates[r].pc # "idle" =>
           \/ CreateRank(creates[r])' < CreateRank(creates[r])
           \/ creates'[r] = creates[r]
      /\ \A r \in Lockers : acquires[r].pc # "idle" =>
           \/ AcquireRank(acquires[r])' < AcquireRank(acquires[r])
           \/ acquires'[r] = acquires[r]
<1>1. ProjectInv /\ [ProjectNext]_projectVars => [Advance]_projectVars
  BY PushAdvances, MergeAdvances, CreateAdvances, AcquireAdvances
<1>2. QED
  BY <1>1, AlwaysProjectInv, PTL DEF ProjectSpec, RequestsAdvance

=============================================================================
