---------------------------- MODULE MergeProofs ----------------------------
(***************************************************************************)
(* What the merges of the server compute, for any history that pushes,     *)
(* merges and branch creations can produce.                                *)
(***************************************************************************)
EXTENDS StrataProofs

-----------------------------------------------------------------------------
(* The snapshot that Execute builds.                                       *)

\* The snapshot of a merge is what the classification of the analysed heads
\* and accepted resolutions make of the target head read again.
MergeBuilt(m) ==
  HasMerged(m) => \E res \in ResolutionsOf(m) : m.merged = MergedFrom(m, res)

MergesBuilt == \A r \in Mergers : MergeBuilt(merges[r])

\* Execute takes every version from a commit that it has read; a merge that
\* does not move keeps what it took, because those commits are finished.
LEMMA BuiltKept ==
  ASSUME StoreInv, MergesBuilt, NEW G \in SUBSET commits, Finished(G),
         [Next]_vars, NEW q \in Mergers
  PROVE  MergeBuilt(merges[q])'
<1> DEFINE m == merges[q]
<1>1. /\ merges \in [Mergers -> MergeRecord] /\ m \in MergeRecord
      /\ MergeBuilt(m) /\ MergePrepared(m, G)
      /\ commitFiles \in [CommitIds -> Snapshot]
  BY DEF StoreInv, StoreTypeOK, MergeTypeOK, MergesBuilt, Finished
<1>2. HasMerged(m) => \A a \in {m.base, m.s1, m.t1, m.t2} :
                        commitFiles'[a] = commitFiles[a]
  <2>1. HasMerged(m) => {m.base, m.s1, m.t1, m.t2} \subseteq G
    BY <1>1 DEF HasMerged, HeadsRead, MergePrepared
  <2>2. QED
    BY <2>1, StepWrites DEF RowsKept
<1>3. CASE /\ HasMerged(merges'[q]) => HasMerged(m)
           /\ merges'[q].base = m.base /\ merges'[q].s1 = m.s1
           /\ merges'[q].t1 = m.t1 /\ merges'[q].t2 = m.t2
           /\ merges'[q].merged = m.merged
  <2> SUFFICES ASSUME HasMerged(m)
               PROVE  \E res \in ResolutionsOf(merges[q])' :
                        merges'[q].merged = MergedFrom(merges[q], res)'
    BY <1>3 DEF MergeBuilt, HasMerged
  <2>1. PICK res \in ResolutionsOf(m) : m.merged = MergedFrom(m, res)
    BY <1>1 DEF MergeBuilt
  <2>2. /\ ResolutionsOf(merges[q])' = ResolutionsOf(m)
        /\ MergedFrom(merges[q], res)' = MergedFrom(m, res)
    BY <1>2, <1>3 DEF ResolutionsOf, MergedFrom
  <2>3. QED
    BY <1>3, <2>1, <2>2
<1>4. CASE ~ HasMerged(merges'[q])
  BY <1>4 DEF MergeBuilt, HasMerged
<1>5. ASSUME NEW r \in Mergers, NEW source \in Branches, NEW target \in Branches,
             BeginMerge(r, source, target)
      PROVE  MergeBuilt(merges[q])'
  <2>1. q = r => ~ HasMerged(merges'[q])
    BY <1>1, <1>5 DEF BeginMerge, IdleMerge, HasMerged
  <2>2. q # r => merges'[q] = m
    BY <1>1, <1>5 DEF BeginMerge
  <2>3. QED
    BY <1>3, <1>4, <2>1, <2>2
<1>6. ASSUME NEW r \in Mergers, MergeStep(r) \/ AbortMerge(r)
      PROVE  MergeBuilt(merges[q])'
  <2>1. CASE q # r
    <3>1. merges'[q] = m
      BY <1>1, <1>6, <2>1
         DEF MergeStep, AbortMerge, PanicMerge, AnalyzeMerge, RereadSource, RereadTarget,
             FastForward, ResolveMerge, RejectMerge, InsertMergeCommit,
             WriteMergeSnapshot, AdvanceTarget, EndMerge
    <3>2. QED
      BY <1>3, <3>1
  <2>2. CASE q = r /\ EndMerge(r)
    BY <1>1, <1>4, <2>2, IdleTypes DEF EndMerge, HasMerged
  <2>3. CASE q = r /\ ((AnalyzeMerge(r) /\ ~ EndMerge(r))
                         \/ RereadSource(r) \/ RereadTarget(r))
    BY <1>1, <1>4, <2>3 DEF AnalyzeMerge, RereadSource, RereadTarget, MergeRecord,
       HasMerged
  <2>4. CASE q = r /\ (InsertMergeCommit(r)
                         \/ (WriteMergeSnapshot(r) /\ ~ EndMerge(r)))
    BY <1>1, <1>3, <2>4 DEF InsertMergeCommit, WriteMergeSnapshot, MergeRecord,
       HasMerged
  <2>5. CASE q = r /\ ResolveMerge(r)
    <3>1. PICK res \in ResolutionsOf(m) :
            merges' = [merges EXCEPT ![r].pc = "create", ![r].id = lastID + 1,
                                     ![r].merged = MergedFrom(m, res)]
      BY <2>5 DEF ResolveMerge
    <3>2. /\ merges'[q].base = m.base /\ merges'[q].s1 = m.s1
          /\ merges'[q].t1 = m.t1 /\ merges'[q].t2 = m.t2
          /\ merges'[q].merged = MergedFrom(m, res)
          /\ UNCHANGED commitFiles
      BY <1>1, <2>5, <3>1 DEF ResolveMerge, MergeRecord
    <3>3. /\ ResolutionsOf(merges[q])' = ResolutionsOf(m)
          /\ MergedFrom(merges[q], res)' = MergedFrom(m, res)
      BY <3>2 DEF ResolutionsOf, MergedFrom
    <3>4. QED
      BY <3>2, <3>3 DEF MergeBuilt
  <2>6. QED
    BY <1>6, <2>1, <2>2, <2>3, <2>4, <2>5
       DEF MergeStep, AbortMerge, AnalyzeMerge, PanicMerge, FastForward,
           RejectMerge, WriteMergeSnapshot, AdvanceTarget
<1>7. CASE UNCHANGED merges
  BY <1>3, <1>7
<1>8. QED
  BY <1>5, <1>6, <1>7, NextCases DEF mergeVars, BeginCreateBranch, CreateStep,
     CheckBranchExists, CreateBranchRef, AbortCreateBranch


\* The same for all merges.
LEMMA BuiltStep ==
  ASSUME StoreInv, HistoryInv, MergesBuilt, [Next]_vars
  PROVE  MergesBuilt'
<1>1. PICK G \in SUBSET commits : Finished(G)
  BY DEF HistoryInv
<1>2. QED
  BY <1>1, BuiltKept DEF MergesBuilt

\* Over a source that keeps the files of the base, the classification and the
\* resolutions are the three-way merge.
LEMMA BuiltIsThreeWay ==
  ASSUME NEW m, HasMerged(m), MergeBuilt(m), m.t1 = m.t2,
         KeepsFiles(commitFiles[m.base], commitFiles[m.s1])
  PROVE  MergesThreeWay(m, m.base, m.s1, m.t1)
<1>1. PICK res \in ResolutionsOf(m) : m.merged = MergedFrom(m, res)
  BY DEF MergeBuilt
<1>2. MergedFrom(m, res) = ThreeWay(commitFiles[m.base], commitFiles[m.s1],
                                    commitFiles[m.t1], res)
  BY DEF MergedFrom, MergedSnapshot, ThreeWay, KeepsFiles, Conflicts, SourceOnly
<1>3. QED
  BY <1>1, <1>2 DEF MergesThreeWay, ResolutionsOf

\* Every merge builds its snapshot out of the commits that it has read.
LEMMA AlwaysBuilt == Spec => []MergesBuilt
<1>1. Init => MergesBuilt
  BY IdleTypes DEF Init, MergeInit, MergesBuilt, MergeBuilt, HasMerged
<1>2. StoreInv /\ HistoryInv /\ MergesBuilt /\ [Next]_vars => MergesBuilt'
  BY BuiltStep
<1>3. TypeInv => StoreInv
  BY DEF TypeInv
<1>4. QED
  BY <1>1, <1>2, <1>3, AlwaysFinished, AlwaysTypeInv, PTL DEF Spec

\* A merge whose branches did not move between Analyze and Execute is the
\* three-way merge of their heads, in every history.
THEOREM MergesAreThreeWay == Spec => []MergeIsThreeWay
<1>1. MergesBuilt => MergeIsThreeWay
  BY BuiltIsThreeWay DEF MergesBuilt, MergeIsThreeWay
<1>2. QED
  BY <1>1, AlwaysBuilt, PTL

-----------------------------------------------------------------------------
(* created_at orders a history.                                            *)

\* A commit takes its created_at, its id, after its parents have taken theirs.
PushOrdered(q) ==
  /\ q.parent \in commits \cup {Nil}
  /\ q.pc \notin {"idle", "check"} => q.parent < q.id

MergeOrdered(m) == HasMerged(m) => m.s2 < m.id /\ m.t2 < m.id

TimesOrdered ==
  /\ \A c \in commits : parentID[c] < c /\ sourceID[c] < c
  /\ \A r \in Pushers : PushOrdered(pushes[r])
  /\ \A r \in Mergers : MergeOrdered(merges[r])

\* A push is ordered behind the parent that it was accepted with.
LEMMA PushStepOrdered ==
  ASSUME StoreInv, IdsUnique, TimesOrdered, NEW r \in Pushers,
         PushStep(r) \/ AbortPush(r), UNCHANGED mergeVars
  PROVE  TimesOrdered'
<1> DEFINE q == pushes[r]
<1>1. /\ pushes \in [Pushers -> PushRecord] /\ q \in PushRecord
      /\ parentID \in [CommitIds -> Versions] /\ sourceID \in [CommitIds -> Versions]
      /\ Versions \subseteq Nat /\ \A c \in CommitIds : c \in Nat /\ 0 < c
      /\ commits \subseteq CommitIds /\ lastID \in Nat
      /\ PushOrdered(q)
      /\ q.pc \notin {"idle", "check"} => q.id \in CommitIds
  BY MaxCommitsAssumption DEF StoreInv, StoreTypeOK, PushTypeOK, PushReady,
     TimesOrdered, Versions, CommitIds
<1>2. /\ commits \subseteq commits'
      /\ \A p \in Pushers \ {r} : pushes'[p] = pushes[p]
  BY <1>1 DEF PushStep, AbortPush, CheckHead, RejectPush, InsertPushCommit,
     CreateCommit, ReadParentSnapshot, CreateVersion, WritePushSnapshot, CountChunks,
     AdvanceRef, EndPush, storeVars
<1>3. ASSUME UNCHANGED <<commits, parentID, sourceID>>, PushOrdered(pushes[r])'
      PROVE  TimesOrdered'
  BY <1>2, <1>3 DEF TimesOrdered, PushOrdered, MergeOrdered, mergeVars, HasMerged
<1>4. CASE EndPush(r) /\ UNCHANGED <<commits, parentID, sourceID>>
  <2>1. pushes'[r] = IdlePush
    BY <1>1, <1>4 DEF EndPush
  <2>2. PushOrdered(pushes[r])'
    BY <2>1 DEF PushOrdered, IdlePush
  <2>3. QED
    BY <1>3, <1>4, <2>2
<1>5. CASE CheckHead(r)
  <2>1. /\ pushes'[r].parent = q.parent /\ pushes'[r].id = lastID + 1
        /\ UNCHANGED <<commits, parentID, sourceID>>
    BY <1>1, <1>5 DEF CheckHead, PushRecord
  <2>2. q.parent \in Nat /\ q.parent < lastID + 1
    <3>1. \A c \in commits : c <= lastID
      BY DEF IdsUnique
    <3>2. q.parent = 0 \/ q.parent \in commits
      BY <1>1 DEF PushOrdered, Nil
    <3>3. QED
      BY <1>1, <3>1, <3>2
  <2>3. PushOrdered(pushes[r])'
    BY <1>1, <2>1, <2>2 DEF PushOrdered
  <2>4. QED
    BY <1>3, <2>1, <2>3
<1>6. CASE InsertPushCommit(r)
  <2>1. /\ pushes'[r].parent = q.parent /\ pushes'[r].id = q.id
        /\ q.id \in CommitIds /\ q.parent < q.id
        /\ commits' = commits \cup {q.id}
        /\ parentID' = [parentID EXCEPT ![q.id] = q.parent]
        /\ sourceID' = [sourceID EXCEPT ![q.id] = Nil]
    BY <1>1, <1>6 DEF InsertPushCommit, CreateCommit, PushRecord, PushOrdered
  <2>2. \A c \in commits' : parentID'[c] < c /\ sourceID'[c] < c
    <3>1. Nil < q.id
      BY <1>1, <2>1 DEF Nil
    <3>2. \A c \in commits : parentID[c] < c /\ sourceID[c] < c
      BY DEF TimesOrdered
    <3>3. \A c \in commits' : c = q.id \/ c \in commits
      BY <2>1
    <3>4. QED
      BY <1>1, <2>1, <3>1, <3>2, <3>3
  <2>3. PushOrdered(pushes[r])'
    BY <1>1, <2>1 DEF PushOrdered
  <2>4. QED
    BY <1>2, <2>2, <2>3 DEF TimesOrdered, PushOrdered, MergeOrdered, mergeVars,
       HasMerged
<1>7. CASE \/ ReadParentSnapshot(r) \/ \E p \in Paths : CreateVersion(r, p)
           \/ WritePushSnapshot(r) \/ CountChunks(r)
  <2>1. /\ pushes'[r].parent = q.parent /\ pushes'[r].id = q.id
        /\ q.pc \notin {"idle", "check"}
        /\ UNCHANGED <<commits, parentID, sourceID>>
    BY <1>1, <1>7 DEF ReadParentSnapshot, CreateVersion, WritePushSnapshot,
       CountChunks, PushRecord, storeVars
  <2>2. PushOrdered(pushes[r])'
    BY <1>1, <2>1 DEF PushOrdered
  <2>3. QED
    BY <1>3, <2>1, <2>2
<1>8. QED
  BY <1>4, <1>5, <1>6, <1>7
     DEF PushStep, AbortPush, RejectPush, AdvanceRef, storeVars

\* A merge commit is ordered behind the two heads that Execute has read.
LEMMA MergeStepOrdered ==
  ASSUME StoreInv, IdsUnique, HistoryInv, TimesOrdered, NEW r \in Mergers,
         MergeStep(r) \/ AbortMerge(r), UNCHANGED pushVars
  PROVE  TimesOrdered'
<1> DEFINE m == merges[r]
<1>1. /\ merges \in [Mergers -> MergeRecord] /\ m \in MergeRecord
      /\ parentID \in [CommitIds -> Versions] /\ sourceID \in [CommitIds -> Versions]
      /\ Versions \subseteq Nat /\ \A c \in CommitIds : c \in Nat /\ 0 < c
      /\ commits \subseteq CommitIds /\ lastID \in Nat
      /\ MergeOrdered(m)
      /\ HasMerged(m) => m.id \in CommitIds
  BY MaxCommitsAssumption DEF StoreInv, StoreTypeOK, MergeTypeOK, MergeReady,
     ReadyMerge, TimesOrdered, Versions, CommitIds
<1>2. m.pc = "resolve" /\ HeadsRead(m) => m.s2 \in commits /\ m.t2 \in commits
  BY DEF HeadsRead, HistoryInv, Finished, MergePrepared
<1>3. \A p \in Mergers \ {r} : merges'[p] = merges[p]
  BY <1>1 DEF MergeStep, AbortMerge, PanicMerge, AnalyzeMerge, RereadSource, RereadTarget,
     FastForward, ResolveMerge, RejectMerge, InsertMergeCommit, WriteMergeSnapshot,
     AdvanceTarget, EndMerge
<1>4. ASSUME UNCHANGED <<commits, parentID, sourceID>>, MergeOrdered(merges[r])'
      PROVE  TimesOrdered'
  BY <1>3, <1>4 DEF TimesOrdered, PushOrdered, MergeOrdered, pushVars, HasMerged
<1>5. CASE EndMerge(r) /\ UNCHANGED <<commits, parentID, sourceID>>
  <2>1. merges'[r] = IdleMerge
    BY <1>1, <1>5 DEF EndMerge
  <2>2. QED
    BY <1>4, <1>5, <2>1, IdleTypes DEF MergeOrdered, HasMerged
<1>6. CASE (AnalyzeMerge(r) /\ ~ EndMerge(r)) \/ RereadSource(r) \/ RereadTarget(r)
  <2>1. ~ HasMerged(merges'[r]) /\ UNCHANGED <<commits, parentID, sourceID>>
    BY <1>1, <1>6 DEF AnalyzeMerge, RereadSource, RereadTarget, MergeRecord,
       HasMerged, storeVars
  <2>2. QED
    BY <1>4, <2>1 DEF MergeOrdered, HasMerged
<1>7. CASE ResolveMerge(r)
  <2>1. /\ merges'[r].s2 = m.s2 /\ merges'[r].t2 = m.t2
        /\ merges'[r].id = lastID + 1
        /\ m.pc = "resolve" /\ HeadsRead(m)
        /\ UNCHANGED <<commits, parentID, sourceID>>
    BY <1>1, <1>7 DEF ResolveMerge, MergeRecord
  <2>2. m.s2 <= lastID /\ m.t2 <= lastID
    BY <1>2, <2>1 DEF IdsUnique
  <2>3. m.s2 < lastID + 1 /\ m.t2 < lastID + 1
    <3>1. m.s2 \in Nat /\ m.t2 \in Nat
      BY <1>1, <1>2, <2>1
    <3>2. QED
      BY <1>1, <2>2, <3>1
  <2>4. MergeOrdered(merges[r])'
    BY <2>1, <2>3 DEF MergeOrdered
  <2>5. QED
    BY <1>4, <2>1, <2>4
<1>8. CASE InsertMergeCommit(r)
  <2>1. /\ merges'[r].s2 = m.s2 /\ merges'[r].t2 = m.t2 /\ merges'[r].id = m.id
        /\ HasMerged(m) /\ m.id \in CommitIds /\ m.s2 < m.id /\ m.t2 < m.id
        /\ commits' = commits \cup {m.id}
        /\ parentID' = [parentID EXCEPT ![m.id] = m.t2]
        /\ sourceID' = [sourceID EXCEPT ![m.id] = m.s2]
    BY <1>1, <1>8 DEF InsertMergeCommit, CreateCommit, MergeRecord, MergeOrdered,
       HasMerged
  <2>2. \A c \in commits' : parentID'[c] < c /\ sourceID'[c] < c
    BY <1>1, <2>1 DEF TimesOrdered
  <2>3. MergeOrdered(merges[r])'
    BY <2>1 DEF MergeOrdered
  <2>4. \A p \in Pushers : PushOrdered(pushes[p])'
    BY <2>1 DEF TimesOrdered, PushOrdered, pushVars
  <2>5. QED
    BY <1>3, <2>2, <2>3, <2>4 DEF TimesOrdered, MergeOrdered, HasMerged
<1>9. CASE WriteMergeSnapshot(r) /\ ~ EndMerge(r)
  <2>1. /\ merges'[r].s2 = m.s2 /\ merges'[r].t2 = m.t2 /\ merges'[r].id = m.id
        /\ HasMerged(m) /\ UNCHANGED <<commits, parentID, sourceID>>
    BY <1>1, <1>9 DEF WriteMergeSnapshot, MergeRecord, HasMerged
  <2>2. QED
    BY <1>1, <1>4, <2>1 DEF MergeOrdered
<1>10. QED
  BY <1>5, <1>6, <1>7, <1>8, <1>9
     DEF MergeStep, AbortMerge, AnalyzeMerge, PanicMerge, FastForward, RejectMerge,
         WriteMergeSnapshot, AdvanceTarget, storeVars

\* Every step keeps histories ordered by created_at.
LEMMA TimesStep ==
  ASSUME StoreInv, IdsUnique, HistoryInv, TimesOrdered, [Next]_vars
  PROVE  TimesOrdered'
<1>1. ASSUME NEW r \in Pushers, NEW u \in Users, NEW b \in PushRefs,
             NEW parent \in commits \cup {Nil}, NEW files \in SUBSET Paths,
             NEW manifest \in [Paths -> SUBSET Hashes],
             BeginPush(r, u, b, parent, files, manifest), UNCHANGED mergeVars
      PROVE  TimesOrdered'
  <2>1. /\ pushes'[r].pc = "check" /\ pushes'[r].parent = parent
        /\ \A q \in Pushers \ {r} : pushes'[q] = pushes[q]
        /\ UNCHANGED storeVars
    BY <1>1 DEF BeginPush, IdlePush, StoreInv, PushTypeOK
  <2>2. PushOrdered(pushes[r])'
    BY <2>1 DEF PushOrdered, storeVars
  <2>3. QED
    BY <1>1, <2>1, <2>2 DEF TimesOrdered, PushOrdered, MergeOrdered, HasMerged,
       storeVars, mergeVars
<1>2. ASSUME NEW r \in Mergers, NEW source \in Branches, NEW target \in Branches,
             BeginMerge(r, source, target), UNCHANGED pushVars
      PROVE  TimesOrdered'
  <2>1. /\ merges'[r].pc = "target"
        /\ \A q \in Mergers \ {r} : merges'[q] = merges[q]
        /\ UNCHANGED storeVars
    BY <1>2 DEF BeginMerge, IdleMerge, StoreInv, MergeTypeOK
  <2>2. QED
    BY <1>2, <2>1 DEF TimesOrdered, PushOrdered, MergeOrdered, HasMerged,
       storeVars, pushVars
<1>3. CASE UNCHANGED <<commits, parentID, sourceID, pushes, merges>>
  BY <1>3 DEF TimesOrdered, PushOrdered, MergeOrdered, HasMerged
<1>4. QED
  BY <1>1, <1>2, <1>3, NextCases, PushStepOrdered, MergeStepOrdered
     DEF BeginCreateBranch, CreateStep, CheckBranchExists, CreateBranchRef,
         AbortCreateBranch, storeVars, pushVars, mergeVars

\* Every commit is created after its parents: no race and no late insert turns
\* a history round.
THEOREM AlwaysOrdered == Spec => []TimesOrdered
<1>1. Init => TimesOrdered
  BY DEF Init, StoreInit, PushInit, MergeInit, IdlePush, IdleMerge, TimesOrdered,
     PushOrdered, MergeOrdered, HasMerged
<1>2. StoreInv /\ IdsUnique /\ HistoryInv /\ TimesOrdered /\ [Next]_vars
        => TimesOrdered'
  BY TimesStep
<1>3. TypeInv => StoreInv
  BY DEF TypeInv
<1>4. QED
  BY <1>1, <1>2, <1>3, AlwaysFinished, IdsAlwaysUnique, AlwaysTypeInv, PTL
     DEF Spec

-----------------------------------------------------------------------------
(* The merge base.                                                         *)

\* A walk over finished commits goes back in time.
LEMMA AncestorsOlder ==
  ASSUME StoreInv, TimesOrdered, NEW G \in SUBSET commits, ClosedUnderParents(G),
         NEW d \in G, NEW a \in Ancestors(d)
  PROVE  a \in G /\ a <= d
<1> DEFINE S == {c \in G : c <= d}
<1>1. /\ \A c \in commits : c \in Nat
      /\ \A c \in commits : /\ parentID[c] \in Nat /\ parentID[c] < c
                            /\ sourceID[c] \in Nat /\ sourceID[c] < c
  BY MaxCommitsAssumption DEF StoreInv, StoreTypeOK, TimesOrdered, CommitIds,
     Versions
<1>2. ClosedUnderParents(S)
  BY <1>1 DEF ClosedUnderParents, ParentIDs
<1>3. d \in S /\ S \in SUBSET commits
  BY <1>1
<1>4. QED
  BY <1>2, <1>3 DEF Ancestors

\* The walk from a finished commit gives the same commits ever after.
LEMMA AncestorsKept ==
  ASSUME NEW G \in SUBSET commits, ClosedUnderParents(G),
         \A c \in G : c \in commits' /\ RowsKept(c), NEW d \in G
  PROVE  Ancestors(d)' = Ancestors(d)
<1>1. \A c \in G : (ParentIDs(c))' = ParentIDs(c)
  BY DEF RowsKept, ParentIDs
<1>2. ClosedUnderParents(G)' /\ G \in SUBSET commits'
  BY <1>1 DEF ClosedUnderParents
<1>3. Ancestors(d) \subseteq G /\ Ancestors(d)' \subseteq G
  BY <1>2 DEF Ancestors
<1>4. ASSUME NEW a \in Ancestors(d) PROVE a \in Ancestors(d)'
  <2>1. ASSUME NEW S \in SUBSET commits', d \in S, ClosedUnderParents(S)'
        PROVE  a \in S
    <3>1. ClosedUnderParents(S \cap G)
      BY <1>1, <2>1 DEF ClosedUnderParents
    <3>2. QED
      BY <1>4, <2>1, <3>1 DEF Ancestors
  <2>2. QED
    BY <1>3, <2>1 DEF Ancestors
<1>5. ASSUME NEW a \in Ancestors(d)' PROVE a \in Ancestors(d)
  <2>1. ASSUME NEW S \in SUBSET commits, d \in S, ClosedUnderParents(S)
        PROVE  a \in S
    <3>1. ClosedUnderParents(S \cap G)'
      BY <1>1, <1>2, <2>1 DEF ClosedUnderParents
    <3>2. QED
      BY <1>2, <1>5, <2>1, <3>1 DEF Ancestors
  <2>2. QED
    BY <1>3, <2>1 DEF Ancestors
<1>6. QED
  BY <1>4, <1>5

\* What MergeBaseIsBest says of one merge.
BestBase(base, s, t) ==
  /\ base \in CommonAncestors(s, t)
  /\ \A a \in CommonAncestors(s, t) : base \in Ancestors(a) => a = base

\* The base that Analyze settles on is a best common ancestor.
LEMMA AnalysisFindsBest ==
  ASSUME StoreInv, TimesOrdered, NEW G \in SUBSET commits, ClosedUnderParents(G),
         NEW s \in G, NEW t \in G, NEW base \in AnalysisBase(s, t)
  PROVE  BestBase(base, s, t)
<1>1. \A a \in commits : a \in Nat
  BY MaxCommitsAssumption DEF StoreInv, StoreTypeOK, CommitIds
<1>2. \A d \in G : d \in Ancestors(d) /\ Ancestors(d) \subseteq G
  BY AncestorsOlder DEF Ancestors
<1>3. base \in CommonAncestors(s, t)
  BY <1>2 DEF AnalysisBase, IsAncestor, FindMergeBase, CommonAncestors
<1>4. ASSUME NEW a \in CommonAncestors(s, t), base \in Ancestors(a)
      PROVE  a = base
  <2>1. a \in G /\ base \in G /\ base <= a
    BY <1>2, <1>3, <1>4, AncestorsOlder DEF CommonAncestors
  <2>2. a <= base
    <3>1. CASE IsAncestor(t, s)
      BY <3>1, <1>4, AncestorsOlder DEF AnalysisBase, CommonAncestors
    <3>2. CASE ~ IsAncestor(t, s)
      BY <3>2, <1>4 DEF AnalysisBase, FindMergeBase
    <3>3. QED
      BY <3>1, <3>2
  <2>3. QED
    BY <1>1, <2>1, <2>2
<1>5. QED
  BY <1>3, <1>4 DEF BestBase

\* The bases of the merges in flight; a merge that Analyze has not finished
\* with has none.
BaseChosen(m) ==
  /\ m.pc \in {"idle", "target"} => m.base = Nil
  /\ m.pc \notin {"idle", "target"} => BestBase(m.base, m.s1, m.t1)

BasesChosen == \A r \in Mergers : BaseChosen(merges[r])

\* The base of a merge stays the best one whatever is committed meanwhile.
LEMMA BaseKept ==
  ASSUME StoreInv, IdsUnique, TimesOrdered, NEW G \in SUBSET commits, Finished(G),
         BasesChosen, [Next]_vars, NEW q \in Mergers
  PROVE  BaseChosen(merges[q])'
<1> DEFINE m == merges[q]
<1>1. /\ merges \in [Mergers -> MergeRecord] /\ m \in MergeRecord
      /\ BaseChosen(m) /\ MergePrepared(m, G) /\ ReadyMerge(m)
      /\ ClosedUnderParents(G)
      /\ \A b \in Branches : refs[b] # Nil => refs[b] \in G
  BY DEF StoreInv, StoreTypeOK, MergeTypeOK, MergeReady, BasesChosen, Finished
<1>2. ASSUME NEW d \in G PROVE Ancestors(d)' = Ancestors(d)
  BY <1>1, StepWrites, AncestorsKept
<1>3. ASSUME NEW base \in G, NEW s \in G, NEW t \in G, BestBase(base, s, t)
      PROVE  BestBase(base, s, t)'
  <2>1. CommonAncestors(s, t)' = CommonAncestors(s, t)
    BY <1>2 DEF CommonAncestors
  <2>2. CommonAncestors(s, t) \subseteq G
    BY <1>1, AncestorsOlder DEF CommonAncestors
  <2>3. QED
    BY <1>2, <1>3, <2>1, <2>2 DEF BestBase
<1>4. CASE /\ merges'[q].pc \in {"idle", "target"} => merges'[q].base = Nil
           /\ merges'[q].pc \notin {"idle", "target"}
                => /\ m.pc \notin {"idle", "target"}
                   /\ merges'[q].base = m.base
                   /\ merges'[q].s1 = m.s1 /\ merges'[q].t1 = m.t1
  <2>1. CASE merges'[q].pc \in {"idle", "target"}
    BY <1>4, <2>1 DEF BaseChosen
  <2>2. CASE merges'[q].pc \notin {"idle", "target"}
    <3>1. m.base \in G /\ m.s1 \in G /\ m.t1 \in G
      BY <1>1, <1>4, <2>2 DEF MergePrepared
    <3>2. BestBase(m.base, m.s1, m.t1)'
      <4>1. PICK base \in G, s \in G, t \in G :
              base = m.base /\ s = m.s1 /\ t = m.t1
        BY <3>1
      <4>2. BestBase(base, s, t)'
        BY <1>1, <1>3, <1>4, <2>2, <4>1 DEF BaseChosen
      <4>3. QED
        BY <1>4, <2>2, <4>1, <4>2
    <3>3. QED
      BY <1>4, <2>2, <3>2 DEF BaseChosen
  <2>3. QED
    BY <2>1, <2>2

<1>5. ASSUME NEW r \in Mergers, NEW source \in Branches, NEW target \in Branches,
             BeginMerge(r, source, target)
      PROVE  BaseChosen(merges[q])'
  <2>1. q = r => merges'[q].pc = "target" /\ merges'[q].base = Nil
    BY <1>1, <1>5 DEF BeginMerge, IdleMerge
  <2>2. q # r => merges'[q] = m
    BY <1>1, <1>5 DEF BeginMerge
  <2>3. QED
    BY <1>1, <1>4, <2>1, <2>2 DEF BaseChosen
<1>6. ASSUME NEW r \in Mergers, MergeStep(r) \/ AbortMerge(r)
      PROVE  BaseChosen(merges[q])'
  <2>1. CASE q # r
    <3>1. merges'[q] = m
      BY <1>1, <1>6, <2>1
         DEF MergeStep, AbortMerge, PanicMerge, AnalyzeMerge, RereadSource, RereadTarget,
             FastForward, ResolveMerge, RejectMerge, InsertMergeCommit,
             WriteMergeSnapshot, AdvanceTarget, EndMerge
    <3>2. QED
      BY <1>1, <1>4, <3>1 DEF BaseChosen
  <2>2. CASE q = r /\ EndMerge(r)
    <3>1. merges'[q] = IdleMerge
      BY <1>1, <2>2 DEF EndMerge
    <3>2. QED
      BY <1>4, <3>1 DEF IdleMerge
  <2>3. CASE q = r /\ AnalyzeMerge(r) /\ ~ EndMerge(r)
    <3>1. PICK base \in AnalysisBase(m.s1, refs[m.target]) :
            merges' = [merges EXCEPT ![r].pc = "source2",
                                     ![r].t1 = refs[m.target], ![r].base = base]
      BY <2>3 DEF AnalyzeMerge
    <3>2. /\ merges'[q].pc = "source2" /\ merges'[q].s1 = m.s1
          /\ merges'[q].t1 = refs[m.target] /\ merges'[q].base = base
          /\ m.s1 \in G /\ refs[m.target] \in G
      BY <1>1, <2>3, <3>1 DEF AnalyzeMerge, MergeRecord, MergePrepared, ReadyMerge
    <3>3. PICK s \in G, t \in G : s = m.s1 /\ t = refs[m.target]
      BY <3>2
    <3>4. BestBase(base, s, t)
      BY <1>1, <3>1, <3>3, AnalysisFindsBest
    <3>5. base \in G
      BY <1>1, <3>4, AncestorsOlder DEF BestBase, CommonAncestors
    <3>6. BestBase(base, s, t)'
      BY <1>3, <3>4, <3>5
    <3>7. QED
      BY <3>2, <3>3, <3>6 DEF BaseChosen
  <2>4. CASE q = r /\ (\/ RereadSource(r) \/ RereadTarget(r) \/ ResolveMerge(r)
                       \/ InsertMergeCommit(r)
                       \/ (WriteMergeSnapshot(r) /\ ~ EndMerge(r)))
    <3>1. /\ m.pc \notin {"idle", "target"}
          /\ merges'[q].pc \notin {"idle", "target"}
          /\ merges'[q].base = m.base
          /\ merges'[q].s1 = m.s1 /\ merges'[q].t1 = m.t1
      BY <1>1, <2>4 DEF RereadSource, RereadTarget, ResolveMerge,
         InsertMergeCommit, WriteMergeSnapshot, MergeRecord
    <3>2. QED
      BY <1>4, <3>1
  <2>5. QED
    BY <1>6, <2>1, <2>2, <2>3, <2>4
       DEF MergeStep, AbortMerge, AnalyzeMerge, PanicMerge, FastForward,
           RejectMerge, WriteMergeSnapshot, AdvanceTarget
<1>7. CASE UNCHANGED merges
  BY <1>1, <1>4, <1>7 DEF BaseChosen
<1>8. QED
  BY <1>5, <1>6, <1>7, NextCases DEF mergeVars, BeginCreateBranch, CreateStep,
     CheckBranchExists, CreateBranchRef, AbortCreateBranch

\* Every merge in flight has the best base, in every reachable state.
LEMMA AlwaysBest == Spec => []BasesChosen
<1>1. Init => BasesChosen
  BY DEF Init, MergeInit, IdleMerge, BasesChosen, BaseChosen
<1>2. StoreInv /\ IdsUnique /\ HistoryInv /\ TimesOrdered /\ BasesChosen
      /\ [Next]_vars => BasesChosen'
  <2> SUFFICES ASSUME StoreInv, IdsUnique, HistoryInv, TimesOrdered, BasesChosen,
                      [Next]_vars
               PROVE  BasesChosen'
    OBVIOUS
  <2>1. PICK G \in SUBSET commits : Finished(G)
    BY DEF HistoryInv
  <2>2. QED
    BY <2>1, BaseKept DEF BasesChosen
<1>3. TypeInv => StoreInv
  BY DEF TypeInv
<1>4. QED
  BY <1>1, <1>2, <1>3, AlwaysOrdered, AlwaysFinished, IdsAlwaysUnique,
     AlwaysTypeInv, PTL DEF Spec

\* The base of every merge is a best common ancestor of the heads it has
\* analysed: created_at is a sound order for FindMergeBase, in every history.
THEOREM MergeBaseAlwaysBest == Spec => []MergeBaseIsBest
<1>1. BasesChosen => MergeBaseIsBest
  BY DEF BasesChosen, BaseChosen, BestBase, MergeBaseIsBest
<1>2. QED
  BY <1>1, AlwaysBest, PTL

-----------------------------------------------------------------------------
(* Branches move forward.                                                  *)

\* What the checks of a request in flight have established: the parent of a
\* push is the head it has read, a branch to be created was absent, and a
\* fast-forward has the target head as its base.
HeadTaken(q) ==
  q.ref # NoRef /\ q.pc \notin {"idle", "check"} => q.head = q.parent

HeadsTaken ==
  /\ \A r \in Pushers : HeadTaken(pushes[r])
  /\ \A r \in Branchers : creates[r].pc = "create" => creates[r].found = Nil
  /\ \A r \in Mergers : merges[r].pc = "fastForward" => merges[r].base = merges[r].t1

\* A push keeps the head that its check has read.
LEMMA HeadKept ==
  ASSUME StoreInv, HeadsTaken, [Next]_vars, NEW q \in Pushers
  PROVE  HeadTaken(pushes[q])'
<1>1. pushes \in [Pushers -> PushRecord] /\ HeadTaken(pushes[q])
  BY DEF StoreInv, PushTypeOK, HeadsTaken
<1>2. CASE pushes'[q] = pushes[q] \/ pushes'[q].pc \in {"idle", "check"}
  BY <1>1, <1>2 DEF HeadTaken
<1>3. ASSUME NEW r \in Pushers, NEW u \in Users, NEW b \in PushRefs,
             NEW parent \in commits \cup {Nil}, NEW files \in SUBSET Paths,
             NEW manifest \in [Paths -> SUBSET Hashes],
             BeginPush(r, u, b, parent, files, manifest)
      PROVE  HeadTaken(pushes[q])'
  <2>1. pushes'[q] = pushes[q] \/ pushes'[q].pc = "check"
    BY <1>1, <1>3 DEF BeginPush, IdlePush
  <2>2. QED
    BY <1>2, <2>1
<1>4. ASSUME NEW r \in Pushers, PushStep(r) \/ AbortPush(r)
      PROVE  HeadTaken(pushes[q])'
  <2>1. CASE EndPush(r)
    BY <1>1, <1>2, <2>1, IdleTypes DEF EndPush
  <2>2. CASE CheckHead(r)
    BY <1>1, <1>2, <2>2 DEF CheckHead, HeadMatches, HeadTaken, PushRecord
  <2>3. CASE \/ InsertPushCommit(r) \/ ReadParentSnapshot(r)
             \/ WritePushSnapshot(r) \/ CountChunks(r)
    <3>1. /\ pushes'[q].ref = pushes[q].ref
          /\ pushes'[q].head = pushes[q].head
          /\ pushes'[q].parent = pushes[q].parent
          /\ pushes'[q] = pushes[q] \/ pushes[q].pc \notin {"idle", "check"}
      BY <1>1, <2>3 DEF InsertPushCommit, ReadParentSnapshot,
         WritePushSnapshot, CountChunks, PushRecord
    <3>2. QED
      BY <1>1, <1>2, <3>1 DEF HeadTaken
  <2>4. ASSUME NEW p \in Paths, CreateVersion(r, p)
        PROVE  HeadTaken(pushes[q])'
    <3>1. /\ pushes'[q].ref = pushes[q].ref
          /\ pushes'[q].head = pushes[q].head
          /\ pushes'[q].parent = pushes[q].parent
          /\ pushes'[q].pc = pushes[q].pc
      BY <1>1, <2>4 DEF CreateVersion, PushRecord
    <3>2. QED
      BY <1>1, <3>1 DEF HeadTaken
  <2>5. QED
    BY <1>4, <2>1, <2>2, <2>3, <2>4
       DEF PushStep, AbortPush, RejectPush, AdvanceRef
<1>5. CASE UNCHANGED pushVars
  BY <1>2, <1>5 DEF pushVars
<1>6. QED
  BY <1>3, <1>4, <1>5, NextCases

\* CreateBranch goes on only if its lookup has found no branch.
LEMMA AbsenceKept ==
  ASSUME StoreInv, HeadsTaken, [Next]_vars, NEW q \in Branchers,
         creates'[q].pc = "create"
  PROVE  creates'[q].found = Nil
<1>1. creates \in [Branchers -> CreateRecord]
  BY DEF StoreInv, MergeTypeOK
<1>2. CASE creates'[q] = creates[q]
  BY <1>2 DEF HeadsTaken
<1>3. ASSUME NEW r \in Branchers, NEW name \in Branches, NEW fromRef \in Branches,
             BeginCreateBranch(r, name, fromRef)
      PROVE  creates'[q] = creates[q]
  BY <1>1, <1>3 DEF BeginCreateBranch, IdleCreate
<1>4. ASSUME NEW r \in Branchers, CreateStep(r) \/ AbortCreateBranch(r)
      PROVE  creates'[q] = creates[q] \/ creates'[q].found = Nil
  <2>1. CASE EndCreate(r)
    BY <1>1, <2>1, IdleTypes DEF EndCreate
  <2>2. CASE CheckBranchExists(r) /\ ~ EndCreate(r)
    BY <1>1, <2>2 DEF CheckBranchExists, CreateRecord
  <2>3. QED
    BY <1>4, <2>1, <2>2 DEF CreateStep, CreateBranchRef, AbortCreateBranch
<1>5. ASSUME NEW r \in Mergers, MergeStep(r) \/ AbortMerge(r)
      PROVE  UNCHANGED creates
  BY <1>5 DEF MergeStep, AbortMerge, PanicMerge, AnalyzeMerge, RereadSource, RereadTarget,
     FastForward, ResolveMerge, RejectMerge, InsertMergeCommit,
     WriteMergeSnapshot, AdvanceTarget
<1>6. ASSUME NEW r \in Mergers, NEW source \in Branches, NEW target \in Branches,
             BeginMerge(r, source, target)
      PROVE  UNCHANGED creates
  BY <1>6 DEF BeginMerge
<1>7. UNCHANGED mergeVars => UNCHANGED creates
  BY DEF mergeVars
<1>8. UNCHANGED creates => creates'[q] = creates[q]
  OBVIOUS
<1>9. QED
  BY <1>2, <1>3, <1>4, <1>5, <1>6, <1>7, <1>8, NextCases

\* Only RereadTarget finds that a merge is a fast-forward.
LEMMA FastForwardKept ==
  ASSUME StoreInv, HeadsTaken, [Next]_vars, NEW q \in Mergers,
         merges'[q].pc = "fastForward"
  PROVE  merges'[q].base = merges'[q].t1
<1>1. merges \in [Mergers -> MergeRecord]
  BY DEF StoreInv, MergeTypeOK
<1>2. CASE merges'[q] = merges[q]
  BY <1>2 DEF HeadsTaken
<1>3. ASSUME NEW r \in Mergers, NEW source \in Branches, NEW target \in Branches,
             BeginMerge(r, source, target)
      PROVE  merges'[q] = merges[q]
  BY <1>1, <1>3 DEF BeginMerge, IdleMerge
<1>4. ASSUME NEW r \in Mergers, MergeStep(r) \/ AbortMerge(r)
      PROVE  merges'[q] = merges[q] \/ merges'[q].base = merges'[q].t1
  <2>1. CASE EndMerge(r)
    BY <1>1, <2>1, IdleTypes DEF EndMerge
  <2>2. CASE RereadTarget(r)
    BY <1>1, <2>2 DEF RereadTarget, MergeRecord
  <2>3. CASE \/ (AnalyzeMerge(r) /\ ~ EndMerge(r)) \/ RereadSource(r)
             \/ ResolveMerge(r) \/ InsertMergeCommit(r)
             \/ (WriteMergeSnapshot(r) /\ ~ EndMerge(r))
    BY <1>1, <2>3 DEF AnalyzeMerge, RereadSource, ResolveMerge,
       InsertMergeCommit, WriteMergeSnapshot, MergeRecord
  <2>4. QED
    BY <1>4, <2>1, <2>2, <2>3
       DEF MergeStep, AbortMerge, AnalyzeMerge, PanicMerge, FastForward,
           RejectMerge, WriteMergeSnapshot, AdvanceTarget
<1>5. ASSUME NEW r \in Branchers, CreateStep(r) \/ AbortCreateBranch(r)
      PROVE  UNCHANGED merges
  BY <1>5 DEF CreateStep, CheckBranchExists, CreateBranchRef, AbortCreateBranch
<1>6. ASSUME NEW r \in Branchers, NEW name \in Branches, NEW fromRef \in Branches,
             BeginCreateBranch(r, name, fromRef)
      PROVE  UNCHANGED merges
  BY <1>6 DEF BeginCreateBranch
<1>7. UNCHANGED mergeVars => UNCHANGED merges
  BY DEF mergeVars
<1>8. UNCHANGED merges => merges'[q] = merges[q]
  OBVIOUS
<1>9. QED
  BY <1>2, <1>3, <1>4, <1>5, <1>6, <1>7, <1>8, NextCases

\* What RefsMoveForwardUnlessRaced says of branch b.
MovesForward(b) ==
  LeavesHistory(b) =>
    \/ \E r \in Pushers : PushRaced(r, b) /\ pushes'[r] = IdlePush
    \/ \E r \in Mergers : MergeRaced(r, b) /\ merges'[r] = IdleMerge
    \/ \E r \in Branchers : CreateRaced(r, b) /\ creates'[r] = IdleCreate

\* A write of the ref that replaces the head it has read is a fast-forward.
LEMMA ForwardStep ==
  ASSUME StoreInv, IdsUnique, HeadsTaken, BasesChosen,
         NEW G \in SUBSET commits, Finished(G), [Next]_vars, NEW b \in Branches
  PROVE  MovesForward(b)
<1> SUFFICES ASSUME LeavesHistory(b) PROVE MovesForward(b)
  BY DEF MovesForward
<1>1. PICK head : /\ head = refs[b] /\ head # Nil /\ refs'[b] # head
                  /\ ~ IsAncestor(head, refs[b])'
  BY DEF LeavesHistory
<1>2. /\ refs \in [Branches -> Versions] /\ head \in G /\ head \in commits
      /\ pushes \in [Pushers -> PushRecord]
      /\ merges \in [Mergers -> MergeRecord]
      /\ creates \in [Branchers -> CreateRecord]
  BY <1>1 DEF StoreInv, StoreTypeOK, PushTypeOK, MergeTypeOK, Finished
<1>3. ASSUME NEW c \in commits, refs'[b] = c, UNCHANGED <<commits, parentID>>,
             parentID[c] = head
      PROVE  FALSE
  <2>1. head \in ParentIDs(c)'
    BY <1>1, <1>3 DEF ParentIDs
  <2>2. head \in Ancestors(c)'
    BY <1>2, <1>3, <2>1 DEF Ancestors, ClosedUnderParents
  <2>3. QED
    BY <1>1, <1>3, <2>2 DEF IsAncestor
<1>4. ASSUME NEW r \in Pushers, AdvanceRef(r), pushes[r].ref # NoRef
      PROVE  MovesForward(b)
  <2>1. /\ pushes[r].pc = "advance" /\ pushes[r].ref = b
        /\ refs'[b] = pushes[r].id /\ pushes'[r] = IdlePush
        /\ UNCHANGED <<commits, parentID>>
    BY <1>1, <1>2, <1>4 DEF AdvanceRef, UpsertRef, EndPush
  <2>2. parentID[pushes[r].id] = pushes[r].head /\ pushes[r].id \in commits
    BY <1>4, <2>1 DEF Finished, PushPrepared, HeadsTaken, HeadTaken, IdsUnique
  <2>3. PushRaced(r, b)
    BY <1>1, <1>3, <2>1, <2>2 DEF PushRaced
  <2>4. QED
    BY <2>1, <2>3 DEF MovesForward
<1>5. ASSUME NEW r \in Mergers, AdvanceTarget(r)
      PROVE  MovesForward(b)
  <2>1. /\ merges[r].pc = "advance" /\ merges[r].target = b
        /\ refs'[b] = merges[r].id /\ merges'[r] = IdleMerge
        /\ UNCHANGED <<commits, parentID>>
    BY <1>1, <1>2, <1>5 DEF AdvanceTarget, UpsertRef, EndMerge
  <2>2. parentID[merges[r].id] = merges[r].t2 /\ merges[r].id \in commits
    BY <2>1 DEF Finished, MergePrepared, IdsUnique
  <2>3. merges[r].t2 # refs[b]
    BY <1>1, <1>3, <2>1, <2>2
  <2>4. QED
    BY <2>1, <2>3 DEF MovesForward, MergeRaced
<1>6. ASSUME NEW r \in Mergers, FastForward(r)
      PROVE  MovesForward(b)
  <2>1. /\ merges[r].pc = "fastForward" /\ merges[r].target = b
        /\ refs'[b] = merges[r].s2 /\ merges'[r] = IdleMerge
        /\ UNCHANGED <<commits, parentID, sourceID>>
    BY <1>1, <1>2, <1>6 DEF FastForward, UpsertRef, EndMerge
  <2>2. ASSUME merges[r].t1 = refs[b], IsAncestor(merges[r].s1, merges[r].s2)
        PROVE  FALSE
    <3>0. head \in Ancestors(merges[r].s1)
      BY <1>1, <2>1, <2>2 DEF HeadsTaken, BasesChosen, BaseChosen, BestBase,
         CommonAncestors
    <3>1. head \in Ancestors(merges[r].s2)
      BY <2>2, <3>0 DEF IsAncestor, Ancestors
    <3>2. \A c : Ancestors(c)' = Ancestors(c)
      BY <2>1 DEF Ancestors, ClosedUnderParents, ParentIDs
    <3>3. QED
      BY <1>1, <2>1, <3>1, <3>2 DEF IsAncestor
  <2>3. merges[r].t1 # refs[b] \/ ~ IsAncestor(merges[r].s1, merges[r].s2)
    BY <2>2
  <2>4. QED
    BY <2>1, <2>3 DEF MovesForward, MergeRaced
<1>7. ASSUME NEW r \in Branchers, CreateBranchRef(r)
      PROVE  MovesForward(b)
  <2>1. /\ creates[r].pc = "create" /\ creates[r].name = b
        /\ creates'[r] = IdleCreate
    BY <1>1, <1>2, <1>7 DEF CreateBranchRef, UpsertRef, EndCreate
  <2>2. creates[r].found # refs[b]
    BY <1>1, <2>1 DEF HeadsTaken
  <2>3. QED
    BY <2>1, <2>2 DEF MovesForward, CreateRaced
<1>8. QED
  BY <1>1, <1>4, <1>5, <1>6, <1>7, RefWrites

\* The checks of CreateCommit, Execute and CreateBranch are enough for as long
\* as nothing comes in between: a branch leaves its own history only when the
\* request that writes the ref has read another head than the one it overwrites,
\* or fast-forwards to a source that has dropped the head it analysed.
THEOREM BranchesMoveForward == Spec => RefsMoveForwardUnlessRaced
<1>1. Init => HeadsTaken
  BY IdleTypes DEF Init, PushInit, MergeInit, HeadsTaken, HeadTaken
<1>2. StoreInv /\ HeadsTaken /\ [Next]_vars => HeadsTaken'
  BY HeadKept, AbsenceKept, FastForwardKept DEF HeadsTaken
<1>3. StoreInv /\ IdsUnique /\ HeadsTaken /\ BasesChosen /\ HistoryInv /\ [Next]_vars
        => [\A b \in Branches : MovesForward(b)]_vars
  BY ForwardStep DEF HistoryInv
<1>4. TypeInv => StoreInv
  BY DEF TypeInv
<1>5. Spec => [][\A b \in Branches : MovesForward(b)]_vars
  BY <1>1, <1>2, <1>3, <1>4, AlwaysBest, AlwaysFinished, IdsAlwaysUnique,
     AlwaysTypeInv, PTL DEF Spec
<1>6. [\A b \in Branches : MovesForward(b)]_vars
        => [\A b \in Branches : LeavesHistory(b) =>
              \/ \E r \in Pushers : PushRaced(r, b) /\ pushes'[r] = IdlePush
              \/ \E r \in Mergers : MergeRaced(r, b) /\ merges'[r] = IdleMerge
              \/ \E r \in Branchers : CreateRaced(r, b) /\ creates'[r] = IdleCreate]_vars
  BY DEF MovesForward
<1>7. QED
  BY <1>5, <1>6, PTL DEF RefsMoveForwardUnlessRaced

=============================================================================
