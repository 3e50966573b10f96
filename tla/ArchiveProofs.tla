---------------------------- MODULE ArchiveProofs ----------------------------
(***************************************************************************)
(* The tables and handlers of the server implement the abstract            *)
(* repository, for any project and any number of concurrent requests.      *)
(***************************************************************************)
EXTENDS Archive, MergeProofs

-----------------------------------------------------------------------------
(* The commits that have been shown.                                       *)

\* They are a set of finished commits.
ArchiveInv == archived \in SUBSET commits /\ Finished(archived)

\* The versions of a merged snapshot are versions of the snapshots it is built
\* from: a resolution is the source's, the target's or the base's version.
LEMMA MergedVersions ==
  ASSUME NEW m, HasMerged(m), MergeBuilt(m), NEW p \in Paths
  PROVE  \E a \in {m.base, m.s1, m.t1, m.t2} : m.merged[p] = commitFiles[a][p]
<1>1. PICK res \in ResolutionsOf(m) : m.merged = MergedFrom(m, res)
  BY DEF MergeBuilt
<1>2. p \in ConflictsOf(m) => res[p] \in {commitFiles[m.s1][p],
                               commitFiles[m.t1][p], commitFiles[m.base][p]}
  BY DEF ResolutionsOf, ValidResolutions, ConflictsOf
<1>3. QED
  BY <1>1, <1>2 DEF MergedFrom, MergedSnapshot, ConflictsOf

-----------------------------------------------------------------------------
(* What a step of the server is in the abstract repository.                *)

\* A commit that was shown keeps its rows, so the archive keeps it.
LEMMA ArchiveKeeps ==
  ASSUME StoreInv, ArchiveInv, [ArchiveNext]_archiveVars
  PROVE  /\ [Next]_vars
         /\ archived' = archived \cup Heads'
         /\ \A c \in archived : c \in commits' /\ RowsKept(c)
<1>1. [Next]_vars
  BY DEF ArchiveNext, archiveVars
<1>2. Heads \subseteq archived
  BY DEF ArchiveInv, Finished, Heads
<1>3. archived' = archived \cup Heads'
  BY <1>2 DEF ArchiveNext, archiveVars, vars, storeVars, Heads
<1>4. QED
  BY <1>1, <1>3, StepWrites DEF ArchiveInv

\* A ref write to a commit that was shown before, and every step that writes
\* no ref, add nothing to the archive.
LEMMA MoveStep ==
  ASSUME StoreInv, ArchiveInv, [ArchiveNext]_archiveVars,
         \/ UNCHANGED refs
         \/ \E b \in Branches, c \in archived : refs' = [refs EXCEPT ![b] = c]
  PROVE  [Repo!Next]_(Repo!repositoryVars)
<1>1. \A b \in Branches : refs'[b] \in archived \cup {Nil}
  BY DEF StoreInv, StoreTypeOK, ArchiveInv, Finished
<1>2. archived' = archived
  BY <1>1, ArchiveKeeps DEF Heads
<1>3. [c \in archived |-> [parent |-> parentID[c], source |-> sourceID[c],
                           files |-> commitFiles[c]]]'
        = [c \in archived |-> [parent |-> parentID[c], source |-> sourceID[c],
                               files |-> commitFiles[c]]]
  BY <1>2, ArchiveKeeps DEF RowsKept
<1>4. QED
  BY <1>2, <1>3 DEF Repo!Next, Repo!Move, Repo!repositoryVars

\* The commit that a push shows changes files of one parent in the archive.
LEMMA PushPublishes ==
  ASSUME "parentSnapshot" \notin Swallowed,
         StoreInv, PushesList, ArchiveInv, [ArchiveNext]_archiveVars,
         NEW r \in Pushers, AdvanceRef(r), pushes[r].ref # NoRef
  PROVE  [Repo!Next]_(Repo!repositoryVars)
<1> DEFINE q == pushes[r]
           id == q.id
<1>1. /\ PushPrepared(q, archived) /\ PushLists(q) /\ q \in PushRecord
      /\ id \notin archived /\ id \in CommitIds
      /\ fileVersions \in [CommitIds -> SUBSET Paths]
      /\ commitFiles \in [CommitIds -> Snapshot]
      /\ refs \in [Branches -> Versions]
  BY DEF ArchiveInv, Finished, PushesList, AdvanceRef, StoreInv, StoreTypeOK,
     PushTypeOK, PushReady
<1>2. /\ parentID[id] = q.parent /\ sourceID[id] = Nil
      /\ q.parent \in archived \cup {Nil} /\ LaidOver(id, commitFiles[id], q.parent)
      /\ fileVersions[id] \in (SUBSET Paths) \ {{}}
  BY <1>1 DEF AdvanceRef, PushPrepared, PushLists, PushRecord
<1>3. q.ref \in Branches /\ refs' = [refs EXCEPT ![q.ref] = id]
  BY <1>1 DEF AdvanceRef, UpsertRef, PushRecord
<1>4. archived' = archived \cup {id}
  <2>1. Nil \notin archived /\ Heads \subseteq archived /\ id # Nil
    BY <1>1, IdSets DEF ArchiveInv, StoreInv, StoreTypeOK, Finished, Heads
  <2>2. Heads' \subseteq archived \cup {id} /\ id \in Heads'
    BY <1>1, <1>3, <2>1 DEF Heads
  <2>3. QED
    BY <2>2, ArchiveKeeps
<1>5. UNCHANGED <<parentID, sourceID, commitFiles>>
  BY DEF AdvanceRef
<1>6. id \in (Repo!Ids) \ archived
  BY <1>1 DEF Repo!Ids, CommitIds
<1>7. commitFiles[id] = [p \in Paths |-> IF p \in fileVersions[id] THEN id
                                         ELSE Repo!FilesAt(q.parent)[p]]
  <2>1. \A p \in Paths : Repo!FilesAt(q.parent)[p] =
          IF q.parent = Nil THEN NoVersion ELSE commitFiles[q.parent][p]
    BY <1>2, IdSets DEF Repo!FilesAt, Repo!NoFiles, Repo!None, Nil, NoVersion,
       ArchiveInv, StoreInv, StoreTypeOK
  <2>2. commitFiles[id] \in [Paths -> Versions]
    BY <1>1 DEF Snapshot
  <2>3. \A p \in Paths : commitFiles[id][p] = IF p \in fileVersions[id] THEN id
                                              ELSE Repo!FilesAt(q.parent)[p]
    BY <1>2, <2>1 DEF LaidOver, GetCommitSnapshot, EmptySnapshot
  <2>4. QED
    BY <2>2, <2>3
<1>8. Repo!ChangesParent(id, [parent |-> parentID[id], source |-> sourceID[id],
                              files |-> commitFiles[id]])
  BY <1>2, <1>7 DEF Repo!ChangesParent, Repo!None, Nil
<1>9. Repo!Publish(q.ref)
  BY <1>3, <1>4, <1>5, <1>6, <1>8 DEF Repo!Publish
<1>10. QED
  BY <1>3, <1>9 DEF Repo!Next, Repo!Publish

\* The commit that a merge shows joins two commits of the archive.
LEMMA MergePublishes ==
  ASSUME StoreInv, MergesBuilt, ArchiveInv, [ArchiveNext]_archiveVars,
         NEW r \in Mergers, AdvanceTarget(r)
  PROVE  [Repo!Next]_(Repo!repositoryVars)
<1> DEFINE m == merges[r]
           id == m.id
<1>1. /\ MergePrepared(m, archived) /\ MergeBuilt(m) /\ ReadyMerge(m)
      /\ id \notin archived
      /\ commitFiles \in [CommitIds -> Snapshot]
      /\ refs \in [Branches -> Versions]
      /\ m.pc = "advance" /\ HasMerged(m)
  BY DEF ArchiveInv, Finished, AdvanceTarget, StoreInv, StoreTypeOK,
     MergeReady, MergesBuilt, HasMerged
<1>2. /\ id \in CommitIds /\ m.target \in Branches
      /\ parentID[id] = m.t2 /\ sourceID[id] = m.s2
      /\ {m.base, m.s1, m.t1, m.s2, m.t2} \subseteq archived
      /\ commitFiles[id] = m.merged
      /\ KeepsFiles(commitFiles[m.t2], m.merged)
  BY <1>1, IdSets DEF MergePrepared, HeadsRead, ReadyMerge
<1>3. refs' = [refs EXCEPT ![m.target] = id]
  BY DEF AdvanceTarget, UpsertRef
<1>4. archived' = archived \cup {id}
  <2>1. Nil \notin archived /\ Heads \subseteq archived /\ id # Nil
    BY <1>2, IdSets DEF ArchiveInv, StoreInv, StoreTypeOK, Finished, Heads
  <2>2. Heads' \subseteq archived \cup {id} /\ id \in Heads'
    BY <1>1, <1>2, <1>3, <2>1 DEF Heads
  <2>3. QED
    BY <2>2, ArchiveKeeps
<1>5. UNCHANGED <<parentID, sourceID, commitFiles>>
  BY DEF AdvanceTarget
<1>6. id \in (Repo!Ids) \ archived
  BY <1>1, <1>2 DEF Repo!Ids, CommitIds
<1>7. Nil \notin archived
  BY IdSets DEF ArchiveInv, StoreInv, StoreTypeOK
<1>8. \A p \in Paths :
        /\ commitFiles[id][p] = NoVersion => commitFiles[m.t2][p] = NoVersion
        /\ \E a \in archived : commitFiles[a][p] = commitFiles[id][p]
  BY <1>1, <1>2, MergedVersions DEF KeepsFiles
<1>9. Repo!JoinsParents([parent |-> parentID[id], source |-> sourceID[id],
                         files |-> commitFiles[id]])
  BY <1>2, <1>7, <1>8
     DEF Repo!JoinsParents, Repo!FilesAt, Repo!None, Nil, NoVersion
<1>10. Repo!Publish(m.target)
  BY <1>3, <1>4, <1>5, <1>6, <1>9 DEF Repo!Publish
<1>11. QED
  BY <1>2, <1>10 DEF Repo!Next, Repo!Publish

-----------------------------------------------------------------------------
(* The theorems.                                                           *)

\* The history variable changes no behaviour of the server.
LEMMA ArchiveImplementsStrata == ArchiveSpec => Spec
<1>1. ArchiveInit => Init
  BY DEF ArchiveInit
<1>2. [ArchiveNext]_archiveVars => [Next]_vars
  BY DEF ArchiveNext, archiveVars
<1>3. QED
  BY <1>1, <1>2, PTL DEF ArchiveSpec, Spec

\* Nothing was shown at the start, and no request is in flight.
LEMMA InitArchive == ArchiveInit => ArchiveInv
BY InitFinished DEF ArchiveInit, ArchiveInv

\* Every step keeps the commits that were shown finished.
LEMMA ArchiveStep ==
  ASSUME StoreInv, IdsUnique, ArchiveInv, [ArchiveNext]_archiveVars
  PROVE  ArchiveInv'
<1>1. PICK G \in SUBSET commits : G = archived /\ Finished(G)
  BY DEF ArchiveInv
<1>2. [Next]_vars /\ archived' = G \cup Heads'
  BY <1>1, ArchiveKeeps
<1>3. FinishedWith(G)'
  BY <1>1, <1>2, HistoryStep
<1>4. archived' \in SUBSET commits' /\ Finished(archived)'
  BY <1>2, <1>3 DEF FinishedWith
<1>5. QED
  BY <1>4 DEF ArchiveInv

\* The commits that were ever shown are finished, also those that a lost update
\* has dropped.
THEOREM ArchiveAlwaysFinished == ArchiveSpec => []ArchiveInv
<1>1. StoreInv /\ IdsUnique /\ ArchiveInv /\ [ArchiveNext]_archiveVars
        => ArchiveInv'
  BY ArchiveStep
<1>2. TypeInv => StoreInv
  BY DEF TypeInv
<1>3. QED
  BY <1>1, <1>2, InitArchive, ArchiveImplementsStrata, IdsAlwaysUnique,
     AlwaysTypeInv, PTL DEF ArchiveSpec

\* Unless the swallowed read error of CreateCommit strikes, every step of every
\* handler is a publication, a move of a branch within the archive, or
\* invisible to the clients of the repository.
THEOREM ServerStepsAreRepositorySteps ==
  ASSUME "parentSnapshot" \notin Swallowed
  PROVE  ArchiveSpec => StepsOfRepository
<1>1. StoreInv /\ PushesList /\ MergesBuilt /\ ArchiveInv
      /\ [ArchiveNext]_archiveVars => [Repo!Next]_(Repo!repositoryVars)
  BY ArchiveKeeps, RefMoves, MoveStep, PushPublishes, MergePublishes
     DEF ArchiveInv
<1>2. TypeInv => StoreInv
  BY DEF TypeInv
<1>3. QED
  BY <1>1, <1>2, ArchiveAlwaysFinished, ArchiveImplementsStrata,
     PushesAlwaysList, AlwaysBuilt, AlwaysTypeInv, PTL
     DEF ArchiveSpec, StepsOfRepository

\* Under the same condition the store calls of pushes, merges and branch
\* creations, interleaved and cut off anywhere, implement the abstract
\* repository.
THEOREM ServerImplementsRepository ==
  ASSUME "parentSnapshot" \notin Swallowed
  PROVE  ArchiveSpec => ImplementsRepository
<1>1. ArchiveInit => Repo!Init
  BY DEF ArchiveInit, Init, StoreInit, Repo!Init, Repo!None, Nil
<1>2. QED
  BY <1>1, ServerStepsAreRepositorySteps, PTL
     DEF ArchiveSpec, StepsOfRepository, ImplementsRepository, Repo!Spec

-----------------------------------------------------------------------------
(* The replay of a history.                                                *)

\* The history of a commit is the commit and the histories of its parents.
LEMMA AncestorsClosed ==
  ASSUME NEW G \in SUBSET commits, ClosedUnderParents(G), NEW d \in G
  PROVE  d \in Ancestors(d) /\ ClosedUnderParents(Ancestors(d))
<1>1. Ancestors(d) \subseteq G
  BY AncestorsFinished
<1>2. ASSUME NEW c \in Ancestors(d), NEW x \in ParentIDs(c)
      PROVE  x \in Ancestors(d)
  <2>1. x \in commits
    BY <1>1, <1>2 DEF ClosedUnderParents
  <2>2. ASSUME NEW S \in SUBSET commits, d \in S, ClosedUnderParents(S)
        PROVE  x \in S
    BY <1>2, <2>2 DEF Ancestors, ClosedUnderParents
  <2>3. QED
    BY <2>1, <2>2 DEF Ancestors
<1>3. QED
  BY <1>2 DEF Ancestors, ClosedUnderParents

\* The ancestors of a commit are the commit and those of its parent.
LEMMA AncestorsOfChild ==
  ASSUME NEW G \in SUBSET commits, ClosedUnderParents(G), NEW c \in commits,
         NEW d \in G, ParentIDs(c) = {d}
  PROVE  Ancestors(c) = {c} \cup Ancestors(d)
<1> DEFINE S == {c} \cup Ancestors(d)
<1>1. d \in Ancestors(d) /\ ClosedUnderParents(Ancestors(d))
  BY AncestorsClosed
<1>2. ClosedUnderParents(S) /\ S \in SUBSET commits /\ c \in S
  BY <1>1 DEF ClosedUnderParents, Ancestors
<1>3. Ancestors(c) \subseteq S
  BY <1>2 DEF Ancestors
<1>4. ASSUME NEW a \in S PROVE a \in Ancestors(c)
  <2>1. ASSUME NEW T \in SUBSET commits, c \in T, ClosedUnderParents(T)
        PROVE  a \in T
    BY <1>4, <2>1 DEF Ancestors, ClosedUnderParents
  <2>2. QED
    BY <1>2, <2>1 DEF Ancestors
<1>5. QED
  BY <1>3, <1>4

ReplayInv == \A c \in archived : ReplayGivesSnapshot(c)

\* A history that was shown replays to the same snapshot ever after.
LEMMA ReplayKept ==
  ASSUME NEW G \in SUBSET commits, ClosedUnderParents(G),
         \A a \in G : a \in commits' /\ RowsKept(a),
         NEW c \in G, ReplayGivesSnapshot(c)
  PROVE  ReplayGivesSnapshot(c)'
<1>1. Ancestors(c)' = Ancestors(c) /\ Ancestors(c) \subseteq G
  BY AncestorsKept, AncestorsFinished
<1>2. /\ commitFiles'[c] = commitFiles[c]
      /\ \A a \in Ancestors(c) : /\ fileVersions'[a] = fileVersions[a]
                                 /\ sourceID'[a] = sourceID[a]
  BY <1>1 DEF RowsKept
<1>3. \A p \in Paths : {a \in Ancestors(c) : p \in ListFileTree(a)}'
                          = {a \in Ancestors(c) : p \in ListFileTree(a)}
  BY <1>1, <1>2 DEF ListFileTree
<1>4. QED
  BY <1>1, <1>2, <1>3 DEF ReplayGivesSnapshot, IsMergeCommit

\* A commit over a parent whose history replays adds its own files on top.
LEMMA ReplayOfPush ==
  ASSUME StoreInv, TimesOrdered, NEW G \in SUBSET commits, ClosedUnderParents(G),
         \A a \in G : ReplayGivesSnapshot(a),
         NEW c \in commits, ~ IsMergeCommit(c), SnapshotComplete(c),
         parentID[c] \in G \cup {Nil}
  PROVE  ReplayGivesSnapshot(c)
<1>1. \A a \in commits : a \in Nat /\ parentID[a] \in Nat /\ parentID[a] < a
  BY MaxCommitsAssumption DEF StoreInv, StoreTypeOK, TimesOrdered, CommitIds,
     Versions
<1>2. CASE parentID[c] = Nil
  <2>1. Ancestors(c) = {c}
    BY <1>2 DEF Ancestors, ClosedUnderParents, ParentIDs, IsMergeCommit
  <2>2. \A p \in Paths : /\ p \in fileVersions[c] => commitFiles[c][p] = c
                         /\ p \notin fileVersions[c] => commitFiles[c][p] = NoVersion
    BY <1>2 DEF SnapshotComplete
  <2>3. QED
    BY <1>1, <2>1, <2>2 DEF ReplayGivesSnapshot, ListFileTree
<1>3. CASE parentID[c] \in G
  <2> DEFINE d == parentID[c]
             old(p) == {a \in Ancestors(d) : p \in fileVersions[a]}
             new(p) == {a \in Ancestors(c) : p \in fileVersions[a]}
  <2>1. Ancestors(c) = {c} \cup Ancestors(d)
    <3>1. ParentIDs(c) = {d}
      BY <1>3, IdSets DEF ParentIDs, IsMergeCommit, StoreInv, StoreTypeOK
    <3>2. QED
      BY <1>3, <3>1, AncestorsOfChild
  <2>2. CASE \E a \in Ancestors(d) : IsMergeCommit(a)
    BY <2>1, <2>2 DEF ReplayGivesSnapshot
  <2>3. CASE ~ \E a \in Ancestors(d) : IsMergeCommit(a)
    <3>1. \A p \in Paths :
            IF old(p) = {} THEN commitFiles[d][p] = NoVersion
            ELSE /\ commitFiles[d][p] \in old(p)
                 /\ \A a \in old(p) : a <= commitFiles[d][p]
      BY <1>3, <2>3 DEF ReplayGivesSnapshot, ListFileTree
    <3>2. \A p \in Paths : commitFiles[c][p] = IF p \in fileVersions[c] THEN c
                                               ELSE commitFiles[d][p]
      BY <1>3, IdSets DEF SnapshotComplete, StoreInv, StoreTypeOK
    <3>3. \A a \in Ancestors(d) : a \in Nat /\ a <= c
      BY <1>1, <1>3, AncestorsOlder
    <3>4. ASSUME NEW p \in Paths
          PROVE  IF new(p) = {} THEN commitFiles[c][p] = NoVersion
                 ELSE /\ commitFiles[c][p] \in new(p)
                      /\ \A a \in new(p) : a <= commitFiles[c][p]
      <4>1. CASE p \in fileVersions[c]
        <5>1. c \in new(p) /\ \A a \in new(p) : a <= c
          BY <1>1, <2>1, <3>3, <4>1
        <5>2. QED
          BY <3>2, <4>1, <5>1
      <4>2. CASE p \notin fileVersions[c]
        <5>1. new(p) = old(p)
          BY <2>1, <4>2
        <5>2. QED
          BY <3>1, <3>2, <4>2, <5>1
      <4>3. QED
        BY <4>1, <4>2
    <3>5. QED
      BY <3>4 DEF ReplayGivesSnapshot, ListFileTree
  <2>4. QED
    BY <2>2, <2>3
<1>4. QED
  BY <1>2, <1>3

\* The commit that a push or a merge is about to show replays.
LEMMA ReplayOfPublished ==
  ASSUME "parentSnapshot" \notin Swallowed,
         StoreInv, IdsUnique, TimesOrdered, NEW G \in SUBSET commits, Finished(G),
         \A a \in G : ReplayGivesSnapshot(a), NEW c,
         \/ \E r \in Pushers : /\ pushes[r].pc = "advance" /\ pushes[r].ref # NoRef
                               /\ c = pushes[r].id
         \/ \E r \in Mergers : merges[r].pc = "advance" /\ c = merges[r].id
  PROVE  ReplayGivesSnapshot(c)
<1>1. ASSUME NEW r \in Pushers, pushes[r].pc = "advance", pushes[r].ref # NoRef,
             c = pushes[r].id
      PROVE  ReplayGivesSnapshot(c)
  <2>1. /\ parentID[c] = pushes[r].parent /\ sourceID[c] = Nil /\ c \in commits
        /\ parentID[c] \in G \cup {Nil} /\ LaidOver(c, commitFiles[c], parentID[c])
    BY <1>1 DEF Finished, PushPrepared, IdsUnique
  <2>2. ~ IsMergeCommit(c) /\ SnapshotComplete(c)
    BY <2>1, BuiltIsComplete DEF SnapshotBuilt, IsMergeCommit
  <2>3. QED
    BY <2>1, <2>2, ReplayOfPush DEF Finished
<1>2. ASSUME NEW r \in Mergers, merges[r].pc = "advance", c = merges[r].id
      PROVE  ReplayGivesSnapshot(c)
  <2>1. sourceID[c] = merges[r].s2 /\ merges[r].s2 \in G /\ c \in commits
    BY <1>2 DEF Finished, MergePrepared, HasMerged, HeadsRead, IdsUnique
  <2>2. IsMergeCommit(c) /\ c \in Ancestors(c)
    BY <2>1, IdSets DEF IsMergeCommit, StoreInv, StoreTypeOK, Ancestors
  <2>3. QED
    BY <2>2 DEF ReplayGivesSnapshot
<1>3. QED
  BY <1>1, <1>2

\* Whatever is shown next, every history that was shown replays.
LEMMA ReplayStep ==
  ASSUME "parentSnapshot" \notin Swallowed, StoreInv, IdsUnique, TimesOrdered,
         ArchiveInv, ReplayInv, [ArchiveNext]_archiveVars
  PROVE  ReplayInv'
<1>1. PICK G \in SUBSET commits : G = archived /\ Finished(G)
  BY DEF ArchiveInv
<1>2. /\ \A a \in G : a \in commits' /\ RowsKept(a)
      /\ archived' = G \cup Heads' /\ [Next]_vars
  BY <1>1, ArchiveKeeps
<1>3. /\ ClosedUnderParents(G) /\ \A a \in G : ReplayGivesSnapshot(a)
      /\ \A b \in Branches : refs[b] \in G \cup {Nil}
      /\ refs \in [Branches -> Versions]
  BY <1>1 DEF Finished, ReplayInv, StoreInv, StoreTypeOK
<1>4. \A c \in G : ReplayGivesSnapshot(c)'
  BY <1>2, <1>3, ReplayKept
<1>5. CASE Heads' \subseteq G
  BY <1>2, <1>4, <1>5 DEF ReplayInv
<1>6. ASSUME NEW c, ReplayGivesSnapshot(c),
             UNCHANGED <<commits, parentID, sourceID, fileVersions, commitFiles>>,
             \E b \in Branches : refs' = [refs EXCEPT ![b] = c]
      PROVE  ReplayInv'
  <2>1. ReplayGivesSnapshot(c)'
    <3>1. Ancestors(c)' = Ancestors(c)
      BY <1>6 DEF Ancestors, ClosedUnderParents, ParentIDs
    <3>2. /\ commitFiles'[c] = commitFiles[c]
          /\ \A a : sourceID'[a] = sourceID[a] /\ fileVersions'[a] = fileVersions[a]
      BY <1>6
    <3>3. \A p \in Paths : {a \in Ancestors(c) : p \in ListFileTree(a)}'
                              = {a \in Ancestors(c) : p \in ListFileTree(a)}
      BY <3>1, <3>2 DEF ListFileTree
    <3>4. QED
      BY <1>6, <3>1, <3>2, <3>3 DEF ReplayGivesSnapshot, IsMergeCommit
  <2>2. Heads' \subseteq G \cup {c}
    BY <1>3, <1>6 DEF Heads
  <2>3. QED
    BY <1>2, <1>4, <2>1, <2>2 DEF ReplayInv
<1>7. ASSUME NEW r \in Pushers, AdvanceRef(r), pushes[r].ref # NoRef
      PROVE  ReplayInv'
  <2>1. pushes[r].ref \in Branches
    BY <1>7 DEF StoreInv, PushTypeOK, PushRecord
  <2>2. ReplayGivesSnapshot(pushes[r].id)
    BY <1>1, <1>3, <1>7, ReplayOfPublished DEF AdvanceRef
  <2>3. QED
    BY <1>6, <1>7, <2>1, <2>2 DEF AdvanceRef, UpsertRef
<1>8. ASSUME NEW r \in Mergers, AdvanceTarget(r)
      PROVE  ReplayInv'
  <2>1. merges[r].target \in Branches
    BY <1>8 DEF AdvanceTarget, StoreInv, MergeReady, ReadyMerge
  <2>2. ReplayGivesSnapshot(merges[r].id)
    BY <1>1, <1>3, <1>8, ReplayOfPublished DEF AdvanceTarget
  <2>3. QED
    BY <1>6, <1>8, <2>1, <2>2 DEF AdvanceTarget, UpsertRef
<1>9. CASE \/ UNCHANGED refs
           \/ \E b \in Branches, c \in G : refs' = [refs EXCEPT ![b] = c]
  <2>1. Heads' \subseteq G
    BY <1>3, <1>9 DEF Heads
  <2>2. QED
    BY <1>5, <2>1
<1>10. QED
  BY <1>1, <1>2, <1>7, <1>8, <1>9, RefMoves

\* Unless the swallowed read error of CreateCommit strikes, a client that
\* applies the files of every commit of a branch in order has its snapshot.
THEOREM ReplayAlwaysRebuilds ==
  ASSUME "parentSnapshot" \notin Swallowed
  PROVE  ArchiveSpec => []ReplayRebuildsSnapshot
<1>1. ArchiveInit => ReplayInv
  BY DEF ArchiveInit, ReplayInv
<1>2. StoreInv /\ IdsUnique /\ TimesOrdered /\ ArchiveInv /\ ReplayInv
      /\ [ArchiveNext]_archiveVars => ReplayInv'
  BY ReplayStep
<1>3. ArchiveInv /\ ReplayInv => ReplayRebuildsSnapshot
  BY DEF ArchiveInv, Finished, ReplayInv, ReplayRebuildsSnapshot
<1>4. TypeInv => StoreInv
  BY DEF TypeInv
<1>5. QED
  BY <1>1, <1>2, <1>3, <1>4, ArchiveAlwaysFinished, ArchiveImplementsStrata,
     AlwaysOrdered, IdsAlwaysUnique, AlwaysTypeInv, PTL DEF ArchiveSpec

=============================================================================
