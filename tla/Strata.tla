------------------------------- MODULE Strata -------------------------------
(***************************************************************************)
(* One project of the STRATA server: every handler that changes the        *)
(* project's state, running concurrently over the shared tables.           *)
(***************************************************************************)
EXTENDS Push, Merge

CONSTANT PushRefs       \* bound: the refs that the pushes of an instance name

ASSUME PushRefsAssumption == PushRefs \subseteq Branches \cup {NoRef}

vars == <<storeVars, lockVars, chunkVars, pushVars, mergeVars>>

TypeOK ==
  /\ StoreTypeOK
  /\ LocksTypeOK
  /\ ChunksTypeOK
  /\ PushTypeOK
  /\ MergeTypeOK

Init ==
  /\ StoreInit
  /\ LocksInit
  /\ ChunksInit
  /\ PushInit
  /\ MergeInit

\* Bound: a request that may need a commit id starts only while there are ids
\* for it and for every request that has not taken its own yet.
RoomForCommit ==
  lastID + Cardinality({r \in Pushers : pushes[r].pc = "check"})
         + Cardinality({r \in Mergers : merges[r].pc \in
                          {"target", "source2", "target2", "resolve"}})
    < MaxCommits

\* A request arrives.
Begin ==
  \/ /\ RoomForCommit
     /\ \/ \E r \in Pushers, u \in Users, b \in PushRefs,
              parent \in commits \cup {Nil}, files \in SUBSET Paths,
              manifest \in [Paths -> SUBSET Hashes] :
             BeginPush(r, u, b, parent, files, manifest) /\ UNCHANGED mergeVars
        \/ \E r \in Mergers, source, target \in Branches :
             /\ BeginMerge(r, source, target)
             /\ UNCHANGED <<lockVars, chunkVars, pushVars>>
  \/ \E r \in Branchers, name, fromRef \in Branches :
       /\ BeginCreateBranch(r, name, fromRef)
       /\ UNCHANGED <<lockVars, chunkVars, pushVars>>

\* The steps of the handlers in flight, each beside everything else.
DoPush(r) == PushStep(r) /\ UNCHANGED mergeVars
DoMerge(r) == MergeStep(r) /\ UNCHANGED <<lockVars, chunkVars, pushVars>>
DoCreate(r) == CreateStep(r) /\ UNCHANGED <<lockVars, chunkVars, pushVars>>

\* A request is cut off between two of its store calls.
Abort ==
  \/ \E r \in Pushers : AbortPush(r) /\ UNCHANGED mergeVars
  \/ /\ \/ \E r \in Mergers : AbortMerge(r)
        \/ \E r \in Branchers : AbortCreateBranch(r)
     /\ UNCHANGED <<lockVars, chunkVars, pushVars>>

Next ==
  \/ Begin
  \/ \E r \in Pushers : DoPush(r)
  \/ \E r \in Mergers : DoMerge(r)
  \/ \E r \in Branchers : DoCreate(r)
  \/ Abort
  \/ ChunksNext /\ UNCHANGED <<storeVars, lockVars, pushVars, mergeVars>>
  \/ LocksNext /\ UNCHANGED <<storeVars, chunkVars, pushVars, mergeVars>>

Spec == Init /\ [][Next]_vars

\* A request in flight goes on until it ends: net/http gives every request a
\* goroutine, the Go scheduler runs it, no lock is held across store calls, and
\* a call that hangs is ended by middleware.Timeout.  A cut-off is never owed.
Fairness ==
  /\ \A r \in Pushers : WF_vars(DoPush(r))
  /\ \A r \in Mergers : WF_vars(DoMerge(r))
  /\ \A r \in Branchers : WF_vars(DoCreate(r))

FairSpec == Spec /\ Fairness

-----------------------------------------------------------------------------
(* Published history.                                                      *)

\* The commits that the branches name.
Heads == {refs[b] : b \in Branches} \ {Nil}

\* The commits that a client can reach from some branch.
Published == UNION {Ancestors(refs[b]) : b \in Branches}

\* What the snapshot of a commit must be.  A pushed commit holds its own new
\* versions over the files of its parent; a merge commit loses no file of the
\* branch it was merged into.
SnapshotComplete(c) ==
  IF IsMergeCommit(c)
    THEN parentID[c] # Nil /\ KeepsFiles(commitFiles[parentID[c]], commitFiles[c])
    ELSE \A p \in Paths :
           commitFiles[c][p] =
             IF p \in fileVersions[c] THEN c
             ELSE IF parentID[c] = Nil THEN NoVersion
             ELSE commitFiles[parentID[c]][p]

\* Every version of a snapshot is the version that some commit created.
VersionsExist(c) ==
  \A p \in Paths : commitFiles[c][p] # NoVersion
                     => p \in fileVersions[commitFiles[c][p]]

\* SAFETY.  However pushes, merges and branch creations interleave and
\* wherever they are cut off, a branch only ever shows commits that are
\* finished: their rows, their parents' rows and complete snapshots are there
\* ("every commit is a complete snapshot").  No transaction protects
\* CreateCommit and Execute; only the order of their store calls does.
PublishedSnapshotsComplete ==
  \A b \in Branches : refs[b] # Nil =>
    /\ refs[b] \in commits
    /\ \A c \in Ancestors(refs[b]) :
         /\ ParentIDs(c) \subseteq commits
         /\ SnapshotComplete(c)
         /\ VersionsExist(c)

\* Replaying the files that each commit in the history of c lists, in order,
\* gives the snapshot of c.  (A merge commit lists no file of its own.)
ReplayGivesSnapshot(c) ==
  LET history == Ancestors(c)
      changes(p) == {a \in history : p \in ListFileTree(a)}
  IN  (\E a \in history : IsMergeCommit(a)) \/
        \A p \in Paths :
          IF changes(p) = {} THEN commitFiles[c][p] = NoVersion
          ELSE /\ commitFiles[c][p] \in changes(p)
               /\ \A a \in changes(p) : a <= commitFiles[c][p]

\* SAFETY.  The two records of a history agree: a client that pulls every commit
\* of a branch and applies the files it lists has the snapshot of the head.
ReplayRebuildsSnapshot ==
  \A b \in Branches : refs[b] # Nil => ReplayGivesSnapshot(refs[b])

\* ACTION.  The rows of a published commit are never written again, although
\* every insert of the code is an upsert or can run late: a checkout of a
\* commit returns the same files for ever.
PublishedCommitsImmutable ==
  [][\A c \in Published :
       /\ c \in commits'
       /\ parentID'[c] = parentID[c]
       /\ sourceID'[c] = sourceID[c]
       /\ fileVersions'[c] = fileVersions[c]
       /\ commitFiles'[c] = commitFiles[c]]_vars

-----------------------------------------------------------------------------
(* Refs.                                                                   *)

\* The requests about to overwrite a head of branch b other than the one they
\* have read: it moved since, or their read failed and the error was dropped.
\* Of the heads that a merge has read twice, the one it builds on counts; a
\* fast-forward is raced, too, when the source has left the history that was
\* analysed.
PushRaced(r, b) ==
  pushes[r].pc = "advance" /\ pushes[r].ref = b /\ pushes[r].head # refs[b]

MergeRaced(r, b) ==
  LET m == merges[r]
  IN  /\ m.target = b
      /\ \/ /\ m.pc = "fastForward"
            /\ m.t1 # refs[b] \/ ~ IsAncestor(m.s1, m.s2)
         \/ m.pc = "advance" /\ m.t2 # refs[b]

CreateRaced(r, b) ==
  creates[r].pc = "create" /\ creates[r].name = b /\ creates[r].found # refs[b]

\* Branch b leaves its own history: the old head is no ancestor of the new one.
LeavesHistory(b) ==
  \E head \in {refs[b]} : /\ head # Nil
                          /\ refs'[b] # head
                          /\ ~ IsAncestor(head, refs[b])'

\* ACTION.  A commit drops out of a branch only to a race: the request that
\* writes the ref has read another head than the one it overwrites, or it
\* fast-forwards to a source that has itself dropped the head it analysed.
\* Without a request in between, the checks of CreateCommit, Analyze and
\* CreateBranch make every move a fast-forward.
RefsMoveForwardUnlessRaced ==
  [][\A b \in Branches : LeavesHistory(b) =>
       \/ \E r \in Pushers : PushRaced(r, b) /\ pushes'[r] = IdlePush
       \/ \E r \in Mergers : MergeRaced(r, b) /\ merges'[r] = IdleMerge
       \/ \E r \in Branchers : CreateRaced(r, b) /\ creates'[r] = IdleCreate]_vars

\* ACTION, what service/version.go says of CreateCommit: "Verify parent matches
\* current ref head (optimistic concurrency)".  A branch only moves forward.
RefsMoveForward ==
  [][\A b \in Branches : ~ LeavesHistory(b)]_vars

-----------------------------------------------------------------------------
(* Merges.                                                                 *)

\* SAFETY.  The merge base is a best common ancestor of the analysed heads:
\* no other common ancestor descends from it.  FindMergeBase orders by
\* created_at only, which is right because a commit takes its time stamp after
\* its parents have taken theirs.
MergeBaseIsBest ==
  \A r \in Mergers : merges[r].base # Nil =>
    LET m == merges[r]
        common == CommonAncestors(m.s1, m.t1)
    IN  /\ m.base \in common
        /\ \A a \in common : m.base \in Ancestors(a) => a = m.base

\* The merged snapshot of m is the three-way merge of s and t over base.
MergesThreeWay(m, base, s, t) ==
  LET b == commitFiles[base]
      source == commitFiles[s]
      target == commitFiles[t]
  IN  \E res \in ValidResolutions(b, source, target) :
        m.merged = ThreeWay(b, source, target, res)

HasMerged(m) == m.pc \in {"create", "snapshot", "advance"}

\* SAFETY.  When neither branch moved between Analyze and Execute, the snapshot
\* Execute builds is the three-way merge of the two heads over their merge
\* base, for every history the handlers can produce (criss-cross ones too) in
\* which the source still holds the files of the base.  Only a merge that was
\* itself raced and a push that could not read the snapshot of its parent drop
\* files, and Analyze takes no such deletion over.
MergeIsThreeWay ==
  \A r \in Mergers :
    LET m == merges[r]
    IN  /\ HasMerged(m) /\ m.s1 = m.s2 /\ m.t1 = m.t2
        /\ KeepsFiles(commitFiles[m.base], commitFiles[m.s1])
        => MergesThreeWay(m, m.base, m.s1, m.t1)

\* SAFETY, what service/merge.go says of Execute: "Re-analyze to get current
\* state (prevents TOCTOU issues)".  A merge commit is the three-way merge of
\* the two parents it records.
MergeCommitMatchesParents ==
  \A r \in Mergers :
    LET m == merges[r]
    IN  m.pc = "advance" =>
          \A base \in AnalysisBase(m.s2, m.t2) :
            MergesThreeWay(m, base, m.s2, m.t2)

-----------------------------------------------------------------------------
(* Chunks of commits.                                                      *)

\* SAFETY.  A chunk that a published commit lists can be downloaded and is not
\* free to be collected: its row is there, ref_count is positive and its bytes
\* are stored, provided the client uploads before it commits.
PublishedChunksHeld ==
  \A c \in Published : \A h \in HashesOf(c) :
    h \in chunks /\ refCount[h] > 0 /\ blobs[h] = h

\* SAFETY.  ref_count is exactly the number of commits that were counted and
\* list the chunk: concurrent pushes lose no increment, a repeated hash counts
\* once, and an upload of a known chunk does not reset the count.
RefCountExact ==
  \A h \in Hashes :
    refCount[h] = Cardinality({c \in counted : h \in HashesOf(c)})

-----------------------------------------------------------------------------
(* The inductive invariant behind PublishedSnapshotsComplete.              *)

\* Ids are handed out once: those of the commits and of the requests in flight
\* are not beyond lastID, no two requests share one, and a commit that is not
\* inserted yet has no rows.
IdsUnique ==
  /\ \A c \in commits : c <= lastID
  /\ \A c \in CommitIds \ commits : fileVersions[c] = {}
  /\ \A r \in Pushers :
       /\ pushes[r].id <= lastID
       /\ pushes[r].pc \in {"idle", "check"} <=> pushes[r].id = Nil
       /\ pushes[r].pc = "create" => pushes[r].id \notin commits
       /\ pushes[r].pc \notin {"idle", "check", "create"}
            => pushes[r].id \in commits
       /\ \A q \in Pushers : pushes[q].id = pushes[r].id /\ q # r
                               => pushes[r].id = Nil
       /\ \A q \in Mergers : merges[q].id = pushes[r].id => pushes[r].id = Nil
  /\ \A r \in Mergers :
       /\ merges[r].id <= lastID
       /\ HasMerged(merges[r]) <=> merges[r].id # Nil
       /\ merges[r].pc = "create" => merges[r].id \notin commits
       /\ merges[r].pc \in {"snapshot", "advance"} => merges[r].id \in commits
       /\ \A q \in Mergers : merges[q].id = merges[r].id /\ q # r
                               => merges[r].id = Nil

\* A snapshot of commit c that was started from its parent's: the versions that
\* c has created so far over what the read of the parent's snapshot may yield.
LaidOver(c, snapshot, parent) ==
  \E start \in IF parent = Nil THEN {EmptySnapshot} ELSE GetCommitSnapshot(parent) :
    \A p \in Paths :
      snapshot[p] = IF p \in fileVersions[c] THEN c ELSE start[p]

\* The snapshot of a commit is finished, and as complete as the read of its
\* parent's was: without an error there, SnapshotComplete.
SnapshotBuilt(c) ==
  IF IsMergeCommit(c)
    THEN parentID[c] # Nil /\ KeepsFiles(commitFiles[parentID[c]], commitFiles[c])
    ELSE LaidOver(c, commitFiles[c], parentID[c])

\* A push to a branch that has passed the head check: its parent is finished
\* and its rows are the first part of a finished commit.
PushPrepared(q, G) ==
  /\ q.pc \in {"idle", "check", "create"} => q.snapshot = EmptySnapshot
  /\ q.ref # NoRef /\ q.pc \notin {"idle", "check"} =>
       /\ q.parent \in G \cup {Nil}
       /\ q.pc \in {"create", "parent"} => fileVersions[q.id] = {}
       /\ q.pc = "parent" => q.parent # Nil
       /\ q.pc # "create" => parentID[q.id] = q.parent /\ sourceID[q.id] = Nil
       /\ q.pc = "files" => LaidOver(q.id, q.snapshot, q.parent)
       /\ q.pc \in {"count", "advance"} => LaidOver(q.id, commitFiles[q.id], q.parent)

\* A merge: the heads it has read are finished, a failed read ends it before it
\* builds anything, and the snapshot it has built drops no file of the target
\* except by a resolution to "".
MergePrepared(m, G) ==
  /\ m.pc # "idle" => m.s1 \in G
  /\ m.pc \notin {"idle", "target"} => m.t1 \in G /\ m.base \in G
  /\ {m.s2, m.t2} \subseteq G \cup {Nil}
  /\ HasMerged(m) =>
       /\ HeadsRead(m)
       /\ \A p \in Paths : m.merged[p] # NoVersion
                             => p \in fileVersions[m.merged[p]]
       /\ HasEmptyVersion(m) \/ KeepsFiles(commitFiles[m.t2], m.merged)
  /\ m.pc \in {"snapshot", "advance"} => /\ parentID[m.id] = m.t2
                                         /\ sourceID[m.id] = m.s2
  /\ m.pc = "advance" => /\ commitFiles[m.id] = m.merged
                         /\ KeepsFiles(commitFiles[m.t2], m.merged)

\* G is a set of finished commits: closed under parents, with their whole
\* snapshots, not being written by any request, and holding every head that
\* the refs or the requests in flight may still publish.
Finished(G) ==
  /\ ClosedUnderParents(G)
  /\ \A c \in G : SnapshotBuilt(c) /\ VersionsExist(c)
  /\ \A b \in Branches : refs[b] # Nil => refs[b] \in G
  /\ \A r \in Pushers : pushes[r].id \notin G /\ PushPrepared(pushes[r], G)
  /\ \A r \in Mergers : merges[r].id \notin G /\ MergePrepared(merges[r], G)
  /\ \A r \in Branchers : creates[r].pc # "idle" => creates[r].head \in G

\* INDUCTIVE.  Some set of finished commits holds all that is published or can
\* be published without another look at the tables: no request in flight can
\* make an unfinished or foreign commit visible.
HistoryInv == \E G \in SUBSET commits : Finished(G)

=============================================================================
