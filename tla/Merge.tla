-------------------------------- MODULE Merge --------------------------------
(***************************************************************************)
(* POST /branches (handler/merge.go CreateBranch) and POST /merge          *)
(* (handler/merge.go ExecuteMerge, service/merge.go Analyze and Execute).  *)
(*                                                                         *)
(* Each read of a ref and each write is an action.  The reads of the       *)
(* commit graph and of snapshots that follow a read of a ref are folded    *)
(* into it: the rows of a published commit never change afterwards.        *)
(***************************************************************************)
EXTENDS CommitStore

CONSTANTS Mergers,      \* concurrent merge handlers
          Branchers,    \* concurrent create-branch handlers
          NoBranch      \* a handler that serves no request

ASSUME MergeAssumption == NoBranch \notin Branches

VARIABLES creates,      \* the create-branch handlers
          merges        \* the merge handlers

mergeVars == <<creates, merges>>

\* head: the head of the source ref; found: what the lookup of the name read.
CreateRecord == [pc : {"idle", "exists", "create"},
                 name : Branches \cup {NoBranch}, head : Versions,
                 found : Versions]

IdleCreate == [pc |-> "idle", name |-> NoBranch, head |-> Nil,
               found |-> Nil]

MergePC == {"idle", "target", "source2", "target2", "fastForward", "resolve",
            "create", "snapshot", "advance"}

\* s1, t1: the heads Analyze reads; s2, t2: the heads Execute reads again.
MergeRecord == [pc : MergePC, source : Branches \cup {NoBranch},
                target : Branches \cup {NoBranch},
                s1 : Versions, t1 : Versions, base : Versions,
                s2 : Versions, t2 : Versions,
                merged : Snapshot, id : Versions]

IdleMerge == [pc |-> "idle", source |-> NoBranch, target |-> NoBranch,
              s1 |-> Nil, t1 |-> Nil, base |-> Nil, s2 |-> Nil, t2 |-> Nil,
              merged |-> EmptySnapshot, id |-> Nil]

MergeTypeOK ==
  /\ creates \in [Branchers -> CreateRecord]
  /\ merges \in [Mergers -> MergeRecord]

MergeInit ==
  /\ creates = [r \in Branchers |-> IdleCreate]
  /\ merges = [r \in Mergers |-> IdleMerge]

-----------------------------------------------------------------------------
(* CreateBranch.                                                           *)

EndCreate(r) == creates' = [creates EXCEPT ![r] = IdleCreate]

\* The source ref is resolved; a missing one is a 404.
BeginCreateBranch(r, name, fromRef) ==
  /\ creates[r].pc = "idle"
  /\ refs[fromRef] # Nil
  /\ creates' = [creates EXCEPT
       ![r] = [IdleCreate EXCEPT !.pc = "exists", !.name = name,
                                 !.head = refs[fromRef]]]
  /\ UNCHANGED <<storeVars, merges>>

\* An existing branch is a 409; any error of the lookup reads as "absent".
CheckBranchExists(r) ==
  /\ creates[r].pc = "exists"
  /\ \E found \in GetRef(creates[r].name, "branchCheck") :
       \/ /\ found # Nil
          /\ EndCreate(r)
       \/ /\ found = Nil
          /\ creates' = [creates EXCEPT ![r].pc = "create", ![r].found = found]
  /\ UNCHANGED <<storeVars, merges>>

CreateBranchRef(r) ==
  /\ creates[r].pc = "create"
  /\ UpsertRef(creates[r].name, creates[r].head)
  /\ EndCreate(r)
  /\ UNCHANGED <<commits, parentID, sourceID, fileVersions, chunkHashes,
                 commitFiles, lastID, merges>>

AbortCreateBranch(r) ==
  /\ creates[r].pc # "idle"
  /\ EndCreate(r)
  /\ UNCHANGED <<storeVars, merges>>

CreateStep(r) ==
  \/ CheckBranchExists(r)
  \/ CreateBranchRef(r)

-----------------------------------------------------------------------------
(* Execute.                                                                *)

EndMerge(r) == merges' = [merges EXCEPT ![r] = IdleMerge]

\* Analyze of two different branches reads the source head.
BeginMerge(r, source, target) ==
  /\ merges[r].pc = "idle"
  /\ source # target
  /\ refs[source] # Nil
  /\ merges' = [merges EXCEPT
       ![r] = [IdleMerge EXCEPT !.pc = "target", !.source = source,
                                !.target = target, !.s1 = refs[source]]]
  /\ UNCHANGED <<storeVars, creates>>

\* Mutant: the arguments of the ancestor test are swapped.
MutAnalysisBase(s, t) == IF IsAncestor(s, t) THEN {t} ELSE FindMergeBase(s, t)

\* The base Analyze settles on, as a set of at most one commit: the target
\* head itself when the merge is a fast-forward, otherwise the merge base.
AnalysisBase(s, t) == IF IsAncestor(t, s) THEN {t} ELSE FindMergeBase(s, t)

\* Analyze reads the target head and walks the graph; a missing target branch
\* and unrelated histories end the request.
AnalyzeMerge(r) ==
  LET m == merges[r]
      t == refs[m.target]
  IN  /\ m.pc = "target"
      /\ \/ /\ t = Nil \/ AnalysisBase(m.s1, t) = {}
            /\ EndMerge(r)
         \/ /\ t # Nil
            /\ \E base \in AnalysisBase(m.s1, t) :
                 merges' = [merges EXCEPT ![r].pc = "source2", ![r].t1 = t,
                                          ![r].base = base]
      /\ UNCHANGED <<storeVars, creates>>

\* Execute reads the two heads once more and looks at neither error.
RereadSource(r) ==
  LET m == merges[r]
  IN  /\ m.pc = "source2"
      /\ \E head \in GetRef(m.source, "sourceReread") :
           merges' = [merges EXCEPT ![r].pc = "target2", ![r].s2 = head]
      /\ UNCHANGED <<storeVars, creates>>

RereadTarget(r) ==
  LET m == merges[r]
  IN  /\ m.pc = "target2"
      /\ \E head \in GetRef(m.target, "targetReread") :
           merges' = [merges EXCEPT
             ![r].pc = IF m.base = m.t1 THEN "fastForward" ELSE "resolve",
             ![r].t2 = head]
      /\ UNCHANGED <<storeVars, creates>>

\* Both reads have yielded a ref.
HeadsRead(m) == m.s2 # Nil /\ m.t2 # Nil

\* Mutant: a fast-forward that has read no head waits for one.
MutPanicMerge(r) ==
  /\ merges[r].pc = "resolve"
  /\ ~ HeadsRead(merges[r])
  /\ EndMerge(r)
  /\ UNCHANGED <<storeVars, creates>>

\* A nil ref is dereferenced: a panic, which middleware.Recoverer turns into a
\* 500.  The fast-forward and the merge commit both meet it before they write.
PanicMerge(r) ==
  /\ merges[r].pc \in {"fastForward", "resolve"}
  /\ ~ HeadsRead(merges[r])
  /\ EndMerge(r)
  /\ UNCHANGED <<storeVars, creates>>

FastForward(r) ==
  /\ merges[r].pc = "fastForward"
  /\ HeadsRead(merges[r])
  /\ UpsertRef(merges[r].target, merges[r].s2)
  /\ EndMerge(r)
  /\ UNCHANGED <<commits, parentID, sourceID, fileVersions, chunkHashes,
                 commitFiles, lastID, creates>>

\* The conflicts that the analysis of m found.
ConflictsOf(m) ==
  Conflicts(commitFiles[m.base], commitFiles[m.s1], commitFiles[m.t1])

ResolutionsOf(m) ==
  ValidResolutions(commitFiles[m.base], commitFiles[m.s1], commitFiles[m.t1])

\* Mutant: the merged snapshot starts from the merge base.
MutMergedFromBase(m, res) ==
  MergedSnapshot(commitFiles[m.base], commitFiles[m.s1], commitFiles[m.t1],
                 commitFiles[m.base], res)

\* mergedMap: the classification comes from the analysed heads, the snapshot
\* it is applied to from the target head read again.
MergedFrom(m, res) ==
  MergedSnapshot(commitFiles[m.base], commitFiles[m.s1], commitFiles[m.t1],
                 commitFiles[m.t2], res)

\* Mutant: the merge commit gets an id that is handed out again.
MutResolveMerge(r) ==
  LET m == merges[r]
  IN  /\ m.pc = "resolve"
      /\ HeadsRead(m)
      /\ lastID < MaxCommits
      /\ \E res \in ResolutionsOf(m) :
           merges' = [merges EXCEPT ![r].pc = "create", ![r].id = lastID + 1,
                                    ![r].merged = MergedFrom(m, res)]
      /\ UNCHANGED <<storeVars, creates>>

\* The resolutions are validated, the merged snapshot is built, created_at
\* and the id are taken.
ResolveMerge(r) ==
  LET m == merges[r]
  IN  /\ m.pc = "resolve"
      /\ HeadsRead(m)
      /\ lastID < MaxCommits
      /\ lastID' = lastID + 1
      /\ \E res \in ResolutionsOf(m) :
           merges' = [merges EXCEPT ![r].pc = "create", ![r].id = lastID + 1,
                                    ![r].merged = MergedFrom(m, res)]
      /\ UNCHANGED <<commits, parentID, sourceID, fileVersions, chunkHashes,
                     commitFiles, refs, creates>>

\* Missing or invalid resolutions: 409 or 400.
RejectMerge(r) ==
  /\ merges[r].pc = "resolve"
  /\ ConflictsOf(merges[r]) # {}
  /\ EndMerge(r)
  /\ UNCHANGED <<storeVars, creates>>

\* Mutant: the snapshot of the merge commit is never written.
MutInsertMergeCommit(r) ==
  LET m == merges[r]
  IN  /\ m.pc = "create"
      /\ CreateCommit(m.id, m.t2, m.s2)
      /\ merges' = [merges EXCEPT ![r].pc = "advance"]
      /\ UNCHANGED <<fileVersions, chunkHashes, commitFiles, refs, lastID,
                     creates>>

InsertMergeCommit(r) ==
  LET m == merges[r]
  IN  /\ m.pc = "create"
      /\ CreateCommit(m.id, m.t2, m.s2)
      /\ merges' = [merges EXCEPT ![r].pc = "snapshot"]
      /\ UNCHANGED <<fileVersions, chunkHashes, commitFiles, refs, lastID,
                     creates>>

\* A conflict resolved to "": the empty string is no UUID and the insert of
\* the whole snapshot fails.
HasEmptyVersion(m) == \E p \in ConflictsOf(m) : m.merged[p] = NoVersion

\* Mutant: the failure of the insert is ignored.
MutWriteMergeSnapshot(r) ==
  LET m == merges[r]
  IN  /\ m.pc = "snapshot"
      /\ IF HasEmptyVersion(m) THEN UNCHANGED commitFiles
                               ELSE SetCommitFiles(m.id, m.merged)
      /\ merges' = [merges EXCEPT ![r].pc = "advance"]
      /\ UNCHANGED <<commits, parentID, sourceID, fileVersions, chunkHashes,
                     refs, lastID, creates>>

WriteMergeSnapshot(r) ==
  LET m == merges[r]
  IN  /\ m.pc = "snapshot"
      /\ IF HasEmptyVersion(m)
           THEN EndMerge(r) /\ UNCHANGED commitFiles
           ELSE /\ SetCommitFiles(m.id, m.merged)
                /\ merges' = [merges EXCEPT ![r].pc = "advance"]
      /\ UNCHANGED <<commits, parentID, sourceID, fileVersions, chunkHashes,
                     refs, lastID, creates>>

\* As in a push, the upsert does not compare the head it replaces.
AdvanceTarget(r) ==
  /\ merges[r].pc = "advance"
  /\ UpsertRef(merges[r].target, merges[r].id)
  /\ EndMerge(r)
  /\ UNCHANGED <<commits, parentID, sourceID, fileVersions, chunkHashes,
                 commitFiles, lastID, creates>>

AbortMerge(r) ==
  /\ merges[r].pc # "idle"
  /\ EndMerge(r)
  /\ UNCHANGED <<storeVars, creates>>

MergeStep(r) ==
  \/ AnalyzeMerge(r)
  \/ RereadSource(r)
  \/ RereadTarget(r)
  \/ PanicMerge(r)
  \/ FastForward(r)
  \/ ResolveMerge(r)
  \/ RejectMerge(r)
  \/ InsertMergeCommit(r)
  \/ WriteMergeSnapshot(r)
  \/ AdvanceTarget(r)

=============================================================================
