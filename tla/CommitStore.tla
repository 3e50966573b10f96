----------------------------- MODULE CommitStore -----------------------------
(***************************************************************************)
(* The version-control tables of one project: commits, file_versions,      *)
(* commit_files and refs, and the queries of store/postgres/commit.go on   *)
(* them.  Every statement runs in autocommit, so one statement is one      *)
(* atomic step of the handlers that EXTEND this module.                    *)
(*                                                                         *)
(* A commit id is the position of the commit's created_at in time: the     *)
(* handlers take time.Now() and generateUUID() together, so one counter    *)
(* gives both.  A file version is created by one commit for one path; the  *)
(* commit's id identifies it among the versions of that path.              *)
(***************************************************************************)
EXTENDS MergeAnalysis

CONSTANTS Branches,     \* branch names
          MaxCommits    \* bound: commits ever allocated

ASSUME MaxCommitsAssumption == MaxCommits \in Nat

Nil == 0                              \* a nil commit id, or an absent ref row
CommitIds == 1..MaxCommits
Versions == 0..MaxCommits             \* NoVersion or the creating commit
Snapshot == [Paths -> Versions]
EmptySnapshot == [p \in Paths |-> NoVersion]

VARIABLES commits,      \* ids of the rows of commits
          parentID,     \* parent_id, the first of parent_ids
          sourceID,     \* the second of parent_ids, Nil unless a merge commit
          fileVersions, \* file_versions: the paths with a row for the commit
          chunkHashes,  \* file_versions.chunk_hashes of those rows
          commitFiles,  \* commit_files: the snapshot of the commit
          refs,         \* refs of type branch: name -> commit_id
          lastID        \* the latest created_at handed out

storeVars == <<commits, parentID, sourceID, fileVersions, chunkHashes,
               commitFiles, refs, lastID>>

StoreTypeOK ==
  /\ commits \in SUBSET CommitIds
  /\ parentID \in [CommitIds -> Versions]
  /\ sourceID \in [CommitIds -> Versions]
  /\ fileVersions \in [CommitIds -> SUBSET Paths]
  /\ chunkHashes \in [CommitIds -> [Paths -> SUBSET Hashes]]
  /\ commitFiles \in [CommitIds -> Snapshot]
  /\ refs \in [Branches -> Versions]
  /\ lastID \in Versions

StoreInit ==
  /\ commits = {}
  /\ parentID = [c \in CommitIds |-> Nil]
  /\ sourceID = [c \in CommitIds |-> Nil]
  /\ fileVersions = [c \in CommitIds |-> {}]
  /\ chunkHashes = [c \in CommitIds |-> [p \in Paths |-> {}]]
  /\ commitFiles = [c \in CommitIds |-> EmptySnapshot]
  /\ refs = [b \in Branches |-> Nil]
  /\ lastID = 0

-----------------------------------------------------------------------------
(* Statements that write.                                                  *)

\* INSERT INTO commits.
CreateCommit(c, parent, source) ==
  /\ commits' = commits \cup {c}
  /\ parentID' = [parentID EXCEPT ![c] = parent]
  /\ sourceID' = [sourceID EXCEPT ![c] = source]

\* The files row of path p is upserted and found again, and its version of
\* commit c inserted with its chunk hashes.
InsertFileVersion(c, p, hashes) ==
  /\ fileVersions' = [fileVersions EXCEPT ![c] = @ \cup {p}]
  /\ chunkHashes' = [chunkHashes EXCEPT ![c][p] = hashes]

\* INSERT INTO commit_files for the whole snapshot.
SetCommitFiles(c, snapshot) ==
  commitFiles' = [commitFiles EXCEPT ![c] = snapshot]

\* INSERT INTO refs ... ON CONFLICT DO UPDATE: the old head is not compared.
UpsertRef(b, c) == refs' = [refs EXCEPT ![b] = c]

-----------------------------------------------------------------------------
(* Queries.                                                                *)

\* What the read of the parent's snapshot yields: an error reads as no files.
GetCommitSnapshot(c) ==
  {commitFiles[c]}
    \cup (IF "parentSnapshot" \in Swallowed THEN {EmptySnapshot} ELSE {})

\* What a read of ref b at a call site that drops the error takes for the head:
\* Nil when there is no such branch, and when the read fails.
GetRef(b, site) == {refs[b]} \cup (IF site \in Swallowed THEN {Nil} ELSE {})

\* GET /tree and GET /commits/{id}/files: the files that have a version of
\* commit c itself, not those of its snapshot.
ListFileTree(c) == fileVersions[c]

ParentIDs(c) == {parentID[c], sourceID[c]} \ {Nil}

IsMergeCommit(c) == sourceID[c] # Nil

ClosedUnderParents(S) == \A c \in S : ParentIDs(c) \subseteq S

\* The rows of the recursive CTE that starts at commit d: the least set that
\* holds d and is closed under parent_ids; none when d has no row.
Ancestors(d) ==
  {a \in commits : /\ d \in commits
                   /\ \A S \in SUBSET commits :
                        d \in S /\ ClosedUnderParents(S) => a \in S}

IsAncestor(a, d) == a \in Ancestors(d)

CommonAncestors(c, d) == Ancestors(c) \cap Ancestors(d)

\* Mutant: ORDER BY created_at ASC.
MutFindMergeBase(c, d) ==
  {a \in CommonAncestors(c, d) :
     \A other \in CommonAncestors(c, d) : a <= other}

\* ORDER BY created_at DESC LIMIT 1 over the common ancestors: the row of the
\* answer, or none.
FindMergeBase(c, d) ==
  {a \in CommonAncestors(c, d) :
     \A other \in CommonAncestors(c, d) : other <= a}

=============================================================================
