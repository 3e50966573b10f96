-------------------------------- MODULE Push --------------------------------
(***************************************************************************)
(* POST /push/commit: handler/push.go Commit and service/version.go        *)
(* CreateCommit.  "for v1 the individual store calls are sequential": no   *)
(* transaction surrounds them, so every store call is one action, any      *)
(* other request may run between two of them, and a request that is cut    *)
(* off leaves behind what it has written so far.                           *)
(***************************************************************************)
EXTENDS CommitStore, Locks, Chunks, FiniteSets

CONSTANTS Pushers,              \* concurrent push handlers
          NoRef,                \* ref "" in the request: move no branch
          ClientsUploadFirst    \* the external client uploads every chunk of
                                \* a manifest before it sends the commit

ASSUME PushAssumption == NoRef \notin Branches /\ ClientsUploadFirst \in BOOLEAN

VARIABLES pushes,       \* the push handlers
          counted       \* auxiliary: commits whose chunks were ref-counted

pushVars == <<pushes, counted>>

PushPC == {"idle", "check", "create", "parent", "files", "count", "advance"}

\* head: what the check of the parent has read.
PushRecord == [pc : PushPC, user : Users \cup {NoUser},
               ref : Branches \cup {NoRef}, parent : Versions,
               files : SUBSET Paths, manifest : [Paths -> SUBSET Hashes],
               head : Versions, id : Versions, snapshot : Snapshot]

IdlePush == [pc |-> "idle", user |-> NoUser, ref |-> NoRef,
             parent |-> Nil, files |-> {}, manifest |-> [p \in Paths |-> {}],
             head |-> Nil, id |-> Nil, snapshot |-> EmptySnapshot]

PushTypeOK ==
  /\ pushes \in [Pushers -> PushRecord]
  /\ counted \in SUBSET CommitIds

PushInit ==
  /\ pushes = [r \in Pushers |-> IdlePush]
  /\ counted = {}

\* The hashes that the manifest of a commit lists.
HashesOf(c) == UNION {chunkHashes[c][p] : p \in Paths}

ManifestHashes(manifest) == UNION {manifest[p] : p \in Paths}

EndPush(r) == pushes' = [pushes EXCEPT ![r] = IdlePush]

-----------------------------------------------------------------------------
\* The handler accepts a request: at least one file, and no file locked by
\* another user (an error of the lock query counts as "no lock").  The parent
\* is any commit the client has seen; nothing verifies the chunk hashes.
BeginPush(r, u, b, parent, files, manifest) ==
  /\ pushes[r].pc = "idle"
  /\ files # {}
  /\ CheckPaths(files, u) = {} \/ "lockCheck" \in Swallowed
  /\ parent \in commits \cup {Nil}
  /\ \A p \in Paths \ files : manifest[p] = {}
  /\ ClientsUploadFirst =>
       CheckExisting(ManifestHashes(manifest)) = ManifestHashes(manifest)
  /\ pushes' = [pushes EXCEPT ![r] =
       [IdlePush EXCEPT !.pc = "check", !.user = u, !.ref = b,
                        !.parent = parent, !.files = files,
                        !.manifest = manifest]]
  /\ UNCHANGED <<storeVars, lockVars, chunkVars, counted>>

\* The heads that the read of the optimistic-concurrency check may yield.
ReadHead(q) == IF q.ref = NoRef THEN {Nil} ELSE GetRef(q.ref, "headCheck")

\* Mutant: a push without a parent is accepted on an existing branch.
MutHeadMatches(q, head) == q.ref = NoRef \/ q.parent \in {head, Nil}

HeadMatches(q, head) == q.ref = NoRef \/ head = q.parent

\* Mutant: the id is read before the counter moves.
MutCheckHeadStaleID(r) ==
  /\ pushes[r].pc = "check"
  /\ lastID < MaxCommits
  /\ lastID' = lastID + 1
  /\ \E head \in ReadHead(pushes[r]) :
       /\ HeadMatches(pushes[r], head)
       /\ pushes' = [pushes EXCEPT ![r].pc = "create", ![r].id = lastID,
                                   ![r].head = head]
  /\ UNCHANGED <<commits, parentID, sourceID, fileVersions, chunkHashes,
                 commitFiles, refs, lockVars, chunkVars, counted>>

\* Mutant: the same id is handed out again.
MutCheckHeadSameID(r) ==
  /\ pushes[r].pc = "check"
  /\ lastID < MaxCommits
  /\ \E head \in ReadHead(pushes[r]) :
       /\ HeadMatches(pushes[r], head)
       /\ pushes' = [pushes EXCEPT ![r].pc = "create", ![r].id = lastID + 1,
                                   ![r].head = head]
  /\ UNCHANGED <<storeVars, lockVars, chunkVars, counted>>

\* The check passes; created_at and the id are taken.
CheckHead(r) ==
  /\ pushes[r].pc = "check"
  /\ lastID < MaxCommits
  /\ lastID' = lastID + 1
  /\ \E head \in ReadHead(pushes[r]) :
       /\ HeadMatches(pushes[r], head)
       /\ pushes' = [pushes EXCEPT ![r].pc = "create", ![r].id = lastID + 1,
                                   ![r].head = head]
  /\ UNCHANGED <<commits, parentID, sourceID, fileVersions, chunkHashes,
                 commitFiles, refs, lockVars, chunkVars, counted>>

\* Mutant: a push whose parent is stale is tried again on the new head.
MutRetryPush(r) ==
  /\ pushes[r].pc = "check"
  /\ \E head \in ReadHead(pushes[r]) :
       /\ ~ HeadMatches(pushes[r], head)
       /\ pushes' = [pushes EXCEPT ![r].parent = head]
  /\ UNCHANGED <<storeVars, lockVars, chunkVars, counted>>

\* 409 COMMIT_CONFLICT.
RejectPush(r) ==
  /\ pushes[r].pc = "check"
  /\ \E head \in ReadHead(pushes[r]) : ~ HeadMatches(pushes[r], head)
  /\ EndPush(r)
  /\ UNCHANGED <<storeVars, lockVars, chunkVars, counted>>

\* Mutant: the snapshot of the parent is never read.
MutInsertPushCommit(r) ==
  LET q == pushes[r]
  IN  /\ q.pc = "create"
      /\ CreateCommit(q.id, q.parent, Nil)
      /\ pushes' = [pushes EXCEPT ![r].pc = "files"]
      /\ UNCHANGED <<fileVersions, chunkHashes, commitFiles, refs, lastID,
                     lockVars, chunkVars, counted>>

\* Mutant: the ref is advanced with the row, before there are any versions.
MutPublishFirst(r) ==
  LET q == pushes[r]
  IN  /\ q.pc = "create"
      /\ CreateCommit(q.id, q.parent, Nil)
      /\ IF q.ref = NoRef THEN UNCHANGED refs ELSE UpsertRef(q.ref, q.id)
      /\ pushes' = [pushes EXCEPT
           ![r].pc = IF q.parent = Nil THEN "files" ELSE "parent"]
      /\ UNCHANGED <<fileVersions, chunkHashes, commitFiles, lastID, lockVars,
                     chunkVars, counted>>

InsertPushCommit(r) ==
  LET q == pushes[r]
  IN  /\ q.pc = "create"
      /\ CreateCommit(q.id, q.parent, Nil)
      /\ pushes' = [pushes EXCEPT
           ![r].pc = IF q.parent = Nil THEN "files" ELSE "parent"]
      /\ UNCHANGED <<fileVersions, chunkHashes, commitFiles, refs, lastID,
                     lockVars, chunkVars, counted>>

\* The snapshot starts from the parent's.  An error starts it empty.
ReadParentSnapshot(r) ==
  /\ pushes[r].pc = "parent"
  /\ \E snapshot \in GetCommitSnapshot(pushes[r].parent) :
       pushes' = [pushes EXCEPT ![r].pc = "files", ![r].snapshot = snapshot]
  /\ UNCHANGED <<storeVars, lockVars, chunkVars, counted>>

\* One round of the loop over the files of the request.
CreateVersion(r, p) ==
  LET q == pushes[r]
  IN  /\ q.pc = "files"
      /\ p \in q.files \ fileVersions[q.id]
      /\ InsertFileVersion(q.id, p, q.manifest[p])
      /\ pushes' = [pushes EXCEPT ![r].snapshot[p] = q.id]
      /\ UNCHANGED <<commits, parentID, sourceID, commitFiles, refs, lastID,
                     lockVars, chunkVars, counted>>

\* Mutant: the chunks of the request are not counted.
MutWritePushSnapshot(r) ==
  LET q == pushes[r]
  IN  /\ q.pc = "files"
      /\ q.files \subseteq fileVersions[q.id]
      /\ SetCommitFiles(q.id, q.snapshot)
      /\ pushes' = [pushes EXCEPT ![r].pc = "advance"]
      /\ UNCHANGED <<commits, parentID, sourceID, fileVersions, chunkHashes,
                     refs, lastID, lockVars, chunkVars, counted>>

\* After the last file: the snapshot.  A request without a single chunk skips
\* the ref counts.
WritePushSnapshot(r) ==
  LET q == pushes[r]
  IN  /\ q.pc = "files"
      /\ q.files \subseteq fileVersions[q.id]
      /\ SetCommitFiles(q.id, q.snapshot)
      /\ pushes' = [pushes EXCEPT
           ![r].pc = IF ManifestHashes(q.manifest) = {} THEN "advance" ELSE "count"]
      /\ UNCHANGED <<commits, parentID, sourceID, fileVersions, chunkHashes,
                     refs, lastID, lockVars, chunkVars, counted>>

CountChunks(r) ==
  LET q == pushes[r]
  IN  /\ q.pc = "count"
      /\ IncrementRefCount(ManifestHashes(q.manifest))
      /\ counted' = counted \cup {q.id}
      /\ pushes' = [pushes EXCEPT ![r].pc = "advance"]
      /\ UNCHANGED <<storeVars, lockVars, chunks, blobs, uploads>>

\* The ref is upserted without comparing it with the parent again; the
\* request is answered.
AdvanceRef(r) ==
  LET q == pushes[r]
  IN  /\ q.pc = "advance"
      /\ IF q.ref = NoRef THEN UNCHANGED refs ELSE UpsertRef(q.ref, q.id)
      /\ EndPush(r)
      /\ UNCHANGED <<commits, parentID, sourceID, fileVersions, chunkHashes,
                     commitFiles, lastID, lockVars, chunkVars, counted>>

\* A store call fails, the request times out, or the server stops.
AbortPush(r) ==
  /\ pushes[r].pc # "idle"
  /\ EndPush(r)
  /\ UNCHANGED <<storeVars, lockVars, chunkVars, counted>>

\* The next store call of the handler r, or its answer.
PushStep(r) ==
  \/ CheckHead(r)
  \/ RejectPush(r)
  \/ InsertPushCommit(r)
  \/ ReadParentSnapshot(r)
  \/ \E p \in Paths : CreateVersion(r, p)
  \/ WritePushSnapshot(r)
  \/ CountChunks(r)
  \/ AdvanceRef(r)

=============================================================================
