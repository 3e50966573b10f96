------------------------------ MODULE Projects ------------------------------
(***************************************************************************)
(* DELETE /projects/{id} beside the requests that are in flight for the    *)
(* project.  One DELETE statement removes the row, and ON DELETE CASCADE   *)
(* the commits, versions, snapshots, refs and locks of the project; chunks *)
(* are shared between projects and stay.  No handler checks that the       *)
(* project exists: the foreign keys stop what comes later.                 *)
(***************************************************************************)
EXTENDS Strata

VARIABLE project        \* the row of the project: "live" or "deleted"

projectVars == <<vars, project>>

ProjectInit == Init /\ project = "live"

\* Mutant: refs hold no foreign key to the commit they name.
MutDeleteRows ==
  /\ commits' = {}
  /\ parentID' = [c \in CommitIds |-> Nil]
  /\ sourceID' = [c \in CommitIds |-> Nil]
  /\ fileVersions' = [c \in CommitIds |-> {}]
  /\ chunkHashes' = [c \in CommitIds |-> [p \in Paths |-> {}]]
  /\ commitFiles' = [c \in CommitIds |-> EmptySnapshot]
  /\ refs' = refs
  /\ locks' = [p \in Paths |-> NoUser]

\* What ON DELETE CASCADE removes with the row of the project.
DeleteRows ==
  /\ commits' = {}
  /\ parentID' = [c \in CommitIds |-> Nil]
  /\ sourceID' = [c \in CommitIds |-> Nil]
  /\ fileVersions' = [c \in CommitIds |-> {}]
  /\ chunkHashes' = [c \in CommitIds |-> [p \in Paths |-> {}]]
  /\ commitFiles' = [c \in CommitIds |-> EmptySnapshot]
  /\ refs' = [b \in Branches |-> Nil]
  /\ locks' = [p \in Paths |-> NoUser]

\* The tables with rows of the project.
projectTables == <<commits, parentID, sourceID, fileVersions, chunkHashes,
                   commitFiles, refs, locks>>

\* Every such row refers to the project, directly or through its commit or its
\* file: once the project is deleted, the tables stay empty.
ForeignKeys == project = "deleted" => projectTables' = projectTables

\* A step of a handler that the foreign keys accept.
Accepted(step) == step /\ ForeignKeys /\ UNCHANGED project

\* The cascade.  The requests in flight know nothing of it.
DeleteProject ==
  /\ project = "live"
  /\ project' = "deleted"
  /\ DeleteRows
  /\ disturbed' = {q \in Lockers : acquires[q].path # NoPath}
  /\ UNCHANGED <<lastID, acquires, chunkVars, pushVars, mergeVars>>

-----------------------------------------------------------------------------
(* The statements that fail in a project that is gone; each ends its       *)
(* request with an error.                                                  *)

\* INSERT INTO commits, files, and refs.
PushFails(r) ==
  /\ project = "deleted"
  /\ pushes[r].pc \in {"create", "files", "advance"}
  /\ pushes[r].pc = "advance" => pushes[r].ref # NoRef
  /\ AbortPush(r)
  /\ UNCHANGED <<mergeVars, project>>

\* INSERT INTO commits, commit_files and refs.
MergeFails(r) ==
  LET m == merges[r]
  IN  /\ project = "deleted"
      /\ m.pc \in {"fastForward", "create", "snapshot", "advance"}
      /\ m.pc = "fastForward" => HeadsRead(m)
      /\ m.pc = "snapshot" => m.merged # EmptySnapshot
      /\ AbortMerge(r)
      /\ UNCHANGED <<lockVars, chunkVars, pushVars, project>>

\* INSERT INTO refs.
CreateFails(r) ==
  /\ project = "deleted"
  /\ creates[r].pc = "create"
  /\ AbortCreateBranch(r)
  /\ UNCHANGED <<lockVars, chunkVars, pushVars, project>>

\* INSERT INTO locks.
AcquireFails(r) ==
  /\ project = "deleted"
  /\ acquires[r].pc = "insert"
  /\ AbortAcquire(r)
  /\ UNCHANGED <<storeVars, chunkVars, pushVars, mergeVars, project>>

-----------------------------------------------------------------------------
DoAcquire(r) ==
  AcquireStep(r) /\ UNCHANGED <<storeVars, chunkVars, pushVars, mergeVars>>

ProjectNext ==
  \/ Accepted(Next)
  \/ DeleteProject
  \/ \E r \in Pushers : PushFails(r)
  \/ \E r \in Mergers : MergeFails(r)
  \/ \E r \in Branchers : CreateFails(r)
  \/ \E r \in Lockers : AcquireFails(r)

ProjectSpec == ProjectInit /\ [][ProjectNext]_projectVars

\* As in Strata, and a statement that fails is answered, too.
ProjectFairness ==
  /\ \A r \in Pushers : WF_projectVars(Accepted(DoPush(r)) \/ PushFails(r))
  /\ \A r \in Mergers : WF_projectVars(Accepted(DoMerge(r)) \/ MergeFails(r))
  /\ \A r \in Branchers : WF_projectVars(Accepted(DoCreate(r)) \/ CreateFails(r))
  /\ \A r \in Lockers : WF_projectVars(Accepted(DoAcquire(r)) \/ AcquireFails(r))

-----------------------------------------------------------------------------
\* How many more steps a request can take.
PushRank(q) ==
  LET left == IF q.pc = "files" THEN q.files \ fileVersions[q.id] ELSE q.files
      base == [idle |-> 0, advance |-> 1, count |-> 2, files |-> 3,
               parent |-> 4, create |-> 5, check |-> 6]
  IN  IF q.pc \in {"idle", "advance", "count"}
        THEN base[q.pc] ELSE base[q.pc] + Cardinality(left)

MergeRank(m) ==
  [idle |-> 0, advance |-> 1, snapshot |-> 2, create |-> 3, resolve |-> 4,
   fastForward |-> 4, target2 |-> 5, source2 |-> 6, target |-> 7][m.pc]

CreateRank(c) == [idle |-> 0, create |-> 1, exists |-> 2][c.pc]

AcquireRank(a) == [idle |-> 0, answer |-> 1, insert |-> 2, lookup |-> 3][a.pc]

\* ACTION.  Why every request ends: no handler ever goes back.  A step of a
\* request in flight, a failing one included, lowers a rank that is a natural
\* number, and no other request raises it: two pushes do not undo each other's
\* rounds over the files, and a lost race ends a request instead of starting it
\* again.  Only the cascade takes versions away that a push has written.
RequestsAdvance ==
  [][/\ \A r \in Pushers : pushes[r].pc # "idle" =>
          \/ PushRank(pushes[r])' < PushRank(pushes[r])
          \/ /\ pushes'[r] = pushes[r]
             /\ project' = project
                  => PushRank(pushes[r])' = PushRank(pushes[r])
     /\ \A r \in Mergers : merges[r].pc # "idle" =>
          \/ MergeRank(merges[r])' < MergeRank(merges[r])
          \/ merges'[r] = merges[r]
     /\ \A r \in Branchers : creates[r].pc # "idle" =>
          \/ CreateRank(creates[r])' < CreateRank(creates[r])
          \/ creates'[r] = creates[r]
     /\ \A r \in Lockers : acquires[r].pc # "idle" =>
          \/ AcquireRank(acquires[r])' < AcquireRank(acquires[r])
          \/ acquires'[r] = acquires[r]]_projectVars

\* LIVENESS.  Every request ends, also one whose project is deleted under it:
\* no handler waits for another one or for rows that are gone, and none is left
\* in a state without a next step.
RequestsEnd ==
  /\ \A r \in Pushers : pushes[r].pc # "idle" ~> pushes[r].pc = "idle"
  /\ \A r \in Mergers : merges[r].pc # "idle" ~> merges[r].pc = "idle"
  /\ \A r \in Branchers : creates[r].pc # "idle" ~> creates[r].pc = "idle"
  /\ \A r \in Lockers : acquires[r].pc # "idle" ~> acquires[r].pc = "idle"

=============================================================================
