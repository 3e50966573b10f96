----------------------------- MODULE MCDiverged -----------------------------
(***************************************************************************)
(* The state after a first push, a branch creation and one push on each    *)
(* branch, all of them complete: two heads that have diverged from         *)
(* commit 1.                                                               *)
(***************************************************************************)
EXTENDS Strata

\* The snapshot of a commit that pushes the given files over a parent's.
Pushed(c, files, parent) ==
  [p \in Paths |-> IF p \in files THEN c ELSE parent[p]]

DivergedInit ==
  \E f1, f2, f3 \in (SUBSET Paths) \ {{}}, main, dev \in Branches :
    LET first == Pushed(1, f1, EmptySnapshot)
        files == <<f1, f2, f3>>
        snapshots == <<first, Pushed(2, f2, first), Pushed(3, f3, first)>>
    IN  /\ main # dev
        /\ commits = 1..3
        /\ parentID = [c \in CommitIds |-> IF c \in {2, 3} THEN 1 ELSE Nil]
        /\ sourceID = [c \in CommitIds |-> Nil]
        /\ fileVersions = [c \in CommitIds |-> IF c <= 3 THEN files[c] ELSE {}]
        /\ chunkHashes = [c \in CommitIds |-> [p \in Paths |-> {}]]
        /\ commitFiles = [c \in CommitIds |->
                            IF c <= 3 THEN snapshots[c] ELSE EmptySnapshot]
        /\ refs = [b \in Branches |->
                     IF b = main THEN 2 ELSE IF b = dev THEN 3 ELSE Nil]
        /\ lastID = 3
        /\ LocksInit
        /\ ChunksInit
        /\ PushInit
        /\ MergeInit

=============================================================================
