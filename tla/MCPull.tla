------------------------------- MODULE MCPull -------------------------------
(***************************************************************************)
(* Uploads, pushes that share chunks, and a client that pulls, after the   *)
(* upload of one chunk and a first push of one file that consists of it.   *)
(***************************************************************************)
EXTENDS Pull, TLC

OneCommitInit ==
  \E p \in Paths, h \in Hashes \ Oversized, b \in Branches :
    /\ commits = {1}
    /\ parentID = [c \in CommitIds |-> Nil]
    /\ sourceID = [c \in CommitIds |-> Nil]
    /\ fileVersions = [c \in CommitIds |-> IF c = 1 THEN {p} ELSE {}]
    /\ chunkHashes = [c \in CommitIds |-> [x \in Paths |->
                        IF c = 1 /\ x = p THEN {h} ELSE {}]]
    /\ commitFiles = [c \in CommitIds |->
                        [x \in Paths |-> IF c = 1 /\ x = p THEN 1 ELSE NoVersion]]
    /\ refs = [x \in Branches |-> IF x = b THEN 1 ELSE Nil]
    /\ lastID = 1
    /\ chunks = {h}
    /\ refCount = [x \in Hashes |-> IF x = h THEN 1 ELSE 0]
    /\ blobs = [x \in Hashes |-> IF x = h THEN h ELSE NoChunk]
    /\ uploads = [r \in Uploaders |-> IdleUpload]
    /\ pushes = [r \in Pushers |-> IdlePush]
    /\ counted = {1}
    /\ LocksInit
    /\ MergeInit
    /\ pulls = [r \in Pullers |-> IdlePull]

OneCommitSpec == OneCommitInit /\ [][PullNext]_<<vars, pulls>>

Symmetry == Permutations(Pushers) \cup Permutations(Branches)
              \cup Permutations(Paths) \cup Permutations(Hashes \ Oversized)
              \cup Permutations(Uploaders)

=============================================================================
