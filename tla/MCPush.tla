------------------------------- MODULE MCPush -------------------------------
(***************************************************************************)
(* Pushes, uploads and branch creations that race, from an empty project.  *)
(***************************************************************************)
EXTENDS Archive, TLC

ArchiveFairSpec == ArchiveSpec /\ Fairness

Symmetry == Permutations(Pushers) \cup Permutations(Branches)
              \cup Permutations(Paths) \cup Permutations(Hashes \ Oversized)
              \cup Permutations(Uploaders)

=============================================================================
