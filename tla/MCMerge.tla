------------------------------- MODULE MCMerge -------------------------------
(***************************************************************************)
(* Merges that race with pushes and with each other, from two heads that   *)
(* have diverged.                                                          *)
(***************************************************************************)
EXTENDS MCDiverged, Archive, TLC

\* All three commits were a head when they were pushed.
ArchivedInit == DivergedInit /\ archived = 1..3

DivergedSpec == ArchivedInit /\ [][ArchiveNext]_archiveVars

\* The same with the fairness of the handlers.
DivergedFairSpec == DivergedSpec /\ Fairness

Symmetry == Permutations(Mergers) \cup Permutations(Branches)
              \cup Permutations(Paths)

=============================================================================
