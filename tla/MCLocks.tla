------------------------------- MODULE MCLocks -------------------------------
(***************************************************************************)
(* Lock requests of several users for the same files, beside pushes of     *)
(* these files and the deletion of their project.                          *)
(***************************************************************************)
EXTENDS LockHistory, TLC

Symmetry == Permutations(Users) \cup Permutations(Lockers)
              \cup Permutations(Paths)

=============================================================================
