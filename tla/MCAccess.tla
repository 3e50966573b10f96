------------------------------ MODULE MCAccess ------------------------------
(***************************************************************************)
(* Module Access on small sets of accounts, keys and moments.              *)
(***************************************************************************)
EXTENDS Access, TLC

Symmetry == Permutations(Usernames) \cup Permutations(Emails)
              \cup Permutations(Passwords) \cup Permutations(Registrars)
              \cup Permutations(Keys)

=============================================================================
