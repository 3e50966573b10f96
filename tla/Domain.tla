------------------------------- MODULE Domain -------------------------------
(***************************************************************************)
(* The data of one project that several components share.                  *)
(***************************************************************************)

CONSTANTS Paths,        \* file paths; a path stands for its files row too
          Hashes,       \* SHA-256 chunk hashes; also the contents they name
          Swallowed     \* the reads that fail in this instance although the
                        \* code drops their error and goes on.  Any other
                        \* failing statement ends its request (Abort...).

\* The reads whose error the code drops: of the lock check of a push
\* (handler/push.go), of LockStore.Acquire, of CreateCommit, of CreateBranch
\* (handler/merge.go), and of the two heads in Execute (service/merge.go).
PushReads == {"lockCheck"}
LockReads == {"lockLookup"}
CommitReads == {"headCheck", "parentSnapshot"}
BranchReads == {"branchCheck"}
MergeReads == {"sourceReread", "targetReread"}

SwallowSites ==
  PushReads \cup LockReads \cup CommitReads \cup BranchReads \cup MergeReads

ASSUME SwallowedAssumption == Swallowed \subseteq SwallowSites

=============================================================================
