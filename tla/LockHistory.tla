---------------------------- MODULE LockHistory ----------------------------
(***************************************************************************)
(* What happens to the locks of a push between its lock check              *)
(* (handler/push.go Commit) and its last store call.  A history variable   *)
(* is kept beside the server, which it does not influence.                 *)
(***************************************************************************)
EXTENDS Projects

VARIABLE taken          \* auxiliary: for every push in flight, its files whose
                        \* lock was acquired anew since the lock check

historyVars == <<projectVars, taken>>

LockHistoryInit == ProjectInit /\ taken = [r \in Pushers |-> {}]

\* The files of the push r that were free and are locked with this step.
LockedNow(r) == {p \in pushes[r].files : locks[p] = NoUser /\ locks'[p] # NoUser}

LockHistoryNext ==
  /\ ProjectNext
  /\ taken' = [r \in Pushers |->
                 IF pushes'[r].pc = "idle" THEN {} ELSE taken[r] \cup LockedNow(r)]

LockHistorySpec == LockHistoryInit /\ [][LockHistoryNext]_historyVars

-----------------------------------------------------------------------------
\* ACTION, the README's "Locks are enforced on commit", for as long as a check
\* before the writes can know.  When a push moves a branch, another user holds
\* the lock of one of its files only if the file was free at some moment since
\* the check and was locked then.  A lock that was there when the push was
\* accepted never comes to stand in its way, nor does it pass to another user:
\* neither by a second acquire that read the row too early, nor by a force
\* release, nor by the deletion of the project.
LockedFilesKept ==
  [][\A r \in Pushers :
       pushes[r].pc = "advance" /\ pushes'[r].pc = "idle" /\ refs' # refs
         => \A p \in pushes[r].files :
              locks[p] \in {pushes[r].user, NoUser} \/ p \in taken[r]]_historyVars

=============================================================================
