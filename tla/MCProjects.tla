----------------------------- MODULE MCProjects -----------------------------
(***************************************************************************)
(* One request of each kind, and the deletion of their project.            *)
(***************************************************************************)
EXTENDS MCDiverged, Projects

\* A bound: a branch creation and a lock request are not in flight together.
\* They read and write nothing in common.  Only a request that begins can run
\* into it, so no step that is owed is kept back.
OneAside ==
  \/ \A r \in Branchers : creates[r].pc = "idle"
  \/ \A r \in Lockers : acquires[r].pc = "idle"

LiveInit == DivergedInit /\ project = "live"

LiveSpec == LiveInit /\ [][ProjectNext /\ OneAside']_projectVars /\ ProjectFairness

=============================================================================
