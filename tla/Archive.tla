------------------------------ MODULE Archive ------------------------------
(***************************************************************************)
(* The server with a history variable: the commits that some branch has    *)
(* shown.  With it the tables and handlers implement the abstract          *)
(* repository: a commit is in the archive from the ref write that shows it *)
(* on, also after a lost update has dropped it from every branch.          *)
(***************************************************************************)
EXTENDS Strata

VARIABLE archived       \* auxiliary: the commits that were a head of a branch

archiveVars == <<vars, archived>>

ArchiveInit == Init /\ archived = {}

ArchiveNext == Next /\ archived' = archived \cup Heads'

ArchiveSpec == ArchiveInit /\ [][ArchiveNext]_archiveVars

Repo == INSTANCE Repository WITH
  heads <- refs,
  archive <- [c \in archived |-> [parent |-> parentID[c],
                                  source |-> sourceID[c],
                                  files  |-> commitFiles[c]]]

-----------------------------------------------------------------------------
\* REFINEMENT.  The store calls of pushes, merges and branch creations,
\* interleaved and cut off anywhere, implement the abstract repository: only
\* ref writes are visible, each shows a whole commit over commits that were
\* shown before, and nothing that was ever shown changes again.
ImplementsRepository == Repo!Spec

\* ACTION.  The same for a server that starts with history in its tables.
StepsOfRepository == [][Repo!Next]_(Repo!repositoryVars)

=============================================================================
