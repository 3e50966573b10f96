--------------------------- MODULE MCMergeAnalysis ---------------------------
(***************************************************************************)
(* The merge algorithm on its own, for all small snapshots: three          *)
(* snapshots are given and one accepted list of resolutions is applied.    *)
(* Snapshots that lose a file of the base are included: a push whose read  *)
(* of the parent's snapshot failed writes one.                             *)
(***************************************************************************)
EXTENDS MergeAnalysis

CONSTANTS MaxVersion,   \* bound: versions of a file
          NoResult      \* Execute has not run yet

VARIABLES base, source, target, resolutions, merged

vars == <<base, source, target, resolutions, merged>>

Init ==
  /\ base \in [Paths -> 0..MaxVersion]
  /\ source \in [Paths -> 0..MaxVersion]
  /\ target \in [Paths -> 0..MaxVersion]
  /\ resolutions = NoResult
  /\ merged = NoResult

Execute ==
  /\ merged = NoResult
  /\ \E res \in ValidResolutions(base, source, target) :
       /\ resolutions' = res
       /\ merged' = MergedSnapshot(base, source, target, target, res)
  /\ UNCHANGED <<base, source, target>>

Spec == Init /\ [][Execute]_vars

-----------------------------------------------------------------------------
\* SAFETY.  Analyze and Execute compute the three-way merge of the snapshots
\* whenever the source still holds every file of the base.
MergedIsThreeWay ==
  merged # NoResult /\ KeepsFiles(base, source)
    => merged = ThreeWay(base, source, target, resolutions)

\* SAFETY.  Analyze reports every file in exactly one way: source only, target
\* only, conflict or unchanged; the only files it reports in none of them are
\* those that one side has deleted and the other has left alone.
EveryFileClassifiedOnce ==
  \A p \in Paths :
    LET s == p \in SourceOnly(base, source, target)
        t == p \in TargetOnly(base, source, target)
        c == p \in Conflicts(base, source, target)
        u == p \in Unchanged(base, source, target)
        deleted == /\ base[p] # NoVersion
                   /\ {source[p], target[p]} = {base[p], NoVersion}
    IN  /\ s => ~ (t \/ c \/ u)
        /\ t => ~ (c \/ u)
        /\ c => ~ u
        /\ deleted <=> ~ (s \/ t \/ c \/ u)

\* SAFETY.  Swapping the two branches reports the same conflicts and mirrors
\* the one-sided changes: the merge a client previews in one direction tells
\* what it must resolve in the other.
AnalysisIsSymmetric ==
  /\ Conflicts(base, source, target) = Conflicts(base, target, source)
  /\ SourceOnly(base, source, target) = TargetOnly(base, target, source)

=============================================================================
