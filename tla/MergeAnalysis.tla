--------------------------- MODULE MergeAnalysis ---------------------------
(***************************************************************************)
(* The file-level three-way merge of internal/service/merge.go as pure     *)
(* operators on snapshots.                                                 *)
(*                                                                         *)
(* A snapshot maps every path of the project to the file version that the  *)
(* commit holds for it, NoVersion (the empty string of the code) when the  *)
(* commit does not hold the file.  File ids and paths are one to one       *)
(* (UNIQUE(project_id, path) and the no-op upsert keep the first id), so a *)
(* path stands for both.                                                   *)
(***************************************************************************)
EXTENDS Naturals, Domain

NoVersion == 0      \* "" in merge.go: the file is not in the snapshot

-----------------------------------------------------------------------------
(* Analyze: the classification of every file of the three snapshots.       *)

\* Mutant: the source is compared with the target instead of the base.
MutSourceOnly(base, source, target) ==
  {p \in Paths : source[p] # target[p] /\ source[p] # NoVersion}

\* Modified on the source branch only, and still there: analysis.SourceOnly.
SourceOnly(base, source, target) ==
  {p \in Paths : /\ source[p] # base[p]
                 /\ target[p] = base[p]
                 /\ source[p] # NoVersion}

\* Modified on the target branch only, and still there: analysis.TargetOnly.
TargetOnly(base, source, target) ==
  {p \in Paths : /\ source[p] = base[p]
                 /\ target[p] # base[p]
                 /\ target[p] # NoVersion}

\* Mutant: a change of the source wins over a deletion on the target.
MutConflicts(base, source, target) ==
  {p \in Paths : /\ source[p] # base[p]
                 /\ target[p] \notin {base[p], NoVersion}
                 /\ source[p] # target[p]}

\* Changed on both sides, differently: analysis.Conflicts.
Conflicts(base, source, target) ==
  {p \in Paths : /\ source[p] # base[p]
                 /\ target[p] # base[p]
                 /\ source[p] # target[p]}

\* Counted by analysis.Unchanged: untouched, or the same change on both sides.
Unchanged(base, source, target) ==
  {p \in Paths : source[p] = target[p]}

-----------------------------------------------------------------------------
(* Execute: resolutions and the merged snapshot.                           *)

\* The resolution lists Execute accepts.  The list has as many entries as
\* there are conflicts and its map covers every conflict, so it names exactly
\* the conflicted files; each choice is the source, target or base version.
\* The choice may be NoVersion when one of the three does not hold the file.
ValidResolutions(base, source, target) ==
  LET conflicts == Conflicts(base, source, target)
      choices == {base[p] : p \in Paths} \cup {source[p] : p \in Paths}
                   \cup {target[p] : p \in Paths}
  IN  {res \in [conflicts -> choices] :
         \A p \in conflicts : res[p] \in {source[p], target[p], base[p]}}

\* Mutant: the source-only changes are forgotten.
MutMergedSnapshot(base, source, target, onto, res) ==
  [p \in Paths |-> IF p \in Conflicts(base, source, target) THEN res[p]
                   ELSE onto[p]]

\* mergedMap: the snapshot of the target head as read by Execute (onto),
\* overwritten by the source-only changes of the analysis, then by the
\* resolutions.
MergedSnapshot(base, source, target, onto, res) ==
  [p \in Paths |->
     IF p \in Conflicts(base, source, target) THEN res[p]
     ELSE IF p \in SourceOnly(base, source, target) THEN source[p]
     ELSE onto[p]]

-----------------------------------------------------------------------------
(* Reference definitions: what a three-way merge is.                       *)

\* The side that changed wins; two different changes need a resolution.
ThreeWay(base, source, target, res) ==
  [p \in Paths |->
     IF source[p] = target[p] THEN target[p]
     ELSE IF source[p] = base[p] THEN target[p]
     ELSE IF target[p] = base[p] THEN source[p]
     ELSE res[p]]

\* No file of the first snapshot is missing from the second.
KeepsFiles(before, after) ==
  \A p \in Paths : before[p] # NoVersion => after[p] # NoVersion

=============================================================================
