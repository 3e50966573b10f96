------------------------ MODULE MergeAnalysisProofs ------------------------
(***************************************************************************)
(* Proofs about the merge algorithm, for snapshots of any size.            *)
(***************************************************************************)
EXTENDS MCMergeAnalysis, TLAPS

\* Analyze and Execute against the reference: over a source that keeps the
\* files of the base, and onto the target that was analysed, the merged
\* snapshot is the three-way merge.
THEOREM MergeComputesThreeWay ==
  ASSUME NEW b, NEW s, NEW t, NEW res, KeepsFiles(b, s)
  PROVE  MergedSnapshot(b, s, t, t, res) = ThreeWay(b, s, t, res)
BY DEF MergedSnapshot, ThreeWay, KeepsFiles, Conflicts, SourceOnly

\* A merged snapshot drops a file of the target only by a resolution.
THEOREM MergeKeepsTargetFiles ==
  ASSUME NEW b, NEW s, NEW t, NEW onto, NEW res,
         \A p \in Conflicts(b, s, t) : res[p] # NoVersion
  PROVE  KeepsFiles(onto, MergedSnapshot(b, s, t, onto, res))
BY DEF MergedSnapshot, KeepsFiles, SourceOnly

\* The classification of Analyze is a partition up to one-sided deletions.
THEOREM ClassificationIsPartition == Spec => []EveryFileClassifiedOnce
<1>1. EveryFileClassifiedOnce
  BY DEF EveryFileClassifiedOnce, SourceOnly, TargetOnly, Conflicts, Unchanged
<1>2. QED
  BY <1>1, PTL

\* Both directions of a merge report the same conflicts.
THEOREM AnalysisSymmetric == Spec => []AnalysisIsSymmetric
<1>1. AnalysisIsSymmetric
  BY DEF AnalysisIsSymmetric, SourceOnly, TargetOnly, Conflicts
<1>2. QED
  BY <1>1, PTL

\* The run of the algorithm ends with the three-way merge.
THEOREM ExecuteIsThreeWay == Spec => []MergedIsThreeWay
<1>1. Init => MergedIsThreeWay
  BY DEF Init, MergedIsThreeWay
<1>2. MergedIsThreeWay /\ [Execute]_vars => MergedIsThreeWay'
  <2> SUFFICES ASSUME MergedIsThreeWay, [Execute]_vars
               PROVE  MergedIsThreeWay'
    OBVIOUS
  <2>1. CASE Execute
    <3>1. PICK res \in ValidResolutions(base, source, target) :
            /\ resolutions' = res
            /\ merged' = MergedSnapshot(base, source, target, target, res)
      BY <2>1 DEF Execute
    <3>2. UNCHANGED <<base, source, target>>
      BY <2>1 DEF Execute
    <3>3. KeepsFiles(base, source)
            => merged' = ThreeWay(base, source, target, resolutions')
      BY <3>1, MergeComputesThreeWay
    <3>4. QED
      BY <3>2, <3>3 DEF MergedIsThreeWay, KeepsFiles, ThreeWay
  <2>2. CASE UNCHANGED vars
    BY <2>2 DEF vars, MergedIsThreeWay, KeepsFiles, ThreeWay
  <2>3. QED
    BY <2>1, <2>2
<1>3. QED
  BY <1>1, <1>2, PTL DEF Spec

=============================================================================
