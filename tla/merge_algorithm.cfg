SPECIFICATION Spec
CONSTANTS
  Paths = {p1, p2}
  Hashes = {}
  Swallowed = {}
  MaxVersion = 3
  NoResult = NoResult
CHECK_DEADLOCK FALSE
INVARIANTS MergedIsThreeWay EveryFileClassifiedOnce AnalysisIsSymmetric
