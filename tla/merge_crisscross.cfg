SPECIFICATION DivergedSpec
CONSTANTS
  Paths = {p1}
  Hashes = {}
  Swallowed = {"sourceReread", "targetReread"}
  Branches = {main, dev}
  MaxCommits = 6
  Users = {u1}
  Lockers = {}
  NoUser = NoUser
  NoPath = NoPath
  Oversized = {}
  Uploaders = {}
  NoChunk = NoChunk
  Pushers = {}
  NoRef = NoRef
  PushRefs = {main, dev}
  ClientsUploadFirst = TRUE
  Mergers = {m1, m2}
  Branchers = {}
  NoBranch = NoBranch
CHECK_DEADLOCK FALSE
SYMMETRY Symmetry
INVARIANTS PublishedSnapshotsComplete MergeBaseIsBest MergeIsThreeWay
PROPERTY StepsOfRepository
