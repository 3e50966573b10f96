SPECIFICATION DivergedSpec
CONSTANTS
  Paths = {p1, p2}
  Hashes = {}
  Swallowed = {"parentSnapshot", "sourceReread", "targetReread"}
  Branches = {main, dev}
  MaxCommits = 5
  Users = {u1}
  Lockers = {}
  NoUser = NoUser
  NoPath = NoPath
  Oversized = {}
  Uploaders = {}
  NoChunk = NoChunk
  Pushers = {r1}
  NoRef = NoRef
  PushRefs = {main, dev, NoRef}
  ClientsUploadFirst = TRUE
  Mergers = {m1}
  Branchers = {}
  NoBranch = NoBranch
CHECK_DEADLOCK FALSE
SYMMETRY Symmetry
INVARIANTS MergeIsThreeWay IdsUnique HistoryInv
PROPERTIES RefsMoveForwardUnlessRaced PublishedCommitsImmutable
