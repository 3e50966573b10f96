SPECIFICATION ArchiveSpec
CONSTANTS
  Paths = {p1, p2}
  Hashes = {}
  Swallowed = {"lockCheck", "headCheck", "branchCheck"}
  Branches = {main, dev}
  MaxCommits = 3
  Users = {u1}
  Lockers = {}
  NoUser = NoUser
  NoPath = NoPath
  Oversized = {}
  Uploaders = {}
  NoChunk = NoChunk
  Pushers = {r1, r2}
  NoRef = NoRef
  PushRefs = {main, dev, NoRef}
  ClientsUploadFirst = TRUE
  Mergers = {}
  Branchers = {b1}
  NoBranch = NoBranch
CHECK_DEADLOCK FALSE
SYMMETRY Symmetry
INVARIANTS TypeOK PublishedSnapshotsComplete ReplayRebuildsSnapshot
PROPERTIES RefsMoveForwardUnlessRaced ImplementsRepository
