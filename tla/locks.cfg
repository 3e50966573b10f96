SPECIFICATION LockHistorySpec
CONSTANTS
  Paths = {p1, p2}
  Hashes = {}
  Swallowed = {"lockLookup"}
  Branches = {main}
  MaxCommits = 1
  Users = {u1, u2}
  Lockers = {l1, l2}
  NoUser = NoUser
  NoPath = NoPath
  Oversized = {}
  Uploaders = {}
  NoChunk = NoChunk
  Pushers = {r1}
  NoRef = NoRef
  PushRefs = {main}
  ClientsUploadFirst = TRUE
  Mergers = {}
  Branchers = {}
  NoBranch = NoBranch
SYMMETRY Symmetry
INVARIANTS LocksTypeOK UndisturbedGrantIsHeld
PROPERTIES NoLockStolen LockedFilesKept RequestsAdvance
