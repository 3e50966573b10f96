SPECIFICATION LiveSpec
CONSTANTS
  Paths = {p1}
  Hashes = {}
  Swallowed = {"sourceReread", "targetReread"}
  Branches = {main, dev}
  MaxCommits = 5
  Users = {u1}
  Lockers = {l1}
  NoUser = NoUser
  NoPath = NoPath
  Oversized = {}
  Uploaders = {}
  NoChunk = NoChunk
  Pushers = {r1}
  NoRef = NoRef
  PushRefs = {main}
  ClientsUploadFirst = TRUE
  Mergers = {m1}
  Branchers = {b1}
  NoBranch = NoBranch
CHECK_DEADLOCK FALSE
INVARIANT PublishedSnapshotsComplete
PROPERTIES RequestsEnd RequestsAdvance
