SPECIFICATION ArchiveFairSpec
CONSTANTS
  Paths = {p1, p2}
  Hashes = {}
  Swallowed = {"parentSnapshot"}
  Branches = {main}
  MaxCommits = 2
  Users = {u1}
  Lockers = {}
  NoUser = NoUser
  NoPath = NoPath
  Oversized = {}
  Uploaders = {}
  NoChunk = NoChunk
  Pushers = {r1}
  NoRef = NoRef
  PushRefs = {main}
  ClientsUploadFirst = TRUE
  Mergers = {}
  Branchers = {}
  NoBranch = NoBranch
CHECK_DEADLOCK FALSE
INVARIANT PublishedSnapshotsComplete
