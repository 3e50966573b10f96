SPECIFICATION ArchiveFairSpec
CONSTANTS
  Paths = {p1}
  Hashes = {}
  Swallowed = {}
  Branches = {main}
  MaxCommits = 3
  Users = {u1}
  Lockers = {}
  NoUser = NoUser
  NoPath = NoPath
  Oversized = {}
  Uploaders = {}
  NoChunk = NoChunk
  Pushers = {r1, r2}
  NoRef = NoRef
  PushRefs = {main}
  ClientsUploadFirst = TRUE
  Mergers = {}
  Branchers = {}
  NoBranch = NoBranch
CHECK_DEADLOCK FALSE
PROPERTY RefsMoveForward
