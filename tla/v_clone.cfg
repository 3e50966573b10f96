SPECIFICATION PullFairSpec
CONSTANTS
  Paths = {p1, p2}
  Hashes = {}
  Swallowed = {}
  Branches = {main}
  MaxCommits = 2
  Users = {u1}
  Lockers = {}
  NoUser = NoUser
  NoPath = NoPath
  Oversized = {}
  Uploaders = {}
  NoChunk = NoChunk
  Pushers = {r1}
  NoRef = NoRef
  PushRefs = {main}
  ClientsUploadFirst = TRUE
  Mergers = {}
  Branchers = {}
  NoBranch = NoBranch
  Pullers = {q1}
CHECK_DEADLOCK FALSE
PROPERTY FreshCloneIsComplete
