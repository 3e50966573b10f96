SPECIFICATION OneCommitSpec
CONSTANTS
  Paths = {p1}
  Hashes = {h1, h2, h3}
  Swallowed = {}
  Branches = {main}
  MaxCommits = 3
  Users = {u1}
  Lockers = {}
  NoUser = NoUser
  NoPath = NoPath
  Oversized = {h3}
  Uploaders = {c1}
  NoChunk = NoChunk
  Pushers = {r1, r2}
  NoRef = NoRef
  PushRefs = {main}
  ClientsUploadFirst = TRUE
  Mergers = {}
  Branchers = {}
  NoBranch = NoBranch
  Pullers = {q1}
CHECK_DEADLOCK FALSE
SYMMETRY Symmetry
INVARIANTS ChunkRowHasBlob PublishedChunksHeld RefCountExact PulledFilesComplete HeadsNeverEarly PullNeverStuck
