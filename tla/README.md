# STRATA server: a TLA+ verification project

STRATA is a version-control server for large binary files: clients upload
content-addressed chunks, push commits to branches, lock files, and merge
branches. The server is a Go HTTP process over PostgreSQL (metadata) and MinIO
(bytes). This project models what the server does to one project's state,
checks it with TLC on small instances and proves the central results with TLAPS.

File and line references are to `src/`. Every definition that models code is
listed in `PROJECT.json` under `map` with the lines it stands for.

## 1. The system

### Components

| Component | State it keeps | Operations that change it | Modules |
|---|---|---|---|
| Push (`handler/push.go`, `service/version.go`) | one request in flight: parent, files, new id, snapshot being built | `POST /push/commit` | `Push` |
| Commit store (`store/postgres/commit.go`, `file.go`) | tables `commits`, `files`, `file_versions`, `commit_files`, `refs` | inserts and the ref upsert, called by push, merge and branch creation | `CommitStore` |
| Merge (`handler/merge.go`, `service/merge.go`) | one request in flight: two pairs of heads, merge base, merged snapshot | `POST /merge` | `MergeAnalysis`, `Merge` |
| Branches (`handler/merge.go`) | one request in flight: the head to start from | `POST /branches` | `Merge` |
| Locks (`handler/lock.go`, `service/lock.go`, `store/postgres/lock.go`) | table `locks` | acquire, release, forced release | `Locks`, `LockHistory` |
| Chunks (`service/chunk.go`, `store/postgres/chunk.go`, `store/minio/chunk.go`) | table `chunks` with `ref_count`; the objects in MinIO | `POST /push/chunk`; reference counts | `Chunks` |
| Pull and browsing (`handler/pull.go`, `handler/version.go`, `service/version.go`) | none on the server; the client keeps files, chunks and the commit it is at | only reads: `GET /refs`, `GET /tree`, `GET /commits`, `POST /pull/diff`, `GET /pull/chunk/{hash}` | `Pull` |
| Projects (`handler/project.go`) | the project row, on which all tables above depend | `DELETE /projects/{id}` | `Projects` |
| Authentication (`handler/auth.go`, `service/auth.go`, `middleware/auth.go`) | table `users`; the tokens are with the clients | register, login, refresh, logout | `Clock`, `Sessions`, `Access` |
| Rate limiter (`middleware/ratelimit.go`) | a window per key, behind a mutex | `allow` | `Clock`, `RateLimiter`, `Access` |
| Server wiring (`cmd/server/main.go`) | none | routes; `Recoverer` and `Timeout` middleware | `Strata`, `Projects` (composition) |
| Configuration, API docs, helpers | see section 8 | | not modelled |

### How they interact

The components share nothing but the database and the blob store; there is no
message between two handlers and no in-process lock. `net/http` runs every
request in a goroutine. A request is a sequence of SQL statements, each in
autocommit: `CreateCommit` says "for v1 the individual store calls are
sequential" and opens no transaction. Hence

* any request may run between two statements of another;
* a failing statement, the timeout, a panic or a crash leaves behind all that
  was written before it;
* every check (parent = head, branch absent, file not locked) is a read whose
  result may be stale when the write that relies on it runs;
* a pull is a chain of requests of one client, and nothing holds the server still
  between them;
* no handler looks at the project row: a deletion empties the tables under the
  requests in flight, and the foreign keys stop what comes later.

Authentication and the rate limiter share nothing with the version control but
the user id; they share the clock with each other.

### What is hard, and what makes each part correct

`PROJECT.json` lists 30 hazards at their lines. In short:

| Part | Hard because | Correct when |
|---|---|---|
| Push | up to seven kinds of store calls without a transaction; check-then-upsert of the ref; dropped read errors | a branch shows finished commits only; published rows never change; a branch leaves its history only to a race |
| Merge | refs read twice, the second time without a look at the error; base chosen by time stamp; `""` stands for "no file"; row before snapshot | the base is a best common ancestor; the snapshot is the three-way merge when no head moved |
| Branches | look-up and upsert are two statements | an existing branch is not moved unless a race hid it |
| Locks | two look-ups and an insert that ignores conflicts; a push checks them once, before it writes | no lock changes hands; an undisturbed grant is real; only a lock taken after the check can be overridden |
| Chunks | two stores, no transaction; counts from several pushes | a row has its bytes; counts are exact; published chunks are held |
| Pull | the diff looks at single commits, not at snapshots; the branch may move or lose the commit meanwhile; `GET /commits` names commits that are still being written | a client that pulled no commit too early has all chunks of the files it holds; a pull can always be finished |
| Projects | the cascade runs under requests in flight, which keep ids of rows that are gone | every request ends; nothing of the project comes back |
| Authentication | only UNIQUE constraints decide a race; any insert error is `USER_EXISTS`; `exp` is in full seconds | an inserted registration keeps its account; a token lives as long as the answer says |
| Rate limiter | fixed windows add up at their border; a request exactly at `resetAt` | fewer than twice the limit in any interval; nobody refused below the limit |
| All | nobody may wait for anybody | every request ends |

## 2. The modules

```
Domain ── MergeAnalysis ── CommitStore ─┬─ Push ──┐
   ├───── Locks ────────────────────────┤         ├── Strata
   └───── Chunks ───────────────────────┘ Merge ──┘

Strata ─┬─ Archive (INSTANCE Repository) ─┬─ MCPush
        ├─ MCDiverged ────────────────────┴─ MCMerge
        │       └────────────┐
        ├─ Projects ─┬───────┴─ MCProjects
        │            └ LockHistory ── MCLocks
        └─ Pull ─────────────── MCPull
Clock ── Sessions, RateLimiter ── Access ── MCAccess
MergeAnalysis ── MCMergeAnalysis

StrataTypeProofs ── StrataProofs ─┬─ MergeProofs ── ArchiveProofs
                                  ├─ PullProofs
                                  └─ ProjectsProofs (of Projects and LockHistory)
MergeAnalysisProofs     AccessProofs
```

* **Domain**: the file paths, the chunk hashes and `Swallowed`. The code drops
  the error of seven reads and goes on as if there were no row (`SwallowSites`): the lock
  check of a push, the second look-up of an acquire, the head and the parent's snapshot in
  `CreateCommit`, the branch in `CreateBranch`, and the two refs that `Execute` reads again.
  An instance chooses by `Swallowed` which of them may fail silently; every
  other failing statement ends its request and is an `Abort…` action.
* **MergeAnalysis**: `Analyze` and the snapshot computation of `Execute` as
  pure operators on snapshots (`SourceOnly`, `TargetOnly`, `Conflicts`,
  `Unchanged`, `ValidResolutions`, `MergedSnapshot`), and the reference
  definition `ThreeWay`. A snapshot maps each path to a file version;
  `NoVersion` is the empty string of the Go code.
* **CommitStore**: the version-control tables and one operator per statement:
  `CreateCommit`, `InsertFileVersion`, `SetCommitFiles`, `UpsertRef`, the reads
  `GetRef` and `GetCommitSnapshot`, and the recursive queries `Ancestors`,
  `IsAncestor`, `FindMergeBase`.
* **Push**: `handler/push.go Commit` and `service/version.go CreateCommit`.
  `pushes[r]` is the request of handler `r`; `pc` is the store call it is about
  to make. One action per store call: `BeginPush` (validation and lock check),
  `CheckHead` / `RejectPush` (optimistic-concurrency check, then the time stamp
  and id), `InsertPushCommit`, `ReadParentSnapshot`, `CreateVersion` (one round
  of the file loop), `WritePushSnapshot`, `CountChunks`, `AdvanceRef`,
  `AbortPush`. `counted` is auxiliary: the commits whose chunks were counted.
* **Merge**: `CreateBranch` (`BeginCreateBranch`, `CheckBranchExists`,
  `CreateBranchRef`) and `Execute`: `BeginMerge` and `AnalyzeMerge` (the first
  pair of ref reads), `RereadSource`, `RereadTarget` (the second pair), `PanicMerge` (one
  of them found no ref, and nil is dereferenced), `FastForward`, `ResolveMerge` / `RejectMerge`, `InsertMergeCommit`,
  `WriteMergeSnapshot`, `AdvanceTarget`, `AbortMerge`.
* **Locks**: `BeginAcquire` (look-up in the service), `LookupAgain` (look-up in
  the store), `InsertLock` (ON CONFLICT DO NOTHING), `AnswerAcquire`, `Release`,
  `ForceRelease`, `AbortAcquire`. `disturbed` is auxiliary: the handlers whose
  row another request wrote or deleted meanwhile.
* **Chunks**: `BeginUpload` (size and hash check), `PutBlob`, `InsertChunk`,
  `AbortUpload`; `IncrementRefCount` is called by pushes. A content is
  identified with the hash that names it (SHA-256 taken as collision-free).
* **Strata**: the composition and most properties. `Next` is the union of
  the steps of all handlers on the shared tables.
* **Repository**: the abstract specification of the version control, with nothing
  but `heads` (branch to commit) and `archive` (commit to parents and files). One
  step either publishes a new, whole and well-formed commit together with the
  branch that shows it (`Publish`) or points a branch at a commit of the archive
  (`Move`). No step changes a commit of the archive.
* **Archive**: `Strata` with the history variable `archived`, the commits that
  some branch has shown. `heads` is `refs`, and `archive` is the rows of the
  archived commits. Without the history variable there is no mapping: a lost
  update drops a commit from every branch, and the abstract archive keeps it.
  The store calls before a ref write are stuttering steps.
* **Pull**: `pulls[r]` is a client, what it keeps between requests and the pull
  in progress. `ListRefs` or `ListCommits` (any commit row, also an unfinished one), `Diff` or `DiffRef` (a diff by branch name, whose answer
  does not name the commit), `DownloadChunk` for one chunk at a time, `FinishPull`,
  `AbandonPull`; all steps of `Strata` run in between. `HaveChunks`,
  `NeededChunks` and `ChangedFiles` are the body of `ComputeDiff`. What the
  client does with an answer is external. `early` is auxiliary: whether a diff since the
  last clone has read a commit whose versions were still being inserted.
* **Projects**: `DeleteProject` (the DELETE with its cascade) beside `Strata`.
  `Accepted` is a step that the foreign keys let through; `PushFails`,
  `MergeFails`, `CreateFails` and `AcquireFails` are the statements they refuse.
* **LockHistory**: `Projects` with the history variable `taken`: for every push in flight,
  those of its files whose lock was acquired since its lock check.
* **Clock**, **Sessions**, **RateLimiter**, and **Access**, which composes them: time in ticks finer than a second;
  accounts (`BeginRegister`, `InsertUser`, `RejectUser`) and tokens (`Login`,
  `Refresh`, `Discard`); the windows of `allow` (`OpenWindow`, `CountRequest`).
  `allow` holds its mutex from beginning to end and is one action. `recent` (the
  requests of the last interval, with their number in their window), `inserted` (the rows of
  `users` ever written) and the fields `issued` and `ttl` are auxiliary.

Operators named `Mut…` stand before the definition they are a variant of. Each is a plausible
bug (a dropped guard, a missing write, a swapped order). No specification uses
them; `PROJECT.json` pairs every property of a passing run with one that breaks
it, to show that the property can fail.

### Abstractions, and why they are sound

* **One statement is one atomic step.** PostgreSQL in autocommit gives that.
  `SetCommitFiles` is one insert of the whole snapshot. One round of the file
  loop (`CreateVersion`: upsert of the file row, its look-up, insert of the
  version) is one step: the file row it may leave behind alone has no reader in
  the model.
* **A commit id is its time stamp.** The handlers take `time.Now()` and the UUID
  together, so one counter `lastID` yields both. This assumes one server process
  whose clock does not step back; only `FindMergeBase` depends on it.
* **A path is its file row.** `UNIQUE(project_id, path)` and the no-op upsert
  make paths and file ids one to one. A version is named by the commit that
  created it, since a request lists a path once (duplicate paths in one request
  are not modelled).
* **Reads of published rows are folded into the ref read** in `Merge`: between
  the read of a head and the walk of its history nothing can change there. This
  is theorem `PublishedHistoryImmutable`, not an assumption.
* **Commits from before migration 002** (without `commit_files`) are not
  modelled; `Init` is an empty project.
* **A manifest is a set of chunks.** The order of chunks in a file matters to the
  client only; `ComputeDiff` and the reference counts treat it as a set.
* **Passwords are compared for equality** (bcrypt and the JWT signature are taken
  as sound), and the role of a user is left out: no handler reads it.
* **A commit is bound to one project.** Projects are independent rows; nothing
  in the modelled handlers crosses them.

## 3. Properties

Safety:

* `PublishedSnapshotsComplete`: the head of a branch has a row, all its
  ancestors have all their parents, complete snapshots and existing versions.
  Nothing but the order of the store calls ensures it.
* `ReplayRebuildsSnapshot`: the two records of a history agree, the files each
  commit lists, replayed in order, and the snapshot of the head (histories
  without merges; a merge commit lists no file).
* `IdsUnique`, `HistoryInv`: the inductive invariant behind it (section 6).
* `MergeBaseIsBest`: no common ancestor of the analysed heads descends from the
  base that `FindMergeBase` picks by `created_at`.
* `MergeIsThreeWay`: if neither head moved between the two reads, the merged
  snapshot is the three-way merge over that base, provided the source still holds
  the files of the base. A push never drops a file of its parent, but a merge that
  was raced can drop files of its source, and `Analyze` takes no deletion over.
* `PublishedChunksHeld`, `RefCountExact`, `ChunkRowHasBlob`: chunks of
  published commits are stored and counted, counts are exact, a row has its
  bytes.
* `PulledFilesComplete`: whatever a client cloned, skipped or gave up, it has all
  chunks of the files it holds and of the commit it says it is at, unless it has diffed a
  commit from `GET /commits` while a push was inserting its versions. `HeadsNeverEarly`:
  for the head of a branch that never happens.
* `PullNeverStuck`: what a pull under way still needs can be downloaded, also when
  a racing push has dropped its commit from the branch, or is still writing it.
* `UndisturbedGrantIsHeld`: a lock granted without interference is owned.
* `MergedIsThreeWay`, `EveryFileClassifiedOnce`, `AnalysisIsSymmetric`: the
  pure algorithm against its reference definition.
* `RegistrationHolds`: of racing registrations at most one is inserted, and its row, with
  the password that opens the account, stays, also when its answer was lost and the retry
  is told `USER_EXISTS`.
* `TokensLastAsPromised`: `expires_in` is right up to the second that `exp` loses,
  and a valid access token comes with a valid refresh token, where that one was given no
  shorter a life.
* `NeverTwiceTheLimit`, `RefusedOnlyAtLimit`: the limiter from both sides.

Actions:

* `PublishedCommitsImmutable`: no step writes a row of a published commit.
* `RefsMoveForwardUnlessRaced`: when a branch leaves its history, the request
  that wrote the ref had read another head than the one it overwrote, or it fast-forwarded to a source that
  had itself left the analysed history.
* `NoLockStolen`: a lock is released before anybody else owns it.
* `LockedFilesKept` (of `LockHistory`): a push moves a branch over a file that another
  user has locked only if the file was free at some moment after the check and was locked
  then. No interleaving of look-ups, inserts, releases and the cascade makes a lock that
  the check saw as the pusher's own, or as none, somebody else's in another way.
* `RequestsAdvance`: every step of a request lowers a rank of its own (the store
  calls that are left, with the files that a push has still to write), and no step of
  another request raises it. No handler goes back, and a lost race ends a request
  instead of starting it again.

Refinement: `ImplementsRepository` (`Repo!Spec`) and `StepsOfRepository` (the same
for an initial state with history).

Liveness: `RequestsEnd`, every push, merge, branch creation and lock request ends,
also when its project is deleted under it.

## 4. Runs

| Run | Shows |
|---|---|
| `push_race` | two pushes and a branch creation from an empty project, three kinds of dropped errors: published commits are complete, replay agrees with the snapshots, refs leave their history only to a race, and the whole implements `Repository` |
| `merge_race` | a merge of diverged branches beside a push (also one that names no ref), where the read of a parent's snapshot may be lost: the inductive invariant of the proofs, the merge is three-way, refs leave their history only to a race, what is published is finished and never written again |
| `merge_crisscross` | two mergers, both directions, repeatedly: the base is best in criss-cross histories, visible merge commits are complete, ref writes are steps of `Repository` |
| `push_pull` | an upload handler (one content too large), two pushes that share chunks, and a client that pulls heads or any listed commit: rows have bytes, published chunks are held, counts are exact, pulls can be finished and leave complete files unless they came too early, and heads never are too early |
| `liveness` | push, merge, branch creation, lock request and the deletion of the project: every request ends, a merge that panics included, no step of a request leads back, and no branch keeps a head whose rows are gone |
| `locks` | two lock requests, releases and a push, with failing second look-ups and the deletion of the project: locks change hands only by release, an undisturbed grant is held, a push overrides only locks taken after its check, and no step of a request leads back |
| `merge_algorithm` | the algorithm on all snapshots of two files with four versions |
| `access` | two registrations, tokens and a rate-limited key on one clock |
| `v_…` (4 runs) | a statement of the repository that the code refutes (section 5) |

**Bounds.** `MaxCommits` bounds the ids. `RoomForCommit` lets a request begin
only while an id is left for it and for all requests that have not taken theirs,
so the bound never strands a request in flight. Two handlers on one branch are
enough for every check-then-write race, since each check reads one row and each
write replaces one row; a third party appears where the property is about three
(two pushes and a branch creation; two lock requests and a push). Two paths separate "the
files of the request" from "the files of the parent". `DivergedInit` starts the
merge runs in a state that a first push, a branch creation and a push on each
branch produce (all choices of the pushed files), so that with `MaxCommits` = 5
or 6 the remaining commits go to merges: two for a race, three for a criss-cross
merge of merges. `PushRefs` lists the refs that pushes name; `NoRef` is the
empty ref, which moves no branch. `OneCommitInit` starts `push_pull` after the
upload of one chunk and a push of a file made of it, with every choice of both: two more
commits are then enough for a client to skip one, and for a lost update to drop
one that a client is pulling. One upload handler suffices there: between two of its steps
the pushes and the client run, and that two uploads of one chunk do not disturb each other
is proved for any number of them (`ServerChunkRowsHaveBlobs`). `merge_crisscross` and
`liveness` have one path, which the base of every merge holds: a resolution to `""`
needs a file that both sides added, and occurs in `merge_race` (two paths: the row of a
merge whose snapshot insert fails stays, unpublished) and, without the tables, in
`merge_algorithm`. The theorems cover the failing insert for any paths. `liveness` has one request of each kind:
that a request ends must not depend on others, and the deletion is the only step that takes
its rows away. Its branch creation and its lock request are not in flight together
(`OneAside`): they read and write nothing in common. That two pushes do not raise each
other's rank is left to the proof of `RequestsAdvance`, which is for any number of them. In `access`, `MaxTime` = 6 with `Interval` = 2 covers three windows
in a row; a life time of 3 ticks with 2 ticks per second makes `exp` lose a
fraction; two registrars and two names and emails give every way two rows collide.
`locks` needs one push only (`MaxCommits` = 1). `MaxTokens` bounds what clients hold at a time, not what is issued.

**Deadlock.** `CHECK_DEADLOCK FALSE` is set where `Strata` is bounded by
`MaxCommits` or time by `MaxTime`: with all ids used and all handlers idle the
instance stops (the server would not). `merge_algorithm` ends after `Execute`. `locks`
is checked for deadlock: lock requests and releases never run out.

**Symmetry.** Handlers, branches, paths, users and hashes are permuted in safety
runs only; `liveness` has no symmetry.

**Fairness.** `WF` on the next store call of every push, merge and branch
creation. `net/http` gives every request a goroutine, the Go scheduler is fair,
no in-process lock is held across store calls, and a call that hangs is ended by
the `Timeout` middleware (an `Abort`). A cut-off is never owed: `RequestsEnd`
holds without relying on it. New requests are not fair either. `ProjectFairness`
is the same with lock requests added, where the step that is owed may be the
answer to a statement that the foreign keys refuse. `PullFairness` (for
`v_clone`) says that a client that has begun a pull goes on with it, an assumption
about the external client.

## 5. Where the code and its own statements disagree

Each is a run of one property that TLC refutes.

| Run | Statement | What happens |
|---|---|---|
| `v_lost_update` | "Verify parent matches current ref head (optimistic concurrency)" (`version.go:62`) | two pushes on one head both pass, the second ref upsert drops the first commit |
| `v_merge_parents` | "Re-analyze to get current state (prevents TOCTOU issues)" (`merge.go:185`) | a push between the two reads: the snapshot is not the merge of the recorded parents |
| `v_parent_read` | "every commit is a complete snapshot" (`README.md:12`) | a failing read of the parent's snapshot is dropped; the other files vanish |
| `v_clone` | "Omit for a fresh clone (all files treated as added)." (`openapi.yaml:720`), "Check out any commit at any time without walking the history chain." (`README.md:12`) | `ComputeDiff` lists the files the commit itself pushed, not those of its snapshot: a clone of the second commit lacks the files of the first |

More observations follow from the same definitions and have no run of
their own. `store/postgres/lock.go:21` says "Returns an error if already locked by a
different user", but the insert ignores conflicts and its row count is not looked at, so
two requests that run at once are both answered 201; `UndisturbedGrantIsHeld`
says exactly when a grant is real. "Locks are enforced on commit."
(`README.md:11`) holds up to the moment of the check, as `LockedFilesKept`
states: a lock taken while the push is under way does not stop it, and neither does any
lock when the query of the check fails (`handler/push.go:116` goes on).
`service/merge.go:191` drops the errors of both reads of the refs, so that a transient
failure of either ends in a nil dereference (`PanicMerge`), in a live project, too; it
happens before anything is written, and `Recoverer` answers it with a 500. `POST /pull/diff`
takes any commit (`handler/pull.go:40`), and `GET /commits` lists those that are being
written (`service/version.go:285`): a client that diffs one too early ends at it
without all its chunks, and as its later diffs start from that commit, they leave the
missing chunks out for good, until it clones again. `config.go:86` and `87` read the two
life times of the tokens independently and `validate()` does not compare them: with a
refresh token that lives shorter, the client is left with an access token it cannot renew,
which `TokensLastAsPromised` leaves open.
`service/version.go:293` ("GetFileTree returns all files at a given commit") has
the cause of `v_clone`. `middleware/ratelimit.go:9` calls the limiter a
"sliding window"; it is a fixed one, `NeverTwiceTheLimit` is the bound it does
give, and at `Limit` = 2 a key does get three requests in one interval. The
look-up of `CreateBranch` (`handler/merge.go:55`) can be stale
when the ref is upserted, so the second of two creations of one branch may move
it (`CreateRaced` in `RefsMoveForwardUnlessRaced`). `IncrementRefCount` touches
existing rows only, so a chunk uploaded after the commit that lists it keeps
count 0; `PublishedChunksHeld` therefore assumes `ClientsUploadFirst`, a promise
of the external client that the server does not check. And a file that only the
source lacks is in none of the lists of `Analyze` (`EveryFileClassifiedOnce`) and
stays in the merged snapshot, although `merge.go:141` says "deletion
propagates"; no request deletes a file, so only a snapshot truncated as in
`v_parent_read` gets there. `MergedIsThreeWay` excludes it by `KeepsFiles`.

## 6. Proofs

All theorems hold for every value of the constants that satisfies the named
assumptions: `SwallowedAssumption` (only known sites), `MaxCommitsAssumption`
(a natural number), `LocksAssumption`, `ChunksAssumption`, `PushAssumption`,
`MergeAssumption`, `NoAccountAssumption` (the "none" values differ from the real ones),
`PushRefsAssumption`, and for the clock, the tokens and the limiter that seconds, life
times and the interval are natural numbers, seconds positive: `ClockAssumption`,
`SessionsAssumption`, `RateLimiterAssumption`. TLC evaluates them in every run that uses them.

* **StrataTypeProofs**: `TypeCorrect` (`Spec => []TypeOK`). The inductive
  invariant `TypeInv` adds to `TypeOK` what the types alone do not carry:
  which fields of a request are set at which `pc`. `ServerImplementsLocks`
  (`Spec => LocksSpec`): every step of the composed server is a step of `Locks`
  or leaves the lock table alone, so results about locks hold in the server.
  `ServerChunkRowsHaveBlobs`: the same for the bytes of chunks, where pushes
  write `refCount` beside the uploads.
  Locks and chunks on their own: `LocksTypeCorrect`, `UndisturbedGrants`,
  `LocksNotStolen`, `ChunksTypeCorrect`, `ChunkRowsHaveBlobs`.
* **StrataProofs**: `IdsAlwaysUnique`, `AlwaysFinished` (`Spec => []HistoryInv`),
  `PublishedHistoryImmutable` (`Spec => PublishedCommitsImmutable`), and under (A)
  `PublishedHistoryComplete` (`Spec => []PublishedSnapshotsComplete`).
* **MergeProofs**: `MergesAreThreeWay` (`MergeIsThreeWay` in the server),
  `AlwaysOrdered` (a parent has the smaller time stamp, also of commits that requests
  in flight are about to insert), `MergeBaseAlwaysBest` (`MergeBaseIsBest`) and
  `BranchesMoveForward` (`RefsMoveForwardUnlessRaced`).
* **ArchiveProofs**: `ArchiveAlwaysFinished`, and under (A)
  `ServerImplementsRepository` (`ArchiveSpec => ImplementsRepository`), the same step
  by step (`ServerStepsAreRepositorySteps`), and `ReplayAlwaysRebuilds`
  (`ReplayRebuildsSnapshot`).
* **PullProofs**: `PulledFilesAlwaysComplete`, `HeadsAreNeverEarly`, and under (B) `RefCountAlwaysExact`,
  `PublishedChunksAlwaysHeld` and `PullsNeverStuck`.
* **ProjectsProofs**, all of `ProjectSpec`, that is, with the deletion:
  `ProjectTypeCorrect`, `ProjectGrantsHeld` (`UndisturbedGrantIsHeld`),
  `RequestsAlwaysAdvance` (`RequestsAdvance`, for finitely many files), under (A)
  `ProjectHistoryComplete` (`PublishedSnapshotsComplete`), and under (C)
  `LocksEnforcedOnCommit` (`LockHistorySpec => LockedFilesKept`).
* **AccessProofs**: `SessionsTypeCorrect`, `RegistrationAlwaysHolds`
  (`RegistrationHolds`), `TokensAlwaysLast` (`TokensLastAsPromised`),
  `RateLimiterTypeCorrect`, `AlwaysBelowTwiceTheLimit` (`NeverTwiceTheLimit`) and
  `AlwaysRefusedAtLimit` (`RefusedOnlyAtLimit`).
* **MergeAnalysisProofs**: `MergeComputesThreeWay` (if the source keeps the
  files of the base, the merged snapshot is the three-way merge),
  `MergeKeepsTargetFiles`, and the three invariants of `MCMergeAnalysis`.

Three assumptions are named in the theorems that need them. (A) The read of a
parent's snapshot does not fail silently (`"parentSnapshot" \notin Swallowed`);
`v_parent_read` shows that this is necessary for complete snapshots. Only what speaks
of complete snapshots needs it; the rest holds on truncated ones, too. (B) Clients upload the chunks of a
manifest before they push it (`ClientsUploadFirst`); the server does not check it,
and `IncrementRefCount` skips a chunk without a row. (C) The lock check of a push does not
fail silently (`"lockCheck" \notin Swallowed`); where it does, the push overrides any lock. The other reads whose errors
are dropped may fail at any time.

The argument of `PublishedHistoryComplete`. The property speaks of the ancestors
of the heads, which says nothing of the commits that requests in flight will
publish later; it is not inductive. `HistoryInv` says that there is a set `G` of
commits, closed under parents, complete, untouched by every request in flight,
that holds all heads *and* every commit that a request in flight has read as a
head; and that a request in flight has written a prefix of a finished commit over a parent in
`G`. "Finished" is relative to the reads (`SnapshotBuilt`): the snapshot of a pushed
commit is its own versions laid over what `GetCommitSnapshot` may yield for the parent
(`LaidOver`), its files or, where that read may fail, none. Thus the invariant
needs no assumption; under (A) only the first outcome is left and `SnapshotBuilt` is
`SnapshotComplete` (lemma `BuiltIsComplete`). A push that names no ref may have any parent, even an unfinished one; its
commit simply stays outside `G`, and as the head check compares the parent of
every push that names a ref with a head, nothing outside `G` can become part of
a branch. Each action keeps `G` or, when a ref is written, adds the one commit
that has just been finished (lemma `Publish`). `IdsUnique` is needed so that no
other request writes the rows of a commit in `G`. Since `G` contains the heads
and is closed, it contains `Published` (lemma `FinishedPublished`): completeness
follows at once, and immutability because no step writes rows of `G`
(`StepWrites`).

The other proofs stand on the set `G`. The **refinement** takes `archived` (all
commits some branch has shown) for `G`: `Finished` speaks of the heads and of what
may still be published and never says that a commit of `G` is reachable, so a commit that
a lost update has dropped stays in it. A ref write publishes the commit that
`FinishedWith` adds (`PushPublishes`, `MergePublishes`), or moves a branch within
the archive (`MoveStep`); every other step leaves the rows of the archive alone and
stutters. **Merges**: the commits a merge has read lie in `G`, so their ancestors
stay what they were when `Analyze` walked them (`AncestorsKept`); `TimesOrdered`
turns "latest common ancestor" into "best common ancestor" (`AnalysisFindsBest`).
**Branches move forward**: `HeadsTaken` carries what each check has established up
to the ref write; if the ref still holds the head that was read, the new commit has
it as parent (or the fast-forward has it as base), so it stays an ancestor. **Replay**:
the invariant is about all of `archived`, and a new commit adds its own
files on top of its parent's replay (`ReplayOfPush`). **Counts**: `CountInv` follows a
push through its loop, so that at `CountChunks` the commit lists exactly its
manifest and is not counted yet (`PushCounts`); `Counters(h)` is finite since
`MaxCommits` bounds the ids. `HeldInv` extends `HistoryInv`: all of `G` is counted.
**Pulls**: a client may learn any commit, in `G` or not. What matters is that no push is
inserting its versions any more (`Settled`): that stays so, and its chunk lists never change
again (`WritersKept`, `SettledKept`), also when its push was cut off. `DiffComplete` says
that a diff leaves out only chunks of the commit the client is at, which a client that is
not early has fetched (`PullHeld`). The commits of `G` are settled, heads among them.

**Deletion**: a statement that the foreign keys refuse ends its request exactly as a
cut-off does, so every step of `ProjectNext` but the cascade is a step of `Next`
(`ProjectSteps`). `ProjectInv` keeps the invariants of `Strata` while the project is
live. They do not survive the cascade: a request still holds the ids of commits whose rows
are gone. What survives are the types and what a request has set at which `pc`, beside
`NoHeads`, which the foreign keys keep. **Locks of a push**: `PushLocks` says of a push in
flight that each of its files is free, its own user's, or in `taken`; an insert writes a
free row only (`OwnersKept`), and a row it writes for another user while the push is in
flight is `taken` in the same step (`LockHistoryStep`). **Ranks**: a round over the files takes one
off the files that are left (`PushLowers`), and another push cannot give it back, or take one
away, as ids are handed out once while the project lives and the
tables are frozen afterwards (`OtherPushKept`).

**Accounts**: the constraints of the table compare a new row with every inserted one, as
none is ever changed or removed (`AccountsInv`). **Tokens**: every token is
what `generateTokenPair` made of the moment of its issue (`TokenHonest`), and truncation
to seconds loses less than one and is monotone (`UnixBounds`, `UnixMonotone`). **Rate
limiter**: the requests of the last interval are those of the window in force
(`Current`, as many as its count) and the rest of the window before (`Earlier`). Of the
latter, less than the capacity is left: a window opens strictly after `resetAt`, when
the request that opened the one before is forgotten (`WindowCounts`). Together less than
twice the capacity, and a refusal means that the window in force alone has the limit.

Only model-checked: `RequestsEnd`, as liveness under fairness (`ENABLED`) is out of reach
of the prover. `RequestsAlwaysAdvance` is the part of it that is: a request takes finitely
many steps of its own, so with a step always owed it ends. That one is owed in every
state, also when rows are gone, is what `liveness` shows.

## 7. What this tells about the code

Without any transaction, the order of the store calls alone keeps every branch
on finished, immutable commits, wherever a request is cut off. That they are
complete takes one thing more: that no error of the read of a parent's snapshot is
dropped on the way. What the order cannot give is mutual
exclusion: a ref, a branch name and a lock are all written after a check that
may be stale. `RefsMoveForwardUnlessRaced` and `UndisturbedGrantIsHeld` bound the
damage precisely: it takes another request between the check and the write (or a
dropped error of the check itself). A conditional update
(`UPDATE refs … WHERE commit_id = parent`, and the row count of the lock insert)
would turn both into unconditional properties.

## 8. Not modelled

Not modelled, because there is no state a property is about: configuration (read
once at start-up), logging, CORS, API documentation, JSON helpers, start-up and
shutdown. Of modelled components: the creation and listing of projects (a unique
name decides as it does for accounts; the rest is one insert or a read),
`GetCommit` (a single read),
`DecrementRefCount` and the deletion of blobs (no caller), table `refresh_tokens`
(no reader or writer), tags (`ResolveRef` looks for them, nothing creates them).
The time stamps come from one clock that does not step back; a second server
process would break that, and `MergeBaseIsBest` with it.

What could follow: two server processes with clocks of their own (the created_at
order of `FindMergeBase` would need an assumption on their skew), and pulls beside the
deletion of their project.

## 9. Running

In this directory: `tlc -config push_race.cfg MCPush` (module and configuration
of each run are in `PROJECT.json`) and `tlapm StrataProofs.tla`.
