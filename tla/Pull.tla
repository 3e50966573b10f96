-------------------------------- MODULE Pull --------------------------------
(***************************************************************************)
(* Pulls and browsing: handler/pull.go, handler/version.go and ComputeDiff *)
(* of service/version.go.  The server only reads here.  A pull is a chain  *)
(* of requests of one client, and pushes and uploads run between any two   *)
(* of them: GET /refs names a head or GET /commits any commit, POST        *)
(* /pull/diff compares it with the commit that the client holds, GET       *)
(* /pull/chunk fetches chunk by chunk.                                     *)
(* What a client keeps between the requests is external.                   *)
(***************************************************************************)
EXTENDS Strata

CONSTANT Pullers        \* the clients that pull

VARIABLE pulls          \* what each client holds, and its pull in progress

PullPC == {"idle", "resolved", "fetch", "fetchRef"}

\* at, tree, local: the commit that the client has pulled last, for every file
\* the commit whose version it holds, and the chunks it has.  from, to, files,
\* needed: the two commits of the pull in progress and the answer of its diff.
\* early: auxiliary, whether a diff since the last clone has read the versions
\* of a commit while they were being inserted.
PullRecord == [pc : PullPC, at : Versions, tree : Snapshot,
               local : SUBSET Hashes, from : Versions, to : Versions,
               files : SUBSET Paths, needed : SUBSET Hashes,
               early : BOOLEAN]

IdlePull == [pc |-> "idle", at |-> Nil, tree |-> EmptySnapshot, local |-> {},
             from |-> Nil, to |-> Nil, files |-> {}, needed |-> {},
             early |-> FALSE]

PullTypeOK == pulls \in [Pullers -> PullRecord]

PullInit ==
  /\ Init
  /\ pulls = [r \in Pullers |-> IdlePull]

-----------------------------------------------------------------------------
(* ComputeDiff.                                                            *)

\* Mutant: the rows of table chunks are taken for the chunks of the client.
MutHaveChunks(from) == IF from = Nil THEN {} ELSE chunks

\* The chunks that a client at commit from is taken to hold: those that this
\* commit lists itself.
HaveChunks(from) == IF from = Nil THEN {} ELSE HashesOf(from)

NeededChunks(from, to, p) == chunkHashes[to][p] \ HaveChunks(from)

\* A push is still inserting the versions of commit c, whose row is there.
BeingWritten(c) ==
  \E r \in Pushers : pushes[r].id = c /\ pushes[r].pc \in {"parent", "files"}

\* Only files of which commit to has a version of its own are looked at, and
\* of these a fresh clone gets all, another client those with a needed chunk.
ChangedFiles(from, to) ==
  {p \in ListFileTree(to) : from = Nil \/ NeededChunks(from, to, p) # {}}

-----------------------------------------------------------------------------
(* The requests of one client.                                             *)

\* GET /refs or GET /tree: the client learns the head of a branch.
ListRefs(r, b) ==
  /\ pulls[r].pc = "idle"
  /\ refs[b] # Nil
  /\ pulls' = [pulls EXCEPT ![r].pc = "resolved", ![r].to = refs[b]]

\* GET /commits: any commit, also one whose push is still in flight, or was cut
\* off before the commit was finished.
ListCommits(r, c) ==
  /\ pulls[r].pc = "idle"
  /\ pulls' = [pulls EXCEPT ![r].pc = "resolved", ![r].to = c]

\* The answer of a diff.  A client that names no commit to start from starts
\* over with nothing.  ComputeDiff reads the versions of both commits, one after
\* the other; a step may come in between, which changes what is read only when
\* one of the two is being written.
AnswerDiff(r, pc, from, to) ==
  LET held == IF from = Nil THEN IdlePull ELSE pulls[r]
      files == ChangedFiles(from, to)
  IN  pulls' = [pulls EXCEPT ![r] =
        [held EXCEPT !.pc = pc, !.from = from, !.to = to, !.files = files,
                     !.needed = UNION {NeededChunks(from, to, p) : p \in files},
                     !.early = held.early \/ BeingWritten(to)]]

\* POST /pull/diff with a commit that the client has looked up.
Diff(r, from) ==
  /\ pulls[r].pc = "resolved"
  /\ AnswerDiff(r, "fetch", from, pulls[r].to)

\* POST /pull/diff with the name of a branch.  The answer does not say which
\* commit it is about.
DiffRef(r, from, b) ==
  /\ pulls[r].pc = "idle"
  /\ refs[b] # Nil
  /\ AnswerDiff(r, "fetchRef", from, refs[b])

\* GET /pull/chunk/{hash}: a chunk without a row, or without an object, is an
\* error, and the client has to try again.
DownloadChunk(r, h) ==
  /\ pulls[r].pc \in {"fetch", "fetchRef"}
  /\ h \in pulls[r].needed
  /\ Downloadable(h)
  /\ pulls' = [pulls EXCEPT ![r].needed = @ \ {h}, ![r].local = @ \cup {h}]

\* What is left of a pull that is over.
EndPull(q, at, tree) ==
  [IdlePull EXCEPT !.at = at, !.tree = tree, !.local = q.local, !.early = q.early]

\* With the last chunk the client puts the files of the answer together.
FinishPull(r) ==
  LET q == pulls[r]
  IN  /\ q.pc \in {"fetch", "fetchRef"}
      /\ q.needed = {}
      /\ pulls' = [pulls EXCEPT ![r] =
           EndPull(q, IF q.pc = "fetch" THEN q.to ELSE q.at,
                   [p \in Paths |-> IF p \in q.files THEN q.to ELSE q.tree[p]])]

\* The client gives up, keeping the chunks it has received.
AbandonPull(r) ==
  LET q == pulls[r]
  IN  /\ q.pc # "idle"
      /\ pulls' = [pulls EXCEPT ![r] = EndPull(q, q.at, q.tree)]

PullStep(r) ==
  \/ \E b \in Branches : ListRefs(r, b)
  \/ \E c \in commits : ListCommits(r, c)
  \/ \E from \in {Nil, pulls[r].at} :
       Diff(r, from) \/ \E b \in Branches : DiffRef(r, from, b)
  \/ \E h \in Hashes : DownloadChunk(r, h)
  \/ FinishPull(r)
  \/ AbandonPull(r)

PullNext ==
  \/ Next /\ UNCHANGED pulls
  \/ \E r \in Pullers : PullStep(r) /\ UNCHANGED vars

PullSpec == PullInit /\ [][PullNext]_<<vars, pulls>>

\* A client that has begun a pull goes on with it.
PullFairness ==
  \A r \in Pullers : WF_<<vars, pulls>>(PullStep(r) /\ UNCHANGED vars)

PullFairSpec == PullSpec /\ PullFairness

-----------------------------------------------------------------------------
\* SAFETY.  A client has all chunks of every file it holds, and all chunks of
\* the commit it tells the server it is at, whatever it cloned, skipped, gave
\* up or pulled again: the diff leaves out only chunks that an earlier answer
\* made the client fetch.  A head of a branch is never too early to be pulled,
\* nor is a commit whose push was cut off; only a client that took a commit from
\* GET /commits and diffed it while its push was inserting the versions is
\* promised nothing until it clones again.
PulledFilesComplete ==
  \A r \in Pullers : ~ pulls[r].early =>
    /\ pulls[r].at # Nil => HashesOf(pulls[r].at) \subseteq pulls[r].local
    /\ pulls[r].pc = "idle" =>
         \A p \in Paths : pulls[r].tree[p] # Nil
           => chunkHashes[pulls[r].tree[p]][p] \subseteq pulls[r].local

\* SAFETY.  The head of a branch is never too early to be pulled: a client
\* becomes early only through GET /commits.
HeadsNeverEarly ==
  \A b \in Branches : refs[b] # Nil => ~ BeingWritten(refs[b])

\* SAFETY.  A pull under way can be finished: the chunks of the commit it has
\* picked can be downloaded, also when a racing push has dropped the commit
\* from its branch since and when its own push is still in flight, provided
\* that the client that pushed the commit had uploaded them first.
PullNeverStuck ==
  \A r \in Pullers : pulls[r].pc # "idle" =>
    \A h \in HashesOf(pulls[r].to) \cup pulls[r].needed : Downloadable(h)

\* ACTION, what internal/docs/openapi.yaml says of a diff without from_commit_id:
\* "Omit for a fresh clone (all files treated as added)".  With a fresh clone of
\* a published commit the client gets the snapshot of the commit.
FreshCloneIsComplete ==
  [][\A r \in Pullers :
       LET q == pulls[r]
       IN  /\ q.pc = "fetch" /\ q.from = Nil /\ pulls'[r].at = q.to
           /\ q.to \in Published /\ ~ q.early
           => pulls'[r].tree = commitFiles[q.to]]_<<vars, pulls>>

=============================================================================
