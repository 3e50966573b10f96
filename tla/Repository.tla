----------------------------- MODULE Repository -----------------------------
(***************************************************************************)
(* What the version control of the server promises to its clients: an      *)
(* archive of immutable commits that only grows, and branches that name    *)
(* commits of it.  A commit appears in the archive whole, in one step with *)
(* the branch that shows it, and is well formed with respect to commits    *)
(* that are there already.  The tables, the handlers and their many store  *)
(* calls are not visible here.                                             *)
(***************************************************************************)
EXTENDS Naturals

CONSTANTS Branches, Paths, MaxCommits

VARIABLES heads,        \* branch -> commit, None when there is no branch
          archive       \* commit -> its parents and its files

repositoryVars == <<heads, archive>>

None == 0
Ids == 1..MaxCommits

NoFiles == [p \in Paths |-> None]

Init ==
  /\ heads = [b \in Branches |-> None]
  /\ archive = [c \in {} |-> NoFiles]

FilesAt(c) == IF c = None THEN NoFiles ELSE archive[c].files

\* c changes some files of one parent; a file keeps the parent's version or
\* has the one that c brings.
ChangesParent(c, commit) ==
  /\ commit.source = None
  /\ commit.parent \in DOMAIN archive \cup {None}
  /\ \E changed \in (SUBSET Paths) \ {{}} :
       commit.files = [p \in Paths |-> IF p \in changed
                                         THEN c ELSE FilesAt(commit.parent)[p]]

\* A merge brings no version of its own and loses no file of the branch that
\* it is merged into.
JoinsParents(commit) ==
  /\ {commit.parent, commit.source} \subseteq DOMAIN archive
  /\ \A p \in Paths :
       /\ commit.files[p] = None => FilesAt(commit.parent)[p] = None
       /\ commit.files[p] # None
            => \E a \in DOMAIN archive : archive[a].files[p] = commit.files[p]

\* Branch b shows a new commit.
Publish(b) ==
  \E c \in Ids \ DOMAIN archive :
    /\ heads' = [heads EXCEPT ![b] = c]
    /\ DOMAIN archive' = DOMAIN archive \cup {c}
    /\ \A a \in DOMAIN archive : archive'[a] = archive[a]
    /\ ChangesParent(c, archive'[c]) \/ JoinsParents(archive'[c])

\* Branch b is created at, or forwarded to, a commit of the archive.
Move(b) ==
  /\ \E c \in DOMAIN archive : heads' = [heads EXCEPT ![b] = c]
  /\ UNCHANGED archive

Next == \E b \in Branches : Publish(b) \/ Move(b)

Spec == Init /\ [][Next]_repositoryVars

=============================================================================
