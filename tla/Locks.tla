------------------------------- MODULE Locks -------------------------------
(***************************************************************************)
(* File locks: handler/lock.go, service/lock.go and store/postgres/lock.go.*)
(* A handler looks the lock up twice and then inserts; each lookup, the    *)
(* insert and the answer are steps of their own, so handlers of several    *)
(* users interleave between them.                                          *)
(***************************************************************************)
EXTENDS Naturals, Domain

CONSTANTS Users,        \* authenticated users
          Lockers,      \* concurrent POST /locks handlers
          NoUser,       \* no row: the path is not locked
          NoPath        \* a handler that serves no request

ASSUME LocksAssumption == NoUser \notin Users /\ NoPath \notin Paths

VARIABLES locks,        \* table locks: path -> locked_by
          acquires,     \* the Acquire handlers
          disturbed     \* auxiliary: the handlers during whose request some
                        \* other request wrote or deleted the row of their path

lockVars == <<locks, acquires, disturbed>>

AcquirePC == {"idle", "lookup", "insert", "answer"}
IdleAcquire == [pc |-> "idle", user |-> NoUser, path |-> NoPath]

LocksTypeOK ==
  /\ locks \in [Paths -> Users \cup {NoUser}]
  /\ acquires \in [Lockers -> [pc : AcquirePC, user : Users \cup {NoUser},
                               path : Paths \cup {NoPath}]]
  /\ disturbed \in SUBSET Lockers

LocksInit ==
  /\ locks = [p \in Paths |-> NoUser]
  /\ acquires = [r \in Lockers |-> IdleAcquire]
  /\ disturbed = {}

\* The other handlers that are working on path p.
OthersOn(p, r) == {q \in Lockers \ {r} : acquires[q].path = p}

-----------------------------------------------------------------------------
\* Mutant: an existing lock is answered without a look at its owner.
MutBeginAcquire(r, u, p) ==
  /\ acquires[r].pc = "idle"
  /\ acquires' = [acquires EXCEPT
       ![r] = [pc   |-> IF locks[p] # NoUser THEN "answer" ELSE "lookup",
               user |-> u, path |-> p]]
  /\ UNCHANGED <<locks, disturbed>>

\* LockService.Acquire, first lookup.  A path locked by another user is
\* refused (409, nothing changes); a path the user already holds is answered
\* with the existing row; a free path goes on to the store.
BeginAcquire(r, u, p) ==
  /\ acquires[r].pc = "idle"
  /\ locks[p] \in {u, NoUser}
  /\ acquires' = [acquires EXCEPT
       ![r] = [pc   |-> IF locks[p] = u THEN "answer" ELSE "lookup",
               user |-> u, path |-> p]]
  /\ UNCHANGED <<locks, disturbed>>

\* The request ends: with its answer, with an error, or cut off.
EndAcquire(r) ==
  /\ acquires' = [acquires EXCEPT ![r] = IdleAcquire]
  /\ disturbed' = disturbed \ {r}

\* LockStore.Acquire, second lookup: another owner is an error, the same
\* owner is success without an insert.  An error of the lookup itself falls
\* through to the insert.
LookupAgain(r) ==
  LET a == acquires[r]
  IN  /\ a.pc = "lookup"
      /\ \/ /\ locks[a.path] = a.user
            /\ acquires' = [acquires EXCEPT ![r].pc = "answer"]
            /\ UNCHANGED disturbed
         \/ /\ locks[a.path] \notin {a.user, NoUser}
            /\ EndAcquire(r)
         \/ /\ locks[a.path] = NoUser \/ "lockLookup" \in Swallowed
            /\ acquires' = [acquires EXCEPT ![r].pc = "insert"]
            /\ UNCHANGED disturbed
      /\ UNCHANGED locks

\* Mutant: the columns of the insert are swapped.
MutInsertLockSwapped(r) ==
  LET a == acquires[r]
      inserts == locks[a.path] = NoUser
  IN  /\ a.pc = "insert"
      /\ locks' = [locks EXCEPT ![a.path] = IF inserts THEN a.path ELSE @]
      /\ acquires' = [acquires EXCEPT ![r].pc = "answer"]
      /\ disturbed' = IF inserts THEN disturbed \cup OthersOn(a.path, r)
                                 ELSE disturbed

\* Mutant: ON CONFLICT DO UPDATE SET locked_by.
MutInsertLockUpdates(r) ==
  LET a == acquires[r]
  IN  /\ a.pc = "insert"
      /\ locks' = [locks EXCEPT ![a.path] = a.user]
      /\ acquires' = [acquires EXCEPT ![r].pc = "answer"]
      /\ disturbed' = disturbed \cup OthersOn(a.path, r)

\* Mutant: an insert that meets a row of another request starts over.
MutInsertLockRetries(r) ==
  LET a == acquires[r]
      inserts == locks[a.path] = NoUser
  IN  /\ a.pc = "insert"
      /\ locks' = [locks EXCEPT ![a.path] = IF inserts THEN a.user ELSE @]
      /\ acquires' = [acquires EXCEPT ![r].pc = IF inserts THEN "answer" ELSE "lookup"]
      /\ disturbed' = IF inserts THEN disturbed \cup OthersOn(a.path, r)
                                 ELSE disturbed

\* INSERT ... ON CONFLICT (project_id, file_path) DO NOTHING.  The number of
\* inserted rows is not looked at.
InsertLock(r) ==
  LET a == acquires[r]
      inserts == locks[a.path] = NoUser
  IN  /\ a.pc = "insert"
      /\ locks' = [locks EXCEPT ![a.path] = IF inserts THEN a.user ELSE @]
      /\ acquires' = [acquires EXCEPT ![r].pc = "answer"]
      /\ disturbed' = IF inserts THEN disturbed \cup OthersOn(a.path, r)
                                 ELSE disturbed

\* The handler answers 201 with the lock.
AnswerAcquire(r) ==
  /\ acquires[r].pc = "answer"
  /\ EndAcquire(r)
  /\ UNCHANGED locks

\* The request is cut off: timeout, lost connection, failing statement, crash.
AbortAcquire(r) ==
  /\ acquires[r].pc # "idle"
  /\ EndAcquire(r)
  /\ UNCHANGED locks

\* The row of p goes away under every handler that is working on p.
DeleteLock(p) ==
  /\ locks' = [locks EXCEPT ![p] = NoUser]
  /\ disturbed' = disturbed \cup {q \in Lockers : acquires[q].path = p}
  /\ UNCHANGED acquires

\* DELETE ... WHERE locked_by = user.  Without a matching row: an error.
Release(u, p) ==
  /\ locks[p] = u
  /\ DeleteLock(p)

\* DELETE with force: whoever owns the row.
ForceRelease(p) ==
  /\ locks[p] # NoUser
  /\ DeleteLock(p)

\* One step of the handler r on its own request.
AcquireStep(r) ==
  \/ LookupAgain(r)
  \/ InsertLock(r)
  \/ AnswerAcquire(r)

LocksNext ==
  \/ \E r \in Lockers, u \in Users, p \in Paths : BeginAcquire(r, u, p)
  \/ \E r \in Lockers : AcquireStep(r) \/ AbortAcquire(r)
  \/ \E u \in Users, p \in Paths : Release(u, p)
  \/ \E p \in Paths : ForceRelease(p)

LocksSpec == LocksInit /\ [][LocksNext]_lockVars

\* Mutant: the user's own locks are filtered out, and nobody else's.
MutCheckPaths(paths, u) == {p \in paths : locks[p] = u}

\* The rows CheckPaths returns: locks on the given paths of another user.
CheckPaths(paths, u) == {p \in paths : locks[p] \notin {u, NoUser}}

-----------------------------------------------------------------------------
\* SAFETY.  A handler that is about to answer 201 really owns the row, unless
\* another request wrote or deleted that row while it was working: the two
\* lookups and the ON CONFLICT DO NOTHING insert lose a lock only to a race.
UndisturbedGrantIsHeld ==
  \A r \in Lockers :
    acquires[r].pc = "answer" /\ r \notin disturbed
      => locks[acquires[r].path] = acquires[r].user

\* ACTION.  No lock changes hands: the row of a locked path is deleted before
\* anybody else can own it, whatever the acquiring handlers have read.
NoLockStolen ==
  [][\A p \in Paths : locks[p] # NoUser => locks'[p] \in {locks[p], NoUser}]_lockVars

=============================================================================
