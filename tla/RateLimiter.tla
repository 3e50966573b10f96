---------------------------- MODULE RateLimiter ----------------------------
(***************************************************************************)
(* middleware/ratelimit.go: one window of Interval ticks per key, opened   *)
(* by the first request after the last one has passed.  allow holds the    *)
(* mutex from beginning to end, so it is one action.  The router does not  *)
(* install the limiter yet.                                                *)
(***************************************************************************)
EXTENDS Clock, FiniteSets

CONSTANTS Keys,         \* user ids, or remote addresses
          Limit,
          Interval

ASSUME RateLimiterAssumption == Limit \in Nat /\ Interval \in Nat \ {0}

VARIABLES windows,      \* key -> window, opened or not
          recent        \* auxiliary: key -> the requests admitted within the
                        \* last Interval: when, and as which of their window

limiterVars == <<windows, recent>>

NoWindow == [count |-> 0, open |-> FALSE, resetAt |-> 0]

\* The requests that a window admits: a limit of 0 still admits the first.
Capacity == IF Limit = 0 THEN 1 ELSE Limit

RateLimiterTypeOK ==
  /\ windows \in [Keys -> [count : 0..Capacity, open : BOOLEAN, resetAt : Nat]]
  /\ recent \in [Keys -> SUBSET [at : Nat, no : Nat]]

RateLimiterInit ==
  /\ windows = [k \in Keys |-> NoWindow]
  /\ recent = [k \in Keys |-> {}]

-----------------------------------------------------------------------------
\* Mutant: the window has passed at resetAt already.
MutWindowPassed(k) == ~ windows[k].open \/ now >= windows[k].resetAt

\* No window, or one that has passed: a request at resetAt still belongs to it.
WindowPassed(k) == ~ windows[k].open \/ now > windows[k].resetAt

\* At the limit the request is answered 429 and nothing changes.
Refused(k) == ~ WindowPassed(k) /\ windows[k].count >= Limit

\* Request number n of its window is let through.
Admit(k, n) == recent' = [recent EXCEPT ![k] = @ \cup {[at |-> now, no |-> n]}]

\* Mutant: the old count goes on in the new window.
MutOpenWindow(k) ==
  /\ WindowPassed(k)
  /\ windows' = [windows EXCEPT
       ![k] = [count |-> @.count + 1, open |-> TRUE, resetAt |-> now + Interval]]
  /\ Admit(k, windows[k].count + 1)

\* The first request of a window is admitted whatever the limit.
OpenWindow(k) ==
  /\ WindowPassed(k)
  /\ windows' = [windows EXCEPT
       ![k] = [count |-> 1, open |-> TRUE, resetAt |-> now + Interval]]
  /\ Admit(k, 1)

\* Mutant: the request that reaches the limit is let through.
MutCountRequest(k) ==
  /\ ~ WindowPassed(k)
  /\ windows[k].count <= Limit
  /\ windows' = [windows EXCEPT ![k].count = @ + 1]
  /\ Admit(k, windows[k].count + 1)

CountRequest(k) ==
  /\ ~ WindowPassed(k)
  /\ ~ Refused(k)
  /\ windows' = [windows EXCEPT ![k].count = @ + 1]
  /\ Admit(k, windows[k].count + 1)

Allow(k) == OpenWindow(k) \/ CountRequest(k)

\* Time passes: requests of more than an Interval ago are forgotten.
Age == recent' = [k \in Keys |-> {a \in recent[k] : now < a.at + Interval}]

-----------------------------------------------------------------------------
\* The number of requests of k admitted within the last Interval, both ends
\* included.
Admitted(k) == Cardinality(recent[k])

\* SAFETY.  In no interval as long as a window does a key get twice the limit:
\* the end of one window and the start of the next add up, but the request that
\* opens a window comes strictly after the last one has passed.  A limit of 0
\* still admits one.
NeverTwiceTheLimit == \A k \in Keys : Admitted(k) < 2 * Capacity

\* SAFETY.  A refused key has really made as many requests as the limit allows
\* within the last Interval: a window that has passed refuses nobody.
RefusedOnlyAtLimit ==
  \A k \in Keys : Refused(k) => Admitted(k) >= Limit

=============================================================================
