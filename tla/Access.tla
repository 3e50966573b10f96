------------------------------- MODULE Access -------------------------------
(***************************************************************************)
(* Accounts, tokens and the rate limiter on one clock.                     *)
(***************************************************************************)
EXTENDS Sessions, RateLimiter

accessVars == <<now, sessionVars, limiterVars>>

AccessInit == now = 0 /\ SessionsInit /\ RateLimiterInit

AccessNext ==
  \/ SessionsNext /\ UNCHANGED <<now, limiterVars>>
  \/ \E k \in Keys : Allow(k) /\ UNCHANGED <<now, sessionVars>>
  \/ Tick /\ Age /\ UNCHANGED <<sessionVars, windows>>

AccessSpec == AccessInit /\ [][AccessNext]_accessVars

=============================================================================
