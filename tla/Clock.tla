------------------------------- MODULE Clock -------------------------------
(***************************************************************************)
(* The clock of the server, in ticks that are finer than the seconds in    *)
(* which tokens carry their expiry.                                        *)
(***************************************************************************)
EXTENDS Naturals

CONSTANTS MaxTime,      \* bound: the last tick
          Second        \* ticks per second

ASSUME ClockAssumption == MaxTime \in Nat /\ Second \in Nat \ {0}

VARIABLE now            \* time.Now()

Times == 0..MaxTime

\* Mutant: the fraction of the second is kept.
MutUnix(t) == t

\* time.Time.Unix: the full seconds, as ticks again.
Unix(t) == (t \div Second) * Second

Tick == now < MaxTime /\ now' = now + 1

=============================================================================
