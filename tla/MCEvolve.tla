------------------------------ MODULE MCEvolve ------------------------------
(***************************************************************************)
(* EvolveApplier for TLC: small deployments.                          *)
(***************************************************************************)
EXTENDS EvolveProperties

CONSTANTS a, m, b, hostA, hostB

Machine == [p \in Process |-> IF p = b THEN hostB ELSE hostA]

Deployments ==
  { \* Two machines and one issue.
    [process |-> {a, b}, issues |-> {1}, cap |-> 1, faults |-> 0,
     retries |-> FALSE, required |-> TRUE],
    \* The daemon of one meets a call by hand on the other.
    [process |-> {b, m}, issues |-> {1}, cap |-> 1, faults |-> 1,
     retries |-> FALSE, required |-> TRUE],
    \* The same on one machine.
    [process |-> {a, m}, issues |-> {1}, cap |-> 1, faults |-> 2,
     retries |-> FALSE, required |-> TRUE],
    \* One machine with two issues.
    [process |-> {a}, issues |-> {1, 2}, cap |-> 1, faults |-> 1,
     retries |-> FALSE, required |-> TRUE],
    \* One that tries again.
    [process |-> {a}, issues |-> {1}, cap |-> 2, faults |-> 1,
     retries |-> FALSE, required |-> TRUE],
    \* A machine with a watchdog that restarts, and no required checks.
    [process |-> {a, m}, issues |-> {1}, cap |-> 1, faults |-> 1,
     retries |-> TRUE, required |-> FALSE] }
=============================================================================
