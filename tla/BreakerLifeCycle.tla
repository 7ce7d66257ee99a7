-------------------------- MODULE BreakerLifeCycle --------------------------
(***************************************************************************)
(* What the circuit breaker promises a sequential caller, as the diagram   *)
(* of docs/ARCHITECTURE.md draws it: consecutive failures open it, a       *)
(* timeout half-opens it, successful probes close it, a failed probe opens *)
(* it again.  The counts a caller can observe are kept, the mechanism that *)
(* keeps them (the stored failure count, the budget of probes, the time)   *)
(* is not.  Reset is outside the diagram.                                  *)
(***************************************************************************)
EXTENDS Naturals

CONSTANTS
  Failing,   \* consecutive failures that open the breaker
  Probes     \* successful probes that close it

VARIABLES
  phase,    \* "Closed", "Open" or "HalfOpen"
  streak,   \* consecutive failures while Closed, otherwise 0
  passed    \* successful probes while HalfOpen, otherwise 0

vars == <<phase, streak, passed>>

Init == phase = "Closed" /\ streak = 0 /\ passed = 0

Closed == phase' = "Closed" /\ streak' = 0 /\ passed' = 0

Open == phase' = "Open" /\ streak' = 0 /\ passed' = 0

CallFails ==
  /\ phase = "Closed"
  /\ \/ streak + 1 < Failing /\ streak' = streak + 1 /\ UNCHANGED <<phase, passed>>
     \/ streak + 1 = Failing /\ Open

CallSucceeds == phase = "Closed" /\ Closed

TimeoutElapses == phase = "Open" /\ phase' = "HalfOpen" /\ UNCHANGED <<streak, passed>>

ProbeFails == phase = "HalfOpen" /\ Open

ProbeSucceeds ==
  /\ phase = "HalfOpen"
  /\ \/ passed + 1 < Probes /\ passed' = passed + 1 /\ UNCHANGED <<phase, streak>>
     \/ passed + 1 = Probes /\ Closed

Next ==
  \/ CallFails \/ CallSucceeds \/ TimeoutElapses
  \/ ProbeFails \/ ProbeSucceeds

Spec == Init /\ [][Next]_vars
=============================================================================
