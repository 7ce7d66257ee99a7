-------------------------- MODULE MCCircuitBreaker --------------------------
(***************************************************************************)
(* Small instances of the circuit breaker for TLC.                         *)
(***************************************************************************)
EXTENDS CircuitBreaker
=============================================================================
