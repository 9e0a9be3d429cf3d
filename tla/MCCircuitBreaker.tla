-------------------------- MODULE MCCircuitBreaker --------------------------
(* Three callers are enough for a late report to meet two probes. *)
EXTENDS CircuitBreaker
CONSTANTS k1, k2, k3
=============================================================================
