-------------------------- MODULE MCCircuitBreaker --------------------------
(***************************************************************************)
(* Threads that share one breaker; they are interchangeable.               *)
(***************************************************************************)
EXTENDS CircuitBreaker

CONSTANTS t1, t2, t3
============================================================================
