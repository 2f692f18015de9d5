-------------------------- MODULE MCCircuitBreaker --------------------------
(* Instances of CircuitBreaker for TLC.                                     *)
EXTENDS CircuitBreaker, TLC

CONSTANTS c1, c2, c3, c4, c5, c6

AnyCall == Permutations(Calls)
=============================================================================
