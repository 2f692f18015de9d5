--------------------------- MODULE MCHandlerStack ---------------------------
(* Instances of HandlerStack for TLC: calls through the standard stack      *)
(* (s1, s2) and through a list of the runtime's configuration (m1, m2).     *)
EXTENDS HandlerStack

CONSTANTS s1, s2, m1, m2

(* The limits of middlewares that share a key may differ.                   *)
MixedLimits == [c \in Calls |-> IF c = m1 THEN 2 ELSE 1]
=============================================================================
