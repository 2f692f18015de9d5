--------------------------- MODULE MCEventDelivery ---------------------------
(* Instances of EventDelivery for TLC.                                      *)
EXTENDS EventDelivery

CONSTANTS c1, c2, c3

(* c1 is the event that is persisted.                                       *)
Peers == Permutations({c2, c3})
=============================================================================
