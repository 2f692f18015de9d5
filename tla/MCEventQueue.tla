---------------------------- MODULE MCEventQueue ----------------------------
(* Instances of EventQueue for TLC.  Calls are interchangeable.             *)
EXTENDS EventQueue

CONSTANTS c1, c2, c3, big, urgent, small, tiny, mini, giant

CallSymmetry == Permutations(Calls)
=============================================================================
