-------------------------- MODULE MCEventProcessor --------------------------
(* Instances of EventProcessor for TLC: events of one type.                 *)
EXTENDS EventProcessor, TLC

CONSTANTS e1, e2, t1, h1, h2

OneKind == [e \in Events |-> t1]

Alike == Permutations(Events) \cup Permutations(Handlers)
=============================================================================
