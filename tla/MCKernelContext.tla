--------------------------- MODULE MCKernelContext ---------------------------
(* Instances of KernelContext for TLC.                                      *)
EXTENDS KernelContext, TLC

CONSTANTS k1, k2, a, b

\* Neither keys nor calls are told apart.
Alike == Permutations(Keys) \cup Permutations(Callers)
=============================================================================
