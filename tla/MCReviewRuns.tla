---------------------------- MODULE MCReviewRuns ----------------------------
(***************************************************************************)
(* Instances of ReviewRuns for TLC.  Runs are model values and no action    *)
(* tells them apart, so they are symmetric in the runs that check safety.   *)
(***************************************************************************)
EXTENDS ReviewRuns, TLC

RunSymmetry == Permutations(Runs)
=============================================================================
