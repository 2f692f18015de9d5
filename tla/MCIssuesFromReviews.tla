------------------------- MODULE MCIssuesFromReviews -------------------------
(* Instances of IssuesFromReviews for TLC.                                  *)
EXTENDS IssuesFromReviews, TLC

CONSTANTS k1, k2, s1, s2, s3, p, q, u, r

(* Two suggestions for one pull request and one for another.                *)
TwoPrs == s1 :> p @@ s2 :> p @@ s3 :> q

AnyClosing == Permutations(Closings) \cup Permutations({s1, s2})
==============================================================================
