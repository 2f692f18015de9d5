-------------------------- MODULE MCPullRequestStore --------------------------
(* Instances of PullRequestStore for TLC.                                   *)
EXTENDS PullRequestStore

CONSTANTS f, g

(* The second commit takes the change of one file back and changes another. *)
OtherFile == <<{f}, {g}>>
===============================================================================
