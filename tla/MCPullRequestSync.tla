------------------------- MODULE MCPullRequestSync -------------------------
(***************************************************************************)
(* Instances of PullRequestSync for TLC.                                   *)
(***************************************************************************)
EXTENDS PullRequestSync

LOCAL INSTANCE TLC

\* Requests are alike.
Symmetry == Permutations(Handlers)
=============================================================================
