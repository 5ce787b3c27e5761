------------------------- MODULE MCRepositoryScans -------------------------
(***************************************************************************)
(* Instances of RepositoryScans for TLC.                                   *)
(***************************************************************************)
EXTENDS RepositoryScans

LOCAL INSTANCE TLC

TwoPushes == 1 .. 2
ThreePushes == 1 .. 3

\* The third push is to another branch.
TwoPrimary == 1 .. 2

\* Requests are alike, and so are ticks.
Symmetry == Permutations(Handlers) \cup Permutations(Ticks)
=============================================================================
