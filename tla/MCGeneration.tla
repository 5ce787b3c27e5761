---------------------------- MODULE MCGeneration ----------------------------
(***************************************************************************)
(* Instances of Generation for TLC.                                        *)
(***************************************************************************)
EXTENDS Generation

LOCAL INSTANCE TLC

\* Requests are alike, and so are ticks.
Symmetry == Permutations(Members) \cup Permutations(Ticks)
=============================================================================
