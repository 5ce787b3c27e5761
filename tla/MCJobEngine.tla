---------------------------- MODULE MCJobEngine ----------------------------
(***************************************************************************)
(* Finite instances of JobEngine for TLC.                                  *)
(***************************************************************************)
EXTENDS JobEngineRefinement, TLC

Symmetry == Permutations(Workers)
=============================================================================
