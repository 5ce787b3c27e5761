---------------------------- MODULE MCViability ----------------------------
(***************************************************************************)
(* Finite instances of Viability for TLC.                                  *)
(***************************************************************************)
EXTENDS Viability, TLC

CONSTANTS t1, t2

Symmetry == Permutations(Ticks)
=============================================================================
