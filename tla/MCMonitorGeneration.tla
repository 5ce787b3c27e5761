------------------------ MODULE MCMonitorGeneration ------------------------
(***************************************************************************)
(* Instances of MonitorGeneration for TLC.                                 *)
(***************************************************************************)
EXTENDS MonitorGeneration

LOCAL INSTANCE TLC

\* Analyses are alike.
Symmetry == Permutations(Analyses)
=============================================================================
