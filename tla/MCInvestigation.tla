-------------------------- MODULE MCInvestigation --------------------------
(***************************************************************************)
(* Instances of Investigation for TLC.                                     *)
(***************************************************************************)
EXTENDS Investigation

Alert(name, stamp, smart) == [name |-> name, stamp |-> stamp, smart |-> smart]

\* A monitor that fires and is renotified while its investigation runs.
TwoAlerts == {Alert("triggered", 1, TRUE), Alert("re-triggered", 2, FALSE)}

\* The second fact, which there may not be, and one that nobody has seen.
SomeKeys == {{2, 9}}
=============================================================================
