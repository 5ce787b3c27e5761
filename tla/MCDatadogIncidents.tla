------------------------- MODULE MCDatadogIncidents -------------------------
(***************************************************************************)
(* A finite alert cycle for TLC.                                           *)
(***************************************************************************)
EXTENDS DatadogIncidents, TLC

Symmetry == Permutations(Handlers)

Alert(name, stamp, smart) == [name |-> name, stamp |-> stamp, smart |-> smart]

\* A monitor that fires, is renotified, and recovers; only its first alert matches a
\* smart rule.
OneCycle == {Alert("triggered", 1, TRUE), Alert("re-triggered", 2, FALSE),
             Alert("recovered", 3, FALSE)}
=============================================================================
