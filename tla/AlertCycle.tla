----------------------------- MODULE AlertCycle -----------------------------
(***************************************************************************)
(* What the console is promised about the incidents of one alert cycle:    *)
(* they are opened one at a time, a resolved incident is history, and an   *)
(* incident is investigated at most once.  No deliveries, handlers or      *)
(* crashes: an abstract specification of functions/datadog-webhook.        *)
(***************************************************************************)
EXTENDS Naturals, Sequences

CONSTANT Keys           \* transition keys of the alerts of the cycle

VARIABLES
    cycle,              \* its incidents, in the order in which they were opened
    investigated        \* those with an investigation

acVars == <<cycle, investigated>>

Open(i) == cycle[i].state = "active"

\* A firing alert opens an incident, but only when none is open.
Fire ==
    /\ \A i \in DOMAIN cycle : ~ Open(i)
    /\ \E k \in Keys, auto \in BOOLEAN :
          cycle' = Append(cycle, [state |-> "active", key |-> k, auto |-> auto])
    /\ UNCHANGED investigated

\* An alert of an open incident is folded into it, or resolves it.
Fold(i) ==
    /\ Open(i)
    /\ \E k \in Keys, s \in {"active", "resolved"} :
          cycle' = [cycle EXCEPT ![i] = [@ EXCEPT !.state = s, !.key = k]]
    /\ UNCHANGED investigated

Investigate(i) ==
    /\ i \notin investigated
    /\ investigated' = investigated \cup {i}
    /\ UNCHANGED cycle

AcInit == cycle = <<>> /\ investigated = {}

AcNext == Fire \/ \E i \in DOMAIN cycle : Fold(i) \/ Investigate(i)

AcSpec == AcInit /\ [][AcNext]_acVars
=============================================================================
