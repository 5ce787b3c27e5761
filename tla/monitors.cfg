\* Two analyses, a member, a tick, two approvals one after the other, a metric that disappears
\* once, one fault.
SPECIFICATION Spec
CONSTANTS
    Members = {m1}
    Ticks = {t1}
    Analyses = {a1, a2}
    MaxApprovals = 2
    MaxCalls = 3
    MaxLosses = 1
    MaxFaults = 1
SYMMETRY Symmetry
CHECK_DEADLOCK FALSE
INVARIANTS
    NoMonitorOnLostMetric
    OneMonitorPerStep
    MonitorIsAsApproved
