\* Two members and a tick, two approvals of the step one after the other, one fault.
SPECIFICATION Spec
CONSTANTS
    Members = {m1, m2}
    Ticks = {t1}
    MaxApprovals = 2
    MaxCalls = 4
    MaxPrs = 1
    MaxFaults = 1
SYMMETRY Symmetry
CHECK_DEADLOCK FALSE
INVARIANTS
    OneWriteAfterRevocation
    EveryWriteIsAudited
    DoneMeansMerged
PROPERTY
    DecisionsAreFinal
