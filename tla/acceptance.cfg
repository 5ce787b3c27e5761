\* A member dismisses the recommendation while the merge of its pull request is delivered.
SPECIFICATION Spec
CONSTANTS
    Members = {m1}
    Ticks = {t1}
    MaxApprovals = 1
    MaxCalls = 2
    MaxPrs = 1
    MaxFaults = 0
CHECK_DEADLOCK FALSE
PROPERTY
    AcceptedFromActive
