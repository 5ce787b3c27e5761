\* Two revisions and every kind of failure, one tick at a time; the system stops when the review is done.
SPECIFICATION ReviewSpec
CONSTANTS
    Ticks = {t1}
    NumHeads = 2
    Gaps = {g1, g2}
    Lines = {near, far, outside}
    BadLines = {outside}
    g1 = g1
    g2 = g2
    near = near
    far = far
    outside = outside
    Reports <- TwoGaps
    Exclusive = TRUE
    MaxAttempts = 2
    MaxFailures = 1
    MaxLostReads = 1
    MaxProviderFaults = 1
    MaxCloses = 0
CHECK_DEADLOCK FALSE
INVARIANTS
    AuditIsTrue
