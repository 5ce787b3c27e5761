\* One revision, one tick at a time; the system stops when the review is done.
SPECIFICATION ReviewSpec
CONSTANTS
    Ticks = {t1}
    NumHeads = 1
    Gaps = {g1, g2}
    Lines = {near, far, outside}
    BadLines = {outside}
    g1 = g1
    g2 = g2
    near = near
    far = far
    outside = outside
    Reports <- TwoGaps
    Exclusive = TRUE
    MaxAttempts = 2
    MaxFailures = 2
    MaxLostReads = 0
    MaxProviderFaults = 2
    MaxCloses = 1
CHECK_DEADLOCK FALSE
INVARIANTS
    ReviewTypeOK
    AtMostOneComment
    EveryFindingAnswered
