\* Two of three pushes, or one redelivered, two requests, two executors, a gap and its merge, one fault.
SPECIFICATION Spec
CONSTANTS
    Handlers = {h1, h2}
    Ticks = {t1, t2}
    Pushes <- ThreePushes
    Primary <- TwoPrimary
    Gaps = {g1}
    MaxSends = 2
    MaxFaults = 1
SYMMETRY Symmetry
CHECK_DEADLOCK FALSE
INVARIANTS
    ProcessedPushIsKept
    StampIsFollowed
PROPERTY
    DismissalIsRespected
