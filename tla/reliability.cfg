\* Two ticks that share a seeded investigation; the system stops when the job has settled.
SPECIFICATION Spec
CONSTANTS
    t1 = t1
    t2 = t2
    Ticks = {t1, t2}
    MaxAttempts = 2
    MaxFaults = 3
SYMMETRY Symmetry
CHECK_DEADLOCK FALSE
INVARIANTS
    SignalCountedOnce
    AuditMatchesDatadog
    WorkDoneOnce
