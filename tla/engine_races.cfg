\* Two console requests that race to retry one job, and leases that run out under running
\* phases: what holds all the same.
SPECIFICATION Spec
CONSTANTS
    Jobs = {j1}
    Workers = {w1, w2}
    Retriers = {r1, r2}
    NoWorker = NoWorker
    NoJob = NoJob
    NumPhases = 2
    MaxAttempts = 2
    MaxJobs = 2
    PhasesPerTick = 1
    LeaseTime = 1
    BackoffBase = 1
    BackoffFactor = 2
    BackoffCap = 1
    MaxOverruns = 2
    MaxFaults = 1
    MaxRetries = 2
SYMMETRY Symmetry
INVARIANTS
    NoRowStuck
    PhasesInOrder
    AttemptBudget
PROPERTIES
    ProgressKept
    NoPhaseRerun
    OnlyRacingRetryUndoesSuccess
