\* One console request at a time, leases that outlast the longest phase: ticks that cannot
\* overlap, and jobs that settle.
SPECIFICATION FairSpec
CONSTANTS
    Jobs = {j1}
    Workers = {w1, w2}
    Retriers = {r1}
    NoWorker = NoWorker
    NoJob = NoJob
    NumPhases = 2
    MaxAttempts = 2
    MaxJobs = 2
    PhasesPerTick = 1
    LeaseTime = 1
    BackoffBase = 1
    BackoffFactor = 2
    BackoffCap = 1
    MaxOverruns = 0
    MaxFaults = 2
    MaxRetries = 1
INVARIANTS
    TypeOK
    NoDoubleProcessing
PROPERTIES
    ImplementsLifecycle
    JobsSettle
