\* One request and one executor at a time, two faults.
SPECIFICATION InvSpec
CONSTANTS
    Handlers = {h1}
    Ticks = {t1}
    Alerts <- TwoAlerts
    KeySets <- SomeKeys
    MaxFacts = 6
    MaxAttempts = 2
    MaxSends = 2
    MaxFaults = 2
CHECK_DEADLOCK FALSE
INVARIANTS
    AuditMatchesOutput
    CitationsAreTrue
    CompletedIsExplained
PROPERTIES
    NoRebilling
    SuccessKept
