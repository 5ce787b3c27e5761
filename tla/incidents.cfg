\* Two requests at a time, repeated and reordered deliveries, one fault.
SPECIFICATION Spec
CONSTANTS
    Handlers = {h1, h2}
    Alerts <- OneCycle
    MaxSends = 4
    MaxFaults = 1
SYMMETRY Symmetry
CHECK_DEADLOCK FALSE
INVARIANTS
    TypeOK
    OneActiveIncident
    AutoStartNotLost
    NoDuplicateEvidence
    AcknowledgedLeavesEvidence
PROPERTIES
    ImplementsAlertCycle
