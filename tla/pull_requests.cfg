\* Three events in any order of delivery, two requests at once, one fault.
SPECIFICATION Spec
CONSTANTS
    Handlers = {h1, h2}
    MaxEvents = 3
    MaxSends = 3
    MaxFaults = 1
SYMMETRY Symmetry
CHECK_DEADLOCK FALSE
INVARIANTS
    AnsweredIsHandled
    ClosureClearsComments
