SPECIFICATION Spec
CONSTANTS
    r1 = r1
    r2 = r2
    q1 = q1
    a1 = a1
    a2 = a2
    Calls = {r1, r2}
    Stops = {q1}
    Asks = {}
    OnStartWaits = TRUE
    MaxInterrupts = 1
    MaxResumes = 1
    MaxTimeouts = 1
    MaxLosses = 1
SYMMETRY Interchangeable
INVARIANTS
    TypeOK
    OneTurnPerThread
    OwnOutcome
PROPERTIES
    QuiesceStops
CHECK_DEADLOCK FALSE
