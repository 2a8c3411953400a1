SPECIFICATION FairSpec
CONSTANTS
    r1 = r1
    r2 = r2
    q1 = q1
    a1 = a1
    a2 = a2
    Calls = {r1}
    Stops = {q1}
    Asks = {a1, a2}
    OnStartWaits = TRUE
    MaxInterrupts = 0
    MaxResumes = 1
    MaxTimeouts = 0
    MaxLosses = 0
INVARIANTS
    HumanTimeIsFree
PROPERTIES
    EverythingReturns
CHECK_DEADLOCK FALSE
