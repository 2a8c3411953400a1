SPECIFICATION Spec
CONSTANTS
    p1 = p1
    p2 = p2
    c1 = c1
    c2 = c2
    Agents = {c1, c2}
    Codex = {c1, c2}
    Ephemeral = {}
    maxSessionsPerProcess = 1
    maxProcesses = 2
    maxConcurrentTurns = 2
    autoRecover = TRUE
    ceiling = 0
    Priorities = {0}
    Costs = {}
    StopsAreConfirmed = FALSE
    ListenersCall = TRUE
    MayRetire = TRUE
    MayClose = TRUE
    MaxTurns = 2
    MaxCrashes = 2
SYMMETRY CodexSymmetry
INVARIANTS
    TypeOK
    Placement
    RecoveringIsWorkedOn
    Attributed
CHECK_DEADLOCK FALSE
