SPECIFICATION Spec
CONSTANTS
    p1 = p1
    p2 = p2
    c1 = c1
    c2 = c2
    Agents = {p1, p2}
    Codex = {}
    Ephemeral = {}
    maxSessionsPerProcess = 1
    maxProcesses = 1
    maxConcurrentTurns = 1
    autoRecover = TRUE
    ceiling = 2
    Priorities = {0, 1}
    Costs = {1, 2}
    StopsAreConfirmed = FALSE
    ListenersCall = TRUE
    MayRetire = TRUE
    MayClose = FALSE
    MaxTurns = 3
    MaxCrashes = 0
SYMMETRY CopilotSymmetry
INVARIANTS  NoIdleWaiter ExclusiveSession SpendGate
PROPERTIES NoOvertaking AdmissionStops
CHECK_DEADLOCK FALSE
