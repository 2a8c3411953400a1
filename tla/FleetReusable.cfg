SPECIFICATION Spec
CONSTANTS
    p1 = p1
    p2 = p2
    c1 = c1
    c2 = c2
    Agents = {c1}
    Codex = {c1}
    Ephemeral = {}
    maxSessionsPerProcess = 1
    maxProcesses = 1
    maxConcurrentTurns = 2
    autoRecover = TRUE
    ceiling = 0
    Priorities = {0}
    Costs = {}
    StopsAreConfirmed = TRUE
    ListenersCall = FALSE
    MayRetire = FALSE
    MayClose = FALSE
    MaxTurns = 2
    MaxCrashes = 0
INVARIANTS
    SettledIsReusable
CHECK_DEADLOCK FALSE
