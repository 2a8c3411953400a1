SPECIFICATION FairSpec
CONSTANTS
    p1 = p1
    p2 = p2
    c1 = c1
    c2 = c2
    Agents = {c1, p1}
    Codex = {c1}
    Ephemeral = {}
    maxSessionsPerProcess = 1
    maxProcesses = 1
    maxConcurrentTurns = 1
    autoRecover = TRUE
    ceiling = 0
    Priorities = {0}
    Costs = {}
    StopsAreConfirmed = FALSE
    ListenersCall = FALSE
    MayRetire = FALSE
    MayClose = TRUE
    MaxTurns = 2
    MaxCrashes = 2
PROPERTIES EverythingSettles QueuedProgress
CHECK_DEADLOCK FALSE
