SPECIFICATION FairSpec
CONSTANTS
    k1 = k1
    k2 = k2
    Calls = {k1}
    Manifest <- MCManifest
    Foreign = {"task"}
    Requests <- MCRequests
    Args = {"sent", "changed", "malformed"}
    Malformed = {"malformed"}
    MaxOpens = 2
    MaxPreparations = 2
INVARIANTS ReadyIsExact NothingRunsUnasked
PROPERTIES AnsweredOnce CallsAreAnswered
CHECK_DEADLOCK FALSE
