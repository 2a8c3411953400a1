SPECIFICATION FairSpec
CONSTANTS
    o1 = o1
    o2 = o2
    u1 = u1
    u2 = u2
    Ops = {o1}
    Uses = {u1}
    Existing = {"cli"}
    Stale = {"env"}
    Modes = {"sdk", "device"}
    OpensBrowser = TRUE
INVARIANTS ViewIsFresh EndsOnce PersonAnswersAsked
PROPERTIES CancelEnds
CHECK_DEADLOCK FALSE
