SPECIFICATION Spec
CONSTANTS
    r1 = r1
    r2 = r2
    q1 = q1
    s1 = s1
    m1 = m1
    m2 = m2
    Calls = {r1, r2}
    Stops = {q1}
    Setters = {}
    Models = {m1}
    Default = m1
    Wishes = {m1}
    Switches = {}
    Tools = {"shell"}
    Errors = TRUE
    OnStartWaits = FALSE
    Applications = {}
    MaxOpens = 1
INVARIANTS QuiesceStops
CHECK_DEADLOCK FALSE
