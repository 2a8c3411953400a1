SPECIFICATION FairSpec
CONSTANTS
    r1 = r1
    r2 = r2
    q1 = q1
    s1 = s1
    m1 = m1
    m2 = m2
    Calls = {r1}
    Stops = {q1}
    Setters = {s1}
    Models = {m1, m2}
    Default = m1
    Wishes = {m1}
    Switches = {m2}
    Tools = {}
    Errors = FALSE
    OnStartWaits = FALSE
    Applications = {"compact", "resume", "retire"}
    MaxOpens = 2
PROPERTIES ModelHonoured EverythingReturns
CHECK_DEADLOCK FALSE
