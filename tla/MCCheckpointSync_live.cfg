CONSTANTS
    Revs = {r1, r2}
    Refused = {r2}
    Faults = {{}}
    MaxSessions = 2
    MaxGen = 2
    None = None
SPECIFICATION FairSpec
PROPERTIES EventuallyInSync SaveEnds
CHECK_DEADLOCK FALSE
