CONSTANTS
    Revs = {r1, r2}
    Refused = {}
    Faults <- EachFault
    MaxSessions = 2
    MaxGen = 3
    None = None
SPECIFICATION Spec
SYMMETRY Symmetry
VIEW View
INVARIANTS PushSound PullSound
PROPERTY SavedAlike
CHECK_DEADLOCK FALSE
