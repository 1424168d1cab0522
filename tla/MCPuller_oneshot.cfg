SPECIFICATION Spec
CONSTANTS
    None = None
    N = 3
    ListSize = 1
    MaxActive = 1
    MaxIncoming = 2
    MaxRequested = 0
    Continuous = FALSE
    Kinds = {"rev", "revoked", "have"}
    Forms <- SomeForms
    Faults = {"lookup", "norev", "invalid", "delta", "close"}
    MaxFaults = 1
INVARIANTS
    LevelIsTrue
CHECK_DEADLOCK FALSE
