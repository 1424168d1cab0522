SPECIFICATION Spec
CONSTANTS
    None = None
    N = 3
    ListSize = 2
    MaxActive = 1
    MaxIncoming = 2
    MaxRequested = 0
    Continuous = TRUE
    Kinds = {"rev", "revoked"}
    Forms <- SomeForms
    Faults = {"subscribe", "lookup", "norev", "invalid", "blob", "delta", "insert", "commit", "close"}
    MaxFaults = 1
INVARIANTS
    CountersMatch
    ChangesInOrder
    CheckpointedIsSettled
    NoStall
    LevelIsTrue
CHECK_DEADLOCK FALSE
