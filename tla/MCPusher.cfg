SPECIFICATION Spec
CONSTANTS
    Docs = {a, b}
    a = a
    b = b
    Errors = {"transient", "forbidden", "delta", "permanent", "conflict", "list", "feed"}
    MaxSequence = 3
    BatchSize = 2
    MaxObserved = 1
    MaxLists = 2
    MaxQueued = 1
    MaxInFlight = 1
    MaxAwaiting = 1
    MaxMessages = 2
INVARIANTS
    NothingStranded
    CompletedIsDealtWith
    NoStall
VIEW View
SYMMETRY Symmetry
CHECK_DEADLOCK FALSE
