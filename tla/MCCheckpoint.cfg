CONSTANTS
    Objects = {a, b}
    LargestSeq = 5
    ArrayModulus = 8
    Arrays <- MCArrays
    MaxSeq = 4
    RemoteSeqs <- MCRemoteSeqs
    Modulus = 8
    Blank = Blank
    Junk = Junk
    NoJSON = NoJSON
    MaxVersion = 4
SPECIFICATION PartsSpec
INVARIANTS
    MethodsAreSetOperations
    LocalMinIsLastContiguous
    JSONRoundTrips
    ValidationIsFailsafe
    OneSaveAtATime
PROPERTIES ImplementsAutosave ChangeDuringSaveIsSaved
CHECK_DEADLOCK FALSE
