SPECIFICATION FairSpec
CONSTANTS
    CounterMod = 8
    MaxClockSkew = 1
    Databases <- Three
    Modes <- AllModes
CHECK_DEADLOCK FALSE
INVARIANTS VectorsValid SameVersionSameBody
PROPERTIES NoEditIsLost ResolvedIsNewer Converges
