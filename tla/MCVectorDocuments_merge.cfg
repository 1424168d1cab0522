SPECIFICATION Spec
CONSTANTS
    CounterMod = 8
    MaxClockSkew = 1
    Databases <- Three
    Modes <- Disagreeing
CHECK_DEADLOCK FALSE
PROPERTY ResolvedIsNewer
