CONSTANTS
    Docs = {a, b}
    Notifiers = {n1, n2}
    DocNotifiers = {w}
    Transaction = Transaction
    NoEntry = NoEntry
    None = None
    MinChangesToKeep = 1
    MaxSequence = 4
    MaxRead = 2
    MaxExternal = 2
SPECIFICATION Spec
PROPERTY CalledOnce
CHECK_DEADLOCK FALSE
