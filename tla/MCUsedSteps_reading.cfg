SPECIFICATION Spec
CONSTANTS
    c1 = c1
    c2 = c2
    c3 = c3
    Callers = {c1, c2, c3}
    NumEffects = 2
    Algorithms = {0, 1, 2}
    Unknown = {2}
    Retries = 2
    MaxLost = 2
    MaxChanges = 1
CHECK_DEADLOCK FALSE
PROPERTY EveryCallAnswered
PROPERTY ReaderFresh
