SPECIFICATION Spec
CONSTANTS
    p1 = p1
    p2 = p2
    active = active
    r1 = r1
    r2 = r2
    None = None
    Programs = {p1, p2, active}
    Numbered = {p1, p2}
    Requests = {r1, r2}
    MaxTries = 2
    MaxSingles = 1
    MaxCrashes = 1
CHECK_DEADLOCK FALSE
INVARIANT AnswerWhole
INVARIANT NothingLost
PROPERTY EveryDumpSaved
PROPERTY DumpEnds
