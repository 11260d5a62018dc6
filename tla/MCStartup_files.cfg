SPECIFICATION PagesSpec
CONSTANTS
    v1 = v1
    v2 = v2
    None = None
    Torn = Torn
    Versions = {v1, v2}
    Expected = v1
    NumObjects = 4
    Children <- MCChildren
    Tree <- MCTree
    PageNodes <- MCPageNodes
    Effects <- MCEffects
    Algorithm <- MCAlgorithm
    SystemRetries = 3
    Retries = 2
    MaxLost = 4
    MaxSlow = 1
    MaxBusy = 1
    MaxRestarts = 1
CHECK_DEADLOCK FALSE
INVARIANT CompleteWhenDone
INVARIANT RightFile
INVARIANT PageWhole
INVARIANT NoPageDropped
PROPERTY StartupEnds
