SPECIFICATION FairSpec
CONSTANTS
    Clock = Clock
    NumMessages = 4
    Parts <- SomeParts
    MaxClocks = 1
    MaxChanges = 2
    MaxOverruns = 1
CHECK_DEADLOCK FALSE
INVARIANT NoStrandedMessage
INVARIANT WholeWithoutClocks
PROPERTY ImplementsChannel
