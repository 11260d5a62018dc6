SPECIFICATION Spec
CONSTANTS
    Clock = Clock
    NumMessages = 4
    Parts <- SomeParts
    MaxClocks = 1
    MaxChanges = 0
    MaxOverruns = 0
CHECK_DEADLOCK FALSE
INVARIANT WholeMessages
