SPECIFICATION BypassSpec
CONSTANTS
    MaxClicks = 3
    MaxPanel = 1
    MaxLost = 3
    MaxEarly = 2
    Retries = 2
CHECK_DEADLOCK FALSE
INVARIANT Toggled
PROPERTY EveryClickDone
