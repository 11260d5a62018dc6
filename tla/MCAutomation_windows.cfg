SPECIFICATION Spec
CONSTANTS
    w1 = w1
    w2 = w2
    w3 = w3
    Windows = {w1, w2, w3}
    FirstWindows = {w1, w2}
    Editors = {w1, w2}
    Zero = 0
    Off = Off
    Values = {0, 1}
    EffectPage = TRUE
    MaxEdits = 1
    MaxPanel = 1
    MaxLoads = 2
CHECK_DEADLOCK FALSE
INVARIANT NoEcho
INVARIANT PagesAnswered
PROPERTY EventuallyAgree
