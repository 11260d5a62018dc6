SPECIFICATION Spec
CONSTANTS
    n1 = n1
    n2 = n2
    n3 = n3
    Names = {n1, n2, n3}
    NoName = NoName
    None = None
    Input = Input
    Output = Output
    MaxPlugs = 3
    MaxStarts = 2
CHECK_DEADLOCK FALSE
INVARIANT OneReference
PROPERTY ChosenAfterStart
