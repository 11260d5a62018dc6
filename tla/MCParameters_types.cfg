SPECIFICATION ParametersSpec
CONSTANTS
    Windows = {w1, w2}
    Descriptions <- MCDescriptions
    Configuration <- MCConfiguration
    Programs = {0, 100, 101, 201, 300}
    Null = Null
INVARIANTS PagesAgree ChangeTaken DescribedRight DumpRight
CHECK_DEADLOCK FALSE
