SPECIFICATION ParserSpec
CONSTANTS
    Null = Null
    FlowChunks <- ShortChunks
    OldMemory <- SomeMemory
    MaxChunks = 2
CHECK_DEADLOCK FALSE
INVARIANT NeverHangs
PROPERTY FlowParsed
