SPECIFICATION UploadsSpec
CONSTANTS
    short = short
    long = long
    even = even
    f1 = f1
    f2 = f2
    f3 = f3
    f4 = f4
    f5 = f5
    NoMessage = NoMessage
    Empty = Empty
    Messages = {short, long, even}
    Length <- MCLength
    Threshold = 4
    PieceSize = 2
    Files = {f1, f2, f3, f4, f5}
    OddNames = {f5}
    Content <- MCContent
    MaxFiles = 2
    MaxChunks = 2
CHECK_DEADLOCK FALSE
INVARIANT EveryByteOnce
INVARIANT PiecesPaced
INVARIANT UploadRight
PROPERTY EverySent
