SPECIFICATION Spec
CONSTANTS
    a = a
    b = b
    NoFile = NoFile
    NameCount = 2
    Block <- MCBlock
    MaxChunked = 3
    Capacity = 5
    Reserve = 1
    VersionMod = 4
    Piece <- MCPiece
    EncName <- MCEncName
    MaxCommands = 6
    MaxReboots = 0
PROPERTY FinishedFileIsComplete
CHECK_DEADLOCK FALSE
