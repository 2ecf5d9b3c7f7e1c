SPECIFICATION Spec
CONSTANTS
    a = a
    b = b
    o = o
    x = x
    y = y
    NoFile = NoFile
    VersionMod = 3
    Reserve = 1
    PageSize = 2
    ChunkSize = 2
    NameCount = 3
    Block <- PullBlock
    MaxChunked = 3
    Capacity = 6
    Bssid <- None
    EncName <- None
    TotalMax = 1
    BatchMax = 1
    OwnContent <- PullOwn
    PeerContent <- PullPeer
    PeerAttested <- None
    MaxChanges = 1
    MaxErrors = 1
    AnswersLost = TRUE
    MaxCrashes = 1
INVARIANTS
    TypeOK
    SessionOwnsUpload
    PulledPrefix
    NothingLeaked
    DoneIsComplete
PROPERTIES
    PullsWholeFiles
\* a lost answer stops the system for good
CHECK_DEADLOCK FALSE
