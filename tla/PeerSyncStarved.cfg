SPECIFICATION FairSpec
CONSTANTS
    a = a
    b = b
    o = o
    x = x
    y = y
    NoFile = NoFile
    VersionMod = 4
    Reserve = 1
    PageSize = 2
    ChunkSize = 2
    NameCount = 3
    Block <- AttestBlock
    MaxChunked = 3
    Capacity = 6
    Bssid <- AttestBlock
    EncName <- AttestEnc
    BatchMax = 1
    OwnContent <- AttestOwn
    PeerContent <- AttestPeer
    MaxCrashes = 0
    MaxChanges = 0
    AnswersLost = FALSE
    TotalMax = 1
    PeerAttested <- OnlyY
    MaxErrors = 0
PROPERTY NextSyncCovers
