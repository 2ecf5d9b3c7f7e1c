SPECIFICATION FairSpec
CONSTANTS
    p1 = p1
    p2 = p2
    NoPeer = NoPeer
    Peer <- MCPeer
    TableCap = 1
    MaxVersion = 1
INVARIANTS
    TypeOK
    SessionOverLink
    ThawsWhenAlone
    RecordsWhatItSynced
PROPERTIES
    KeepsReachable
    KeepsScanning
