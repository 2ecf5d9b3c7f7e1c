SPECIFICATION Spec
CONSTANTS
    Peer = {p1, p2}
    NoPeer = none
    EvtDepth = 2
    BleEvtDepth = 2
    CmdDepth = 1
    MaxInbound = 2
    MaxCalls = 3
SYMMETRY PeerSymmetry
INVARIANTS
    TypeOK
    RecordsWhatItSynced
    PendingAttemptEnds
    SessionIsHeld
    ThawsWhenAlone
    ServedAfterRecord
CHECK_DEADLOCK FALSE
