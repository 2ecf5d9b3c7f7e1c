SPECIFICATION Spec
CONSTANTS
    n1 = n1
    n2 = n2
    n3 = n3
    NoNode = NoNode
    Node <- MCPair
    LedgerCap = 1
    MaxTotal = 1
    MaxLinks = 2
    MaxFaults = 3
INVARIANTS
    TypeOK
    InitiatorCompletesFirst
    OneRecordPerLink
    ServedAfterRecord
    LedgerFollowsRecords
    LifetimesGrow
SYMMETRY Pairs
CHECK_DEADLOCK FALSE
