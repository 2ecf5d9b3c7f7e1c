SPECIFICATION Spec
CONSTANTS
    n1 = n1
    n2 = n2
    n3 = n3
    NoNode = NoNode
    Node <- MCTrio
    LedgerCap = 2
    MaxTotal = 1
    MaxLinks = 3
    MaxFaults = 0
PROPERTY CountsNeverGoBack
CHECK_DEADLOCK FALSE
