SPECIFICATION FairSpec
CONSTANTS
    del = del
    down = down
    pull = pull
    Op = {del, down, pull}
    Commands <- MCCommands
    Pulls = {pull}
INVARIANTS
    TypeOK
    NeverWedged
    TrueReports
    ReadyIsReal
PROPERTY EveryOperationEnds
