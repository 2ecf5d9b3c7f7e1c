SPECIFICATION FairSpec
CONSTANTS
    a = a
    b = b
    big = big
    Blob = {a, b, big}
    NoBlob = noblob
    RingCap = 2
    MaxFaults = 1
    Asked = {a, b, big}
    File = {1, 2, 3, 4}
    NoFile = nofile
    DirSize = 4
    Staged = 3
    PageLimit = 3
    Budget = 2
    Oversize <- MCOversize
    MaxObs = 3
    MaxScans = 2
INVARIANTS
    WalkIsExact
    NothingSkipped
PROPERTIES
    KeepsRecent
    EveryWalkEnds
