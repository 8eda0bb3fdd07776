CONSTANTS
    k1 = k1
    k2 = k2
    k3 = k3
    c1 = c1
    NoKey = NoKey
    Key = {k1, k2, k3}
    Client = {c1}
    Durations = {0}
    ScanAll = 2
    Batch = 1
    MaxTime = 1
    MaxWrites = 3
SPECIFICATION FairSpec
PROPERTIES
    ExpiredReclaimed
    DropReturns
