CONSTANTS
    k1 = k1
    k2 = k2
    k3 = k3
    c1 = c1
    c2 = c2
    NoKey = NoKey
    Key = {k1, k2, k3}
    Client = {c1, c2}
    Durations = {1}
    ScanAll = 2
    Batch = 1
    MaxTime = 2
    MaxWrites = 2
SPECIFICATION Spec
SYMMETRY Symmetry
INVARIANTS
    TypeOK
    StoreTracked
    LiveEntriesKept
    NoEmptyVec
PROPERTIES
    NeverRestored
    ImplementsContract
