CONSTANTS
    k1 = k1
    v1 = v1
    v2 = v2
    c1 = c1
    c2 = c2
    NoKey = NoKey
    NoValue = NoValue
    Key = {k1}
    Value = {v1, v2}
    Client = {c1, c2}
    Durations = {0, 1}
    MaxTime = 2
SPECIFICATION Spec
SYMMETRY Symmetry
INVARIANTS
    LatestKept
PROPERTIES
    AnswersSound
