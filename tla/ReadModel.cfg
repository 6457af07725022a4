SPECIFICATION Spec
CONSTANTS
    s1 = s1
    s2 = s2
    w1 = w1
    w2 = w2
    Sanction = {s1, s2}
    User = {1, 2}
    Writer = {w1, w2}
    None = None
    Limit = 1
    MaxClock = 3
INVARIANTS
    ReadModelConverges
PROPERTIES
    RebuildIsComplete
    ImplementsRecord
SYMMETRY Alike
CHECK_DEADLOCK FALSE
