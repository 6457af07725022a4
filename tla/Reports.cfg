SPECIFICATION Spec
CONSTANTS
    c1 = c1
    c2 = c2
    k1 = k1
    g = g
    u = u
    v = v
    q1 = q1
    q2 = q2
    w1 = w1
    w2 = w2
    Report = {q1, q2}
    Case = {c1, c2}
    Target = {k1}
    TargetOf <- OneTarget
    Account = {g, u, v}
    Story <- MergedThenDeleted
    Delivery = {w1, w2}
    None = None
INVARIANTS
    CountIsTruthful
    EveryoneIsTold
    MergeIsWritable
    SettledHistory
    SanctionKeepsItsCase
SYMMETRY Slots
CHECK_DEADLOCK FALSE
