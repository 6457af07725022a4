SPECIFICATION Spec
CONSTANTS
    c1 = c1
    c2 = c2
    m1 = m1
    m2 = m2
    r1 = r1
    r2 = r2
    Case = {c1, c2}
    Moderator = {m1, m2}
    Request = {r1, r2}
    None = None
    DifferentActor = TRUE
    CaseDecisions = {"rejected", "dismissed"}
    MaxVerdicts <- OneDecided
SYMMETRY Alike
INVARIANTS
    DeciderIsIndependent
    OverturnIsARemedy
    LiftIsOwed
    LiftIsJustified
PROPERTIES
    ImplementsDecision
CHECK_DEADLOCK FALSE
