SPECIFICATION Spec
CONSTANTS
    c1 = c1
    c2 = c2
    d1 = d1
    k1 = k1
    kd = kd
    m1 = m1
    m2 = m2
    t1 = t1
    t2 = t2
    NoCase = NoCase
    NoOne = NoOne
    Case = {c1, c2}
    Target = {k1}
    TargetOf <- Twins
    Draft = {}
    Moderator = {m1}
    Task = {t1, t2}
    Job = {"stale"}
    ScreenEnabled = TRUE
    AutoResolveStale = FALSE
    OnScreeningFailure = "hold"
    OnScreeningUnavailable = "hold"
    OnMediaUnavailable = "review"
    MaxAttempts = 1
    RescreenCap = 1
    HumanDecision = {"needs_review"}
    ScreenerDecision = {"rejected"}
INVARIANTS
    OneLiveCase
    RowAgrees
PROPERTIES
    DeclaredEdges
    ParkDecidesNothing
SYMMETRY RowsAndSlots
CONSTRAINT NoEdits
