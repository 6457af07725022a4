SPECIFICATION Spec
CONSTANTS
    c1 = c1
    c2 = c2
    d1 = d1
    k1 = k1
    kd = kd
    m1 = m1
    m2 = m2
    t1 = t1
    t2 = t2
    NoCase = NoCase
    NoOne = NoOne
    Case = {d1}
    Target = {kd}
    TargetOf <- OneDraft
    Draft = {d1}
    Moderator = {m1, m2}
    Task = {}
    Job = {"command", "stale", "roles", "rescreen"}
    ScreenEnabled = FALSE
    AutoResolveStale = FALSE
    OnScreeningFailure = "hold"
    OnScreeningUnavailable = "reject"
    OnMediaUnavailable = "dlq"
    MaxAttempts = 1
    RescreenCap = 1
    HumanDecision = {"rejected", "needs_review"}
    ScreenerDecision = {"approved", "needs_review"}
INVARIANTS
    DefaultVerdictsAreDeclared
PROPERTIES
    LeaseIsNeverStolen
SYMMETRY Staff
