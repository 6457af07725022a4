SPECIFICATION Spec
CONSTANTS
    c1 = c1
    c2 = c2
    d1 = d1
    k1 = k1
    kd = kd
    m1 = m1
    m2 = m2
    t1 = t1
    t2 = t2
    NoCase = NoCase
    NoOne = NoOne
    Case = {c1}
    Target = {k1}
    TargetOf <- OneCase
    Draft = {}
    Moderator = {}
    Task = {t1}
    Job = {"rescreen"}
    ScreenEnabled = TRUE
    AutoResolveStale = FALSE
    OnScreeningFailure = "hold"
    OnScreeningUnavailable = "hold"
    OnMediaUnavailable = "dlq"
    MaxAttempts = 2
    RescreenCap = 2
    HumanDecision = {}
    ScreenerDecision = {"approved", "needs_review"}
PROPERTIES
    EditIsSeen
