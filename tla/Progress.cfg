SPECIFICATION FairSpec
CONSTANTS
    c1 = c1
    c2 = c2
    d1 = d1
    k1 = k1
    kd = kd
    m1 = m1
    m2 = m2
    t1 = t1
    t2 = t2
    NoCase = NoCase
    NoOne = NoOne
    Case = {c1}
    Target = {k1}
    TargetOf <- OneCase
    Draft = {}
    Moderator = {m1}
    Task = {t1}
    Job = {"stale", "rescreen", "orphan"}
    ScreenEnabled = TRUE
    AutoResolveStale = TRUE
    OnScreeningFailure = "approve"
    OnScreeningUnavailable = "hold"
    OnMediaUnavailable = "dlq"
    MaxAttempts = 1
    RescreenCap = 1
    HumanDecision = {}
    ScreenerDecision = {"needs_review"}
INVARIANTS
    DefaultVerdictsAreDeclared
    EscalatedAtCap
PROPERTIES
    ImplementsDecision
    StalledScreeningLeaves
    DeadLeaseReturns
    StuckIsEscalated
    EditIsNotForgotten
