SPECIFICATION Spec
CONSTANTS
    Absent = Absent
    Removed = Removed
    Reason = {"spam", "fraud"}
    SystemReason = {"screening_unavailable"}
    Rule = {1, 2}
    Deployment <- Deployments
    Setting <- SomeSettings
    MaxRefs = 3
    MaxInline = 3
    MAX_MEDIA_PER_CASE = 2
    SCREEN_MAX_ATTEMPTS = 2
INVARIANTS
    UnavailableIsNoPermission
    NoBlindVerdict
    RefusalIsOnRecord
    OnlyOutagesClimb
    MissingOriginIsSaid
    FormIsHonoured
PROPERTIES
    ImplementsDecision
CHECK_DEADLOCK FALSE
