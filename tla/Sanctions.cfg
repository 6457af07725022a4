SPECIFICATION FairSpec
CONSTANTS
    s1 = s1
    s2 = s2
    s3 = s3
    u1 = u1
    r1 = r1
    r2 = r2
    Sanction = {s1, s2}
    User = {u1}
    Kind = {"suspended", "warning"}
    BlacklistKinds = {"suspended"}
    Ladder <- NoLadder
    Request = {r1}
    Expiry = Expiry
    None = None
PROPERTIES
    OverlapIsRespected
    LostKeyReturns
    WrongKeyDies
    LapsedIsClosed
    ImplementsRecord
