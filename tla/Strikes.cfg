SPECIFICATION Spec
CONSTANTS
    s1 = s1
    s2 = s2
    s3 = s3
    u1 = u1
    r1 = r1
    r2 = r2
    Sanction = {s1, s2, s3}
    User = {u1}
    Kind = {"suspended"}
    BlacklistKinds = {}
    Ladder <- ThreeStrikes
    Request = {r1, r2}
    Expiry = Expiry
    None = None
PROPERTIES
    LadderEscalates
SYMMETRY RowsAndRequests
