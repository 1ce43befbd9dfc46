CONSTANTS
    Workers = {w1, w2}
    Users = {u1, u2}
    Admin = u1
    Names = {n1, n2}
    NoName = NoName
    NoToken = NoToken
    Validity = 1
    MaxTime = 1
    MaxRequests = 4
SPECIFICATION Spec
INVARIANTS TypeOK UniqueColumns AccountExactUnlessOverwritten
    SessionsCarryRole
PROPERTIES RevokedForGood
SYMMETRY Symmetry
CHECK_DEADLOCK FALSE
