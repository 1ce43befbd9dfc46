CONSTANTS
    Profiles = {p1}
    Nobody = Nobody
    OtherPages = FALSE
    MaxActions = 4
SPECIFICATION Spec
INVARIANT OneRowPerPair
CHECK_DEADLOCK FALSE
