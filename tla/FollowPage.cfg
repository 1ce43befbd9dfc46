CONSTANTS
    Profiles = {p1, p2}
    Nobody = Nobody
    OtherPages = TRUE
    MaxActions = 7
SPECIFICATION Spec
INVARIANTS TypeOK ShownIsStored 
SYMMETRY Symmetry
CHECK_DEADLOCK FALSE
