CONSTANTS
    Workers = {w1, w2, w3}
    Clothes = {c1}
    Profiles = {p1}
    MaxRequests = 5
SPECIFICATION Spec
INVARIANTS TypeOK StoredImagesExist NoOrphanObjects
SYMMETRY Symmetry
CHECK_DEADLOCK FALSE
