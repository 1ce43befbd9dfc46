CONSTANTS
    Workers = {w1, w2}
    Users = {u1, u2}
    Feeds = {f1}
    Contents = {c1, c2}
    NoContent = NoContent
    MaxRequests = 5
SPECIFICATION Spec
INVARIANTS TypeOK LikesSound CountExactUnlessOverwritten EditSurvivesUnlessOverwritten
PROPERTIES NoResurrection PublishedWithRows
SYMMETRY Symmetry
CHECK_DEADLOCK FALSE
