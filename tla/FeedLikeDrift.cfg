CONSTANTS
    Workers = {w1, w2}
    Users = {u1, u2}
    Feeds = {f1}
    Contents = {c1}
    NoContent = NoContent
    MaxRequests = 4
SPECIFICATION Spec
INVARIANT EveryLikerCanCancel
CHECK_DEADLOCK FALSE
