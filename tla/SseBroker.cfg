CONSTANTS
    Users = {u1, u2}
    Senders = {s1, s2}
    Connections = {c1, c2}
    Capacity = 1
    MaxMessages = 3
    NoEvent = NoEvent
SPECIFICATION Spec
INVARIANTS TypeOK QueueBound EvictionFailsOnlyOvertaken QueuedHasMessage OnlyOwnEvents NoGap
SYMMETRY Symmetry
CHECK_DEADLOCK FALSE
