CONSTANTS
    Ids = {1, 2, 3}
    Keys = {0, 1, 2, 3}
    Limits = {1, 2}
    SplitNames = {2}
    ColonNames = {3}
    Between = 1
    MaxChanges = 2
SPECIFICATION Spec
INVARIANTS TypeOK StableRowsOnce MessagesOnce
CHECK_DEADLOCK FALSE
