CONSTANTS
    MaxNotes = 2
    PageSize = 1
    MaxTokens = 3
SPECIFICATION BellFairSpec
INVARIANTS BellTypeOK OneStream ListedUnlessMissed
PROPERTIES FirstStreamRecovers
CHECK_DEADLOCK FALSE
