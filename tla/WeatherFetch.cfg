CONSTANTS
    Regions = {r1, r2, r3}
    BatchSize = 2
    MaxDay = 2
    MaxStarts = 3
SPECIFICATION Spec
INVARIANTS TypeOK NoDoubleForecast CompleteUnlessCut RestartRecovers
SYMMETRY Symmetry
CHECK_DEADLOCK FALSE
