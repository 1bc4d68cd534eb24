\* Two keys, three levels, two compactions at a time.
CONSTANTS
    Keys = {1, 2}
    ExpireTs = {0, 1}
    NumLevels = 3
    Jobs = {j1, j2}
    MaxWrites = 3
    MaxNow = 1
SPECIFICATION Spec
SYMMETRY AnyJob
INVARIANTS
    LevelsSorted
    
    InputsReserved
    ZeroedAtBottom
    ReadsShowLatest
CHECK_DEADLOCK FALSE
