\* Two keys, three levels, one compaction at a time.
CONSTANTS
    Keys = {1, 2}
    ExpireTs = {0}
    NumLevels = 3
    Jobs = {j1}
    MaxWrites = 4
    MaxNow = 0
SPECIFICATION Spec
INVARIANT NoRowComesBack
CHECK_DEADLOCK FALSE
