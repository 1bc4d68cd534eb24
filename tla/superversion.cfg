\* Two reading threads with an iterator each, two installations, one exit.
CONSTANTS
    Readers = {r1, r2}
    MaxInstalls = 2
    MaxExits = 1
SPECIFICATION FairSpec
INVARIANTS
    RefsExact
    NoUseAfterFree
    ReadsAreFresh
    ExitNeedsNoMutex
PROPERTIES
    Reclaimed
