SPECIFICATION FairSpec
CONSTANTS
    Requests = {r1, r2, r3}
    MaxConnects = 3
    r1 = r1
    r2 = r2
    r3 = r3
INVARIANTS CallbackOnce NothingStranded
 
CHECK_DEADLOCK FALSE
