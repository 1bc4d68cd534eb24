SPECIFICATION Spec
CONSTANTS
    r1 = r1
    r2 = r2
    Rounds = {r1, r2}
    Timeout = 3
    IntMax = 4
    MaxTime = 7
SYMMETRY Symmetry
INVARIANTS  EndsWithinTwice
 
CHECK_DEADLOCK FALSE
