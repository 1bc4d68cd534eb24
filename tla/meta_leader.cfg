SPECIFICATION FairSpec
CONSTANTS
    r1 = r1
    r2 = r2
    Rounds = {r1, r2}
    MetaCount = 3
    MaxQueryCount = 3
    MaxFaults = 2
INVARIANTS SteadyAnswered
 
CHECK_DEADLOCK FALSE
