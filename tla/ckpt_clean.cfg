CONSTANTS
    MaxDecree = 5
    ReserveMin = 2
    Requests = {"write"}
    Calls = {"sync", "async", "stop", "learn"}
    Faults = {"create", "remove"}
SPECIFICATION FairSpec
INVARIANTS   NoAssertFails
PROPERTIES DurableAdvances 
