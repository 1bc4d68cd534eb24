SPECIFICATION FairSpec
CONSTANTS
    Callers = {"ckpt"}
    Flushers = {"f1", "f2"}
    MaxWriteBufferNumber = 2
    Paranoid = TRUE
    FirstDecree = 1
    MaxDecree = 3
    MaxFlushes = 2
    MaxCompactions = 1
    MaxFaults = 1
    MaxReopens = 1
    MaxEvents = 2
INVARIANTS FlushedIsPrefix ReadsSeeAll
PROPERTIES FlushIsDurable ImplementsPrefix 
CHECK_DEADLOCK FALSE
