CONSTANTS
    MaxDecree = 3
    ReserveMin = 1
    Requests = {"write", "noop"}
    Calls = {"sync", "async", "stop", "learn", "copy"}
    Faults = {"write", "create", "fsync", "remove", "rename", "clear"}
SPECIFICATION Spec
INVARIANTS CheckpointExact RdbHoldsApplied
