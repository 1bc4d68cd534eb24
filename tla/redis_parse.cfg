SPECIFICATION Spec
CONSTANTS
    Inputs <- MCInputs
    MaxMessage = 40
INVARIANTS HandledExact Prompt
CHECK_DEADLOCK FALSE
