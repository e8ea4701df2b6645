SPECIFICATION Spec
CONSTANTS
    NCpus = 2
    Bsp = 0
    MaxPolls = 2
    InitFails = FALSE
    Faults = {}
    Exits = {}
INVARIANTS AllCountedAtCheck
CHECK_DEADLOCK FALSE
