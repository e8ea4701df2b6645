SPECIFICATION Spec
CONSTANTS
    NCpus = 3
    Bsp = 1
    MaxPolls = 2
    InitFails = TRUE
    Faults = {0, 1, 2}
    Exits = {0, 1, 2}
INVARIANTS InitSerialized BootedMeansAllUp PanicStopsRunning
PROPERTIES BootEnds PanicReported
CHECK_DEADLOCK FALSE
