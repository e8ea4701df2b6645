SPECIFICATION Spec
CONSTANTS
    Levels = 3
    Fan = 2
    NFrames = 8
    Builds = {FALSE, TRUE}
    Boot <- BootRanges
    Virt = {0, 2, 6}
    Phys = {30}
    FlagSets <- UserAndKernel
    NULL = NULL
INVARIANTS Translation VirtToPhysRight TlbCoherent TablesAccounted
CHECK_DEADLOCK FALSE
