SPECIFICATION Spec
CONSTANTS
    CPU = {c1, c2}
    Proc = {1, 2, 3, 4}
    NULL = NULL
    MaxProcs = 4
    Bsp = c1
    Exiting = {2}
    Killable = {1, 2, 3, 4}
    MayFail = TRUE
    Mod32 = 16
INVARIANTS TableCompact CurrentIsExecuting ContextIntegrity
PROPERTIES NoStarvation Reaped
CHECK_DEADLOCK FALSE
