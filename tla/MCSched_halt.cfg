SPECIFICATION Spec
CONSTANTS
    CPU = {c1}
    Proc = {1}
    NULL = NULL
    MaxProcs = 2
    Bsp = c1
    Exiting = {1}
    Killable <- NoProcs
    MayFail = FALSE
    Mod32 = 16
PROPERTIES HaltsWhenDone
CHECK_DEADLOCK FALSE
