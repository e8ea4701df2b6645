SPECIFICATION Spec
CONSTANTS
    Tables <- Plain
    ListMax = 2
    Pins = 5
    VecMod = 36
    BspId = 1
    Broadcast = FALSE
    Depth = 4
    None = None
    InitKeys = {None, 0, 1, 2}
    ModCounts = {2}
PROPERTIES EarlyPanicReported
CHECK_DEADLOCK FALSE
