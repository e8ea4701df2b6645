SPECIFICATION Spec
CONSTANTS
    PageSize = 2
    WordSize = 4
    TableSpan = 4
    Start = 4
    StackSize = 2
    KMap <- KernelMap
    Pools <- FreeSets
    Images <- Modules
    Lengths = {0, 1, 3, 4}
INVARIANT StackOwn
CHECK_DEADLOCK FALSE
ACTION_CONSTRAINT OneCopy
