SPECIFICATION Spec
CONSTANTS
    NFrames = 6
    Start = 1
    Sizes = {1, 2}
    TableSpan = 4
    Phys = {0, 50}
    Segments = {20}
    NULL = NULL
INVARIANTS RegionsDisjoint ListIntact MappedOnce NoStrayMapping NothingLost
CHECK_DEADLOCK FALSE
