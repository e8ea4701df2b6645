SPECIFICATION Spec
CONSTANTS
    CPU = {c1, c2}
    NoCPU = NoCPU
    BitmapPages = 7
    Usable <- MCUsable
    WordSize = 4
    CacheSize = 2
    Sizes <- MCSizes
    Hhdm = 10
    Mod64 = 32
INVARIANTS Exclusive Accounting CacheCoherent Conservation
PROPERTIES LockReleased ImplementsPageAllocator
