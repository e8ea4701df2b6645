SPECIFICATION Spec
CONSTANTS
    Pool = 28
    Hdr = 4
    Align = 2
    Sizes = {0, 1, 2, 5, 9}
    NULL = NULL
INVARIANTS Tiling HeldIntact ListSorted
PROPERTIES NullMeansNoFit CallsReturn
