SPECIFICATION Spec
CONSTANTS
    HeapBytes = 192
    HDR = 24
    Sizes = {1, 9, 32, 50}
INVARIANTS
    Tiling
    FailsOnlyWhenFull
PROPERTY ImplementsRegions
