SPECIFICATION Spec
CONSTANTS
    Idx <- MCIdx
    TOTAL_FRAMES = 24
    StartFrame = 3
    KernelStart = 4
    KernelEnd = 12
    BootPml4 = 4
    BootPdpt = 5
    BootPd = 6
    BootHuge = {0}
    HeapPages <- MCHeapPages
    UserPages <- MCUserPages
    FbPages <- MCFbPages
    FbFrame = 1
    MaxSpaces = 2
    MaxLoose = 2
CHECK_DEADLOCK FALSE
INVARIANTS
    KernelEverywhere
    OneUse
    FramesAccounted
PROPERTIES
    ImplementsPageMap
    ImplementsAllocator
