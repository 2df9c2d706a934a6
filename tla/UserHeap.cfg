SPECIFICATION UserHeapSpec
CONSTANTS
    Proc = {p1, p2}
    Frame = {f1, f2, f3, f4, f5, f6}
    NoFrame = NoFrame
    PAGE_SIZE = 3
    StartPage = 1
    MaxPage = 4
    Delta <- MCDelta
SYMMETRY FrameSymmetry
INVARIANTS
    HeapBacked
    FramesPrivate
PROPERTIES
    DataKept
CHECK_DEADLOCK FALSE
