SPECIFICATION Spec
CONSTANTS
    Start = 8
    Limit = 192
    HDR = 32
    Sizes = {1, 9, 50}
INVARIANT ListIsMemory
PROPERTIES
    ImplementsRegions
    
