SPECIFICATION Spec
CONSTANTS
    Archive <- MCArchive
    Layout <- MCLayout
    BLK = 4
    MAX_FDS = 3
    Paths <- MCPaths
    Len64 = {0, 1, 3, 9}
    Offsets <- MCOffsets
    Iovs <- MCIovs
    WORD = 64
INVARIANTS
    OpenIsAFile
    ReadvIsOneRead
PROPERTY DescriptorsIndependent
