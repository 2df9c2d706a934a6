SPECIFICATION LoaderSpec
CONSTANTS
    PAGE = 4
    USER_STACK_VIRT = 12
    USER_STACK_PAGES = 2
    USER_CODE_VIRT = 16
    CODE_PAGES = 2
    USER_HEAP_BASE = 40
    Files <- MCFiles
    MaxFrames = 7
    MaxBlocks = 3
CHECK_DEADLOCK FALSE
INVARIANTS
    ProgramReady
    EarlyFailureKeepsNothing
