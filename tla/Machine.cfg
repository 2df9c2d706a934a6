\* Timer, keyboard, a master line and a slave line without handlers; an
\* exception without handler with and without error code, and the two with one.
CONSTANTS
    Wired = {0, 1, 6, 14}
    Faults = {0, 6, 13, 14}
    NativeCalls <- MCNativeCalls
    LinuxCalls <- MCLinuxCalls
SPECIFICATION Spec
INVARIANTS
    SelectorsMatch
    CallerKept
    InterruptsFindHandlers
    LinesReleased
    
CHECK_DEADLOCK FALSE
