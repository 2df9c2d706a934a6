SPECIFICATION FairSpec
CONSTANTS
    N = 3
    User = {2}
    Calls = {"sleep", "yield", "exit", "getkey", "other"}
    MaxSleep = 1
    KbCap = 1
    BootIrq = FALSE
PROPERTIES
    TimerPreempts
CHECK_DEADLOCK FALSE
