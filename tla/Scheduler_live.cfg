SPECIFICATION CooperativeSpec
CONSTANTS
    N = 3
    User = {2}
    Calls = {"sleep", "yield", "exit", "getkey", "other"}
    MaxSleep = 2
    KbCap = 2
    BootIrq = FALSE

    
PROPERTIES
    
    ReadyRuns
    SleeperWakes
