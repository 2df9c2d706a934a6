SPECIFICATION Spec
CONSTANTS
    N = 6
    User = {2, 4, 5}
    Calls = {"sleep", "yield", "exit", "read", "getkey", "other", "fault"}
    MaxSleep = 2
    KbCap = 3
    BootIrq = TRUE
INVARIANTS
    
    SleepersNotOverdue
    UserRunsOnItsOwn
    NoLostKeyWakeup
    TimerHeldOnlyAfterSyscall
PROPERTIES
    
    ImplementsTaskSystem
CHECK_DEADLOCK FALSE
