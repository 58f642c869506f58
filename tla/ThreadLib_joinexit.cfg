CONSTANTS
    t1 = t1
    t2 = t2
    Threads = {t1, t2}
    ExitJoinable = TRUE
    ShutdownWhenQuiet = TRUE
    Broadcasts = TRUE
SPECIFICATION Spec
CHECK_DEADLOCK FALSE
INVARIANT NoThreadUseAfterFree
