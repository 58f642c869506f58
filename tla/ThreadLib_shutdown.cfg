CONSTANTS
    t1 = t1
    t2 = t2
    Threads = {t1, t2}
    ExitJoinable = FALSE
    ShutdownWhenQuiet = FALSE
    Broadcasts = TRUE
SPECIFICATION Spec
CHECK_DEADLOCK FALSE
INVARIANT NoThreadUseAfterFree
