CONSTANTS
    t1 = t1
    t2 = t2
    Threads = {t1, t2}
    ExitJoinable = FALSE
    ShutdownWhenQuiet = TRUE
    Broadcasts = FALSE
SPECIFICATION Spec
CHECK_DEADLOCK FALSE
INVARIANT WakeupNotLost
