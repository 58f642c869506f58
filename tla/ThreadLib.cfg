CONSTANTS
    t1 = t1
    t2 = t2
    Threads = {t1, t2}
    ExitJoinable = FALSE
    ShutdownWhenQuiet = TRUE
    Broadcasts = TRUE
SPECIFICATION Spec
INVARIANT NoThreadUseAfterFree
INVARIANT ThreadTreeSound
INVARIANT NoThreadLeak
INVARIANT NoSpuriousReturn
PROPERTY TimedWaitReturns
CHECK_DEADLOCK FALSE
INVARIANT TimeAddNormalised
