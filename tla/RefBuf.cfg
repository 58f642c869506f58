CONSTANTS
    b1 = b1
    b2 = b2
    b3 = b3
    b4 = b4
    Bufs <- MCBufs
    NULL = NULL
    MaxHeld = 2
SPECIFICATION Spec
INVARIANT TypeOK
INVARIANT NoDanglingPointer
INVARIANT NoUseAfterFree
INVARIANT NoLeak
CHECK_DEADLOCK FALSE
