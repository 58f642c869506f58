CONSTANTS
    HaveKate = FALSE
    NumHeaders = 4
    Malformed = FALSE
    MaxPages = 9
SPECIFICATION Spec
CHECK_DEADLOCK FALSE
INVARIANT BacklogDrained
