CONSTANTS
    HaveKate = FALSE
    NumHeaders = 4
    Malformed = TRUE
    MaxPages = 9
SPECIFICATION Spec
CHECK_DEADLOCK FALSE
INVARIANT PageRouting
