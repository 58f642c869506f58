CONSTANTS
    HaveKate = TRUE
    NumHeaders = 4
    Malformed = TRUE
    MaxPages = 9
SPECIFICATION Spec
INVARIANT PageRouting
INVARIANT HeaderCount
INVARIANT BacklogDrained
CHECK_DEADLOCK FALSE
