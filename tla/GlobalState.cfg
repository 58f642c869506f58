CONSTANTS
    s1 = s1
    s2 = s2
    k1 = k1
    k2 = k2
    k3 = k3
    Sites <- MCSites
    Blocks <- MCBlocks
    Sizes = {0, 1, 2}
    MallocMayFail = TRUE
    Rates = {0, 2}
    MaxRates = {0, 2}
SPECIFICATION Spec
INVARIANT TypeOK
INVARIANT SiteAccounting
CHECK_DEADLOCK FALSE
PROPERTY ThrottleLifted
