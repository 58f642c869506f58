CONSTANTS
    s1 = s1
    s2 = s2
    k1 = k1
    k2 = k2
    k3 = k3
    Sites <- MCSites
    Blocks <- MCBlocks
    Sizes = {0, 1, 2}
    MallocMayFail = TRUE
SPECIFICATION Spec
INVARIANT NoNullDereference
