CONSTANTS
    s1 = s1
    s2 = s2
    m1 = m1
    m2 = m2
    Servers = {s1, s2}
    Mounts = {m1}
    Kinds <- MCKinds
    MaxChanges = 1
    MaxReconfig = 1
    InitConfig <- OneServer
    WithinLimit = 20
    CreateMayFail = FALSE
    CurlInitMayFail = TRUE
    SidMayBeMissing = FALSE
    EntryMayFail = FALSE
SPECIFICATION Spec
PROPERTY ConfiguredServerKept
