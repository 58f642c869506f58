CONSTANTS
    s1 = s1
    s2 = s2
    m1 = m1
    m2 = m2
    Servers = {s1}
    Mounts = {m1}
    Kinds <- MCKinds
    MaxChanges = 3
    MaxReconfig = 0
    InitConfig <- OneServer
    WithinLimit = 20
    CreateMayFail = FALSE
    CurlInitMayFail = FALSE
    SidMayBeMissing = FALSE
    EntryMayFail = FALSE
SPECIFICATION Spec
PROPERTY PublicEventuallyListed
