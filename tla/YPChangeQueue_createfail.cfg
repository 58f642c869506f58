CONSTANTS
    Kinds <- MCKinds
    Mounts = {m1}
    MaxChanges = 4
    CreateMayFail = TRUE
SPECIFICATION Spec
PROPERTY NoLostChange
