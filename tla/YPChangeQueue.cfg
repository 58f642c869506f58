CONSTANTS
    Kinds <- MCKinds
    Mounts = {m1}
    MaxChanges = 4
    CreateMayFail = FALSE
SPECIFICATION Spec
PROPERTY FIFOSpec
