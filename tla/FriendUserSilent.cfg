SPECIFICATION Spec
CONSTANTS
    Users = {ann, bob}
    Mods = {}
    MaxConfirmations = 2
INVARIANT
    InitialIsSilent
