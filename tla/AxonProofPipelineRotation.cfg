CONSTANTS
    MaxHeight <- MC_MaxHeight
    ValidatorSets = {v1, v2}
    Forged = Forged
    NoValue = NoValue
    ByzantineRpc = FALSE
SPECIFICATION Spec
INVARIANTS
    UnverifiedOnlyIfCorrupted
