CONSTANTS
    Batches <- MC_UpdateBatches
    MaxHeight <- MC_MaxHeight
    None = None
SPECIFICATION Spec
INVARIANTS
    OnlyUnknownTypesUnsupported
