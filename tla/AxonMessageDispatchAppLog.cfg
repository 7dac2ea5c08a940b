CONSTANTS
    Batches <- MC_Batches
    MaxHeight <- MC_MaxHeight
    None = None
SPECIFICATION Spec
INVARIANTS
    EventsFromHandler
