CONSTANTS
    MaxHeight <- MC_MaxHeight
    ValidatorSets = {v1, v2}
    Forged = Forged
    NoValue = NoValue
    ByzantineRpc = TRUE
SPECIFICATION EndpointSpec
INVARIANTS
    TypeOK
    OkProofIsFinalized
    MonitorStartedOnce
    ShutdownHaltsMonitor
PROPERTIES
    ImplementsProofService
