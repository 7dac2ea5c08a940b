CONSTANTS
    MaxUsize <- MC_MaxUsize
    MaxStored = 5
    MaxBase = 3
    MaxHops = 2
    PortIds <- MC_PortIds
    ChannelIds <- MC_ChannelIds
SPECIFICATION Spec
INVARIANTS
    RoundTrip
    TraceDenotesStoredPath
