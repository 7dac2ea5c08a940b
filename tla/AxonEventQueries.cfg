CONSTANTS
    MaxHeight <- MC_MaxHeight
    MaxLogs <- MC_MaxLogs
    Clients <- MC_Clients
    Channels <- MC_Channels
    MaxSeq <- MC_MaxSeq
    SrcChannel = "channel-0"
    DstChannel = "channel-1"
    Convertible = {TRUE}
    TransferConvertible = {TRUE, FALSE}
SPECIFICATION HelperSpec
INVARIANTS
    PacketEventsSatisfyFilter
    ClientEventIsFirstMatch
    TransferredPacketIsQueryable
