----------------------- MODULE MC_AxonTransferHelper -----------------------
EXTENDS AxonTransferHelper

\* Two blocks and three logs: a handler event of the first block, in a
\* requested range or not, then the transfer's two logs in the second.
MC_MaxHeight == 2
MC_MaxLogs == 3
MC_Channels == {"channel-0", "channel-1"}
MC_Clients == {"client-0", "client-1"}
MC_MaxSeq == 2

=============================================================================
