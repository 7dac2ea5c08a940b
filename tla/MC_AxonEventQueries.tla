------------------------ MODULE MC_AxonEventQueries ------------------------
EXTENDS AxonEventQueries

\* Two blocks and three logs: two candidate events in one block and a third
\* inside or outside a requested range or filter.
MC_MaxHeight == 2
MC_MaxLogs == 3
MC_Channels == {"channel-0", "channel-1"}
MC_Clients == {"client-0", "client-1"}
MC_MaxSeq == 2

=============================================================================
