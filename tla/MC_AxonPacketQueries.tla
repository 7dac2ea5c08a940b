----------------------- MODULE MC_AxonPacketQueries -----------------------
EXTENDS AxonPacketQueries

\* Three sequences: enough for a read loop to see a packet received behind
\* it, ahead of it and in between, on either ordering.
MC_MaxSeq == 3
MC_Orderings == {"ordered", "unordered"}

=============================================================================
