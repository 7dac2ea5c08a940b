--------------------- MODULE MC_AxonMessageDispatch ---------------------
(* Model-checking instances of AxonMessageDispatch.                       *)
EXTENDS AxonMessageDispatch

\* Batches of two messages: a packet with an application callback, a
\* connection handshake step without one, the timeout sent as a receive,
\* and an unknown type URL after a successful message.
MC_Batches == {<<"chan_open_try", "recv_packet">>,
               <<"conn_open_ack", "timeout">>,
               <<"acknowledgement", "unknown">>}

\* The batch the engine sends to relay a packet: a client update first.
MC_UpdateBatches == {<<"update_client", "recv_packet">>}

\* Two transactions and two blocks of other users.
MC_MaxHeight == 4

=============================================================================
