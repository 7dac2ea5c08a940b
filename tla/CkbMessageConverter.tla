------------------------ MODULE CkbMessageConverter ------------------------
(***************************************************************************)
(* The message converter of the CKB chain endpoint (crates/relayer/src/    *)
(* chain/ckb4ibc/message.rs): convert_msg_to_ckb_tx dispatches a protobuf  *)
(* Any on its type URL, and the Converter answers the lookups of the       *)
(* per-message builders from caches the chain endpoint filled before.      *)
(*                                                                         *)
(* The builders convert_*_to_tx live in submodules outside this file; a    *)
(* supported message that decodes is abstracted to a converted outcome.    *)
(* The caches are filled by the endpoint's refresh code, also elsewhere:   *)
(* the model lets them hold any entries.                                   *)
(***************************************************************************)
EXTENDS Naturals

CONSTANTS
    Channels,   \* channel ids (the port is fixed)
    Seqs        \* packet sequences

VARIABLES
    connCache,     \* connection_cache is Some(..)
    chanCache,     \* the channel ids of channel_cache
    chanInputs,    \* the channel ids of channel_input_data
    packetInputs,  \* the (channel, sequence) keys of packet_input_data
    outcome        \* how the last conversion or lookup ended

vars == <<connCache, chanCache, chanInputs, packetInputs, outcome>>
cacheVars == <<connCache, chanCache, chanInputs, packetInputs>>

\* The type URLs with an arm in convert_msg_to_ckb_tx.
Supported ==
    {"create_client", "update_client", "conn_open_init", "conn_open_try",
     "conn_open_ack", "conn_open_confirm", "chan_open_init", "chan_open_try",
     "chan_open_ack", "chan_open_confirm", "chan_close_init", "recv_packet",
     "acknowledgement"}

\* Messages the relayer also produces (a timeout, the close handshake's
\* confirmation) and any other type URL.
TypeUrls == Supported \cup {"timeout", "chan_close_confirm", "other"}

-----------------------------------------------------------------------------
\* The cache refresh of the chain endpoint, before a Converter borrows the
\* caches: any contents.
RefreshCaches ==
    /\ connCache' \in BOOLEAN
    /\ chanCache' \in SUBSET Channels
    /\ chanInputs' \in SUBSET Channels
    /\ packetInputs' \in SUBSET (Channels \X Seqs)
    /\ UNCHANGED outcome

\* convert_msg_to_ckb_tx(msg, converter): a supported URL goes through
\* convert!, whose from_any may fail with protobuf_decode; any other URL
\* reaches `_ => todo!()`.
ConvertMsgToCkbTx ==
    /\ \E url \in TypeUrls, decodes \in BOOLEAN :
         outcome' = IF url \notin Supported THEN "panic"
                    ELSE IF decodes THEN "converted" ELSE "decode_error"
    /\ UNCHANGED cacheVars

\* The lookups of MsgToTxConverter that the builders call: get_key is
\* todo!(), the cache getters unwrap the entry they look up.
Lookup ==
    /\ \/ outcome' = "panic"                                    \* get_key
       \/ outcome' = IF connCache THEN "found" ELSE "panic"     \* connections
       \/ \E c \in Channels :
            \/ outcome' = IF c \in chanCache THEN "found" ELSE "panic"
            \/ outcome' = IF c \in chanInputs THEN "found" ELSE "panic"
       \/ \E c \in Channels, s \in Seqs :
            outcome' = IF <<c, s>> \in packetInputs THEN "found" ELSE "panic"
    /\ UNCHANGED cacheVars

Init ==
    /\ connCache = FALSE
    /\ chanCache = {}
    /\ chanInputs = {}
    /\ packetInputs = {}
    /\ outcome = "none"

Next ==
    \/ RefreshCaches
    \/ ConvertMsgToCkbTx
    \/ Lookup

Spec == Init /\ [][Next]_vars

-----------------------------------------------------------------------------
\* Spec sections 4.4 and 7: the transaction builder fails with a typed
\* error, UnsupportedMessageType for a type tag it has no arm for and
\* StaleContext for a cache that lacks an entry the message refers to; it
\* never aborts the relayer.  The code panics in `_ => todo!()`, in
\* get_key and in the unwrap of every cache getter.
ConversionNeverPanics == outcome # "panic"

=============================================================================
