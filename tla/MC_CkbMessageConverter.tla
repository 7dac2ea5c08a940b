---------------------- MODULE MC_CkbMessageConverter ----------------------
(* Two channels with two packet sequences each.                            *)
EXTENDS CkbMessageConverter

MC_Channels == {"channel-0", "channel-1"}
MC_Seqs == {1, 2}
=============================================================================
