------------------------- MODULE MC_AxonDenomTrace -------------------------
(* The denom trace parser on strings of up to five characters, vouchers of *)
(* up to two hops with bases of up to three characters, and channel        *)
(* numbers up to 10 (so that "channel-11" overflows).                      *)
EXTENDS AxonDenomTrace

MC_MaxUsize == 10
MC_PortIds == {<<"a">>}
MC_ChannelIds == {<<"c", "0">>, <<"c", "1">>, <<"c", "1", "0">>}
=============================================================================
