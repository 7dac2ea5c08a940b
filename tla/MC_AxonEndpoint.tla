------------------------- MODULE MC_AxonEndpoint -------------------------
(* Model-checking instance of AxonEndpoint: the proof pipeline's instance *)
(* (three heights after genesis, two validator sets) with subscribe,      *)
(* shutdown and the monitor thread between and beside its calls.          *)
EXTENDS AxonEndpoint

MC_MaxHeight == 3

=============================================================================
