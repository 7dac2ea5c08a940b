---------------------- MODULE MC_AxonProofPipeline ----------------------
(* Model-checking instance of AxonProofPipeline: three heights after      *)
(* genesis and two validator sets, so that an epoch change can fall       *)
(* between a requested block and the metadata fetch.                      *)
EXTENDS AxonProofPipeline

MC_MaxHeight == 3

=============================================================================
