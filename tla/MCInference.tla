---------------------------- MODULE MCInference ----------------------------
(* Model values for TLC. *)
EXTENDS Inference
=============================================================================
