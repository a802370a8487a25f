---------------------------- MODULE MCFineTuning ----------------------------
(* Model values for TLC. *)
EXTENDS FineTuning
=============================================================================
