--------------------------- MODULE MCNodeControl ----------------------------
(* Model values for TLC. *)
EXTENDS NodeControl
=============================================================================
