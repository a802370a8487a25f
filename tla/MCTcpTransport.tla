--------------------------- MODULE MCTcpTransport ---------------------------
(* Model values for TLC. *)
EXTENDS TcpTransport
=============================================================================
