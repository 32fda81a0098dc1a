--------------------------- MODULE MCConnections ---------------------------
(* The instance of Connections that TLC checks. *)
EXTENDS Connections
=============================================================================
