----------------------------- MODULE MCTrading -----------------------------
(* The instance of Trading that TLC checks. *)
EXTENDS Trading
=============================================================================
