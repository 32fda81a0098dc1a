----------------------------- MODULE MCTriggers -----------------------------
(* The instances of Triggers that TLC checks. *)
EXTENDS TriggersBook
=============================================================================
