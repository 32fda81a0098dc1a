---------------------------- MODULE MCQuoteCache ----------------------------
(* The instance of QuoteCache with a polling loop that TLC checks. *)
EXTENDS Polling
=============================================================================
