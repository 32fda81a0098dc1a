----------------------------- MODULE MCAccounts -----------------------------
(* The instances of Accounts that TLC checks. *)
EXTENDS AccountsLedger, TLC

Symmetry == Permutations(Users) \cup Permutations(Stocks)
=============================================================================
