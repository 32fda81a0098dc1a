--------------------------- MODULE AccountsLedger ---------------------------
(***************************************************************************)
(* The value that each user owns, and the refinement from Accounts to      *)
(* Ledger.  Both look through the statements a call has not run yet: an    *)
(* order between its UPDATE and its INSERT still owns what it holds, and a *)
(* row that was credited but not yet deleted holds nothing.                *)
(***************************************************************************)
EXTENDS Accounts, Functions

(* The value of the order that call[u][c] holds and has not filed. *)
Unfiled(u, c) == IF call[u][c].at = "file" THEN call[u][c].price ELSE 0

LedgerMoney == [u \in Users |-> money[u] + Unfiled(u, "BUY")]

LedgerStocks == [u \in Users |-> [s \in Stocks |->
    stocks[u][s] + IF call[u]["SELL"].stock = s THEN Unfiled(u, "SELL") ELSE 0]]

(* The rows that still hold value. *)
Clearing(t) == \E c \in Settlements :
    call[t.user][c].at = "clear" /\ call[t.user][c].id = t.id
OpenOrders == {t \in transactions : ~Clearing(t)}

(* What user u owns in cents: money, stocks at what they cost, open orders, *)
(* and a deposit on its way to the table.                                   *)
Adding(u) == IF call[u]["ADD"].at \in {"upsert", "failed"} THEN call[u]["ADD"].price ELSE 0
Worth(u) ==
    LET orders == {t \in OpenOrders : t.user = u}
    IN  LedgerMoney[u] + SumFunction(LedgerStocks[u])
          + SumFunction([t \in orders |-> t.price]) + Adding(u)

(***************************************************************************)
(* What a user asked to deposit is what the user owns, through every       *)
(* statement of every command, when the user waits for each answer.        *)
(***************************************************************************)
ValueConserved == \A u \in Users : Worth(u) = deposited[u]

L == INSTANCE Ledger WITH money <- LedgerMoney, stocks <- LedgerStocks,
                          pending <- OpenOrders

(***************************************************************************)
(* For a user who waits for each answer the procedures, statement by       *)
(* statement, are the single steps of Ledger.                              *)
(***************************************************************************)
ImplementsLedger == L!Spec
=============================================================================
