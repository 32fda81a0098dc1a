------------------------------- MODULE Ledger -------------------------------
(***************************************************************************)
(* What the accounts promise their users, with every command a single      *)
(* step: money and stocks change hands only through a deposit, an order    *)
(* that holds value, and one settlement of that order, newest order first. *)
(* Accounts is shown to implement it in AccountsLedger.                    *)
(***************************************************************************)
EXTENDS Integers

CONSTANTS Users, Stocks

VARIABLES money, stocks, pending, nextId

vars == <<money, stocks, pending, nextId>>

Init ==
    /\ money = [u \in Users |-> 0]
    /\ stocks = [u \in Users |-> [s \in Stocks |-> 0]]
    /\ pending = {}
    /\ nextId = 1

Deposit(u) ==
    /\ money'[u] > money[u]
    /\ money' = [money EXCEPT ![u] = money'[u]]
    /\ UNCHANGED <<stocks, pending, nextId>>

(* A buy holds money and a sell holds stock, when the balance covers it. *)
HoldMoney(t) ==
    /\ t.price <= money[t.user]
    /\ money' = [money EXCEPT ![t.user] = @ - t.price]
    /\ UNCHANGED stocks

HoldStock(t) ==
    /\ t.price <= stocks[t.user][t.stock]
    /\ stocks' = [stocks EXCEPT ![t.user][t.stock] = @ - t.price]
    /\ UNCHANGED money

Order == \E t \in pending' \ pending :
    /\ t.id = nextId
    /\ t.price > 0
    /\ pending' = pending \cup {t}
    /\ nextId' = nextId + 1
    /\ IF t.type = "BUY" THEN HoldMoney(t) ELSE HoldStock(t)

(* One settlement pays what the order held: in money or in stock. *)
PayMoney(t) ==
    /\ money' = [money EXCEPT ![t.user] = @ + t.price]
    /\ UNCHANGED stocks

PayStock(t) ==
    /\ stocks' = [stocks EXCEPT ![t.user][t.stock] = @ + t.price]
    /\ UNCHANGED money

Newest(t) == \A t2 \in pending :
    t2.user = t.user /\ t2.type = t.type => t2.time <= t.time

(* A commit turns what a buy held into stock and what a sell held into money; *)
(* a release gives it back.                                                   *)
Commit(t) == IF t.type = "BUY" THEN PayStock(t) ELSE PayMoney(t)
Release(t) == IF t.type = "BUY" THEN PayMoney(t) ELSE PayStock(t)

Settle(t) ==
    /\ Newest(t)
    /\ pending' = pending \ {t}
    /\ Commit(t) \/ Release(t)
    /\ UNCHANGED nextId

Next ==
    \/ \E u \in Users : Deposit(u)
    \/ Order
    \/ \E t \in pending : Settle(t)

Spec == Init /\ [][Next]_vars
=============================================================================
