------------------------------ MODULE Trading ------------------------------
(***************************************************************************)
(* Accounts and the buy triggers of one stock on the same user.money: the  *)
(* services of both are separate processes that call procedures of one     *)
(* database, so their statements interleave.  The shares that triggers     *)
(* bought are counted apart and not sold again; buy_trigger and buy_commit *)
(* only add to stocks.price.                                               *)
(***************************************************************************)
EXTENDS Accounts, Sequences, Functions

CONSTANTS
    Amounts,     \* the amounts SET_BUY_AMOUNT may name
    Limits,      \* the limits SET_BUY_TRIGGER may name
    MaxCommands  \* bound: commands about triggers received

ASSUME TriggerAssumption ==
    /\ Amounts \cup Limits \subseteq Nat \ {0}
    /\ \A n \in Amounts \cup Limits \cup Costs : n < MaxInt
    /\ MaxCommands \in Nat

VARIABLES
    bought,      \* the shares that triggers bought, in cents
    current, born, users, cost, triggers, thread, commands,   \* of Triggers
    crossed      \* history: users whose BUY and SET_BUY_AMOUNT checked the same money

book == <<bought, current, born, users, cost, triggers, thread, commands>>
tradingVars == <<vars, book, crossed>>

T == INSTANCE Triggers WITH Direction <- "BUY", Funds <- 0, Overlap <- TRUE,
                            source <- money, target <- bought

TradingInit == Init /\ T!Init /\ crossed = {}

(* Between the SELECT that checks the money and the UPDATE that holds it. *)
BuyHolds(u) == call[u]["BUY"].at = "hold"
TriggerHolds(u) == thread[<<"SET_AMOUNT", u>>].at \in {"enter", "register", "hold"}
Crossing == {u \in Users : BuyHolds(u) /\ TriggerHolds(u)}

TradingNext ==
    /\ \/ Next /\ UNCHANGED book
       \/ T!Next /\ UNCHANGED <<stocks, transactions, nextId, now, call, history>>
    /\ crossed' = crossed \cup Crossing'

TradingSpec == TradingInit /\ [][TradingNext]_tradingVars

-----------------------------------------------------------------------------
(***************************************************************************)
(* buy_stock and SET_BUY_AMOUNT each check the money in one statement and  *)
(* hold it in another: it becomes negative only for a user whose two       *)
(* commands did this at the same time.  No trigger that fires, fails or is *)
(* canceled, no commit and no retry takes money that a check has promised. *)
(***************************************************************************)
NoOverdraft == \A u \in Users \ crossed : money[u] >= 0

(* What user u has, has on order, and has in triggers that hold their amount. *)
Balances(u) == money[u] + bought[u] + SumFunction(stocks[u])
OnOrder(u) ==
    LET orders == {t \in transactions : t.user = u /\ t.id \notin settled}
    IN  SumFunction([t \in orders |-> t.price])
InTriggers(u) ==
    LET open == {i \in DOMAIN triggers :
                   /\ triggers[i].user = u /\ triggers[i].held > 0
                   /\ ~triggers[i].canceled /\ triggers[i].fired = 0}
    IN  SumFunction([i \in open |-> triggers[i].amount])

(* No order was settled twice, and no trigger completed or canceled twice. *)
DoneOnce ==
    /\ resettled = {}
    /\ \A i \in DOMAIN triggers :
         triggers[i].fired + (IF triggers[i].canceled THEN 1 ELSE 0) <= 1

(***************************************************************************)
(* What each user owns, has on order and has put into triggers is never    *)
(* more than he added, when no order or trigger was completed twice and no *)
(* call failed: value moves between buy_stock, the settlements and the     *)
(* triggers and none comes into being on the way.                          *)
(***************************************************************************)
NoValueCreated ==
    T!Quiet /\ DoneOnce /\ faults = 0 =>
      \A u \in Users : Balances(u) + OnOrder(u) + InTriggers(u) <= deposited[u]
=============================================================================
