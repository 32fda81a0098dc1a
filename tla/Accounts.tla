------------------------------ MODULE Accounts ------------------------------
(***************************************************************************)
(* The account database (schema.sql) and the services that call its        *)
(* procedures: AddService, BuyService, SellService and their COMMIT and    *)
(* CANCEL services.                                                        *)
(*                                                                         *)
(* No procedure opens a transaction, so every SQL statement commits on its *)
(* own and the procedures of concurrent calls interleave statement by      *)
(* statement: one action below is one statement.  MySQL.PerformTransaction *)
(* runs a service's callback again from its start when a statement raises  *)
(* a MySqlException, whatever the statements before it already wrote.      *)
(*                                                                         *)
(* A user's commands of one kind travel on one connection, which           *)
(* BaseService.ProcessClient serves one message at a time: call[u][c] is   *)
(* the one call of kind c that user u may have in flight.                  *)
(***************************************************************************)
EXTENDS Integers, FiniteSets

CONSTANTS
    Users,      \* user.userid
    Stocks,     \* stock symbols
    NoStock,    \* the symbol of a call that names none
    Funds,      \* the amounts a command may name, in cents
    Costs,      \* the prices the quote service may answer, in cents
    MaxInt,     \* the largest value of an INTEGER column
    Epoch,      \* the clock when the system starts, in milliseconds
    Tick,       \* the milliseconds a tick of the clock adds
    MaxTicks,   \* bound: ticks of the clock
    MaxDeposit, \* bound: what a user asks to add, in all
    MaxTx,      \* bound: no BUY or SELL is received once this many rows exist
    MaxFaults,  \* bound: statements and replies that fail for no reason of their own
    MaxInFlight,\* bound: commands of a user in flight when they overlap
    Serial,     \* a user waits for each reply before the next command
    EventOn     \* the event scheduler runs clear_expired_transactions

ASSUME AmountsAssumption ==
    /\ Funds \subseteq Nat \ {0}
    /\ Costs \subseteq Nat \ {0}
    /\ MaxInt \in Nat
ASSUME ClockAssumption == Epoch \in Nat /\ Tick \in Nat /\ MaxTicks \in Nat
ASSUME BoundAssumption == {MaxDeposit, MaxTx, MaxFaults, MaxInFlight} \subseteq Nat
ASSUME SwitchAssumption == Serial \in BOOLEAN /\ EventOn \in BOOLEAN
ASSUME NoStockAssumption == NoStock \notin Stocks

VARIABLES
    money,         \* user.money; a user with no row has 0 and is refused alike
    stocks,        \* stocks.price; a stock with no row has 0 and is refused alike
    transactions,  \* the pending buys and sells
    nextId,        \* AUTO_INCREMENT of transactions.id
    now,           \* Unix.TimeStamp, in milliseconds
    call,          \* what each service is doing for each user
    faults,        \* faults so far
    deposited,     \* history: what each user asked ADD for
    settled,       \* history: ids whose held value was credited
    resettled      \* history: ids whose held value was credited again

history == <<deposited, settled, resettled>>
vars == <<money, stocks, transactions, nextId, now, call, faults, history>>

-----------------------------------------------------------------------------
Settlements == {"COMMIT_BUY", "CANCEL_BUY", "COMMIT_SELL", "CANCEL_SELL"}
Commands == {"ADD", "BUY", "SELL"} \cup Settlements

(* The transType a settlement looks for. *)
Side(c) == IF c \in {"COMMIT_BUY", "CANCEL_BUY"} THEN "BUY" ELSE "SELL"

(***************************************************************************)
(* Where a call stands: the statement its procedure runs next, or "done"   *)
(* when the procedure has returned, or "failed" when PerformTransaction    *)
(* has caught a MySqlException.                                            *)
(***************************************************************************)
Statements == {"upsert", "select", "hold", "file", "credit", "expire", "clear"}
Positions == Statements \cup {"idle", "done", "failed"}

NoTime == -1   \* the NULL pServerTime of the two sell settlements

(***************************************************************************)
(* The arguments of a call, the row it selected, and its outcome; asked is *)
(* history, the time when the service received the command.                *)
(***************************************************************************)

Call == [at : Positions, stock : Stocks \cup {NoStock}, price : Nat,
         time : Nat \cup {NoTime}, asked : Nat, id : Nat, ok : BOOLEAN]

IdleCall == [at |-> "idle", stock |-> NoStock, price |-> 0,
             time |-> 0, asked |-> 0, id |-> 0, ok |-> FALSE]

Row == [id : Nat, user : Users, stock : Stocks, price : Nat,
        type : {"BUY", "SELL"}, time : Nat]

Init ==
    /\ money = [u \in Users |-> 0]
    /\ stocks = [u \in Users |-> [s \in Stocks |-> 0]]
    /\ transactions = {}
    /\ nextId = 1
    /\ now = Epoch
    /\ call = [u \in Users |-> [c \in Commands |-> IdleCall]]
    /\ faults = 0
    /\ deposited = [u \in Users |-> 0]
    /\ settled = {}
    /\ resettled = {}

-----------------------------------------------------------------------------
(* An UPDATE that leaves the column's range is an error in strict mode. *)
Fits(n) == n <= MaxInt

(* The whole shares that funds buy at this cost, in cents. *)
WholeShares(funds, cost) == (funds \div cost) * cost

(* Mutant of ServerTime: no service gives pServerTime a value. *)
ServerTimeMissing(c) == NoTime

(* SellCommit gives pServerTime no value and SellCancel declares it Output. *)
ServerTime(c) == IF c \in {"COMMIT_SELL", "CANCEL_SELL"} THEN NoTime ELSE now

FirstStatement(c) == IF c = "ADD" THEN "upsert" ELSE "select"

(* A user at one browser or in the workload waits; a user at several need not. *)
MayStart(u) ==
    LET busy == {c \in Commands : call[u][c].at # "idle"} IN
    \/ busy = {}
    \/ ~Serial /\ Cardinality(busy) < MaxInFlight

(***************************************************************************)
(* A command reaches its service, which opens a connection and calls the   *)
(* procedure with the server's time.                                       *)
(***************************************************************************)
Receive(u, c, s, p) ==
    /\ call[u][c].at = "idle"
    /\ MayStart(u)
    /\ call' = [call EXCEPT ![u][c] =
                  [at |-> FirstStatement(c), stock |-> s, price |-> p,
                   time |-> ServerTime(c), asked |-> now, id |-> 0, ok |-> FALSE]]
    /\ UNCHANGED <<money, stocks, transactions, nextId, now, faults, settled, resettled>>

(* ADD: AddService refuses funds that are not positive before any call. *)
ReceiveAdd(u) == \E f \in Funds :
    /\ deposited[u] + f <= MaxDeposit
    /\ Receive(u, "ADD", NoStock, f)
    /\ deposited' = [deposited EXCEPT ![u] = @ + f]

(* BUY, SELL: quote the stock, refuse when the funds buy no whole share. *)
ReceiveOrder(u, c) == \E s \in Stocks, f \in Funds, cost \in Costs :
    /\ nextId <= MaxTx
    /\ f \div cost > 0
    /\ Receive(u, c, s, WholeShares(f, cost))
    /\ UNCHANGED deposited

ReceiveBuy(u) == ReceiveOrder(u, "BUY")
ReceiveSell(u) == ReceiveOrder(u, "SELL")

(* COMMIT_BUY, CANCEL_BUY, COMMIT_SELL, CANCEL_SELL name only the user. *)
ReceiveSettlement(u, c) ==
    /\ Receive(u, c, NoStock, 0)
    /\ UNCHANGED deposited

ReceiveBuyCommit(u) == ReceiveSettlement(u, "COMMIT_BUY")
ReceiveBuyCancel(u) == ReceiveSettlement(u, "CANCEL_BUY")
ReceiveSellCommit(u) == ReceiveSettlement(u, "COMMIT_SELL")
ReceiveSellCancel(u) == ReceiveSettlement(u, "CANCEL_SELL")

(* The procedure goes on to its next statement, or returns. *)
Goto(u, c, position) == call' = [call EXCEPT ![u][c].at = position]
Return(u, c, success) ==
    call' = [call EXCEPT ![u][c].at = "done", ![u][c].ok = success]

(* add_user: INSERT ... ON DUPLICATE KEY UPDATE money = money + pFunds. *)
AddUser(u) ==
    LET k == call[u]["ADD"] IN
    /\ k.at = "upsert"
    /\ Fits(money[u] + k.price)
    /\ money' = [money EXCEPT ![u] = @ + k.price]
    /\ Return(u, "ADD", TRUE)
    /\ UNCHANGED <<stocks, transactions, nextId, now, faults, history>>

-----------------------------------------------------------------------------
(* buy_stock, first statement: SELECT money, then the two refusals. *)
SelectMoney(u) ==
    LET k == call[u]["BUY"] IN
    /\ k.at = "select"
    /\ IF k.price <= money[u] THEN Goto(u, "BUY", "hold") ELSE Return(u, "BUY", FALSE)
    /\ UNCHANGED <<money, stocks, transactions, nextId, now, faults, history>>

(* buy_stock, second statement: UPDATE user SET money = money - pStockAmount. *)
HoldMoney(u) ==
    LET k == call[u]["BUY"] IN
    /\ k.at = "hold"
    /\ money' = [money EXCEPT ![u] = @ - k.price]
    /\ Goto(u, "BUY", "file")
    /\ UNCHANGED <<stocks, transactions, nextId, now, faults, history>>

(* Mutant of SelectStock: sell_stock without its two refusals. *)
SelectStockUnchecked(u) ==
    /\ call[u]["SELL"].at = "select"
    /\ Goto(u, "SELL", "hold")
    /\ UNCHANGED <<money, stocks, transactions, nextId, now, faults, history>>

(* sell_stock, first statement: SELECT price, then the two refusals. *)
SelectStock(u) ==
    LET k == call[u]["SELL"] IN
    /\ k.at = "select"
    /\ IF k.price <= stocks[u][k.stock] THEN Goto(u, "SELL", "hold") ELSE Return(u, "SELL", FALSE)
    /\ UNCHANGED <<money, stocks, transactions, nextId, now, faults, history>>

(* sell_stock, second statement: UPDATE stocks SET price = price - pStockAmount. *)
HoldStock(u) ==
    LET k == call[u]["SELL"] IN
    /\ k.at = "hold"
    /\ stocks' = [stocks EXCEPT ![u][k.stock] = @ - k.price]
    /\ Goto(u, "SELL", "file")
    /\ UNCHANGED <<money, transactions, nextId, now, faults, history>>

(* The last statement of buy_stock and sell_stock: INSERT INTO transactions. *)
FileTransaction(u, c) ==
    LET k == call[u][c] IN
    /\ k.at = "file"
    /\ transactions' = transactions \cup
         {[id |-> nextId, user |-> u, stock |-> k.stock, price |-> k.price,
           type |-> c, time |-> k.time]}
    /\ nextId' = nextId + 1
    /\ Return(u, c, TRUE)
    /\ UNCHANGED <<money, stocks, now, faults, history>>

-----------------------------------------------------------------------------
Pending(u, type) == {t \in transactions : t.user = u /\ t.type = type}

(* Mutant of Latest: ORDER BY transTime ASC. *)
Oldest(u, type) ==
    {t \in Pending(u, type) : \A t2 \in Pending(u, type) : t.time <= t2.time}

(* ORDER BY transTime DESC LIMIT 1; rows of one time may come in any order. *)
Latest(u, type) ==
    {t \in Pending(u, type) : \A t2 \in Pending(u, type) : t2.time <= t.time}

(* pServerTime - transTime > 60000, which a NULL pServerTime never satisfies. *)
Expired(time, t) == time # NoTime /\ time - t.time > 60000

(* Mutant of SelectLatest: an expired order is deleted without a credit. *)
SelectAndDrop(u, c) ==
    LET k == call[u][c] IN
    /\ k.at = "select"
    /\ \E t \in Latest(u, Side(c)) :
         call' = [call EXCEPT ![u][c] =
                    [k EXCEPT !.at = IF Expired(k.time, t) THEN "clear" ELSE "credit",
                              !.stock = t.stock, !.price = t.price, !.id = t.id]]
    /\ UNCHANGED <<money, stocks, transactions, nextId, now, faults, history>>

(* The SELECT that opens the four settlement procedures. *)
SelectLatest(u, c) ==
    LET k == call[u][c] IN
    /\ k.at = "select"
    /\ \/ /\ Pending(u, Side(c)) = {}
          /\ Return(u, c, FALSE)
       \/ \E t \in Latest(u, Side(c)) :
            call' = [call EXCEPT ![u][c] =
                       [k EXCEPT !.at = IF Expired(k.time, t) THEN "expire" ELSE "credit",
                                 !.stock = t.stock, !.price = t.price, !.id = t.id]]
    /\ UNCHANGED <<money, stocks, transactions, nextId, now, faults, history>>

(* What a settlement credits to the user's money; the rest goes to the stocks. *)
PaysMoney(c, at) ==
    IF at = "expire" THEN Side(c) = "BUY" ELSE c \in {"CANCEL_BUY", "COMMIT_SELL"}

(* The UPDATE or INSERT that gives the value of the selected row to the user. *)
CreditMoney(u, c) ==
    LET k == call[u][c] IN
    /\ PaysMoney(c, k.at)
    /\ Fits(money[u] + k.price)
    /\ money' = [money EXCEPT ![u] = @ + k.price]
    /\ UNCHANGED stocks

CreditStock(u, c) ==
    LET k == call[u][c] IN
    /\ ~PaysMoney(c, k.at)
    /\ Fits(stocks[u][k.stock] + k.price)
    /\ stocks' = [stocks EXCEPT ![u][k.stock] = @ + k.price]
    /\ UNCHANGED money

(* Mutant of Credit: the branch of an expired order returns nothing. *)
CreditLiveOnly(u, c) ==
    LET k == call[u][c] IN
    /\ k.at \in {"credit", "expire"}
    /\ \/ k.at = "credit" /\ (CreditMoney(u, c) \/ CreditStock(u, c))
       \/ k.at = "expire" /\ UNCHANGED <<money, stocks>>
    /\ call' = [call EXCEPT ![u][c] =
                  [k EXCEPT !.at = "clear", !.ok = (k.at = "credit")]]
    /\ settled' = settled \cup {k.id}
    /\ resettled' = IF k.id \in settled THEN resettled \cup {k.id} ELSE resettled
    /\ UNCHANGED <<transactions, nextId, now, faults, deposited>>

(* A settlement that found its row live succeeds, one that found it expired   *)
(* answers "No recent ..." after it returned the held value to its source.    *)
Credit(u, c) ==
    LET k == call[u][c] IN
    /\ k.at \in {"credit", "expire"}
    /\ CreditMoney(u, c) \/ CreditStock(u, c)
    /\ call' = [call EXCEPT ![u][c] =
                  [k EXCEPT !.at = "clear", !.ok = (k.at = "credit")]]
    /\ settled' = settled \cup {k.id}
    /\ resettled' = IF k.id \in settled THEN resettled \cup {k.id} ELSE resettled
    /\ UNCHANGED <<transactions, nextId, now, faults, deposited>>

(* Mutant of DeleteTransaction: the branch of an expired order deletes nothing. *)
DeleteLiveOnly(u, c) ==
    LET k == call[u][c] IN
    /\ k.at = "clear"
    /\ transactions' = {t \in transactions : ~k.ok \/ t.id # k.id}
    /\ Goto(u, c, "done")
    /\ UNCHANGED <<money, stocks, nextId, now, faults, history>>

(* The last statement of a settlement: DELETE FROM transactions WHERE id = ... *)
DeleteTransaction(u, c) ==
    LET k == call[u][c] IN
    /\ k.at = "clear"
    /\ transactions' = {t \in transactions : t.id # k.id}
    /\ Goto(u, c, "done")
    /\ UNCHANGED <<money, stocks, nextId, now, faults, history>>

-----------------------------------------------------------------------------
(* The service answers and its connection waits for the next command. *)
Reply(u, c) ==
    /\ call[u][c].at = "done"
    /\ call' = [call EXCEPT ![u][c] = IdleCall]
    /\ UNCHANGED <<money, stocks, transactions, nextId, now, faults, history>>

(* The next statement of a call would overflow its column. *)
Overflows(u, c) ==
    LET k == call[u][c] IN
    \/ k.at = "upsert" /\ ~Fits(money[u] + k.price)
    \/ /\ k.at \in {"credit", "expire"}
       /\ ~Fits(k.price + IF PaysMoney(c, k.at) THEN money[u] ELSE stocks[u][k.stock])

(* A statement that overflows raises a MySqlException every time it is tried. *)
StatementOverflows(u, c) ==
    /\ Overflows(u, c)
    /\ Goto(u, c, "failed")
    /\ UNCHANGED <<money, stocks, transactions, nextId, now, faults, history>>

(***************************************************************************)
(* A deadlock, a lock wait timeout or a restart of the database stops the  *)
(* procedure before its next statement, or the answer of a procedure that  *)
(* has returned is lost: the service sees a MySqlException.                *)
(***************************************************************************)
Fault(u, c) ==
    /\ faults < MaxFaults
    /\ call[u][c].at \in Statements \cup {"done"}
    /\ faults' = faults + 1
    /\ Goto(u, c, "failed")
    /\ UNCHANGED <<money, stocks, transactions, nextId, now, history>>

(* Mutant of Retry: a failed callback is taken to have done its work. *)
RetryAssumed(u, c) ==
    /\ call[u][c].at = "failed"
    /\ Return(u, c, TRUE)
    /\ UNCHANGED <<money, stocks, transactions, nextId, now, faults, history>>

(* Mutant of Retry: a failed callback is dropped and nothing is answered. *)
RetryNever(u, c) == call[u][c].at = "failed" /\ UNCHANGED vars

(* PerformTransaction waits 100 ms and runs the callback again: the same      *)
(* parameters but the time, and the procedure from its first statement.       *)
Retry(u, c) ==
    LET k == call[u][c] IN
    /\ k.at = "failed"
    /\ call' = [call EXCEPT ![u][c] =
                  [k EXCEPT !.at = FirstStatement(c), !.time = ServerTime(c),
                            !.id = 0, !.ok = FALSE]]
    /\ UNCHANGED <<money, stocks, transactions, nextId, now, faults, history>>

Advance ==
    /\ now + Tick <= Epoch + Tick * MaxTicks
    /\ now' = now + Tick
    /\ UNCHANGED <<money, stocks, transactions, nextId, call, faults, history>>

(***************************************************************************)
(* The event clear_expired_transactions.  UNIX_TIMESTAMP() is in seconds,  *)
(* transTime in milliseconds.                                              *)
(***************************************************************************)
ClearExpired ==
    /\ EventOn
    /\ transactions' = {t \in transactions : ~((now \div 1000) - t.time < 60)}
    /\ UNCHANGED <<money, stocks, nextId, now, call, faults, history>>

-----------------------------------------------------------------------------
(* A step of the procedure that call[u][c] runs. *)
Statement(u, c) ==
    \/ c = "ADD" /\ AddUser(u)
    \/ c = "BUY" /\ (SelectMoney(u) \/ HoldMoney(u))
    \/ c = "SELL" /\ (SelectStock(u) \/ HoldStock(u))
    \/ c \in {"BUY", "SELL"} /\ FileTransaction(u, c)
    \/ c \in Settlements /\ (SelectLatest(u, c) \/ Credit(u, c) \/ DeleteTransaction(u, c))

(* A command of kind c of user u arrives. *)
Arrival(u, c) ==
    \/ c = "ADD" /\ ReceiveAdd(u)
    \/ c = "BUY" /\ ReceiveBuy(u)
    \/ c = "SELL" /\ ReceiveSell(u)
    \/ c = "COMMIT_BUY" /\ ReceiveBuyCommit(u)
    \/ c = "CANCEL_BUY" /\ ReceiveBuyCancel(u)
    \/ c = "COMMIT_SELL" /\ ReceiveSellCommit(u)
    \/ c = "CANCEL_SELL" /\ ReceiveSellCancel(u)

(* What the service and the database do for a call without being asked again. *)
Progress(u, c) ==
    Statement(u, c) \/ StatementOverflows(u, c) \/ Retry(u, c) \/ Reply(u, c)

Next ==
    \/ \E u \in Users, c \in Commands : Arrival(u, c) \/ Progress(u, c) \/ Fault(u, c)
    \/ Advance
    \/ ClearExpired

Spec == Init /\ [][Next]_vars

(* The services and the database run; commands, ticks and faults need not come. *)
FairSpec == Spec /\ \A u \in Users, c \in Commands : WF_vars(Progress(u, c))

-----------------------------------------------------------------------------
(* Every variable has its type; ids are handed out below nextId.              *)
TypeOK ==
    /\ money \in [Users -> Int]
    /\ stocks \in [Users -> [Stocks -> Int]]
    /\ transactions \subseteq Row
    /\ nextId \in Nat
    /\ now \in Nat
    /\ call \in [Users -> [Commands -> Call]]
    /\ faults \in Nat
    /\ deposited \in [Users -> Int]
    /\ settled \subseteq Nat
    /\ resettled \subseteq Nat

(***************************************************************************)
(* However the statements of a user's calls interleave, fail and run       *)
(* again, no balance is overdrawn and none leaves its column: what the     *)
(* SELECT of buy_stock or sell_stock saw still covers the UPDATE that      *)
(* follows it, since no other call of that user lowers the same balance.   *)
(***************************************************************************)
BalancesInRange ==
    \A u \in Users :
      /\ money[u] \in 0 .. MaxInt
      /\ \A s \in Stocks : stocks[u][s] \in 0 .. MaxInt

(***************************************************************************)
(* The value held for a buy or a sell reaches the user at most once:       *)
(* buy_commit, buy_cancel_stock, sell_commit and sell_cancel_stock settle  *)
(* a row before they delete it.                                            *)
(***************************************************************************)
SettledAtMostOnce == resettled = {}

(***************************************************************************)
(* A commit or a cancel that answers success has credited the user,        *)
(* whatever failed and was run again on the way.                           *)
(***************************************************************************)
SuccessMeansSettled ==
    \A u \in Users, c \in Settlements :
      call[u][c].at = "done" /\ call[u][c].ok => call[u][c].id \in settled

(***************************************************************************)
(* A pending transaction leaves the table only after its held value was    *)
(* credited to the user: whatever expires returns to its owner first.      *)
(***************************************************************************)
CreditBeforeDelete ==
    [][\A t \in transactions \ transactions' : t.id \in settled]_vars

(***************************************************************************)
(* The same of the procedures alone: beside the event, which credits       *)
(* nobody, nothing deletes an order before its credit, however commits and *)
(* cancels of one user overlap, fail and run again.                        *)
(***************************************************************************)
ProceduresCreditFirst ==
    [][\A t \in transactions \ transactions' : t.id \in settled \/ ClearExpired]_vars

(***************************************************************************)
(* COMMIT_BUY honours no order whose 60 seconds were over when the service *)
(* received it, also when its callback failed and ran again: such an order *)
(* returns what it holds.  COMMIT_SELL, which sends no time, honours them. *)
(***************************************************************************)
NoLateBuy ==
    [][\A u \in Users, t \in transactions :
         /\ call[u]["COMMIT_BUY"].at = "select"
         /\ call'[u]["COMMIT_BUY"].at = "credit"
         /\ call'[u]["COMMIT_BUY"].id = t.id
         => call[u]["COMMIT_BUY"].asked - t.time <= 60000]_vars

(***************************************************************************)
(* Every command a service receives is answered, also after failed         *)
(* statements and lost answers.                                            *)
(***************************************************************************)
EveryCommandAnswered ==
    \A u \in Users, c \in Commands :
      (call[u][c].at # "idle") ~> (call[u][c].at = "idle")
=============================================================================
