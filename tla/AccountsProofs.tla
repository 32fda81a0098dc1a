--------------------------- MODULE AccountsProofs ---------------------------
(***************************************************************************)
(* Theorems about Accounts for every number of users, stocks, amounts,     *)
(* faults and commands in flight.  First the ranges of the balances; then  *)
(* the settlement of held value: a success is never answered without a     *)
(* credit, nothing is deleted that was not credited, no late COMMIT_BUY is *)
(* honoured, and for users who wait for their answers nothing is credited  *)
(* twice and every call keeps to Ledger; last the value that each user     *)
(* owns, which every statement conserves.                                  *)
(***************************************************************************)
EXTENDS AccountsLedger, Sums

(* An order, while it is being served, names a stock and a time. *)
OrdersNamed ==
    \A u \in Users, c \in {"BUY", "SELL"} :
      /\ call[u][c].time \in Nat
      /\ call[u][c].at # "idle" => call[u][c].stock \in Stocks

TypeInv == TypeOK /\ OrdersNamed

-----------------------------------------------------------------------------
(* Whole shares cost a natural number of cents. *)
LEMMA WholeSharesNat ==
    ASSUME NEW f \in Funds, NEW cost \in Costs
    PROVE  WholeShares(f, cost) \in Nat
<1>1. f \in Nat /\ cost \in Nat /\ cost > 0
  BY AmountsAssumption
<1>2. f \div cost \in Nat
  BY <1>1
<1>3. \A a, b \in Nat : a * b \in Nat
  OBVIOUS
<1>. QED  BY <1>1, <1>2, <1>3 DEF WholeShares

(* An action that writes one call leaves every other call alone. *)
LEMMA OneCall ==
    ASSUME call \in [Users -> [Commands -> Call]],
           NEW u \in Users, NEW c \in Commands, NEW r \in Call,
           call' = [call EXCEPT ![u][c] = r]
    PROVE  /\ call' \in [Users -> [Commands -> Call]]
           /\ call'[u][c] = r
           /\ \A v \in Users, d \in Commands :
                v # u \/ d # c => call'[v][d] = call[v][d]
  OBVIOUS

(***************************************************************************)
(* What each kind of step writes into its call.                            *)
(***************************************************************************)
LEMMA GotoRecord ==
    ASSUME TypeInv, NEW u \in Users, NEW c \in Commands,
           NEW p \in Positions, Goto(u, c, p)
    PROVE  \E r \in Call :
             /\ call' = [call EXCEPT ![u][c] = r]
             /\ r.at = p /\ r.stock = call[u][c].stock /\ r.time = call[u][c].time
             /\ r.price = call[u][c].price /\ r.id = call[u][c].id /\ r.ok = call[u][c].ok
<1>. DEFINE r == [call[u][c] EXCEPT !.at = p]
<1>1. call \in [Users -> [Commands -> Call]]
  BY DEF TypeInv, TypeOK
<1>2. call[u][c] \in Call
  BY <1>1
<1>3. call' = [call EXCEPT ![u][c] = r]
  BY <1>1 DEF Goto, Call
<1>4. /\ r \in Call /\ r.at = p /\ r.stock = call[u][c].stock /\ r.time = call[u][c].time
      /\ r.price = call[u][c].price /\ r.id = call[u][c].id /\ r.ok = call[u][c].ok
  BY <1>2 DEF Call
<1>. HIDE DEF r
<1>. QED  BY <1>3, <1>4

LEMMA ReturnRecord ==
    ASSUME TypeInv, NEW u \in Users, NEW c \in Commands,
           NEW b \in BOOLEAN, Return(u, c, b)
    PROVE  \E r \in Call :
             /\ call' = [call EXCEPT ![u][c] = r]
             /\ r.at = "done" /\ r.ok = b /\ r.stock = call[u][c].stock
             /\ r.time = call[u][c].time /\ r.id = call[u][c].id
<1>. DEFINE r == [call[u][c] EXCEPT !.at = "done", !.ok = b]
<1>1. call \in [Users -> [Commands -> Call]]
  BY DEF TypeInv, TypeOK
<1>2. call[u][c] \in Call
  BY <1>1
<1>3. call' = [call EXCEPT ![u][c] = r]
  BY <1>1 DEF Return, Call
<1>4. /\ r \in Call /\ r.at = "done" /\ r.ok = b /\ r.stock = call[u][c].stock
      /\ r.time = call[u][c].time /\ r.id = call[u][c].id
  BY <1>2 DEF Call, Positions
<1>. HIDE DEF r
<1>. QED  BY <1>3, <1>4

LEMMA ReceiveRecord ==
    ASSUME TypeInv, NEW u \in Users, NEW c \in Commands,
           NEW s \in Stocks \cup {NoStock}, NEW p \in Nat, Receive(u, c, s, p)
    PROVE  \E r \in Call :
             /\ call' = [call EXCEPT ![u][c] = r]
             /\ r.at = FirstStatement(c) /\ r.stock = s /\ r.time = ServerTime(c)
<1>. DEFINE r == [at |-> FirstStatement(c), stock |-> s, price |-> p,
                  time |-> ServerTime(c), asked |-> now, id |-> 0, ok |-> FALSE]
<1>1. r \in Call
  BY DEF Call, FirstStatement, Positions, Statements, ServerTime, TypeInv, TypeOK
<1>2. call' = [call EXCEPT ![u][c] = r]
  BY DEF Receive
<1>. QED  BY <1>1, <1>2

(* The seven services receive three kinds of commands. *)
LEMMA ArrivalKinds ==
    ASSUME NEW u \in Users, NEW c \in Commands, Arrival(u, c)
    PROVE  \/ c = "ADD" /\ ReceiveAdd(u)
           \/ c \in {"BUY", "SELL"} /\ ReceiveOrder(u, c)
           \/ c \in Settlements /\ ReceiveSettlement(u, c)
BY DEF Arrival, ReceiveBuy, ReceiveSell, ReceiveBuyCommit, ReceiveBuyCancel,
       ReceiveSellCommit, ReceiveSellCancel, Settlements

(* Every command that arrives is received with a stock or none, and a price. *)
LEMMA ArrivalReceives ==
    ASSUME NEW u \in Users, NEW c \in Commands, Arrival(u, c)
    PROVE  \E s \in Stocks \cup {NoStock}, p \in Nat : Receive(u, c, s, p)
<1>1. CASE c = "ADD" /\ ReceiveAdd(u)
  BY <1>1, AmountsAssumption DEF ReceiveAdd
<1>2. CASE c \in {"BUY", "SELL"} /\ ReceiveOrder(u, c)
  BY <1>2, WholeSharesNat DEF ReceiveOrder
<1>3. CASE c \in Settlements /\ ReceiveSettlement(u, c)
  BY <1>3 DEF ReceiveSettlement
<1>. QED  BY <1>1, <1>2, <1>3, ArrivalKinds

LEMMA SelectRecord ==
    ASSUME TypeInv, NEW u \in Users, NEW c \in Commands, SelectLatest(u, c),
           ~Return(u, c, FALSE)
    PROVE  \E r \in Call, t \in transactions :
             /\ call' = [call EXCEPT ![u][c] = r]
             /\ r.at \in {"credit", "expire"} /\ r.id = t.id /\ t.user = u
<1>1. call[u][c] \in Call
  BY DEF TypeInv, TypeOK
<1>2. PICK t \in Latest(u, Side(c)) :
        call' = [call EXCEPT ![u][c] = [call[u][c] EXCEPT
                   !.at = IF Expired(call[u][c].time, t) THEN "expire" ELSE "credit",
                   !.stock = t.stock, !.price = t.price, !.id = t.id]]
  BY DEF SelectLatest
<1>. DEFINE r == [call[u][c] EXCEPT
                   !.at = IF Expired(call[u][c].time, t) THEN "expire" ELSE "credit",
                   !.stock = t.stock, !.price = t.price, !.id = t.id]
<1>3. t \in transactions /\ t \in Row /\ t.user = u
  BY DEF Latest, Pending, TypeInv, TypeOK
<1>4. r \in Call /\ r.at \in {"credit", "expire"} /\ r.id = t.id
  BY <1>1, <1>3 DEF Call, Row, Positions, Statements
<1>5. call' = [call EXCEPT ![u][c] = r]
  BY <1>2
<1>. HIDE DEF r
<1>. QED  BY <1>3, <1>4, <1>5

LEMMA CreditRecord ==
    ASSUME TypeInv, NEW u \in Users, NEW c \in Commands, Credit(u, c)
    PROVE  \E r \in Call :
             /\ call' = [call EXCEPT ![u][c] = r]
             /\ r.at = "clear" /\ r.id = call[u][c].id
<1>. DEFINE r == [call[u][c] EXCEPT !.at = "clear", !.ok = (call[u][c].at = "credit")]
<1>1. call[u][c] \in Call
  BY DEF TypeInv, TypeOK
<1>2. r \in Call /\ r.at = "clear" /\ r.id = call[u][c].id
  BY <1>1 DEF Call, Positions, Statements
<1>3. call' = [call EXCEPT ![u][c] = r]
  BY DEF Credit
<1>. HIDE DEF r
<1>. QED  BY <1>2, <1>3

LEMMA RetryRecord ==
    ASSUME TypeInv, NEW u \in Users, NEW c \in Commands, Retry(u, c)
    PROVE  \E r \in Call :
             /\ call' = [call EXCEPT ![u][c] = r]
             /\ r.at = FirstStatement(c) /\ r.time = ServerTime(c)
             /\ r.stock = call[u][c].stock
<1>. DEFINE r == [call[u][c] EXCEPT !.at = FirstStatement(c), !.time = ServerTime(c),
                                    !.id = 0, !.ok = FALSE]
<1>1. call[u][c] \in Call
  BY DEF TypeInv, TypeOK
<1>2. /\ r \in Call /\ r.at = FirstStatement(c) /\ r.time = ServerTime(c)
      /\ r.stock = call[u][c].stock
  BY <1>1 DEF Call, FirstStatement, ServerTime, Positions, Statements, TypeInv, TypeOK
<1>3. call' = [call EXCEPT ![u][c] = r]
  BY DEF Retry
<1>. HIDE DEF r
<1>. QED  BY <1>2, <1>3

LEMMA IdleRecord == IdleCall \in Call /\ IdleCall.time \in Nat /\ IdleCall.at = "idle"
BY DEF IdleCall, Call, Positions

(* The calls keep their types when one of them is written a proper value. *)
LEMMA TypedCall ==
    ASSUME TypeInv,
           NEW u \in Users, NEW c \in Commands, NEW r \in Call,
           call' = [call EXCEPT ![u][c] = r],
           c \in {"BUY", "SELL"} =>
             r.time \in Nat /\ (r.at # "idle" => r.stock \in Stocks)
    PROVE  call' \in [Users -> [Commands -> Call]] /\ OrdersNamed'
<1>1. call \in [Users -> [Commands -> Call]]
  BY DEF TypeInv, TypeOK
<1>2. /\ call' \in [Users -> [Commands -> Call]]
      /\ call'[u][c] = r
      /\ \A v \in Users, d \in Commands : v # u \/ d # c => call'[v][d] = call[v][d]
  BY <1>1, OneCall
<1>3. OrdersNamed'
  BY <1>2 DEF OrdersNamed, TypeInv, Commands
<1>. QED  BY <1>2, <1>3

LEMMA TypedGoto ==
    ASSUME TypeInv, NEW u \in Users, NEW c \in Commands,
           NEW p \in Positions, Goto(u, c, p), call[u][c].at # "idle"
    PROVE  call' \in [Users -> [Commands -> Call]] /\ OrdersNamed'
BY GotoRecord, TypedCall DEF TypeInv, OrdersNamed

LEMMA TypedReturn ==
    ASSUME TypeInv, NEW u \in Users, NEW c \in Commands,
           NEW b \in BOOLEAN, Return(u, c, b), call[u][c].at # "idle"
    PROVE  call' \in [Users -> [Commands -> Call]] /\ OrdersNamed'
BY ReturnRecord, TypedCall DEF TypeInv, OrdersNamed

-----------------------------------------------------------------------------
LEMMA TypeInit == Init => TypeInv
BY AmountsAssumption, ClockAssumption, NoStockAssumption
DEF Init, TypeInv, TypeOK, OrdersNamed, Call, IdleCall, Positions, Statements, Commands, Row

LEMMA TypeArrival ==
    ASSUME TypeInv, NEW u \in Users, NEW c \in Commands, Arrival(u, c)
    PROVE  TypeInv'
<1>1. CASE c = "ADD" /\ ReceiveAdd(u)
  <2>1. PICK f \in Funds : /\ Receive(u, c, NoStock, f)
                           /\ deposited' = [deposited EXCEPT ![u] = @ + f]
    BY <1>1 DEF ReceiveAdd
  <2>2. f \in Nat
    BY AmountsAssumption
  <2>3. call' \in [Users -> [Commands -> Call]] /\ OrdersNamed'
    BY <1>1, <2>1, <2>2, ReceiveRecord, TypedCall
  <2>. QED  BY <2>1, <2>2, <2>3 DEF Receive, TypeInv, TypeOK
<1>2. CASE c \in {"BUY", "SELL"} /\ ReceiveOrder(u, c)
  <2>1. PICK s \in Stocks, f \in Funds, cost \in Costs :
          Receive(u, c, s, WholeShares(f, cost)) /\ UNCHANGED deposited
    BY <1>2 DEF ReceiveOrder
  <2>2. ServerTime(c) \in Nat
    BY <1>2 DEF ServerTime, TypeInv, TypeOK
  <2>3. call' \in [Users -> [Commands -> Call]] /\ OrdersNamed'
    BY <2>1, <2>2, WholeSharesNat, ReceiveRecord, TypedCall
  <2>. QED  BY <2>1, <2>3 DEF Receive, TypeInv, TypeOK
<1>3. CASE c \in Settlements /\ ReceiveSettlement(u, c)
  <2>1. c \notin {"BUY", "SELL"} /\ Receive(u, c, NoStock, 0)
    BY <1>3 DEF Settlements, ReceiveSettlement
  <2>2. call' \in [Users -> [Commands -> Call]] /\ OrdersNamed'
    BY <2>1, ReceiveRecord, TypedCall
  <2>. QED  BY <1>3, <2>2 DEF ReceiveSettlement, Receive, TypeInv, TypeOK
<1>. QED  BY <1>1, <1>2, <1>3, ArrivalKinds

LEMMA TypeStatement ==
    ASSUME TypeInv, NEW u \in Users, NEW c \in Commands, Statement(u, c)
    PROVE  TypeInv'
<1>0. call[u][c] \in Call
  BY DEF TypeInv, TypeOK
<1>1. CASE c = "ADD" /\ AddUser(u)
  <2>1. call' \in [Users -> [Commands -> Call]] /\ OrdersNamed'
    BY <1>1, TypedReturn DEF AddUser
  <2>2. call[u][c].price \in Int
    BY <1>0 DEF Call
  <2>3. money' = [money EXCEPT ![u] = money[u] + call[u][c].price]
    BY <1>1 DEF AddUser
  <2>4. money' \in [Users -> Int]
    BY <2>2, <2>3 DEF TypeInv, TypeOK
  <2>. QED  BY <1>1, <2>1, <2>4 DEF AddUser, history, TypeInv, TypeOK
<1>2. CASE c = "BUY" /\ SelectMoney(u)
  <2>1. call' \in [Users -> [Commands -> Call]] /\ OrdersNamed'
    BY <1>2, TypedReturn, TypedGoto DEF SelectMoney, Positions, Statements
  <2>. QED  BY <1>2, <2>1 DEF SelectMoney, history, TypeInv, TypeOK
<1>3. CASE c = "BUY" /\ HoldMoney(u)
  <2>1. call' \in [Users -> [Commands -> Call]] /\ OrdersNamed'
    BY <1>3, TypedGoto DEF HoldMoney, Positions, Statements
  <2>2. call[u][c].price \in Int
    BY <1>0 DEF Call
  <2>3. money' = [money EXCEPT ![u] = money[u] - call[u][c].price]
    BY <1>3 DEF HoldMoney
  <2>4. money' \in [Users -> Int]
    BY <2>2, <2>3 DEF TypeInv, TypeOK
  <2>. QED  BY <1>3, <2>1, <2>4 DEF HoldMoney, history, TypeInv, TypeOK
<1>4. CASE c = "SELL" /\ SelectStock(u)
  <2>1. call' \in [Users -> [Commands -> Call]] /\ OrdersNamed'
    BY <1>4, TypedReturn, TypedGoto DEF SelectStock, Positions, Statements
  <2>. QED  BY <1>4, <2>1 DEF SelectStock, history, TypeInv, TypeOK
<1>5. CASE c = "SELL" /\ HoldStock(u)
  <2>1. call' \in [Users -> [Commands -> Call]] /\ OrdersNamed'
    BY <1>5, TypedGoto DEF HoldStock, Positions, Statements
  <2>2. call[u][c].price \in Int
    BY <1>0 DEF Call
  <2>3. stocks' = [stocks EXCEPT ![u][call[u][c].stock] = stocks[u][call[u][c].stock] - call[u][c].price]
    BY <1>5 DEF HoldStock
  <2>4. stocks' \in [Users -> [Stocks -> Int]]
    <3>1. call[u][c].stock \in Stocks
      BY <1>5 DEF HoldStock, TypeInv, OrdersNamed
    <3>. QED  BY <2>2, <2>3, <3>1 DEF TypeInv, TypeOK
  <2>. QED  BY <1>5, <2>1, <2>4 DEF HoldStock, history, TypeInv, TypeOK
<1>6. CASE c \in {"BUY", "SELL"} /\ FileTransaction(u, c)
  <2>1. call' \in [Users -> [Commands -> Call]] /\ OrdersNamed'
    BY <1>6, TypedReturn DEF FileTransaction
  <2>2. call[u][c].stock \in Stocks /\ call[u][c].time \in Nat /\ call[u][c].price \in Nat
    BY <1>0, <1>6 DEF FileTransaction, TypeInv, OrdersNamed, Call
  <2>3. transactions' \subseteq Row /\ nextId' \in Nat
    BY <1>6, <2>2 DEF FileTransaction, TypeInv, TypeOK, Row
  <2>. QED  BY <1>6, <2>1, <2>3 DEF FileTransaction, history, TypeInv, TypeOK
<1>7. CASE c \in Settlements /\ SelectLatest(u, c)
  <2>1. call' \in [Users -> [Commands -> Call]] /\ OrdersNamed'
    <3>1. CASE Return(u, c, FALSE)
      BY <1>7, <3>1, TypedReturn DEF SelectLatest
    <3>2. CASE ~Return(u, c, FALSE)
      <4>1. c \notin {"BUY", "SELL"}
        BY <1>7 DEF Settlements
      <4>2. SelectLatest(u, c) /\ ~Return(u, c, FALSE)
        BY <1>7, <3>2
      <4>3. PICK r \in Call, t \in transactions :
              /\ call' = [call EXCEPT ![u][c] = r]
              /\ r.at \in {"credit", "expire"} /\ r.id = t.id /\ t.user = u
        BY <4>2, SelectRecord
      <4>. QED  BY <4>1, <4>3, TypedCall
    <3>. QED  BY <3>1, <3>2
  <2>. QED  BY <1>7, <2>1 DEF SelectLatest, history, TypeInv, TypeOK
<1>8. CASE c \in Settlements /\ Credit(u, c)
  <2>4. call' \in [Users -> [Commands -> Call]] /\ OrdersNamed'
    BY <1>8, CreditRecord, TypedCall DEF Settlements
  <2>5. money' \in [Users -> Int] /\ stocks' \in [Users -> [Stocks -> Int]]
    <3>1. call[u][c].price \in Int
      BY <1>0 DEF Call
    <3>2. CASE CreditMoney(u, c)
      <4>1. money' = [money EXCEPT ![u] = money[u] + call[u][c].price] /\ stocks' = stocks
        BY <3>2 DEF CreditMoney
      <4>. QED  BY <3>1, <4>1 DEF TypeInv, TypeOK
    <3>3. CASE CreditStock(u, c)
      <4>1. /\ stocks' = [stocks EXCEPT ![u][call[u][c].stock] =
                            stocks[u][call[u][c].stock] + call[u][c].price]
            /\ money' = money
        BY <3>3 DEF CreditStock
      <4>2. CASE call[u][c].stock \in Stocks
        BY <3>1, <4>1, <4>2 DEF TypeInv, TypeOK
      <4>3. CASE call[u][c].stock \notin Stocks
        BY <4>1, <4>3 DEF TypeInv, TypeOK
      <4>. QED  BY <4>2, <4>3
    <3>. QED  BY <1>8, <3>2, <3>3 DEF Credit
  <2>6. settled' \subseteq Nat /\ resettled' \subseteq Nat
    BY <1>0, <1>8 DEF Credit, TypeInv, TypeOK, Call
  <2>. QED  BY <1>8, <2>4, <2>5, <2>6 DEF Credit, TypeInv, TypeOK
<1>9. CASE c \in Settlements /\ DeleteTransaction(u, c)
  <2>1. call' \in [Users -> [Commands -> Call]] /\ OrdersNamed'
    BY <1>9, TypedGoto DEF DeleteTransaction, Positions
  <2>. QED  BY <1>9, <2>1 DEF DeleteTransaction, history, TypeInv, TypeOK
<1>. QED  BY <1>1, <1>2, <1>3, <1>4, <1>5, <1>6, <1>7, <1>8, <1>9 DEF Statement

LEMMA TypeRest ==
    ASSUME TypeInv, NEW u \in Users, NEW c \in Commands,
           Reply(u, c) \/ StatementOverflows(u, c) \/ Fault(u, c) \/ Retry(u, c)
    PROVE  TypeInv'
<1>0. call[u][c] \in Call
  BY DEF TypeInv, TypeOK
<1>1. CASE Reply(u, c)
  <2>2. call' \in [Users -> [Commands -> Call]] /\ OrdersNamed'
    BY <1>1, IdleRecord, TypedCall DEF Reply
  <2>. QED  BY <1>1, <2>2 DEF Reply, history, TypeInv, TypeOK
<1>2. CASE StatementOverflows(u, c)
  <2>1. call' \in [Users -> [Commands -> Call]] /\ OrdersNamed'
    BY <1>2, TypedGoto DEF StatementOverflows, Overflows, Positions
  <2>. QED  BY <1>2, <2>1 DEF StatementOverflows, history, TypeInv, TypeOK
<1>3. CASE Fault(u, c)
  <2>1. call' \in [Users -> [Commands -> Call]] /\ OrdersNamed'
    BY <1>3, TypedGoto DEF Fault, Positions, Statements
  <2>. QED  BY <1>3, <2>1 DEF Fault, history, TypeInv, TypeOK
<1>4. CASE Retry(u, c)
  <2>2. c \in {"BUY", "SELL"} => ServerTime(c) \in Nat /\ call[u][c].stock \in Stocks
    BY <1>4 DEF Retry, ServerTime, TypeInv, TypeOK, OrdersNamed
  <2>4. call' \in [Users -> [Commands -> Call]] /\ OrdersNamed'
    BY <1>4, <2>2, RetryRecord, TypedCall
  <2>. QED  BY <1>4, <2>4 DEF Retry, history, TypeInv, TypeOK
<1>. QED  BY <1>1, <1>2, <1>3, <1>4

LEMMA TypeClock ==
    ASSUME TypeInv, Advance \/ ClearExpired
    PROVE  TypeInv'
<1>1. CASE Advance
  <2>1. now' \in Nat
    BY <1>1, ClockAssumption DEF Advance, TypeInv, TypeOK
  <2>. QED  BY <1>1, <2>1 DEF Advance, history, TypeInv, TypeOK, OrdersNamed
<1>2. CASE ClearExpired
  <2>1. transactions' \subseteq Row
    BY <1>2 DEF ClearExpired, TypeInv, TypeOK
  <2>. QED  BY <1>2, <2>1 DEF ClearExpired, history, TypeInv, TypeOK, OrdersNamed
<1>. QED  BY <1>1, <1>2

LEMMA TypeStep == TypeInv /\ [Next]_vars => TypeInv'
<1>1. CASE UNCHANGED vars
  BY <1>1 DEF vars, history, TypeInv, TypeOK, OrdersNamed
<1>2. CASE Next
  BY <1>2, TypeArrival, TypeStatement, TypeRest, TypeClock DEF Next, Progress
<1>. QED  BY <1>1, <1>2

(* Every reachable state has the types that TypeOK says. *)
THEOREM TypeCorrect == Spec => []TypeOK
<1>1. TypeInv => TypeOK
  BY DEF TypeInv
<1>. QED  BY <1>1, TypeInit, TypeStep, PTL DEF Spec

-----------------------------------------------------------------------------
(***************************************************************************)
(* BalancesInRange is not inductive: between the SELECT and the UPDATE of  *)
(* an order the balance must still cover what the UPDATE takes.            *)
(***************************************************************************)
Covered(u) ==
    /\ call[u]["BUY"].at = "hold" => call[u]["BUY"].price <= money[u]
    /\ call[u]["SELL"].at = "hold" =>
         call[u]["SELL"].price <= stocks[u][call[u]["SELL"].stock]

BalanceInv == BalancesInRange /\ \A u \in Users : Covered(u)

(* A call that does not come to its UPDATE and writes no balance. *)
LEMMA QuietCall ==
    ASSUME TypeInv, BalanceInv, NEW u \in Users, NEW c \in Commands, NEW r \in Call,
           call' = [call EXCEPT ![u][c] = r], r.at # "hold",
           UNCHANGED <<money, stocks>>
    PROVE  BalanceInv'
<1>1. call \in [Users -> [Commands -> Call]]
  BY DEF TypeInv, TypeOK
<1>2. /\ call'[u][c] = r
      /\ \A v \in Users, d \in Commands : v # u \/ d # c => call'[v][d] = call[v][d]
  BY <1>1, OneCall
<1>3. "BUY" \in Commands /\ "SELL" \in Commands
  BY DEF Commands
<1>4. ASSUME NEW v \in Users PROVE Covered(v)'
  BY <1>2, <1>3 DEF Covered, BalanceInv
<1>. QED  BY <1>4 DEF BalanceInv, BalancesInRange

LEMMA QuietGoto ==
    ASSUME TypeInv, BalanceInv, NEW u \in Users, NEW c \in Commands,
           NEW p \in Positions, Goto(u, c, p), p # "hold", UNCHANGED <<money, stocks>>
    PROVE  BalanceInv'
BY GotoRecord, QuietCall

LEMMA QuietReturn ==
    ASSUME TypeInv, BalanceInv, NEW u \in Users, NEW c \in Commands,
           NEW b \in BOOLEAN, Return(u, c, b), UNCHANGED <<money, stocks>>
    PROVE  BalanceInv'
BY ReturnRecord, QuietCall

LEMMA BalanceArrival ==
    ASSUME TypeInv, BalanceInv, NEW u \in Users, NEW c \in Commands, Arrival(u, c)
    PROVE  BalanceInv'
<1>1. PICK s \in Stocks \cup {NoStock}, p \in Nat : Receive(u, c, s, p)
  BY ArrivalReceives
<1>2. FirstStatement(c) # "hold" /\ UNCHANGED <<money, stocks>>
  BY <1>1 DEF FirstStatement, Receive
<1>. QED  BY <1>1, <1>2, ReceiveRecord, QuietCall

(* A deposit or a settlement raises a balance and reaches no UPDATE of an order. *)
LEMMA RaisedMoney ==
    ASSUME TypeInv, BalanceInv, NEW u \in Users, NEW c \in Commands, NEW r \in Call,
           call' = [call EXCEPT ![u][c] = r], r.at # "hold",
           NEW n \in Nat, Fits(money[u] + n),
           money' = [money EXCEPT ![u] = money[u] + n], stocks' = stocks
    PROVE  BalanceInv'
<1>1. call \in [Users -> [Commands -> Call]] /\ money \in [Users -> Int]
  BY DEF TypeInv, TypeOK
<1>2. /\ call'[u][c] = r
      /\ \A v \in Users, d \in Commands : v # u \/ d # c => call'[v][d] = call[v][d]
  BY <1>1, OneCall
<1>3. "BUY" \in Commands /\ "SELL" \in Commands
  BY DEF Commands
<1>4. \A v \in Users : money'[v] >= money[v] /\ money'[v] \in 0 .. MaxInt
  BY <1>1, AmountsAssumption DEF BalanceInv, BalancesInRange, Fits
<1>5. ASSUME NEW v \in Users PROVE Covered(v)'
  <2>1. call[v]["BUY"] \in Call /\ money[v] \in Int /\ money'[v] \in Int
    BY <1>1, <1>3, <1>4
  <2>2. call[v]["BUY"].price \in Nat
    BY <2>1 DEF Call
  <2>3. call'[v]["BUY"].at = "hold" => call'[v]["BUY"].price <= money'[v]
    BY <1>2, <1>3, <1>4, <2>1, <2>2 DEF Covered, BalanceInv
  <2>. QED  BY <1>2, <1>3, <2>3 DEF Covered, BalanceInv
<1>. QED  BY <1>4, <1>5 DEF BalanceInv, BalancesInRange

LEMMA RaisedStock ==
    ASSUME TypeInv, BalanceInv, NEW u \in Users, NEW c \in Commands, NEW r \in Call,
           call' = [call EXCEPT ![u][c] = r], r.at # "hold",
           NEW n \in Nat, NEW s, Fits(stocks[u][s] + n),
           stocks' = [stocks EXCEPT ![u][s] = stocks[u][s] + n], money' = money
    PROVE  BalanceInv'
<1>1. call \in [Users -> [Commands -> Call]] /\ stocks \in [Users -> [Stocks -> Int]]
  BY DEF TypeInv, TypeOK
<1>2. /\ call'[u][c] = r
      /\ \A v \in Users, d \in Commands : v # u \/ d # c => call'[v][d] = call[v][d]
  BY <1>1, OneCall
<1>3. "BUY" \in Commands /\ "SELL" \in Commands
  BY DEF Commands
<1>4. \A v \in Users, x \in Stocks :
        stocks'[v][x] >= stocks[v][x] /\ stocks'[v][x] \in 0 .. MaxInt
  BY <1>1, AmountsAssumption DEF BalanceInv, BalancesInRange, Fits
<1>5. ASSUME NEW v \in Users PROVE Covered(v)'
  <2>1. call[v]["SELL"] \in Call
    BY <1>1, <1>3
  <2>2. call[v]["SELL"].price \in Nat
    BY <2>1 DEF Call
  <2>3. ASSUME call'[v]["SELL"].at = "hold"
        PROVE  call'[v]["SELL"].price <= stocks'[v][call'[v]["SELL"].stock]
    <3>1. call'[v]["SELL"] = call[v]["SELL"]
      BY <1>2, <1>3, <2>3
    <3>2. call[v]["SELL"].stock \in Stocks
      BY <2>3, <3>1 DEF TypeInv, OrdersNamed
    <3>3. call[v]["SELL"].price <= stocks[v][call[v]["SELL"].stock]
      BY <2>3, <3>1 DEF Covered, BalanceInv
    <3>4. stocks[v][call[v]["SELL"].stock] \in Int /\ stocks'[v][call[v]["SELL"].stock] \in Int
      BY <1>1, <1>4, <3>2
    <3>. QED  BY <1>4, <2>2, <3>1, <3>2, <3>3, <3>4
  <2>. QED  BY <1>2, <1>3, <2>3 DEF Covered, BalanceInv
<1>. QED  BY <1>4, <1>5 DEF BalanceInv, BalancesInRange

(* An order comes to its UPDATE once its SELECT saw a balance that covers it. *)
LEMMA SelectMoneyBalance ==
    ASSUME TypeInv, BalanceInv, NEW u \in Users, SelectMoney(u)
    PROVE  BalanceInv'
<1>0. "BUY" \in Commands /\ "SELL" \in Commands /\ UNCHANGED <<money, stocks>>
  BY DEF Commands, SelectMoney
<1>1. CASE Return(u, "BUY", FALSE)
  BY <1>0, <1>1, QuietReturn
<1>2. CASE call[u]["BUY"].price <= money[u] /\ Goto(u, "BUY", "hold")
  <2>1. PICK r \in Call : /\ call' = [call EXCEPT ![u]["BUY"] = r]
                          /\ r.price = call[u]["BUY"].price
    BY <1>0, <1>2, GotoRecord DEF Positions, Statements
  <2>2. /\ call'[u]["BUY"] = r
        /\ \A v \in Users, d \in Commands : v # u \/ d # "BUY" => call'[v][d] = call[v][d]
    BY <1>0, <2>1, OneCall DEF TypeInv, TypeOK
  <2>3. ASSUME NEW v \in Users PROVE Covered(v)'
    BY <1>0, <1>2, <2>1, <2>2 DEF Covered, BalanceInv
  <2>. QED  BY <1>0, <2>3 DEF BalanceInv, BalancesInRange
<1>. QED  BY <1>1, <1>2 DEF SelectMoney

LEMMA SelectStockBalance ==
    ASSUME TypeInv, BalanceInv, NEW u \in Users, SelectStock(u)
    PROVE  BalanceInv'
<1>0. "BUY" \in Commands /\ "SELL" \in Commands /\ UNCHANGED <<money, stocks>>
  BY DEF Commands, SelectStock
<1>1. CASE Return(u, "SELL", FALSE)
  BY <1>0, <1>1, QuietReturn
<1>2. CASE /\ call[u]["SELL"].price <= stocks[u][call[u]["SELL"].stock]
           /\ Goto(u, "SELL", "hold")
  <2>1. PICK r \in Call : /\ call' = [call EXCEPT ![u]["SELL"] = r]
                          /\ r.price = call[u]["SELL"].price
                          /\ r.stock = call[u]["SELL"].stock
    BY <1>0, <1>2, GotoRecord DEF Positions, Statements
  <2>2. /\ call'[u]["SELL"] = r
        /\ \A v \in Users, d \in Commands : v # u \/ d # "SELL" => call'[v][d] = call[v][d]
    BY <1>0, <2>1, OneCall DEF TypeInv, TypeOK
  <2>3. ASSUME NEW v \in Users PROVE Covered(v)'
    BY <1>0, <1>2, <2>1, <2>2 DEF Covered, BalanceInv
  <2>. QED  BY <1>0, <2>3 DEF BalanceInv, BalancesInRange
<1>. QED  BY <1>1, <1>2 DEF SelectStock

(* The UPDATE takes no more than the balance: nothing lowered it in between. *)
LEMMA HoldMoneyBalance ==
    ASSUME TypeInv, BalanceInv, NEW u \in Users, HoldMoney(u)
    PROVE  BalanceInv'
<1>. DEFINE n == call[u]["BUY"].price
<1>0. "BUY" \in Commands /\ "SELL" \in Commands
  BY DEF Commands
<1>1. call \in [Users -> [Commands -> Call]] /\ money \in [Users -> Int]
  BY DEF TypeInv, TypeOK
<1>2. call[u]["BUY"] \in Call
  BY <1>0, <1>1
<1>3. n \in Nat
  BY <1>2 DEF Call
<1>4. call[u]["BUY"].at = "hold" /\ stocks' = stocks
      /\ money' = [money EXCEPT ![u] = money[u] - n]
  BY DEF HoldMoney
<1>5. n <= money[u]
  BY <1>4 DEF BalanceInv, Covered
<1>6. \A v \in Users : money'[v] \in 0 .. MaxInt /\ (v # u => money'[v] = money[v])
  BY <1>1, <1>3, <1>4, <1>5, AmountsAssumption DEF BalanceInv, BalancesInRange
<1>7. PICK r \in Call : call' = [call EXCEPT ![u]["BUY"] = r] /\ r.at = "file"
  BY <1>0, GotoRecord DEF HoldMoney, Positions, Statements
<1>8. /\ call'[u]["BUY"] = r
      /\ \A v \in Users, d \in Commands : v # u \/ d # "BUY" => call'[v][d] = call[v][d]
  BY <1>0, <1>1, <1>7, OneCall
<1>9. ASSUME NEW v \in Users PROVE Covered(v)'
  BY <1>0, <1>4, <1>6, <1>7, <1>8 DEF Covered, BalanceInv
<1>. QED  BY <1>4, <1>6, <1>9 DEF BalanceInv, BalancesInRange

LEMMA HoldStockBalance ==
    ASSUME TypeInv, BalanceInv, NEW u \in Users, HoldStock(u)
    PROVE  BalanceInv'
<1>. DEFINE n == call[u]["SELL"].price
            s == call[u]["SELL"].stock
<1>0. "BUY" \in Commands /\ "SELL" \in Commands
  BY DEF Commands
<1>1. call \in [Users -> [Commands -> Call]] /\ stocks \in [Users -> [Stocks -> Int]]
  BY DEF TypeInv, TypeOK
<1>2. call[u]["SELL"] \in Call
  BY <1>0, <1>1
<1>3. n \in Nat
  BY <1>2 DEF Call
<1>4. call[u]["SELL"].at = "hold" /\ money' = money
      /\ stocks' = [stocks EXCEPT ![u][s] = stocks[u][s] - n]
  BY DEF HoldStock
<1>5. n <= stocks[u][s] /\ s \in Stocks
  BY <1>4 DEF BalanceInv, Covered, TypeInv, OrdersNamed
<1>. HIDE DEF n, s
<1>6. \A v \in Users, x \in Stocks :
        stocks'[v][x] \in 0 .. MaxInt /\ (v # u => stocks'[v][x] = stocks[v][x])
  BY <1>1, <1>3, <1>4, <1>5, AmountsAssumption DEF BalanceInv, BalancesInRange
<1>7. PICK r \in Call : call' = [call EXCEPT ![u]["SELL"] = r] /\ r.at = "file"
  BY <1>0, GotoRecord DEF HoldStock, Positions, Statements
<1>8. /\ call'[u]["SELL"] = r
      /\ \A v \in Users, d \in Commands : v # u \/ d # "SELL" => call'[v][d] = call[v][d]
  BY <1>0, <1>1, <1>7, OneCall
<1>9. ASSUME NEW v \in Users PROVE Covered(v)'
  <2>1. ASSUME call'[v]["SELL"].at = "hold"
        PROVE  call'[v]["SELL"].price <= stocks'[v][call'[v]["SELL"].stock]
    <3>1. v # u /\ call'[v]["SELL"] = call[v]["SELL"]
      BY <1>0, <1>7, <1>8, <2>1
    <3>2. call[v]["SELL"].stock \in Stocks
      BY <2>1, <3>1 DEF TypeInv, OrdersNamed
    <3>. QED  BY <1>6, <2>1, <3>1, <3>2 DEF Covered, BalanceInv
  <2>. QED  BY <1>0, <1>4, <1>8, <2>1 DEF Covered, BalanceInv
<1>. QED  BY <1>4, <1>6, <1>9 DEF BalanceInv, BalancesInRange

LEMMA BalanceStatement ==
    ASSUME TypeInv, BalanceInv, NEW u \in Users, NEW c \in Commands, Statement(u, c)
    PROVE  BalanceInv'
<1>0. call[u][c] \in Call
  BY DEF TypeInv, TypeOK
<1>1. call[u][c].price \in Nat
  BY <1>0 DEF Call
<1>2. CASE c = "ADD" /\ AddUser(u)
  <2>0. Return(u, c, TRUE) /\ TRUE \in BOOLEAN
    BY <1>2 DEF AddUser
  <2>1. PICK r \in Call : call' = [call EXCEPT ![u][c] = r] /\ r.at = "done"
    BY <2>0, ReturnRecord, ZenonT(60)
  <2>2. /\ Fits(money[u] + call[u][c].price) /\ stocks' = stocks
        /\ money' = [money EXCEPT ![u] = money[u] + call[u][c].price]
    BY <1>2 DEF AddUser
  <2>. QED  BY <1>1, <2>1, <2>2, RaisedMoney
<1>3. CASE \/ c = "BUY" /\ (SelectMoney(u) \/ HoldMoney(u))
           \/ c = "SELL" /\ (SelectStock(u) \/ HoldStock(u))
  BY <1>3, SelectMoneyBalance, HoldMoneyBalance, SelectStockBalance, HoldStockBalance
<1>4. CASE FileTransaction(u, c)
  BY <1>4, QuietReturn DEF FileTransaction
<1>5. CASE SelectLatest(u, c)
  <2>1. UNCHANGED <<money, stocks>>
    BY <1>5 DEF SelectLatest
  <2>2. CASE Return(u, c, FALSE)
    BY <2>1, <2>2, QuietReturn
  <2>3. CASE ~Return(u, c, FALSE)
    <3>1. PICK r \in Call, t \in transactions :
            /\ call' = [call EXCEPT ![u][c] = r]
            /\ r.at \in {"credit", "expire"} /\ r.id = t.id /\ t.user = u
      BY <1>5, <2>3, SelectRecord
    <3>. QED  BY <2>1, <3>1, QuietCall
  <2>. QED  BY <2>2, <2>3
<1>6. CASE Credit(u, c)
  <2>1. PICK r \in Call : call' = [call EXCEPT ![u][c] = r] /\ r.at = "clear"
    BY <1>6, CreditRecord
  <2>2. CASE CreditMoney(u, c)
    <3>1. /\ Fits(money[u] + call[u][c].price) /\ stocks' = stocks
          /\ money' = [money EXCEPT ![u] = money[u] + call[u][c].price]
      BY <2>2 DEF CreditMoney
    <3>. QED  BY <1>1, <2>1, <3>1, RaisedMoney
  <2>3. CASE CreditStock(u, c)
    <3>. DEFINE s == call[u][c].stock
    <3>1. /\ Fits(stocks[u][s] + call[u][c].price) /\ money' = money
          /\ stocks' = [stocks EXCEPT ![u][s] = stocks[u][s] + call[u][c].price]
      BY <2>3 DEF CreditStock
    <3>. QED  BY <1>1, <2>1, <3>1, RaisedStock
  <2>. QED  BY <1>6, <2>2, <2>3 DEF Credit
<1>7. CASE DeleteTransaction(u, c)
  BY <1>7, QuietGoto DEF DeleteTransaction, Positions
<1>. QED  BY <1>2, <1>3, <1>4, <1>5, <1>6, <1>7 DEF Statement

LEMMA BalanceRest ==
    ASSUME TypeInv, BalanceInv, NEW u \in Users, NEW c \in Commands,
           Reply(u, c) \/ StatementOverflows(u, c) \/ Fault(u, c) \/ Retry(u, c)
    PROVE  BalanceInv'
<1>1. CASE Reply(u, c)
  BY <1>1, IdleRecord, QuietCall DEF Reply
<1>2. CASE StatementOverflows(u, c) \/ Fault(u, c)
  BY <1>2, QuietGoto DEF StatementOverflows, Fault, Positions
<1>3. CASE Retry(u, c)
  <2>1. PICK r \in Call :
          call' = [call EXCEPT ![u][c] = r] /\ r.at = FirstStatement(c)
    BY <1>3, RetryRecord
  <2>2. UNCHANGED <<money, stocks>> /\ FirstStatement(c) # "hold"
    BY <1>3 DEF Retry, FirstStatement
  <2>. QED  BY <2>1, <2>2, QuietCall
<1>. QED  BY <1>1, <1>2, <1>3

LEMMA BalanceStep == TypeInv /\ BalanceInv /\ [Next]_vars => BalanceInv'
<1>1. CASE UNCHANGED <<money, stocks, call>>
  BY <1>1 DEF BalanceInv, BalancesInRange, Covered
<1>2. UNCHANGED vars \/ Advance \/ ClearExpired => UNCHANGED <<money, stocks, call>>
  BY DEF vars, Advance, ClearExpired
<1>. QED  BY <1>1, <1>2, BalanceArrival, BalanceStatement, BalanceRest DEF Next, Progress

LEMMA BalanceInit == Init => BalanceInv
BY AmountsAssumption DEF Init, BalanceInv, BalancesInRange, Covered, IdleCall, Commands

(***************************************************************************)
(* No interleaving of the statements of the procedures, no failed          *)
(* statement and no retry overdraws a balance or overflows its column.     *)
(***************************************************************************)
THEOREM BalancesCorrect == Spec => []BalancesInRange
<1>1. TypeInv /\ BalanceInv /\ [Next]_vars => (TypeInv /\ BalanceInv)'
  BY TypeStep, BalanceStep
<1>2. BalanceInv => BalancesInRange
  BY DEF BalanceInv
<1>. QED  BY <1>1, <1>2, TypeInit, BalanceInit, PTL DEF Spec
-----------------------------------------------------------------------------
(***************************************************************************)
(* A call that is about to delete its row, or that has answered success,   *)
(* has credited what the row held.                                         *)
(***************************************************************************)
Credited(k, c) ==
    /\ k.at = "clear" => k.id \in settled
    /\ c \in Settlements /\ k.at = "done" /\ k.ok => k.id \in settled

CreditInv == \A u \in Users, c \in Commands : Credited(call[u][c], c)

LEMMA CreditInit == Init => CreditInv
BY DEF Init, CreditInv, Credited, IdleCall

LEMMA CreditedCall ==
    ASSUME TypeInv, CreditInv, NEW u \in Users, NEW c \in Commands, NEW r \in Call,
           call' = [call EXCEPT ![u][c] = r], settled \subseteq settled',
           r.at = "clear" => r.id \in settled',
           c \in Settlements /\ r.at = "done" /\ r.ok => r.id \in settled'
    PROVE  CreditInv'
<1>1. call \in [Users -> [Commands -> Call]]
  BY DEF TypeInv, TypeOK
<1>2. /\ call'[u][c] = r
      /\ \A v \in Users, d \in Commands : v # u \/ d # c => call'[v][d] = call[v][d]
  BY <1>1, OneCall
<1>. QED  BY <1>2 DEF CreditInv, Credited

LEMMA CreditedGoto ==
    ASSUME TypeInv, CreditInv, NEW u \in Users, NEW c \in Commands, NEW p \in Positions,
           Goto(u, c, p), p \notin {"clear", "done"}, UNCHANGED settled
    PROVE  CreditInv'
<1>1. PICK r \in Call : call' = [call EXCEPT ![u][c] = r] /\ r.at = p
  BY GotoRecord
<1>. QED  BY <1>1, CreditedCall

LEMMA CreditedReturn ==
    ASSUME TypeInv, CreditInv, NEW u \in Users, NEW c \in Commands, NEW b \in BOOLEAN,
           Return(u, c, b), c \in Settlements => b = FALSE, UNCHANGED settled
    PROVE  CreditInv'
<1>1. PICK r \in Call : call' = [call EXCEPT ![u][c] = r] /\ r.at = "done" /\ r.ok = b
  BY ReturnRecord
<1>. QED  BY <1>1, CreditedCall

LEMMA CreditArrival ==
    ASSUME TypeInv, CreditInv, NEW u \in Users, NEW c \in Commands, Arrival(u, c)
    PROVE  CreditInv'
<1>1. PICK s \in Stocks \cup {NoStock}, p \in Nat : Receive(u, c, s, p)
  BY ArrivalReceives
<1>2. PICK r \in Call : call' = [call EXCEPT ![u][c] = r] /\ r.at = FirstStatement(c)
  BY <1>1, ReceiveRecord
<1>3. UNCHANGED settled
  BY <1>1 DEF Receive
<1>. QED  BY <1>2, <1>3, CreditedCall DEF FirstStatement

LEMMA CreditStatement ==
    ASSUME TypeInv, CreditInv, NEW u \in Users, NEW c \in Commands, Statement(u, c)
    PROVE  CreditInv'
<1>1. CASE c = "ADD" /\ AddUser(u)
  <2>1. Return(u, c, TRUE) /\ c \notin Settlements /\ UNCHANGED settled
    BY <1>1 DEF AddUser, Settlements, history
  <2>. QED  BY <2>1, CreditedReturn
<1>2. CASE \/ c = "BUY" /\ (SelectMoney(u) \/ HoldMoney(u))
           \/ c = "SELL" /\ (SelectStock(u) \/ HoldStock(u))
  <2>1. /\ \/ Goto(u, c, "hold") \/ Goto(u, c, "file")
           \/ Return(u, c, FALSE)
        /\ c \notin Settlements /\ UNCHANGED settled
    BY <1>2 DEF SelectMoney, HoldMoney, SelectStock, HoldStock, Settlements, history
  <2>. QED  BY <2>1, CreditedReturn, CreditedGoto DEF Positions, Statements
<1>3. CASE c \in {"BUY", "SELL"} /\ FileTransaction(u, c)
  <2>1. Return(u, c, TRUE) /\ c \notin Settlements /\ UNCHANGED settled
    BY <1>3 DEF FileTransaction, Settlements, history
  <2>. QED  BY <2>1, CreditedReturn
<1>4. CASE SelectLatest(u, c)
  <2>1. UNCHANGED settled
    BY <1>4 DEF SelectLatest, history
  <2>2. CASE Return(u, c, FALSE)
    BY <2>1, <2>2, CreditedReturn
  <2>3. CASE ~Return(u, c, FALSE)
    <3>1. PICK r \in Call, t \in transactions :
            call' = [call EXCEPT ![u][c] = r] /\ r.at \in {"credit", "expire"}
      BY <1>4, <2>3, SelectRecord, ZenonT(60)
    <3>. QED  BY <2>1, <3>1, CreditedCall
  <2>. QED  BY <2>2, <2>3
<1>5. CASE Credit(u, c)
  <2>1. PICK r \in Call : /\ call' = [call EXCEPT ![u][c] = r]
                          /\ r.at = "clear" /\ r.id = call[u][c].id
    BY <1>5, CreditRecord
  <2>2. settled' = settled \cup {call[u][c].id}
    BY <1>5 DEF Credit
  <2>. QED  BY <2>1, <2>2, CreditedCall
<1>6. CASE DeleteTransaction(u, c)
  <2>1. Goto(u, c, "done") /\ UNCHANGED settled /\ call[u][c].id \in settled
    BY <1>6 DEF DeleteTransaction, history, CreditInv, Credited
  <2>2. "done" \in Positions
    BY DEF Positions
  <2>3. PICK r \in Call : /\ call' = [call EXCEPT ![u][c] = r]
                          /\ r.at = "done" /\ r.id = call[u][c].id
    BY <2>1, <2>2, GotoRecord
  <2>. QED  BY <2>1, <2>3, CreditedCall
<1>. QED  BY <1>1, <1>2, <1>3, <1>4, <1>5, <1>6 DEF Statement

LEMMA CreditRest ==
    ASSUME TypeInv, CreditInv, NEW u \in Users, NEW c \in Commands,
           Reply(u, c) \/ StatementOverflows(u, c) \/ Fault(u, c) \/ Retry(u, c)
    PROVE  CreditInv'
<1>1. UNCHANGED settled
  BY DEF Reply, StatementOverflows, Fault, Retry, history
<1>2. CASE Reply(u, c)
  BY <1>1, <1>2, IdleRecord, CreditedCall DEF Reply
<1>3. CASE StatementOverflows(u, c) \/ Fault(u, c)
  BY <1>1, <1>3, CreditedGoto DEF StatementOverflows, Fault, Positions
<1>4. CASE Retry(u, c)
  <2>1. PICK r \in Call : call' = [call EXCEPT ![u][c] = r] /\ r.at = FirstStatement(c)
    BY <1>4, RetryRecord
  <2>. QED  BY <1>1, <2>1, CreditedCall DEF FirstStatement
<1>. QED  BY <1>2, <1>3, <1>4

LEMMA CreditStep == TypeInv /\ CreditInv /\ [Next]_vars => CreditInv'
<1>1. CASE UNCHANGED <<call, settled>>
  BY <1>1 DEF CreditInv, Credited
<1>2. UNCHANGED vars \/ Advance \/ ClearExpired => UNCHANGED <<call, settled>>
  BY DEF vars, history, Advance, ClearExpired
<1>. QED  BY <1>1, <1>2, CreditArrival, CreditStatement, CreditRest DEF Next, Progress

(***************************************************************************)
(* A commit or a cancel that answers success has credited the user, for    *)
(* every interleaving, fault and retry.                                    *)
(***************************************************************************)
THEOREM SuccessCorrect == Spec => []SuccessMeansSettled
<1>1. TypeInv /\ CreditInv /\ [Next]_vars => (TypeInv /\ CreditInv)'
  BY TypeStep, CreditStep
<1>2. CreditInv => SuccessMeansSettled
  BY DEF CreditInv, Credited, SuccessMeansSettled, Commands
<1>. QED  BY <1>1, <1>2, TypeInit, CreditInit, PTL DEF Spec

(* Beside the event only a delete by id takes rows away. *)
LEMMA RowsLeave ==
    ASSUME ~ClearExpired, CreditInv, [Next]_vars, NEW t \in transactions \ transactions'
    PROVE  t.id \in settled
<1>1. PICK u \in Users, c \in Commands : DeleteTransaction(u, c)
  <2>1. transactions' # transactions
    OBVIOUS
  <2>2. ~Advance /\ ~UNCHANGED vars
    BY <2>1 DEF Advance, vars
  <2>3. PICK u \in Users, c \in Commands : Arrival(u, c) \/ Progress(u, c) \/ Fault(u, c)
    BY <2>2 DEF Next
  <2>4. ~Arrival(u, c) /\ ~Fault(u, c)
    BY <2>1, ArrivalKinds DEF ReceiveAdd, ReceiveOrder, ReceiveSettlement, Receive, Fault
  <2>5. ~StatementOverflows(u, c) /\ ~Retry(u, c) /\ ~Reply(u, c)
    BY <2>1 DEF StatementOverflows, Retry, Reply
  <2>6. Statement(u, c)
    BY <2>3, <2>4, <2>5 DEF Progress
  <2>7. ~AddUser(u) /\ ~SelectMoney(u) /\ ~HoldMoney(u) /\ ~SelectStock(u)
        /\ ~HoldStock(u) /\ ~SelectLatest(u, c) /\ ~Credit(u, c)
    BY <2>1 DEF AddUser, SelectMoney, HoldMoney, SelectStock, HoldStock, SelectLatest, Credit
  <2>8. ~FileTransaction(u, c)
    BY DEF FileTransaction
  <2>. QED  BY <2>6, <2>7, <2>8 DEF Statement
<1>2. t.id = call[u][c].id /\ call[u][c].at = "clear"
  BY <1>1 DEF DeleteTransaction
<1>. QED  BY <1>2 DEF CreditInv, Credited

(***************************************************************************)
(* Beside the event nothing deletes a pending order before its held value  *)
(* was credited, for every interleaving, fault and retry.                  *)
(***************************************************************************)
THEOREM DeletesCorrect == Spec => ProceduresCreditFirst
<1>1. TypeInv /\ CreditInv /\ [Next]_vars => (TypeInv /\ CreditInv)'
  BY TypeStep, CreditStep
<1>2. CreditInv /\ [Next]_vars
        => [\A t \in transactions \ transactions' : t.id \in settled \/ ClearExpired]_vars
  BY RowsLeave
<1>. QED  BY <1>1, <1>2, TypeInit, CreditInit, PTL DEF Spec, ProceduresCreditFirst

(***************************************************************************)
(* With the event off, no pending order is deleted before its held value   *)
(* was credited at all.                                                    *)
(***************************************************************************)
THEOREM DeletesWithoutEvent == ~EventOn => (Spec => CreditBeforeDelete)
<1>. SUFFICES ASSUME ~EventOn PROVE Spec => CreditBeforeDelete
  OBVIOUS
<1>1. TypeInv /\ CreditInv /\ [Next]_vars => (TypeInv /\ CreditInv)'
  BY TypeStep, CreditStep
<1>2. CreditInv /\ [Next]_vars
        => [\A t \in transactions \ transactions' : t.id \in settled]_vars
  BY RowsLeave DEF ClearExpired
<1>. QED  BY <1>1, <1>2, TypeInit, CreditInit, PTL DEF Spec, CreditBeforeDelete

-----------------------------------------------------------------------------
(***************************************************************************)
(* Users who wait for each answer and statements that do not fail on their *)
(* own: what keeps an order from being settled twice.                      *)
(***************************************************************************)
Active == {"credit", "expire"}

(* A user has at most one command in flight. *)
OneInFlight ==
    \A u \in Users, c, d \in Commands :
      call[u][c].at # "idle" /\ call[u][d].at # "idle" => c = d

(* Every id in use was handed out before, and to one row. *)
IdsBelow ==
    /\ \A i \in settled : i < nextId
    /\ \A t \in transactions : t.id < nextId
IdsUnique == \A t1, t2 \in transactions : t1.id = t2.id => t1 = t2

(* An order that a settlement has selected is not settled yet and is its user's. *)
SelectedOpen ==
    \A u \in Users, c \in Commands :
      call[u][c].at \in Active =>
        /\ call[u][c].id \notin settled
        /\ call[u][c].id < nextId
        /\ \A t \in transactions : t.id = call[u][c].id => t.user = u

(* Two users never settle one order. *)
SelectedApart ==
    \A u, v \in Users, c, d \in Commands :
      /\ call[u][c].at \in Active
      /\ call[v][d].at \in Active
      /\ call[u][c].id = call[v][d].id
      => u = v

(* A row that is settled is about to be deleted by the call that settled it. *)
SettledClearing ==
    \A t \in transactions :
      t.id \in settled =>
        \E c \in Commands : call[t.user][c].at = "clear" /\ call[t.user][c].id = t.id

OnceInv ==
    /\ OneInFlight
    /\ IdsBelow
    /\ IdsUnique
    /\ SelectedOpen
    /\ SelectedApart
    /\ SettledClearing
    /\ resettled = {}

LEMMA OnceInit == Init => OnceInv
BY DEF Init, OnceInv, OneInFlight, IdsBelow, IdsUnique, SelectedOpen, SelectedApart,
       SettledClearing, IdleCall, Active

(* The calls of a user who has none in flight, or only call[u][c]. *)
Alone(u, c) == \A d \in Commands : d # c => call[u][d].at = "idle"

LEMMA AloneNow ==
    ASSUME OneInFlight, NEW u \in Users, NEW c \in Commands, call[u][c].at # "idle"
    PROVE  Alone(u, c)
BY DEF OneInFlight, Alone

LEMMA AloneStays ==
    ASSUME TypeInv, OneInFlight, NEW u \in Users, NEW c \in Commands, NEW r \in Call,
           call' = [call EXCEPT ![u][c] = r], Alone(u, c)
    PROVE  /\ OneInFlight'
           /\ call'[u][c] = r
           /\ \A v \in Users, d \in Commands : v # u \/ d # c => call'[v][d] = call[v][d]
<1>1. call \in [Users -> [Commands -> Call]]
  BY DEF TypeInv, TypeOK
<1>2. /\ call'[u][c] = r
      /\ \A v \in Users, d \in Commands : v # u \/ d # c => call'[v][d] = call[v][d]
  BY <1>1, OneCall
<1>. QED  BY <1>2 DEF OneInFlight, Alone

(* A step that neither selects, credits nor deletes. *)
LEMMA OnceQuiet ==
    ASSUME TypeInv, OnceInv, NEW u \in Users, NEW c \in Commands, NEW r \in Call,
           call' = [call EXCEPT ![u][c] = r], Alone(u, c),
           call[u][c].at # "clear", r.at \notin Active,
           UNCHANGED <<transactions, nextId, settled, resettled>>
    PROVE  OnceInv'
<1>1. /\ OneInFlight'
      /\ call'[u][c] = r
      /\ \A v \in Users, d \in Commands : v # u \/ d # c => call'[v][d] = call[v][d]
  BY AloneStays DEF OnceInv
<1>2. IdsBelow' /\ IdsUnique' /\ resettled' = {}
  BY DEF OnceInv, IdsBelow, IdsUnique
<1>3. SelectedOpen' /\ SelectedApart'
  BY <1>1 DEF OnceInv, SelectedOpen, SelectedApart
<1>4. SettledClearing'
  BY <1>1 DEF OnceInv, SettledClearing, TypeInv, TypeOK, Row
<1>. QED  BY <1>1, <1>2, <1>3, <1>4 DEF OnceInv

(* The INSERT of an order: its id is new. *)
LEMMA OnceFile ==
    ASSUME TypeInv, OnceInv, NEW u \in Users, NEW c \in {"BUY", "SELL"},
           FileTransaction(u, c)
    PROVE  OnceInv'
<1>0. c \in Commands /\ nextId \in Nat /\ settled \subseteq Nat /\ transactions \subseteq Row
  BY DEF Commands, TypeInv, TypeOK
<1>1. PICK r \in Call : call' = [call EXCEPT ![u][c] = r] /\ r.at = "done"
  <2>1. Return(u, c, TRUE) /\ TRUE \in BOOLEAN
    BY DEF FileTransaction
  <2>2. c \in Commands
    BY <1>0
  <2>3. \E r \in Call : /\ call' = [call EXCEPT ![u][c] = r]
                        /\ r.at = "done" /\ r.ok = TRUE /\ r.stock = call[u][c].stock
                        /\ r.time = call[u][c].time /\ r.id = call[u][c].id
    BY <2>1, <2>2, ReturnRecord, Zenon
  <2>. QED  BY <2>3
<1>2. call[u][c].at = "file" /\ Alone(u, c)
  BY <1>0, AloneNow DEF FileTransaction, OnceInv
<1>3. /\ OneInFlight'
      /\ call'[u][c] = r
      /\ \A v \in Users, d \in Commands : v # u \/ d # c => call'[v][d] = call[v][d]
  BY <1>0, <1>1, <1>2, AloneStays DEF OnceInv
<1>4. PICK n : n.id = nextId /\ transactions' = transactions \cup {n}
  BY DEF FileTransaction
<1>5. nextId' = nextId + 1 /\ settled' = settled /\ resettled' = resettled
  BY DEF FileTransaction, history
<1>6. n.id \notin settled /\ \A t \in transactions : t.id # n.id
  BY <1>0, <1>4 DEF OnceInv, IdsBelow
<1>7. IdsBelow'
  <2>1. \A i \in settled' : i < nextId'
    BY <1>0, <1>5 DEF OnceInv, IdsBelow
  <2>2. \A t \in transactions' : t.id < nextId'
    BY <1>0, <1>4, <1>5 DEF OnceInv, IdsBelow, Row
  <2>. QED  BY <2>1, <2>2 DEF IdsBelow
<1>8. IdsUnique'
  BY <1>4, <1>6 DEF OnceInv, IdsUnique
<1>9. SelectedOpen'
  <2>1. ASSUME NEW v \in Users, NEW d \in Commands, call'[v][d].at \in Active
        PROVE  /\ call'[v][d].id \notin settled'
               /\ call'[v][d].id < nextId'
               /\ \A t \in transactions' : t.id = call'[v][d].id => t.user = v
    <3>1. call'[v][d] = call[v][d]
      BY <1>1, <1>3, <2>1 DEF Active
    <3>2. call[v][d].id \in Nat
      BY DEF TypeInv, TypeOK, Call
    <3>3. /\ call[v][d].id \notin settled /\ call[v][d].id < nextId
          /\ \A t \in transactions : t.id = call[v][d].id => t.user = v
      BY <2>1, <3>1 DEF OnceInv, SelectedOpen
    <3>4. call[v][d].id < nextId + 1 /\ call[v][d].id # nextId
      BY <1>0, <3>2, <3>3
    <3>. QED  BY <1>4, <1>5, <3>1, <3>3, <3>4
  <2>. QED  BY <2>1 DEF SelectedOpen
<1>10. SelectedApart'
  BY <1>1, <1>3 DEF OnceInv, SelectedApart, Active
<1>11. SettledClearing'
  <2>1. ASSUME NEW t \in transactions', t.id \in settled'
        PROVE  \E d \in Commands : call'[t.user][d].at = "clear" /\ call'[t.user][d].id = t.id
    <3>1. t \in transactions /\ t.user \in Users
      BY <1>0, <1>4, <1>5, <1>6, <2>1 DEF Row
    <3>2. PICK d \in Commands : call[t.user][d].at = "clear" /\ call[t.user][d].id = t.id
      BY <1>5, <2>1, <3>1 DEF OnceInv, SettledClearing
    <3>. QED  BY <1>2, <1>3, <3>1, <3>2
  <2>. QED  BY <2>1 DEF SettledClearing
<1>. QED  BY <1>3, <1>5, <1>7, <1>8, <1>9, <1>10, <1>11 DEF OnceInv

(* The SELECT of a settlement: the row it finds is its user's and not settled. *)
LEMMA OnceSelect ==
    ASSUME TypeInv, OnceInv, NEW u \in Users, NEW c \in Commands, SelectLatest(u, c),
           ~Return(u, c, FALSE)
    PROVE  OnceInv'
<1>1. PICK r \in Call, t \in transactions :
        /\ call' = [call EXCEPT ![u][c] = r]
        /\ r.at \in {"credit", "expire"} /\ r.id = t.id /\ t.user = u
  BY SelectRecord
<1>2. /\ call[u][c].at = "select" /\ Alone(u, c)
      /\ UNCHANGED <<transactions, nextId, settled, resettled>>
  BY AloneNow DEF SelectLatest, OnceInv, history
<1>3. /\ OneInFlight'
      /\ call'[u][c] = r
      /\ \A v \in Users, d \in Commands : v # u \/ d # c => call'[v][d] = call[v][d]
  BY <1>1, <1>2, AloneStays DEF OnceInv
<1>4. t.id \notin settled
  <2>1. \A d \in Commands : call[u][d].at # "clear"
    BY <1>2 DEF Alone
  <2>. QED  BY <1>1, <2>1 DEF OnceInv, SettledClearing
<1>5. IdsBelow' /\ IdsUnique' /\ resettled' = {}
  BY <1>2 DEF OnceInv, IdsBelow, IdsUnique
<1>6. SelectedOpen'
  <2>1. t.id < nextId /\ \A t2 \in transactions : t2.id = t.id => t2.user = u
    BY <1>1 DEF OnceInv, IdsBelow, IdsUnique
  <2>. QED  BY <1>1, <1>2, <1>3, <1>4, <2>1 DEF OnceInv, SelectedOpen
<1>7. SelectedApart'
  <2>1. ASSUME NEW v \in Users, NEW d \in Commands,
               call[v][d].at \in Active, call[v][d].id = t.id
        PROVE  v = u
    BY <1>1, <2>1 DEF OnceInv, SelectedOpen
  <2>. QED  BY <1>1, <1>3, <2>1 DEF OnceInv, SelectedApart
<1>8. SettledClearing'
  <2>1. ASSUME NEW t2 \in transactions', t2.id \in settled'
        PROVE  \E d \in Commands : (call[t2.user][d].at = "clear" /\ call[t2.user][d].id = t2.id)'
    <3>1. t2 \in transactions /\ t2.id \in settled /\ t2.user \in Users
      BY <1>2, <2>1 DEF TypeInv, TypeOK, Row
    <3>2. PICK d \in Commands : call[t2.user][d].at = "clear" /\ call[t2.user][d].id = t2.id
      BY <3>1 DEF OnceInv, SettledClearing
    <3>3. t2.user # u \/ d # c
      BY <1>2, <3>2
    <3>. QED  BY <1>3, <3>1, <3>2, <3>3
  <2>. QED  BY <2>1 DEF SettledClearing
<1>. QED  BY <1>3, <1>5, <1>6, <1>7, <1>8 DEF OnceInv

(* The credit of a settlement: its order was open, and is settled from now on. *)
LEMMA OnceCredit ==
    ASSUME TypeInv, OnceInv, NEW u \in Users, NEW c \in Commands, Credit(u, c)
    PROVE  OnceInv'
<1>1. PICK r \in Call :
        /\ call' = [call EXCEPT ![u][c] = r] /\ r.at = "clear" /\ r.id = call[u][c].id
  BY CreditRecord
<1>2. /\ call[u][c].at \in Active /\ Alone(u, c)
      /\ UNCHANGED <<transactions, nextId>> /\ settled' = settled \cup {call[u][c].id}
  BY AloneNow DEF Credit, OnceInv, Active
<1>3. /\ OneInFlight'
      /\ call'[u][c] = r
      /\ \A v \in Users, d \in Commands : v # u \/ d # c => call'[v][d] = call[v][d]
  BY <1>1, <1>2, AloneStays DEF OnceInv
<1>4. /\ call[u][c].id \notin settled
      /\ call[u][c].id < nextId
      /\ \A t \in transactions : t.id = call[u][c].id => t.user = u
  BY <1>2 DEF OnceInv, SelectedOpen
<1>5. resettled' = {}
  BY <1>4 DEF Credit, OnceInv
<1>6. IdsBelow' /\ IdsUnique'
  BY <1>2, <1>4 DEF OnceInv, IdsBelow, IdsUnique
<1>7. SelectedOpen'
  <2>1. ASSUME NEW v \in Users, NEW d \in Commands, call'[v][d].at \in Active
        PROVE  /\ call'[v][d].id \notin settled'
               /\ call'[v][d].id < nextId'
               /\ \A t \in transactions' : t.id = call'[v][d].id => t.user = v
    <3>1. call'[v][d] = call[v][d] /\ v # u
      BY <1>1, <1>2, <1>3, <2>1 DEF Active, Alone
    <3>2. call[v][d].id # call[u][c].id
      BY <1>2, <2>1, <3>1 DEF OnceInv, SelectedApart
    <3>. QED  BY <1>2, <2>1, <3>1, <3>2 DEF OnceInv, SelectedOpen
  <2>. QED  BY <2>1 DEF SelectedOpen
<1>8. SelectedApart'
  BY <1>1, <1>3 DEF OnceInv, SelectedApart, Active
<1>9. SettledClearing'
  <2>1. ASSUME NEW t \in transactions, t.id \in settled'
        PROVE  \E d \in Commands : call'[t.user][d].at = "clear" /\ call'[t.user][d].id = t.id
    <3>1. CASE t.id = call[u][c].id
      BY <1>1, <1>3, <1>4, <3>1
    <3>2. CASE t.id \in settled
      <4>1. PICK d \in Commands : call[t.user][d].at = "clear" /\ call[t.user][d].id = t.id
        BY <3>2 DEF OnceInv, SettledClearing
      <4>2. t.user \in Users /\ (t.user # u \/ d # c)
        BY <1>2, <4>1 DEF Active, TypeInv, TypeOK, Row
      <4>. QED  BY <1>3, <4>1, <4>2
    <3>. QED  BY <1>2, <2>1, <3>1, <3>2
  <2>. QED  BY <1>2, <2>1 DEF SettledClearing
<1>. QED  BY <1>3, <1>5, <1>6, <1>7, <1>8, <1>9 DEF OnceInv

(* The delete of a settlement. *)
LEMMA OnceDelete ==
    ASSUME TypeInv, OnceInv, NEW u \in Users, NEW c \in Commands, DeleteTransaction(u, c)
    PROVE  OnceInv'
<1>1. PICK r \in Call : call' = [call EXCEPT ![u][c] = r] /\ r.at = "done"
  <2>1. Goto(u, c, "done") /\ "done" \in Positions
    BY DEF DeleteTransaction, Positions
  <2>. QED  BY <2>1, GotoRecord
<1>2. /\ call[u][c].at = "clear" /\ Alone(u, c)
      /\ UNCHANGED <<nextId, settled, resettled>>
      /\ transactions' = {t \in transactions : t.id # call[u][c].id}
  BY AloneNow DEF DeleteTransaction, OnceInv, history
<1>3. /\ OneInFlight'
      /\ call'[u][c] = r
      /\ \A v \in Users, d \in Commands : v # u \/ d # c => call'[v][d] = call[v][d]
  BY <1>1, <1>2, AloneStays DEF OnceInv
<1>4. IdsBelow' /\ IdsUnique' /\ resettled' = {}
  BY <1>2 DEF OnceInv, IdsBelow, IdsUnique
<1>5. SelectedOpen' /\ SelectedApart'
  BY <1>1, <1>2, <1>3 DEF OnceInv, SelectedOpen, SelectedApart, Active
<1>6. SettledClearing'
  <2>1. ASSUME NEW t \in transactions, t.id # call[u][c].id, t.id \in settled
        PROVE  \E d \in Commands : call'[t.user][d].at = "clear" /\ call'[t.user][d].id = t.id
    <3>1. PICK d \in Commands : call[t.user][d].at = "clear" /\ call[t.user][d].id = t.id
      BY <2>1 DEF OnceInv, SettledClearing
    <3>2. t.user \in Users /\ (t.user # u \/ d # c)
      BY <2>1, <3>1 DEF TypeInv, TypeOK, Row
    <3>. QED  BY <1>3, <3>1, <3>2
  <2>. QED  BY <1>2, <2>1 DEF SettledClearing
<1>. QED  BY <1>3, <1>4, <1>5, <1>6 DEF OnceInv

(* The clock and the event leave calls and ids alone. *)
LEMMA OnceClock ==
    ASSUME OnceInv, Advance \/ ClearExpired \/ UNCHANGED vars
    PROVE  OnceInv'
<1>1. /\ UNCHANGED <<nextId, call, settled, resettled>>
      /\ transactions' \subseteq transactions
  BY DEF Advance, ClearExpired, vars, history
<1>2. OneInFlight' /\ SelectedApart'
  BY <1>1 DEF OnceInv, OneInFlight, SelectedApart
<1>3. IdsBelow' /\ IdsUnique' /\ SelectedOpen' /\ SettledClearing'
  BY <1>1 DEF OnceInv, IdsBelow, IdsUnique, SelectedOpen, SettledClearing
<1>. QED  BY <1>1, <1>2, <1>3 DEF OnceInv

LEMMA OnceArrival ==
    ASSUME Serial, TypeInv, OnceInv, NEW u \in Users, NEW c \in Commands, Arrival(u, c)
    PROVE  OnceInv'
<1>1. PICK s \in Stocks \cup {NoStock}, p \in Nat : Receive(u, c, s, p)
  BY ArrivalReceives
<1>2. PICK r \in Call : call' = [call EXCEPT ![u][c] = r] /\ r.at = FirstStatement(c)
  BY <1>1, ReceiveRecord
<1>3. /\ Alone(u, c) /\ call[u][c].at = "idle"
      /\ UNCHANGED <<transactions, nextId, settled, resettled>>
  BY <1>1 DEF Receive, MayStart, Alone
<1>. QED  BY <1>2, <1>3, OnceQuiet DEF FirstStatement, Active

(* The statements that only move their call on to a quiet place. *)
LEMMA OnceGoto ==
    ASSUME TypeInv, OnceInv, NEW u \in Users, NEW c \in Commands,
           NEW p \in Positions \ (Active \cup {"clear"}),
           Goto(u, c, p), call[u][c].at \notin {"idle", "clear"},
           UNCHANGED <<transactions, nextId, settled, resettled>>
    PROVE  OnceInv'
<1>1. PICK r \in Call : call' = [call EXCEPT ![u][c] = r] /\ r.at = p
  BY GotoRecord
<1>2. Alone(u, c)
  BY AloneNow DEF OnceInv
<1>. QED  BY <1>1, <1>2, OnceQuiet

LEMMA OnceReturn ==
    ASSUME TypeInv, OnceInv, NEW u \in Users, NEW c \in Commands, NEW b \in BOOLEAN,
           Return(u, c, b), call[u][c].at \notin {"idle", "clear"},
           UNCHANGED <<transactions, nextId, settled, resettled>>
    PROVE  OnceInv'
<1>1. PICK r \in Call : call' = [call EXCEPT ![u][c] = r] /\ r.at = "done"
  BY ReturnRecord
<1>2. Alone(u, c)
  BY AloneNow DEF OnceInv
<1>. QED  BY <1>1, <1>2, OnceQuiet DEF Active

LEMMA OnceStatement ==
    ASSUME TypeInv, OnceInv, NEW u \in Users, NEW c \in Commands, Statement(u, c)
    PROVE  OnceInv'
<1>1. CASE c = "ADD" /\ AddUser(u)
  <2>1. /\ Return(u, c, TRUE) /\ call[u][c].at \notin {"idle", "clear"}
        /\ UNCHANGED <<transactions, nextId, settled, resettled>>
    BY <1>1 DEF AddUser, history
  <2>. QED  BY <2>1, OnceReturn
<1>2. CASE \/ c = "BUY" /\ (SelectMoney(u) \/ HoldMoney(u))
           \/ c = "SELL" /\ (SelectStock(u) \/ HoldStock(u))
  <2>1. /\ \/ Goto(u, c, "hold") \/ Goto(u, c, "file")
           \/ Return(u, c, FALSE)
        /\ call[u][c].at \notin {"idle", "clear"}
        /\ UNCHANGED <<transactions, nextId, settled, resettled>>
    BY <1>2 DEF SelectMoney, HoldMoney, SelectStock, HoldStock, history
  <2>. QED  BY <2>1, OnceReturn, OnceGoto DEF Positions, Statements, Active
<1>3. CASE c \in {"BUY", "SELL"} /\ FileTransaction(u, c)
  BY <1>3, OnceFile
<1>4. CASE SelectLatest(u, c)
  <2>1. CASE Return(u, c, FALSE)
    <3>1. /\ call[u][c].at \notin {"idle", "clear"}
          /\ UNCHANGED <<transactions, nextId, settled, resettled>>
      BY <1>4 DEF SelectLatest, history
    <3>. QED  BY <2>1, <3>1, OnceReturn
  <2>. QED  BY <1>4, <2>1, OnceSelect
<1>. QED  BY <1>1, <1>2, <1>3, <1>4, OnceCredit, OnceDelete DEF Statement

LEMMA OnceRest ==
    ASSUME TypeInv, OnceInv, NEW u \in Users, NEW c \in Commands,
           Reply(u, c) \/ StatementOverflows(u, c) \/ Retry(u, c)
    PROVE  OnceInv'
<1>1. UNCHANGED <<transactions, nextId, settled, resettled>>
  BY DEF Reply, StatementOverflows, Retry, history
<1>2. call[u][c].at \notin {"idle", "clear"}
  BY DEF Reply, StatementOverflows, Overflows, Retry
<1>3. Alone(u, c)
  BY <1>2, AloneNow DEF OnceInv
<1>4. CASE Reply(u, c)
  BY <1>1, <1>2, <1>3, <1>4, IdleRecord, OnceQuiet DEF Reply, Active
<1>5. CASE StatementOverflows(u, c)
  BY <1>1, <1>2, <1>5, OnceGoto DEF StatementOverflows, Positions, Active
<1>6. CASE Retry(u, c)
  <2>1. PICK r \in Call : call' = [call EXCEPT ![u][c] = r] /\ r.at = FirstStatement(c)
    BY <1>6, RetryRecord
  <2>. QED  BY <1>1, <1>2, <1>3, <2>1, OnceQuiet DEF FirstStatement, Active
<1>. QED  BY <1>4, <1>5, <1>6

LEMMA OnceStep ==
    ASSUME Serial, MaxFaults = 0, TypeInv, OnceInv, [Next]_vars
    PROVE  OnceInv'
<1>1. \A u \in Users, c \in Commands : ~Fault(u, c)
  BY DEF Fault, TypeInv, TypeOK
<1>. QED  BY <1>1, OnceArrival, OnceStatement, OnceRest, OnceClock DEF Next, Progress

(***************************************************************************)
(* While every user waits for each answer and no statement fails on its    *)
(* own, no held value is credited twice, even with the event on and with   *)
(* statements that overflow.                                               *)
(***************************************************************************)
THEOREM SettledOnce == Serial /\ MaxFaults = 0 => (Spec => []SettledAtMostOnce)
<1>. SUFFICES ASSUME Serial, MaxFaults = 0 PROVE Spec => []SettledAtMostOnce
  OBVIOUS
<1>1. TypeInv /\ OnceInv /\ [Next]_vars => (TypeInv /\ OnceInv)'
  BY TypeStep, OnceStep
<1>2. OnceInv => SettledAtMostOnce
  BY DEF OnceInv, SettledAtMostOnce
<1>. QED  BY <1>1, <1>2, TypeInit, OnceInit, PTL DEF Spec
-----------------------------------------------------------------------------
(***************************************************************************)
(* The steps of Ledger.  An order takes a positive amount; a settlement    *)
(* credits and deletes the row that it selected, which is still there, and *)
(* still the newest when it is credited.                                   *)
(***************************************************************************)
Positive ==
    \A u \in Users, c \in {"ADD", "BUY", "SELL"} :
      call[u][c].at # "idle" => call[u][c].price > 0

Selected(t, u, c) ==
    /\ t.id = call[u][c].id
    /\ t.user = u
    /\ t.type = Side(c)
    /\ t.price = call[u][c].price
    /\ t.stock = call[u][c].stock
    /\ call[u][c].at \in Active => \A t2 \in Pending(u, Side(c)) : t2.time <= t.time

SelectionStands ==
    \A u \in Users, c \in Commands :
      call[u][c].at \in Active \cup {"clear"} => \E t \in transactions : Selected(t, u, c)

SelectionInv == Positive /\ SelectionStands
(* Only call[u][c] is written. *)
Frame(u, c) == \A v \in Users, d \in Commands : v # u \/ d # c => call'[v][d] = call[v][d]

(* It keeps the row and the amount that it is about. *)
SameOrder(u, c) ==
    /\ call'[u][c].id = call[u][c].id
    /\ call'[u][c].stock = call[u][c].stock
    /\ call'[u][c].price = call[u][c].price

LEMMA GotoWrites ==
    ASSUME TypeInv, NEW u \in Users, NEW c \in Commands, NEW p \in Positions, Goto(u, c, p)
    PROVE  Frame(u, c) /\ SameOrder(u, c) /\ call'[u][c].at = p
<1>1. call \in [Users -> [Commands -> Call]]
  BY DEF TypeInv, TypeOK
<1>2. PICK r \in Call :
        /\ call' = [call EXCEPT ![u][c] = r]
        /\ r.at = p /\ r.stock = call[u][c].stock /\ r.time = call[u][c].time
        /\ r.price = call[u][c].price /\ r.id = call[u][c].id /\ r.ok = call[u][c].ok
  BY GotoRecord
<1>. QED  BY <1>1, <1>2, OneCall DEF Frame, SameOrder

LEMMA ReturnWrites ==
    ASSUME TypeInv, NEW u \in Users, NEW c \in Commands, NEW b \in BOOLEAN, Return(u, c, b)
    PROVE  Frame(u, c) /\ SameOrder(u, c) /\ call'[u][c].at = "done"
<1>1. call \in [Users -> [Commands -> Call]] /\ call[u][c] \in Call
  BY DEF TypeInv, TypeOK
<1>. DEFINE r == [call[u][c] EXCEPT !.at = "done", !.ok = b]
<1>2. call' = [call EXCEPT ![u][c] = r]
  BY <1>1 DEF Return, Call
<1>3. /\ r \in Call /\ r.at = "done" /\ r.stock = call[u][c].stock
      /\ r.price = call[u][c].price /\ r.id = call[u][c].id
  BY <1>1 DEF Call, Positions
<1>. HIDE DEF r
<1>. QED  BY <1>1, <1>2, <1>3, OneCall DEF Frame, SameOrder

LEMMA ReceiveWrites ==
    ASSUME TypeInv, NEW u \in Users, NEW c \in Commands,
           NEW s \in Stocks \cup {NoStock}, NEW p \in Nat, Receive(u, c, s, p)
    PROVE  Frame(u, c) /\ call'[u][c].at = FirstStatement(c) /\ call'[u][c].price = p
<1>1. call \in [Users -> [Commands -> Call]]
  BY DEF TypeInv, TypeOK
<1>. DEFINE r == [at |-> FirstStatement(c), stock |-> s, price |-> p,
                  time |-> ServerTime(c), asked |-> now, id |-> 0, ok |-> FALSE]
<1>2. call' = [call EXCEPT ![u][c] = r]
  BY DEF Receive
<1>3. r \in Call
  BY DEF Call, FirstStatement, Positions, Statements, ServerTime, TypeInv, TypeOK
<1>4. r.at = FirstStatement(c) /\ r.price = p
  OBVIOUS
<1>. HIDE DEF r
<1>. QED  BY <1>1, <1>2, <1>3, <1>4, OneCall DEF Frame

LEMMA SelectWrites ==
    ASSUME TypeInv, NEW u \in Users, NEW c \in Commands, SelectLatest(u, c), ~Return(u, c, FALSE)
    PROVE  \E t \in Latest(u, Side(c)) :
             /\ Frame(u, c)
             /\ call'[u][c].at \in Active
             /\ call'[u][c].id = t.id
             /\ call'[u][c].stock = t.stock
             /\ call'[u][c].price = t.price
<1>1. call \in [Users -> [Commands -> Call]] /\ call[u][c] \in Call
  BY DEF TypeInv, TypeOK
<1>2. PICK t \in Latest(u, Side(c)) :
        call' = [call EXCEPT ![u][c] = [call[u][c] EXCEPT
                   !.at = IF Expired(call[u][c].time, t) THEN "expire" ELSE "credit",
                   !.stock = t.stock, !.price = t.price, !.id = t.id]]
  BY DEF SelectLatest
<1>. DEFINE r == [call[u][c] EXCEPT
                   !.at = IF Expired(call[u][c].time, t) THEN "expire" ELSE "credit",
                   !.stock = t.stock, !.price = t.price, !.id = t.id]
<1>3. t \in Row
  BY DEF Latest, Pending, TypeInv, TypeOK
<1>4. /\ r \in Call /\ r.at \in Active /\ r.id = t.id
      /\ r.stock = t.stock /\ r.price = t.price
  BY <1>1, <1>3 DEF Call, Row, Positions, Statements, Active
<1>5. call' = [call EXCEPT ![u][c] = r]
  BY <1>2
<1>. HIDE DEF r
<1>. QED  BY <1>1, <1>4, <1>5, OneCall DEF Frame

LEMMA CreditWrites ==
    ASSUME TypeInv, NEW u \in Users, NEW c \in Commands, Credit(u, c)
    PROVE  Frame(u, c) /\ SameOrder(u, c) /\ call'[u][c].at = "clear"
<1>1. call \in [Users -> [Commands -> Call]] /\ call[u][c] \in Call
  BY DEF TypeInv, TypeOK
<1>. DEFINE r == [call[u][c] EXCEPT !.at = "clear", !.ok = (call[u][c].at = "credit")]
<1>2. /\ r \in Call /\ r.at = "clear" /\ r.id = call[u][c].id
      /\ r.stock = call[u][c].stock /\ r.price = call[u][c].price
  BY <1>1 DEF Call, Positions, Statements
<1>3. call' = [call EXCEPT ![u][c] = r]
  BY DEF Credit
<1>. HIDE DEF r
<1>. QED  BY <1>1, <1>2, <1>3, OneCall DEF Frame, SameOrder

LEMMA RetryWrites ==
    ASSUME TypeInv, NEW u \in Users, NEW c \in Commands, Retry(u, c)
    PROVE  /\ Frame(u, c)
           /\ call'[u][c].at = FirstStatement(c)
           /\ call'[u][c].price = call[u][c].price
<1>1. call \in [Users -> [Commands -> Call]] /\ call[u][c] \in Call
  BY DEF TypeInv, TypeOK
<1>. DEFINE r == [call[u][c] EXCEPT !.at = FirstStatement(c), !.time = ServerTime(c),
                                    !.id = 0, !.ok = FALSE]
<1>2. r \in Call /\ r.at = FirstStatement(c) /\ r.price = call[u][c].price
  BY <1>1 DEF Call, FirstStatement, ServerTime, Positions, Statements, TypeInv, TypeOK
<1>3. call' = [call EXCEPT ![u][c] = r]
  BY DEF Retry
<1>. HIDE DEF r
<1>. QED  BY <1>1, <1>2, <1>3, OneCall DEF Frame

LEMMA ReplyWrites ==
    ASSUME TypeInv, NEW u \in Users, NEW c \in Commands, Reply(u, c)
    PROVE  Frame(u, c) /\ call'[u][c].at = "idle"
<1>1. call \in [Users -> [Commands -> Call]]
  BY DEF TypeInv, TypeOK
<1>. QED  BY <1>1, IdleRecord, OneCall DEF Reply, Frame

(***************************************************************************)
(* A step that selects nothing and leaves the orders as they are.          *)
(***************************************************************************)
LEMMA SelectionQuiet ==
    ASSUME TypeInv, SelectionInv, NEW u \in Users, NEW c \in Commands, Frame(u, c),
           call'[u][c].at \notin Active \cup {"clear"}, UNCHANGED transactions,
           c \in {"ADD", "BUY", "SELL"} /\ call'[u][c].at # "idle" => call'[u][c].price > 0
    PROVE  SelectionInv'
<1>1. {"ADD", "BUY", "SELL"} \subseteq Commands
  BY DEF Commands
<1>2. Positive'
  BY <1>1 DEF Frame, SelectionInv, Positive
<1>3. ASSUME NEW v \in Users, NEW d \in Commands, call'[v][d].at \in Active \cup {"clear"}
      PROVE  \E t \in transactions' : Selected(t, v, d)'
  <2>1. call'[v][d] = call[v][d]
    BY <1>3 DEF Frame
  <2>2. PICK t \in transactions : Selected(t, v, d)
    BY <1>3, <2>1 DEF SelectionInv, SelectionStands
  <2>3. Selected(t, v, d)'
    BY <2>1, <2>2 DEF Selected, Pending
  <2>. QED  BY <2>2, <2>3
<1>. QED  BY <1>2, <1>3 DEF SelectionInv, SelectionStands
(* The INSERT of an order is not of a user who is settling one. *)
LEMMA SelectionFile ==
    ASSUME TypeInv, OnceInv, SelectionInv, NEW u \in Users, NEW c \in {"BUY", "SELL"},
           FileTransaction(u, c)
    PROVE  SelectionInv'
<1>1. c \in Commands /\ {"ADD", "BUY", "SELL"} \subseteq Commands
  BY DEF Commands
<1>2. call[u][c].at = "file" /\ Return(u, c, TRUE) /\ TRUE \in BOOLEAN /\ Alone(u, c)
  BY <1>1, AloneNow DEF FileTransaction, OnceInv
<1>3. Frame(u, c) /\ SameOrder(u, c) /\ call'[u][c].at = "done"
  BY <1>1, <1>2, ReturnWrites
<1>4. Positive'
  BY <1>1, <1>2, <1>3 DEF Frame, SameOrder, SelectionInv, Positive
<1>5. PICK n : n.user = u /\ transactions' = transactions \cup {n}
  BY DEF FileTransaction
<1>6. ASSUME NEW v \in Users, NEW d \in Commands, call'[v][d].at \in Active \cup {"clear"}
      PROVE  \E t \in transactions' : Selected(t, v, d)'
  <2>1. call'[v][d] = call[v][d] /\ v # u
    BY <1>1, <1>2, <1>3, <1>6 DEF Frame, Alone, Active
  <2>2. PICK t \in transactions : Selected(t, v, d)
    BY <1>6, <2>1 DEF SelectionInv, SelectionStands
  <2>3. Pending(v, Side(d))' = Pending(v, Side(d))
    BY <1>5, <2>1 DEF Pending
  <2>4. Selected(t, v, d)'
    BY <2>1, <2>2, <2>3 DEF Selected
  <2>. QED  BY <1>5, <2>2, <2>4
<1>. QED  BY <1>4, <1>6 DEF SelectionInv, SelectionStands

LEMMA SelectionSelect ==
    ASSUME TypeInv, SelectionInv, NEW u \in Users, NEW c \in Settlements,
           SelectLatest(u, c), ~Return(u, c, FALSE)
    PROVE  SelectionInv'
<1>1. c \in Commands /\ c \notin {"ADD", "BUY", "SELL"} /\ {"ADD", "BUY", "SELL"} \subseteq Commands
  BY DEF Commands, Settlements
<1>2. PICK t \in Latest(u, Side(c)) :
        /\ Frame(u, c)
        /\ call'[u][c].at \in Active
        /\ call'[u][c].id = t.id /\ call'[u][c].stock = t.stock /\ call'[u][c].price = t.price
  BY <1>1, SelectWrites
<1>3. UNCHANGED transactions
  BY DEF SelectLatest
<1>4. Positive'
  BY <1>1, <1>2 DEF Frame, SelectionInv, Positive
<1>5. ASSUME NEW v \in Users, NEW d \in Commands, call'[v][d].at \in Active \cup {"clear"}
      PROVE  \E x \in transactions' : Selected(x, v, d)'
  <2>1. CASE v = u /\ d = c
    <3>1. Selected(t, u, c)'
      BY <1>2, <1>3 DEF Selected, Latest, Pending
    <3>2. t \in transactions'
      BY <1>2, <1>3 DEF Latest, Pending
    <3>. QED  BY <2>1, <3>1, <3>2
  <2>2. CASE v # u \/ d # c
    <3>1. call'[v][d] = call[v][d]
      BY <1>2, <2>2 DEF Frame
    <3>2. PICK x \in transactions : Selected(x, v, d)
      BY <1>5, <3>1 DEF SelectionInv, SelectionStands
    <3>3. Selected(x, v, d)'
      BY <1>3, <3>1, <3>2 DEF Selected, Pending
    <3>. QED  BY <1>3, <3>2, <3>3
  <2>. QED  BY <2>1, <2>2
<1>. QED  BY <1>4, <1>5 DEF SelectionInv, SelectionStands

LEMMA SelectionCredit ==
    ASSUME TypeInv, SelectionInv, NEW u \in Users, NEW c \in Settlements, Credit(u, c)
    PROVE  SelectionInv'
<1>1. c \in Commands /\ c \notin {"ADD", "BUY", "SELL"} /\ {"ADD", "BUY", "SELL"} \subseteq Commands
  BY DEF Commands, Settlements
<1>2. Frame(u, c) /\ SameOrder(u, c) /\ call'[u][c].at = "clear"
  BY <1>1, CreditWrites
<1>3. UNCHANGED transactions /\ call[u][c].at \in Active
  BY DEF Credit, Active
<1>4. Positive'
  BY <1>1, <1>2 DEF Frame, SelectionInv, Positive
<1>5. ASSUME NEW v \in Users, NEW d \in Commands, call'[v][d].at \in Active \cup {"clear"}
      PROVE  \E x \in transactions' : Selected(x, v, d)'
  <2>1. call[v][d].at \in Active \cup {"clear"}
    BY <1>2, <1>3, <1>5 DEF Frame
  <2>2. PICK x \in transactions : Selected(x, v, d)
    BY <2>1 DEF SelectionInv, SelectionStands
  <2>3. CASE v = u /\ d = c
    <3>1. Selected(x, u, c)'
      BY <1>2, <2>2, <2>3 DEF Selected, SameOrder, Active
    <3>. QED  BY <1>3, <2>2, <2>3, <3>1
  <2>4. CASE v # u \/ d # c
    <3>1. call'[v][d] = call[v][d]
      BY <1>2, <2>4 DEF Frame
    <3>2. Selected(x, v, d)'
      BY <1>3, <2>2, <3>1 DEF Selected, Pending
    <3>. QED  BY <1>3, <2>2, <3>2
  <2>. QED  BY <2>3, <2>4
<1>. QED  BY <1>4, <1>5 DEF SelectionInv, SelectionStands

(* The DELETE takes away one row, which belongs to the user of its call. *)
LEMMA Deleted ==
    ASSUME OnceInv, SelectionInv, NEW u \in Users, NEW c \in Commands, DeleteTransaction(u, c)
    PROVE  \E t \in transactions : Selected(t, u, c) /\ transactions' = transactions \ {t}
<1>1. PICK t \in transactions : Selected(t, u, c)
  BY DEF DeleteTransaction, SelectionInv, SelectionStands
<1>2. \A x \in transactions : x.id = call[u][c].id <=> x = t
  BY <1>1 DEF Selected, OnceInv, IdsUnique
<1>3. transactions' = transactions \ {t}
  BY <1>2 DEF DeleteTransaction
<1>. QED  BY <1>1, <1>3

LEMMA SelectionDelete ==
    ASSUME TypeInv, OnceInv, SelectionInv, NEW u \in Users, NEW c \in Settlements,
           DeleteTransaction(u, c)
    PROVE  SelectionInv'
<1>1. c \in Commands /\ c \notin {"ADD", "BUY", "SELL"} /\ {"ADD", "BUY", "SELL"} \subseteq Commands
  BY DEF Commands, Settlements
<1>2. Goto(u, c, "done") /\ call[u][c].at = "clear" /\ "done" \in Positions
  BY DEF DeleteTransaction, Positions
<1>3. Frame(u, c) /\ call'[u][c].at = "done" /\ Alone(u, c)
  BY <1>1, <1>2, GotoWrites, AloneNow DEF OnceInv
<1>4. PICK n \in transactions : Selected(n, u, c) /\ transactions' = transactions \ {n}
  BY <1>1, Deleted
<1>5. Positive'
  BY <1>1, <1>3 DEF Frame, SelectionInv, Positive
<1>6. ASSUME NEW v \in Users, NEW d \in Commands, call'[v][d].at \in Active \cup {"clear"}
      PROVE  \E t \in transactions' : Selected(t, v, d)'
  <2>1. call'[v][d] = call[v][d] /\ v # u
    BY <1>1, <1>3, <1>6 DEF Frame, Alone, Active
  <2>2. PICK t \in transactions : Selected(t, v, d)
    BY <1>6, <2>1 DEF SelectionInv, SelectionStands
  <2>3. t # n
    BY <1>4, <2>1, <2>2 DEF Selected
  <2>4. Pending(v, Side(d))' \subseteq Pending(v, Side(d))
    BY <1>4 DEF Pending
  <2>5. Selected(t, v, d)'
    BY <2>1, <2>2, <2>4 DEF Selected
  <2>. QED  BY <1>4, <2>2, <2>3, <2>5
<1>. QED  BY <1>5, <1>6 DEF SelectionInv, SelectionStands
(* A step that neither moves value nor touches an order. *)
Idling(u, c) ==
    /\ Frame(u, c)
    /\ call[u][c].at \notin {"file", "clear"}
    /\ call'[u][c].at \notin Active \cup {"file", "clear"}
    /\ c \in {"ADD", "BUY", "SELL"} /\ call'[u][c].at # "idle" => call'[u][c].price > 0
    /\ UNCHANGED <<money, stocks, transactions, nextId>>

LEMMA PositiveShares ==
    ASSUME NEW f \in Funds, NEW cost \in Costs, f \div cost > 0
    PROVE  WholeShares(f, cost) > 0
<1>1. f \in Nat /\ cost \in Nat /\ cost > 0
  BY AmountsAssumption
<1>2. f \div cost \in Nat
  BY <1>1
<1>3. \A a, b \in Nat : a > 0 /\ b > 0 => a * b > 0
  OBVIOUS
<1>. QED  BY <1>1, <1>2, <1>3 DEF WholeShares

LEMMA ArrivalIdles ==
    ASSUME TypeInv, NEW u \in Users, NEW c \in Commands, Arrival(u, c)
    PROVE  Idling(u, c)
<1>1. \E s \in Stocks \cup {NoStock}, p \in Nat :
        Receive(u, c, s, p) /\ (c \in {"ADD", "BUY", "SELL"} => p > 0)
  <2>1. CASE c = "ADD" /\ ReceiveAdd(u)
    BY <2>1, AmountsAssumption DEF ReceiveAdd
  <2>2. CASE c \in {"BUY", "SELL"} /\ ReceiveOrder(u, c)
    BY <2>2, WholeSharesNat, PositiveShares DEF ReceiveOrder
  <2>3. CASE c \in Settlements /\ ReceiveSettlement(u, c)
    BY <2>3 DEF ReceiveSettlement, Settlements
  <2>. QED  BY <2>1, <2>2, <2>3, ArrivalKinds
<1>2. PICK s \in Stocks \cup {NoStock}, p \in Nat :
        Receive(u, c, s, p) /\ (c \in {"ADD", "BUY", "SELL"} => p > 0)
  BY <1>1
<1>3. Frame(u, c) /\ call'[u][c].at = FirstStatement(c) /\ call'[u][c].price = p
  BY <1>2, ReceiveWrites
<1>4. call[u][c].at = "idle" /\ UNCHANGED <<money, stocks, transactions, nextId>>
  BY <1>2 DEF Receive
<1>. QED  BY <1>2, <1>3, <1>4 DEF Idling, FirstStatement, Active

LEMMA RefusalIdles ==
    ASSUME TypeInv, SelectionInv, NEW u \in Users, NEW c \in Commands, call[u][c].at # "idle",
           call[u][c].at \notin {"file", "clear"},
           UNCHANGED <<money, stocks, transactions, nextId>>,
           \/ Return(u, c, FALSE)
           \/ Goto(u, c, "hold")
           \/ Goto(u, c, "failed")
    PROVE  Idling(u, c)
<1>1. /\ Frame(u, c) /\ SameOrder(u, c)
      /\ call'[u][c].at \in {"done", "hold", "failed"}
  <2>1. FALSE \in BOOLEAN /\ "hold" \in Positions /\ "failed" \in Positions
    BY DEF Positions, Statements
  <2>2. CASE Return(u, c, FALSE)
    BY <2>1, <2>2, ReturnWrites
  <2>3. CASE Goto(u, c, "hold")
    BY <2>1, <2>3, GotoWrites
  <2>4. CASE Goto(u, c, "failed")
    BY <2>1, <2>4, GotoWrites
  <2>. QED  BY <2>2, <2>3, <2>4
<1>2. c \in {"ADD", "BUY", "SELL"} => call[u][c].price > 0
  BY DEF SelectionInv, Positive
<1>. QED  BY <1>1, <1>2 DEF Idling, SameOrder, Active

LEMMA RestIdles ==
    ASSUME TypeInv, SelectionInv, NEW u \in Users, NEW c \in Commands,
           Reply(u, c) \/ StatementOverflows(u, c) \/ Retry(u, c)
    PROVE  Idling(u, c)
<1>1. UNCHANGED <<money, stocks, transactions, nextId>>
  BY DEF Reply, StatementOverflows, Retry
<1>2. CASE Reply(u, c)
  BY <1>1, <1>2, ReplyWrites DEF Reply, Idling, Active
<1>3. CASE StatementOverflows(u, c)
  BY <1>1, <1>3, RefusalIdles DEF StatementOverflows, Overflows
<1>4. CASE Retry(u, c)
  <2>1. call[u][c].at = "failed"
    BY <1>4 DEF Retry
  <2>2. c \in {"ADD", "BUY", "SELL"} => call[u][c].price > 0
    BY <2>1 DEF SelectionInv, Positive
  <2>3. /\ Frame(u, c) /\ call'[u][c].at = FirstStatement(c)
        /\ call'[u][c].price = call[u][c].price
    BY <1>4, RetryWrites
  <2>4. call'[u][c].at \notin Active \cup {"file", "clear"}
    BY <2>3 DEF FirstStatement, Active
  <2>. QED  BY <1>1, <2>1, <2>2, <2>3, <2>4 DEF Idling
<1>. QED  BY <1>2, <1>3, <1>4

-----------------------------------------------------------------------------
(* The balances of Ledger, user by user. *)
LEMMA LedgerBalances ==
    ASSUME NEW u \in Users
    PROVE  /\ LedgerMoney[u] = money[u] + Unfiled(u, "BUY")
           /\ \A s \in Stocks : LedgerStocks[u][s] =
                stocks[u][s] + IF call[u]["SELL"].stock = s THEN Unfiled(u, "SELL") ELSE 0
  BY DEF LedgerMoney, LedgerStocks

(* A step that holds back nothing more and files nothing leaves both balances *)
(* as they are, when it does not change the tables.                           *)
LEMMA SameMoney ==
    ASSUME TypeInv, NEW u \in Users, NEW c \in Commands, Frame(u, c), UNCHANGED money,
           c = "BUY" => call[u][c].at # "file" /\ call'[u][c].at # "file"
    PROVE  UNCHANGED LedgerMoney
<1>1. "BUY" \in Commands
  BY DEF Commands
<1>2. \A v \in Users : Unfiled(v, "BUY")' = Unfiled(v, "BUY")
  BY <1>1 DEF Frame, Unfiled
<1>. QED  BY <1>2 DEF LedgerMoney

LEMMA SameStocks ==
    ASSUME TypeInv, NEW u \in Users, NEW c \in Commands, Frame(u, c), UNCHANGED stocks,
           c = "SELL" => call[u][c].at # "file" /\ call'[u][c].at # "file"
    PROVE  UNCHANGED LedgerStocks
<1>1. "SELL" \in Commands
  BY DEF Commands
<1>2. ASSUME NEW v \in Users, NEW s \in Stocks
      PROVE  (IF call[v]["SELL"].stock = s THEN Unfiled(v, "SELL") ELSE 0)'
               = IF call[v]["SELL"].stock = s THEN Unfiled(v, "SELL") ELSE 0
  <2>1. CASE v = u /\ c = "SELL"
    BY <2>1 DEF Unfiled
  <2>2. CASE v # u \/ c # "SELL"
    BY <1>1, <2>2 DEF Frame, Unfiled
  <2>. QED  BY <2>1, <2>2
<1>. QED  BY <1>2 DEF LedgerStocks

LEMMA SameOrders ==
    ASSUME TypeInv, NEW u \in Users, NEW c \in Commands, Frame(u, c), UNCHANGED transactions,
           call[u][c].at # "clear", call'[u][c].at # "clear"
    PROVE  UNCHANGED OpenOrders
<1>1. ASSUME NEW t \in transactions PROVE Clearing(t)' <=> Clearing(t)
  <2>1. t.user \in Users /\ Settlements \subseteq Commands
    BY DEF TypeInv, TypeOK, Row, Commands
  <2>. QED  BY <2>1 DEF Clearing, Frame
<1>. QED  BY <1>1 DEF OpenOrders

LEMMA IdlingStutters ==
    ASSUME TypeInv, NEW u \in Users, NEW c \in Commands, Idling(u, c)
    PROVE  UNCHANGED L!vars
<1>1. UNCHANGED LedgerMoney /\ UNCHANGED LedgerStocks /\ UNCHANGED OpenOrders
  BY SameMoney, SameStocks, SameOrders DEF Idling
<1>. QED  BY <1>1 DEF Idling, L!vars
(* UPDATE user: what the statement takes is on its way to the order. *)
LEMMA HoldMoneyStutters ==
    ASSUME TypeInv, SelectionInv, NEW u \in Users, HoldMoney(u)
    PROVE  SelectionInv' /\ UNCHANGED L!vars
<1>0. "BUY" \in Commands /\ "BUY" # "SELL" /\ "file" \in Positions
  BY DEF Commands, Positions, Statements
<1>1. /\ call[u]["BUY"].at = "hold" /\ Goto(u, "BUY", "file")
      /\ money' = [money EXCEPT ![u] = @ - call[u]["BUY"].price]
      /\ UNCHANGED <<stocks, transactions, nextId>>
  BY DEF HoldMoney
<1>2. Frame(u, "BUY") /\ SameOrder(u, "BUY") /\ call'[u]["BUY"].at = "file"
  BY <1>0, <1>1, GotoWrites
<1>3. SelectionInv'
  <2>1. call'[u]["BUY"].price > 0
    BY <1>1, <1>2 DEF SelectionInv, Positive, SameOrder
  <2>. QED  BY <1>0, <1>1, <1>2, <2>1, SelectionQuiet DEF Active
<1>4. UNCHANGED LedgerMoney
  <2>1. ASSUME NEW v \in Users
        PROVE  money'[v] + Unfiled(v, "BUY")' = money[v] + Unfiled(v, "BUY")
    <3>1. CASE v = u
      <4>1. Unfiled(u, "BUY") = 0 /\ Unfiled(u, "BUY")' = call[u]["BUY"].price
        BY <1>1, <1>2 DEF Unfiled, SameOrder
      <4>2. money[u] \in Int /\ call[u]["BUY"].price \in Int
        BY <1>0 DEF TypeInv, TypeOK, Call
      <4>3. money'[u] = money[u] - call[u]["BUY"].price
        BY <1>1 DEF TypeInv, TypeOK
      <4>. QED  BY <3>1, <4>1, <4>2, <4>3
    <3>2. CASE v # u
      <4>1. call'[v]["BUY"] = call[v]["BUY"]
        BY <1>0, <1>2, <3>2 DEF Frame
      <4>2. money'[v] = money[v]
        BY <1>1, <3>2 DEF TypeInv, TypeOK
      <4>. QED  BY <4>1, <4>2 DEF Unfiled
    <3>. QED  BY <3>1, <3>2
  <2>. QED  BY <2>1 DEF LedgerMoney
<1>5. UNCHANGED LedgerStocks /\ UNCHANGED OpenOrders
  BY <1>0, <1>1, <1>2, SameStocks, SameOrders
<1>. QED  BY <1>1, <1>3, <1>4, <1>5 DEF L!vars

(* UPDATE stocks, in the same way. *)
LEMMA HoldStockStutters ==
    ASSUME TypeInv, SelectionInv, NEW u \in Users, HoldStock(u)
    PROVE  SelectionInv' /\ UNCHANGED L!vars
<1>0. "SELL" \in Commands /\ "BUY" # "SELL" /\ "file" \in Positions
  BY DEF Commands, Positions, Statements
<1>. DEFINE k == call[u]["SELL"]
<1>1. /\ k.at = "hold" /\ Goto(u, "SELL", "file")
      /\ stocks' = [stocks EXCEPT ![u][k.stock] = @ - k.price]
      /\ UNCHANGED <<money, transactions, nextId>>
  BY DEF HoldStock
<1>2. Frame(u, "SELL") /\ SameOrder(u, "SELL") /\ call'[u]["SELL"].at = "file"
  BY <1>0, <1>1, GotoWrites
<1>3. SelectionInv'
  <2>1. call'[u]["SELL"].price > 0
    BY <1>1, <1>2 DEF SelectionInv, Positive, SameOrder
  <2>. QED  BY <1>0, <1>1, <1>2, <2>1, SelectionQuiet DEF Active
<1>4. UNCHANGED LedgerStocks
  <2>0. /\ stocks \in [Users -> [Stocks -> Int]] /\ k.price \in Int
    BY <1>0 DEF TypeInv, TypeOK, Call
  <2>1. ASSUME NEW v \in Users, NEW s \in Stocks
        PROVE  stocks'[v][s] + (IF call[v]["SELL"].stock = s THEN Unfiled(v, "SELL") ELSE 0)'
                 = stocks[v][s] + IF call[v]["SELL"].stock = s THEN Unfiled(v, "SELL") ELSE 0
    <3>1. CASE v = u /\ s = k.stock
      <4>1. /\ Unfiled(u, "SELL") = 0 /\ Unfiled(u, "SELL")' = k.price
            /\ call'[u]["SELL"].stock = s
        BY <1>1, <1>2, <3>1 DEF Unfiled, SameOrder
      <4>2. stocks'[u][s] = stocks[u][s] - k.price
        BY <1>1, <2>0, <3>1
      <4>3. stocks[u][s] \in Int
        BY <2>0
      <4>. QED  BY <2>0, <3>1, <4>1, <4>2, <4>3
    <3>2. CASE v = u /\ s # k.stock
      <4>1. call'[u]["SELL"].stock # s
        BY <1>2, <3>2 DEF SameOrder
      <4>2. stocks'[u][s] = stocks[u][s]
        BY <1>1, <2>0, <3>2
      <4>. QED  BY <3>2, <4>1, <4>2
    <3>3. CASE v # u
      <4>1. call'[v]["SELL"] = call[v]["SELL"]
        BY <1>0, <1>2, <3>3 DEF Frame
      <4>2. stocks'[v][s] = stocks[v][s]
        BY <1>1, <2>0, <3>3
      <4>. QED  BY <4>1, <4>2 DEF Unfiled
    <3>. QED  BY <3>1, <3>2, <3>3
  <2>. QED  BY <2>1 DEF LedgerStocks
<1>5. UNCHANGED LedgerMoney /\ UNCHANGED OpenOrders
  BY <1>0, <1>1, <1>2, SameMoney, SameOrders
<1>. QED  BY <1>1, <1>3, <1>4, <1>5 DEF L!vars

(* add_user is Deposit. *)
LEMMA AddDeposits ==
    ASSUME TypeInv, SelectionInv, NEW u \in Users, AddUser(u)
    PROVE  SelectionInv' /\ L!Next
<1>0. "ADD" \in Commands /\ "BUY" \in Commands /\ TRUE \in BOOLEAN
  BY DEF Commands
<1>1. /\ call[u]["ADD"].at = "upsert" /\ Return(u, "ADD", TRUE)
      /\ money' = [money EXCEPT ![u] = @ + call[u]["ADD"].price]
      /\ UNCHANGED <<stocks, transactions, nextId>>
  BY DEF AddUser
<1>2. Frame(u, "ADD") /\ SameOrder(u, "ADD") /\ call'[u]["ADD"].at = "done"
  BY <1>0, <1>1, ReturnWrites
<1>3. call[u]["ADD"].price > 0 /\ call[u]["ADD"].price \in Int
  BY <1>0, <1>1 DEF SelectionInv, Positive, TypeInv, TypeOK, Call
<1>4. SelectionInv'
  BY <1>0, <1>1, <1>2, <1>3, SelectionQuiet DEF Active, SameOrder
<1>5. \A v \in Users : Unfiled(v, "BUY")' = Unfiled(v, "BUY") /\ Unfiled(v, "BUY") \in Int
  BY <1>0, <1>2 DEF Frame, Unfiled, TypeInv, TypeOK, Call
<1>6. LedgerMoney'[u] > LedgerMoney[u]
  <2>1. money'[u] = money[u] + call[u]["ADD"].price /\ money[u] \in Int
    BY <1>1 DEF TypeInv, TypeOK
  <2>2. LedgerMoney[u] = money[u] + Unfiled(u, "BUY")
        /\ LedgerMoney'[u] = money'[u] + Unfiled(u, "BUY")'
    BY DEF LedgerMoney
  <2>. QED  BY <1>3, <1>5, <2>1, <2>2
<1>7. LedgerMoney' = [LedgerMoney EXCEPT ![u] = LedgerMoney'[u]]
  <2>1. ASSUME NEW v \in Users, v # u PROVE LedgerMoney'[v] = LedgerMoney[v]
    <3>1. money'[v] = money[v]
      BY <1>1, <2>1 DEF TypeInv, TypeOK
    <3>. QED  BY <1>5, <3>1 DEF LedgerMoney
  <2>. QED  BY <2>1 DEF LedgerMoney
<1>8. UNCHANGED LedgerStocks /\ UNCHANGED OpenOrders
  BY <1>0, <1>1, <1>2, SameStocks, SameOrders
<1>9. L!Deposit(u)
  BY <1>1, <1>6, <1>7, <1>8 DEF L!Deposit
<1>. QED  BY <1>4, <1>9 DEF L!Next
(* The INSERT is Order: only now the row holds what the UPDATE took. *)
LEMMA FiledMoney ==
    ASSUME TypeInv, NEW u \in Users, Frame(u, "BUY"), UNCHANGED money,
           call[u]["BUY"].at = "file", call'[u]["BUY"].at = "done"
    PROVE  LedgerMoney' = [LedgerMoney EXCEPT ![u] = @ - call[u]["BUY"].price]
<1>1. "BUY" \in Commands /\ call[u]["BUY"].price \in Int /\ money \in [Users -> Int]
  BY DEF Commands, TypeInv, TypeOK, Call
<1>2. ASSUME NEW v \in Users
      PROVE  money'[v] + Unfiled(v, "BUY")'
               = IF v = u THEN LedgerMoney[u] - call[u]["BUY"].price ELSE LedgerMoney[v]
  <2>1. LedgerMoney[v] = money[v] + Unfiled(v, "BUY") /\ money'[v] = money[v] /\ money[v] \in Int
    BY <1>1 DEF LedgerMoney
  <2>2. CASE v = u
    <3>1. Unfiled(v, "BUY") = call[u]["BUY"].price /\ Unfiled(v, "BUY")' = 0
      BY <2>2 DEF Unfiled
    <3>. QED  BY <1>1, <2>1, <2>2, <3>1
  <2>3. CASE v # u
    <3>1. Unfiled(v, "BUY")' = Unfiled(v, "BUY")
      BY <1>1, <2>3 DEF Frame, Unfiled
    <3>. QED  BY <2>1, <2>3, <3>1
  <2>. QED  BY <2>2, <2>3
<1>. QED  BY <1>2 DEF LedgerMoney

(* What EXCEPT means for the stocks of the users. *)
LEMMA StocksExcept ==
    ASSUME NEW f, f = [v \in Users |-> [x \in Stocks |-> f[v][x]]],
           NEW u \in Users, NEW s \in Stocks, NEW p
    PROVE  [f EXCEPT ![u][s] = p]
             = [v \in Users |-> [x \in Stocks |-> IF v = u /\ x = s THEN p ELSE f[v][x]]]
  OBVIOUS

LEMMA FiledStocks ==
    ASSUME TypeInv, NEW u \in Users, Frame(u, "SELL"), UNCHANGED stocks,
           call[u]["SELL"].at = "file", call'[u]["SELL"].at = "done",
           NEW s \in Stocks, s = call[u]["SELL"].stock
    PROVE  LedgerStocks' = [LedgerStocks EXCEPT ![u][s] = @ - call[u]["SELL"].price]
<1>. DEFINE share(v, x) == IF call[v]["SELL"].stock = x THEN Unfiled(v, "SELL") ELSE 0
<1>1. /\ "SELL" \in Commands /\ call[u]["SELL"].price \in Int
      /\ stocks \in [Users -> [Stocks -> Int]]
  BY DEF Commands, TypeInv, TypeOK, Call
<1>2. ASSUME NEW v \in Users, NEW x \in Stocks
      PROVE  stocks'[v][x] + share(v, x)'
               = IF v = u /\ x = s THEN LedgerStocks[u][s] - call[u]["SELL"].price
                 ELSE LedgerStocks[v][x]
  <2>1. /\ LedgerStocks[v][x] = stocks[v][x] + share(v, x)
        /\ stocks'[v][x] = stocks[v][x] /\ stocks[v][x] \in Int
    BY <1>1 DEF LedgerStocks
  <2>2. CASE v = u /\ x = s
    <3>1. share(v, x) = call[u]["SELL"].price /\ share(v, x)' = 0
      BY <2>2 DEF Unfiled
    <3>. QED  BY <1>1, <2>1, <2>2, <3>1
  <2>3. CASE v = u /\ x # s
    <3>1. share(v, x) = 0 /\ share(v, x)' = 0
      BY <2>3 DEF Unfiled
    <3>. QED  BY <2>1, <2>3, <3>1
  <2>4. CASE v # u
    <3>1. share(v, x)' = share(v, x)
      BY <1>1, <2>4 DEF Frame, Unfiled
    <3>. QED  BY <2>1, <2>4, <3>1
  <2>. QED  BY <2>2, <2>3, <2>4
<1>3. LedgerStocks' = [v \in Users |-> [x \in Stocks |-> stocks'[v][x] + share(v, x)']]
  BY DEF LedgerStocks
<1>4. LedgerStocks' = [v \in Users |-> [x \in Stocks |->
                        IF v = u /\ x = s THEN LedgerStocks[u][s] - call[u]["SELL"].price
                        ELSE LedgerStocks[v][x]]]
  BY <1>2, <1>3
<1>5. LedgerStocks = [v \in Users |-> [x \in Stocks |-> LedgerStocks[v][x]]]
  BY DEF LedgerStocks
<1>. QED  BY <1>4, <1>5, StocksExcept

LEMMA FileOrders ==
    ASSUME TypeInv, BalanceInv, OnceInv, SelectionInv, NEW u \in Users,
           NEW c \in {"BUY", "SELL"}, FileTransaction(u, c)
    PROVE  L!Next
<1>. DEFINE k == call[u][c]
<1>0. c \in Commands /\ TRUE \in BOOLEAN /\ Settlements \subseteq Commands /\ c \notin Settlements
  BY DEF Commands, Settlements
<1>1. PICK n :
        /\ transactions' = transactions \cup {n}
        /\ n.id = nextId /\ n.user = u /\ n.stock = k.stock /\ n.price = k.price /\ n.type = c
  <2>. DEFINE m == [id |-> nextId, user |-> u, stock |-> k.stock, price |-> k.price,
                    type |-> c, time |-> k.time]
  <2>1. transactions' = transactions \cup {m}
    BY DEF FileTransaction
  <2>2. m.id = nextId /\ m.user = u /\ m.stock = k.stock /\ m.price = k.price /\ m.type = c
    OBVIOUS
  <2>. HIDE DEF m
  <2>. QED  BY <2>1, <2>2
<1>2. /\ k.at = "file" /\ Return(u, c, TRUE) /\ nextId' = nextId + 1
      /\ UNCHANGED <<money, stocks>>
  BY DEF FileTransaction
<1>3. Frame(u, c) /\ call'[u][c].at = "done" /\ Alone(u, c)
  BY <1>0, <1>2, ReturnWrites, AloneNow DEF OnceInv
<1>4. k.price > 0 /\ k.price \in Int /\ k.stock \in Stocks
  BY <1>0, <1>2 DEF SelectionInv, Positive, TypeInv, TypeOK, Call, OrdersNamed
<1>5. n \notin transactions
  BY <1>1 DEF OnceInv, IdsBelow, TypeInv, TypeOK
<1>6. OpenOrders' = OpenOrders \cup {n} /\ n \in OpenOrders' \ OpenOrders
  <2>1. ~Clearing(n)'
    <3>1. \A d \in Settlements : call'[u][d].at = "idle"
      BY <1>0, <1>3 DEF Frame, Alone
    <3>. QED  BY <1>1, <3>1 DEF Clearing
  <2>2. ASSUME NEW t \in transactions PROVE Clearing(t)' <=> Clearing(t)
    <3>1. t.user \in Users
      BY DEF TypeInv, TypeOK, Row
    <3>. QED  BY <1>0, <1>3, <3>1 DEF Clearing, Frame
  <2>. QED  BY <1>1, <1>5, <2>1, <2>2 DEF OpenOrders
<1>7. CASE c = "BUY"
  <2>1. LedgerMoney' = [LedgerMoney EXCEPT ![u] = @ - k.price]
    BY <1>2, <1>3, <1>7, FiledMoney
  <2>2. k.price <= LedgerMoney[u]
    <3>1. LedgerMoney[u] = money[u] + k.price
      BY <1>2, <1>7 DEF LedgerMoney, Unfiled
    <3>2. money[u] \in Int /\ money[u] >= 0
      BY AmountsAssumption DEF BalanceInv, BalancesInRange
    <3>. QED  BY <1>4, <3>1, <3>2
  <2>3. UNCHANGED LedgerStocks
    BY <1>0, <1>2, <1>3, <1>7, SameStocks
  <2>4. L!HoldMoney(n)
    BY <1>1, <2>1, <2>2, <2>3 DEF L!HoldMoney
  <2>5. L!Order
    BY <1>2, <1>4, <1>1, <1>6, <1>7, <2>4 DEF L!Order
  <2>. QED  BY <2>5 DEF L!Next
<1>8. CASE c = "SELL"
  <2>1. LedgerStocks' = [LedgerStocks EXCEPT ![u][k.stock] = @ - k.price]
    BY <1>2, <1>3, <1>4, <1>8, FiledStocks
  <2>2. k.price <= LedgerStocks[u][k.stock]
    <3>1. LedgerStocks[u][k.stock] = stocks[u][k.stock] + k.price
      BY <1>2, <1>4, <1>8 DEF LedgerStocks, Unfiled
    <3>2. stocks[u][k.stock] \in Int /\ stocks[u][k.stock] >= 0
      BY <1>4, AmountsAssumption DEF BalanceInv, BalancesInRange
    <3>. QED  BY <1>4, <3>1, <3>2
  <2>3. UNCHANGED LedgerMoney
    BY <1>0, <1>2, <1>3, <1>8, SameMoney
  <2>4. L!HoldStock(n)
    BY <1>1, <2>1, <2>2, <2>3 DEF L!HoldStock
  <2>5. L!Order
    BY <1>2, <1>4, <1>1, <1>6, <1>8, <2>4 DEF L!Order
  <2>. QED  BY <2>5 DEF L!Next
<1>. QED  BY <1>7, <1>8

(* The credit of a settlement is Settle: from then on its row holds nothing. *)
LEMMA PaidMoney ==
    ASSUME TypeInv, NEW u \in Users, NEW c \in Settlements, Frame(u, c), NEW p \in Int,
           money' = [money EXCEPT ![u] = @ + p]
    PROVE  LedgerMoney' = [LedgerMoney EXCEPT ![u] = @ + p]
<1>1. "BUY" \in Commands /\ c # "BUY" /\ money \in [Users -> Int]
  BY DEF Commands, Settlements, TypeInv, TypeOK
<1>2. \A v \in Users : Unfiled(v, "BUY")' = Unfiled(v, "BUY") /\ Unfiled(v, "BUY") \in Int
  BY <1>1 DEF Frame, Unfiled, TypeInv, TypeOK, Call
<1>3. ASSUME NEW v \in Users
      PROVE  money'[v] + Unfiled(v, "BUY")'
               = IF v = u THEN LedgerMoney[u] + p ELSE LedgerMoney[v]
  <2>1. LedgerMoney[v] = money[v] + Unfiled(v, "BUY") /\ money[v] \in Int
    BY <1>1 DEF LedgerMoney
  <2>2. money'[v] = IF v = u THEN money[u] + p ELSE money[v]
    BY <1>1
  <2>. QED  BY <1>2, <2>1, <2>2
<1>. QED  BY <1>3 DEF LedgerMoney

LEMMA PaidStocks ==
    ASSUME TypeInv, NEW u \in Users, NEW c \in Settlements, Frame(u, c), NEW p \in Int,
           NEW s \in Stocks, stocks' = [stocks EXCEPT ![u][s] = @ + p]
    PROVE  LedgerStocks' = [LedgerStocks EXCEPT ![u][s] = @ + p]
<1>. DEFINE share(v, x) == IF call[v]["SELL"].stock = x THEN Unfiled(v, "SELL") ELSE 0
<1>1. "SELL" \in Commands /\ c # "SELL" /\ stocks \in [Users -> [Stocks -> Int]]
  BY DEF Commands, Settlements, TypeInv, TypeOK
<1>2. \A v \in Users, x \in Stocks : share(v, x)' = share(v, x) /\ share(v, x) \in Int
  BY <1>1 DEF Frame, Unfiled, TypeInv, TypeOK, Call
<1>3. ASSUME NEW v \in Users, NEW x \in Stocks
      PROVE  stocks'[v][x] + share(v, x)'
               = IF v = u /\ x = s THEN LedgerStocks[u][s] + p ELSE LedgerStocks[v][x]
  <2>1. LedgerStocks[v][x] = stocks[v][x] + share(v, x) /\ stocks[v][x] \in Int
    BY <1>1 DEF LedgerStocks
  <2>2. stocks'[v][x] = IF v = u /\ x = s THEN stocks[u][s] + p ELSE stocks[v][x]
    BY <1>1
  <2>3. share(v, x)' = share(v, x) /\ share(v, x) \in Int
    BY <1>2
  <2>. HIDE DEF share
  <2>. QED  BY <2>1, <2>2, <2>3
<1>4. LedgerStocks' = [v \in Users |-> [x \in Stocks |-> stocks'[v][x] + share(v, x)']]
  BY DEF LedgerStocks
<1>5. LedgerStocks' = [v \in Users |-> [x \in Stocks |->
                        IF v = u /\ x = s THEN LedgerStocks[u][s] + p ELSE LedgerStocks[v][x]]]
  BY <1>3, <1>4
<1>6. LedgerStocks = [v \in Users |-> [x \in Stocks |-> LedgerStocks[v][x]]]
  BY DEF LedgerStocks
<1>. QED  BY <1>5, <1>6, StocksExcept

LEMMA CreditSettles ==
    ASSUME TypeInv, OnceInv, SelectionInv, NEW u \in Users, NEW c \in Settlements, Credit(u, c)
    PROVE  L!Next
<1>. DEFINE k == call[u][c]
<1>0. c \in Commands /\ Settlements \subseteq Commands /\ c # "BUY" /\ c # "SELL"
  BY DEF Commands, Settlements
<1>1. /\ k.at \in Active /\ UNCHANGED <<transactions, nextId>> /\ k.price \in Int
  BY <1>0 DEF Credit, Active, TypeInv, TypeOK, Call
<1>2. /\ Frame(u, c) /\ SameOrder(u, c) /\ call'[u][c].at = "clear" /\ Alone(u, c)
  BY <1>0, <1>1, CreditWrites, AloneNow DEF OnceInv, Active
<1>3. PICK t \in transactions : Selected(t, u, c)
  BY <1>0, <1>1 DEF SelectionInv, SelectionStands
<1>4. t.user = u /\ t.id = k.id /\ t.price = k.price /\ t.stock = k.stock /\ t.stock \in Stocks
  BY <1>3 DEF Selected, TypeInv, TypeOK, Row
<1>5. \A x \in transactions : x.user \in Users /\ (x.id = k.id <=> x = t)
  BY <1>3, <1>4 DEF OnceInv, IdsUnique, TypeInv, TypeOK, Row
<1>6. t \in OpenOrders
  <2>1. \A d \in Settlements : call[u][d].at # "clear"
    BY <1>0, <1>1, <1>2 DEF Alone, Active
  <2>. QED  BY <1>4, <2>1 DEF OpenOrders, Clearing
<1>7. OpenOrders' = OpenOrders \ {t}
  <2>1. Clearing(t)'
    BY <1>2, <1>4 DEF Clearing, SameOrder
  <2>2. ASSUME NEW x \in transactions, x # t PROVE Clearing(x)' <=> Clearing(x)
    <3>1. ASSUME NEW d \in Settlements
          PROVE  (call'[x.user][d].at = "clear" /\ call'[x.user][d].id = x.id)
                   <=> (call[x.user][d].at = "clear" /\ call[x.user][d].id = x.id)
      <4>1. CASE x.user = u /\ d = c
        BY <1>2, <1>5, <2>2, <4>1 DEF SameOrder
      <4>2. CASE x.user # u \/ d # c
        BY <1>0, <1>2, <1>5, <4>2 DEF Frame
      <4>. QED  BY <4>1, <4>2
    <3>. QED  BY <3>1 DEF Clearing
  <2>. QED  BY <1>1, <2>1, <2>2 DEF OpenOrders
<1>8. L!Newest(t)
  <2>1. \A x \in Pending(u, t.type) : x.time <= t.time
    BY <1>1, <1>3 DEF Selected
  <2>. QED  BY <1>4, <2>1 DEF L!Newest, OpenOrders, Pending
<1>9. L!PayMoney(t) \/ L!PayStock(t)
  <2>1. CASE CreditMoney(u, c)
    <3>1. money' = [money EXCEPT ![u] = @ + k.price] /\ UNCHANGED stocks
      BY <2>1 DEF CreditMoney
    <3>2. LedgerMoney' = [LedgerMoney EXCEPT ![u] = @ + k.price]
      <4>1. PICK p \in Int : p = k.price
        BY <1>1
      <4>2. LedgerMoney' = [LedgerMoney EXCEPT ![u] = @ + p]
        BY <1>2, <3>1, <4>1, PaidMoney
      <4>. QED  BY <4>1, <4>2
    <3>3. UNCHANGED LedgerStocks
      BY <1>0, <1>2, <3>1, SameStocks
    <3>. QED  BY <1>4, <3>2, <3>3 DEF L!PayMoney
  <2>2. CASE CreditStock(u, c)
    <3>1. stocks' = [stocks EXCEPT ![u][k.stock] = @ + k.price] /\ UNCHANGED money
      BY <2>2 DEF CreditStock
    <3>2. LedgerStocks' = [LedgerStocks EXCEPT ![u][k.stock] = @ + k.price]
      <4>1. PICK p \in Int, s \in Stocks : p = k.price /\ s = k.stock
        BY <1>1, <1>4
      <4>2. stocks' = [stocks EXCEPT ![u][s] = @ + p]
        BY <3>1, <4>1
      <4>3. LedgerStocks' = [LedgerStocks EXCEPT ![u][s] = @ + p]
        BY <1>2, <4>2, PaidStocks
      <4>. QED  BY <4>1, <4>3
    <3>3. UNCHANGED LedgerMoney
      BY <1>0, <1>2, <3>1, SameMoney
    <3>. QED  BY <1>4, <3>2, <3>3 DEF L!PayStock
  <2>. QED  BY <2>1, <2>2 DEF Credit
<1>10. L!Settle(t)
  <2>1. L!Commit(t) \/ L!Release(t)
    BY <1>9 DEF L!Commit, L!Release
  <2>. QED  BY <1>1, <1>7, <1>8, <2>1 DEF L!Settle
<1>. QED  BY <1>6, <1>10 DEF L!Next

(* The DELETE takes a row away that holds nothing any more. *)
LEMMA DeleteStutters ==
    ASSUME TypeInv, OnceInv, SelectionInv, NEW u \in Users, NEW c \in Settlements,
           DeleteTransaction(u, c)
    PROVE  UNCHANGED L!vars
<1>0. c \in Commands /\ Settlements \subseteq Commands /\ c # "BUY" /\ c # "SELL" /\ "done" \in Positions
  BY DEF Commands, Settlements, Positions
<1>1. call[u][c].at = "clear" /\ Goto(u, c, "done") /\ UNCHANGED <<money, stocks, nextId>>
  BY DEF DeleteTransaction
<1>2. Frame(u, c) /\ call'[u][c].at = "done"
  BY <1>0, <1>1, GotoWrites
<1>3. PICK t \in transactions : Selected(t, u, c) /\ transactions' = transactions \ {t}
  BY <1>0, Deleted
<1>4. t.user = u /\ t.id = call[u][c].id
  BY <1>3 DEF Selected
<1>5. Clearing(t)
  BY <1>1, <1>4 DEF Clearing
<1>6. ASSUME NEW x \in transactions, x # t PROVE Clearing(x)' <=> Clearing(x)
  <2>1. x.user \in Users /\ x.id # t.id
    BY <1>3, <1>6 DEF OnceInv, IdsUnique, TypeInv, TypeOK, Row
  <2>2. ASSUME NEW d \in Settlements
        PROVE  (call'[x.user][d].at = "clear" /\ call'[x.user][d].id = x.id)
                 <=> (call[x.user][d].at = "clear" /\ call[x.user][d].id = x.id)
    <3>1. CASE x.user = u /\ d = c
      BY <1>2, <1>4, <2>1, <3>1
    <3>2. CASE x.user # u \/ d # c
      BY <1>0, <1>2, <2>1, <3>2 DEF Frame
    <3>. QED  BY <3>1, <3>2
  <2>. QED  BY <2>2 DEF Clearing
<1>7. UNCHANGED OpenOrders
  BY <1>3, <1>5, <1>6 DEF OpenOrders
<1>8. UNCHANGED LedgerMoney /\ UNCHANGED LedgerStocks
  BY <1>0, <1>1, <1>2, SameMoney, SameStocks
<1>. QED  BY <1>1, <1>7, <1>8 DEF L!vars
(***************************************************************************)
(* Every step keeps the selections and is one of Ledger, or none.          *)
(***************************************************************************)
LEMMA LedgerStatement ==
    ASSUME TypeInv, BalanceInv, OnceInv, SelectionInv, NEW u \in Users, NEW c \in Commands,
           Statement(u, c)
    PROVE  SelectionInv' /\ [L!Next]_(L!vars)
<1>1. ASSUME Idling(u, c) PROVE SelectionInv' /\ UNCHANGED L!vars
  BY <1>1, IdlingStutters, SelectionQuiet DEF Idling
<1>2. CASE c = "ADD" /\ AddUser(u)
  BY <1>2, AddDeposits
<1>3. CASE c = "BUY" /\ SelectMoney(u)
  <2>1. /\ Goto(u, c, "hold") \/ Return(u, c, FALSE)
        /\ call[u][c].at = "select" /\ UNCHANGED <<money, stocks, transactions, nextId>>
    BY <1>3 DEF SelectMoney
  <2>. QED  BY <1>1, <2>1, RefusalIdles
<1>4. CASE c = "SELL" /\ SelectStock(u)
  <2>1. /\ Goto(u, c, "hold") \/ Return(u, c, FALSE)
        /\ call[u][c].at = "select" /\ UNCHANGED <<money, stocks, transactions, nextId>>
    BY <1>4 DEF SelectStock
  <2>. QED  BY <1>1, <2>1, RefusalIdles
<1>5. CASE \/ c = "BUY" /\ HoldMoney(u)
           \/ c = "SELL" /\ HoldStock(u)
  BY <1>5, HoldMoneyStutters, HoldStockStutters
<1>6. CASE c \in {"BUY", "SELL"} /\ FileTransaction(u, c)
  BY <1>6, SelectionFile, FileOrders
<1>7. CASE c \in Settlements /\ SelectLatest(u, c)
  <2>1. /\ call[u][c].at = "select" /\ UNCHANGED <<money, stocks, transactions, nextId>>
    BY <1>7 DEF SelectLatest
  <2>2. CASE Return(u, c, FALSE)
    BY <1>1, <2>1, <2>2, RefusalIdles
  <2>3. CASE ~Return(u, c, FALSE)
    <3>1. SelectionInv'
      BY <1>7, <2>3, SelectionSelect
    <3>2. Frame(u, c) /\ call'[u][c].at \in Active
      BY <1>7, <2>3, SelectWrites
    <3>3. c # "BUY" /\ c # "SELL"
      BY <1>7 DEF Settlements
    <3>4. UNCHANGED LedgerMoney /\ UNCHANGED LedgerStocks /\ UNCHANGED OpenOrders
      BY <2>1, <3>2, <3>3, SameMoney, SameStocks, SameOrders DEF Active
    <3>. QED  BY <2>1, <3>1, <3>4 DEF L!vars
  <2>. QED  BY <2>2, <2>3
<1>8. CASE c \in Settlements /\ Credit(u, c)
  BY <1>8, SelectionCredit, CreditSettles
<1>9. CASE c \in Settlements /\ DeleteTransaction(u, c)
  BY <1>9, SelectionDelete, DeleteStutters
<1>. QED  BY <1>2, <1>3, <1>4, <1>5, <1>6, <1>7, <1>8, <1>9 DEF Statement

LEMMA LedgerStep ==
    ASSUME Serial, MaxFaults = 0, ~EventOn, TypeInv, BalanceInv, OnceInv, SelectionInv,
           [Next]_vars
    PROVE  SelectionInv' /\ [L!Next]_(L!vars)
<1>1. CASE UNCHANGED <<money, stocks, transactions, nextId, call>>
  <2>1. SelectionInv'
    BY <1>1 DEF SelectionInv, Positive, SelectionStands, Selected, Pending
  <2>2. UNCHANGED L!vars
    BY <1>1 DEF L!vars, LedgerMoney, LedgerStocks, Unfiled, OpenOrders, Clearing
  <2>. QED  BY <2>1, <2>2
<1>2. ASSUME NEW u \in Users, NEW c \in Commands,
             Arrival(u, c) \/ StatementOverflows(u, c) \/ Retry(u, c) \/ Reply(u, c)
      PROVE  SelectionInv' /\ UNCHANGED L!vars
  <2>1. Idling(u, c)
    BY <1>2, ArrivalIdles, RestIdles
  <2>. QED  BY <2>1, IdlingStutters, SelectionQuiet DEF Idling
<1>3. UNCHANGED vars \/ Advance => UNCHANGED <<money, stocks, transactions, nextId, call>>
  BY DEF vars, Advance
<1>4. ~ClearExpired /\ \A u \in Users, c \in Commands : ~Fault(u, c)
  BY DEF ClearExpired, Fault, TypeInv, TypeOK
<1>. QED  BY <1>1, <1>2, <1>3, <1>4, LedgerStatement DEF Next, Progress

LEMMA LedgerInit == Init => SelectionInv /\ L!Init
<1>. SUFFICES ASSUME Init PROVE SelectionInv /\ L!Init
  OBVIOUS
<1>1. \A u \in Users, c \in Commands : call[u][c].at = "idle"
  BY DEF Init, IdleCall
<1>2. {"ADD", "BUY", "SELL"} \subseteq Commands
  BY DEF Commands
<1>3. SelectionInv
  BY <1>1, <1>2 DEF SelectionInv, Positive, SelectionStands, Active
<1>4. \A u \in Users : Unfiled(u, "BUY") = 0 /\ Unfiled(u, "SELL") = 0
  BY <1>1, <1>2 DEF Unfiled
<1>5. /\ LedgerMoney = [u \in Users |-> 0]
      /\ LedgerStocks = [u \in Users |-> [s \in Stocks |-> 0]]
  BY <1>4 DEF Init, LedgerMoney, LedgerStocks
<1>6. OpenOrders = {} /\ nextId = 1
  BY DEF Init, OpenOrders
<1>. QED  BY <1>3, <1>5, <1>6 DEF L!Init

(***************************************************************************)
(* For users who wait for each answer, while no statement fails on its own *)
(* and the event is off, the procedures are the single steps of Ledger:    *)
(* an order takes what it holds when its row is inserted and gives it up   *)
(* when it is credited, each once, and no statement in between shows.      *)
(***************************************************************************)
THEOREM AccountsAreLedger == Serial /\ MaxFaults = 0 /\ ~EventOn => (Spec => ImplementsLedger)
<1>. SUFFICES ASSUME Serial, MaxFaults = 0, ~EventOn PROVE Spec => ImplementsLedger
  OBVIOUS
<1>. DEFINE All == TypeInv /\ BalanceInv /\ OnceInv /\ SelectionInv
<1>1. Init => All /\ L!Init
  BY TypeInit, BalanceInit, OnceInit, LedgerInit
<1>2. All /\ [Next]_vars => All' /\ [L!Next]_(L!vars)
  BY TypeStep, BalanceStep, OnceStep, LedgerStep
<1>. HIDE DEF All
<1>. QED  BY <1>1, <1>2, PTL DEF Spec, ImplementsLedger, L!Spec

-----------------------------------------------------------------------------
(***************************************************************************)
(* The sixty seconds of COMMIT_BUY, for every interleaving, fault and      *)
(* retry: the service sends a time no earlier than that of the command,    *)
(* again for each run of its callback, and the row that is selected is the *)
(* one of its id.                                                          *)
(***************************************************************************)
Timely ==
    \A u \in Users :
      LET k == call[u]["COMMIT_BUY"] IN k.asked <= now /\ (k.at = "select" => k.asked <= k.time)

LateInv == Timely /\ IdsUnique /\ \A t \in transactions : t.id < nextId
(* Every step but a tick and the event writes one call. *)
LEMMA StatementFrames ==
    ASSUME TypeInv, NEW u \in Users, NEW c \in Commands, Statement(u, c)
    PROVE  Frame(u, c) /\ call'[u][c].at # "select"
<1>0. /\ TRUE \in BOOLEAN /\ FALSE \in BOOLEAN
      /\ "hold" \in Positions /\ "file" \in Positions /\ "done" \in Positions
  BY DEF Positions, Statements
<1>1. CASE \/ \E b \in BOOLEAN : Return(u, c, b)
           \/ Goto(u, c, "hold") \/ Goto(u, c, "file") \/ Goto(u, c, "done")
  <2>1. CASE \E b \in BOOLEAN : Return(u, c, b)
    BY <2>1, ReturnWrites
  <2>2. ASSUME NEW p \in {"hold", "file", "done"}, Goto(u, c, p)
        PROVE  Frame(u, c) /\ call'[u][c].at # "select"
    BY <1>0, <2>2, GotoWrites
  <2>. QED  BY <1>1, <2>1, <2>2
<1>2. CASE c = "ADD" /\ AddUser(u)
  BY <1>0, <1>1, <1>2 DEF AddUser
<1>3. CASE c = "BUY" /\ (SelectMoney(u) \/ HoldMoney(u))
  BY <1>0, <1>1, <1>3 DEF SelectMoney, HoldMoney
<1>4. CASE c = "SELL" /\ (SelectStock(u) \/ HoldStock(u))
  BY <1>0, <1>1, <1>4 DEF SelectStock, HoldStock
<1>5. CASE c \in {"BUY", "SELL"} /\ FileTransaction(u, c)
  BY <1>0, <1>1, <1>5 DEF FileTransaction
<1>6. CASE c \in Settlements /\ SelectLatest(u, c)
  <2>1. CASE Return(u, c, FALSE)
    BY <1>0, <1>1, <2>1
  <2>2. CASE ~Return(u, c, FALSE)
    BY <1>6, <2>2, SelectWrites DEF Active
  <2>. QED  BY <2>1, <2>2
<1>7. CASE c \in Settlements /\ Credit(u, c)
  BY <1>7, CreditWrites
<1>8. CASE c \in Settlements /\ DeleteTransaction(u, c)
  BY <1>0, <1>1, <1>8 DEF DeleteTransaction
<1>. QED  BY <1>2, <1>3, <1>4, <1>5, <1>6, <1>7, <1>8 DEF Statement

LEMMA FaultFrames ==
    ASSUME TypeInv, NEW u \in Users, NEW c \in Commands, StatementOverflows(u, c) \/ Fault(u, c)
    PROVE  Frame(u, c) /\ call'[u][c].at = "failed"
<1>1. Goto(u, c, "failed") /\ "failed" \in Positions
  BY DEF StatementOverflows, Fault, Positions
<1>. QED  BY <1>1, GotoWrites

LEMMA ArrivalFrames ==
    ASSUME TypeInv, NEW u \in Users, NEW c \in Commands, Arrival(u, c)
    PROVE  Frame(u, c) /\ call[u][c].at = "idle"
<1>1. PICK s \in Stocks \cup {NoStock}, p \in Nat : Receive(u, c, s, p)
  BY ArrivalReceives
<1>. QED  BY <1>1, ReceiveWrites DEF Receive

(* What becomes of the times of a COMMIT_BUY. *)
LEMMA CommitTimes ==
    ASSUME TypeInv, Timely, NEW u \in Users, NEW c, c = "COMMIT_BUY", c \in Commands,
           \/ Arrival(u, c) \/ Statement(u, c) \/ StatementOverflows(u, c) \/ Fault(u, c)
           \/ Retry(u, c) \/ Reply(u, c)
    PROVE  /\ call'[u][c].asked <= now
           /\ call'[u][c].at = "select" => call'[u][c].asked <= call'[u][c].time
<1>1. /\ call \in [Users -> [Commands -> Call]] /\ call[u][c] \in Call
      /\ now \in Nat /\ call[u][c].asked <= now /\ call[u][c].asked \in Nat
  BY DEF Timely, TypeInv, TypeOK, Call
<1>2. CASE Arrival(u, c)
  <2>1. PICK s \in Stocks \cup {NoStock}, p \in Nat : Receive(u, c, s, p)
    BY <1>2, ArrivalReceives
  <2>2. call'[u][c] = [at |-> FirstStatement(c), stock |-> s, price |-> p,
                       time |-> ServerTime(c), asked |-> now, id |-> 0, ok |-> FALSE]
    BY <1>1, <2>1 DEF Receive
  <2>3. call'[u][c].asked = now /\ call'[u][c].time = ServerTime(c)
    BY <2>2
  <2>. QED  BY <1>1, <2>3 DEF ServerTime
<1>3. CASE Retry(u, c)
  <2>1. call'[u][c] = [call[u][c] EXCEPT !.at = FirstStatement(c), !.time = ServerTime(c),
                                         !.id = 0, !.ok = FALSE]
    BY <1>1, <1>3 DEF Retry
  <2>2. call'[u][c].asked = call[u][c].asked /\ call'[u][c].time = ServerTime(c)
    BY <1>1, <2>1 DEF Call
  <2>. QED  BY <1>1, <2>2 DEF ServerTime
<1>4. CASE Reply(u, c)
  <2>1. call'[u][c] = IdleCall
    BY <1>1, <1>4 DEF Reply
  <2>. QED  BY <1>1, <2>1 DEF IdleCall
<1>5. CASE Statement(u, c) \/ StatementOverflows(u, c) \/ Fault(u, c)
  <2>1. call'[u][c].at # "select"
    BY <1>5, StatementFrames, FaultFrames
  <2>2. ASSUME NEW p, Goto(u, c, p) PROVE call'[u][c].asked = call[u][c].asked
    <3>1. call'[u][c] = [call[u][c] EXCEPT !.at = p]
      BY <1>1, <2>2 DEF Goto
    <3>. QED  BY <1>1, <3>1 DEF Call
  <2>3. ASSUME NEW b, Return(u, c, b) PROVE call'[u][c].asked = call[u][c].asked
    <3>1. call'[u][c] = [call[u][c] EXCEPT !.at = "done", !.ok = b]
      BY <1>1, <2>3 DEF Return
    <3>. QED  BY <1>1, <3>1 DEF Call
  <2>4. ASSUME SelectLatest(u, c), ~Return(u, c, FALSE)
        PROVE  call'[u][c].asked = call[u][c].asked
    <3>1. PICK t \in Latest(u, Side(c)) :
            call' = [call EXCEPT ![u][c] = [call[u][c] EXCEPT
                   !.at = IF Expired(call[u][c].time, t) THEN "expire" ELSE "credit",
                   !.stock = t.stock, !.price = t.price, !.id = t.id]]
      BY <2>4 DEF SelectLatest
    <3>2. call'[u][c] = [call[u][c] EXCEPT
                   !.at = IF Expired(call[u][c].time, t) THEN "expire" ELSE "credit",
                   !.stock = t.stock, !.price = t.price, !.id = t.id]
      BY <1>1, <3>1
    <3>. QED  BY <1>1, <3>2 DEF Call
  <2>5. ASSUME Credit(u, c) PROVE call'[u][c].asked = call[u][c].asked
    <3>1. call'[u][c] = [call[u][c] EXCEPT !.at = "clear", !.ok = (call[u][c].at = "credit")]
      BY <1>1, <2>5 DEF Credit
    <3>. QED  BY <1>1, <3>1 DEF Call
  <2>6. c \notin {"ADD", "BUY", "SELL"}
    OBVIOUS
  <2>7. Statement(u, c) => SelectLatest(u, c) \/ Credit(u, c) \/ Goto(u, c, "done")
    BY <2>6 DEF Statement, DeleteTransaction
  <2>8. StatementOverflows(u, c) \/ Fault(u, c) => Goto(u, c, "failed")
    BY DEF StatementOverflows, Fault
  <2>9. call'[u][c].asked = call[u][c].asked
    BY <1>5, <2>2, <2>3, <2>4, <2>5, <2>7, <2>8
  <2>. QED  BY <1>1, <2>1, <2>9
<1>. QED  BY <1>2, <1>3, <1>4, <1>5

(* The ids of the table stay apart, with the event and without. *)
LEMMA IdsStep ==
    ASSUME TypeInv, LateInv, [Next]_vars
    PROVE  IdsUnique' /\ \A t \in transactions' : t.id < nextId'
<1>1. CASE transactions' \subseteq transactions /\ UNCHANGED nextId
  BY <1>1 DEF LateInv, IdsUnique
<1>2. ASSUME NEW u \in Users, NEW c \in Commands, FileTransaction(u, c)
      PROVE  IdsUnique' /\ \A t \in transactions' : t.id < nextId'
  <2>1. PICK n : n.id = nextId /\ transactions' = transactions \cup {n} /\ nextId' = nextId + 1
    BY <1>2 DEF FileTransaction
  <2>2. \A t \in transactions : t.id \in Nat /\ t.id < nextId /\ t.id # n.id
    BY <2>1 DEF LateInv, TypeInv, TypeOK, Row
  <2>3. nextId \in Nat
    BY DEF TypeInv, TypeOK
  <2>. QED  BY <2>1, <2>2, <2>3 DEF LateInv, IdsUnique
<1>3. ASSUME NEW u \in Users, NEW c \in Commands,
             Arrival(u, c) \/ Progress(u, c) \/ Fault(u, c), ~FileTransaction(u, c)
      PROVE  transactions' \subseteq transactions /\ UNCHANGED nextId
  <2>1. CASE Arrival(u, c)
    BY <2>1, ArrivalReceives DEF Receive
  <2>2. CASE StatementOverflows(u, c) \/ Retry(u, c) \/ Reply(u, c) \/ Fault(u, c)
    BY <2>2, ZenonT(60) DEF StatementOverflows, Retry, Reply, Fault
  <2>3. CASE Statement(u, c)
    BY <1>3, <2>3 DEF Statement, AddUser, SelectMoney, HoldMoney, SelectStock, HoldStock,
                      SelectLatest, Credit, DeleteTransaction
  <2>. QED  BY <1>3, <2>1, <2>2, <2>3 DEF Progress
<1>4. Advance \/ ClearExpired \/ UNCHANGED vars
        => transactions' \subseteq transactions /\ UNCHANGED nextId
  BY DEF Advance, ClearExpired, vars
<1>. QED  BY <1>1, <1>2, <1>3, <1>4 DEF Next

(* The one call that a step is about; all others keep what they have. *)
Steps(u, c) ==
    \/ Arrival(u, c) \/ Statement(u, c) \/ StatementOverflows(u, c) \/ Fault(u, c)
    \/ Retry(u, c) \/ Reply(u, c)

LEMMA StepsFrame ==
    ASSUME TypeInv, NEW u \in Users, NEW c \in Commands, Steps(u, c)
    PROVE  Frame(u, c)
BY ArrivalFrames, StatementFrames, FaultFrames, RetryWrites, ReplyWrites DEF Steps

LEMMA TimelyStep ==
    ASSUME TypeInv, LateInv, [Next]_vars
    PROVE  Timely'
<1>0. "COMMIT_BUY" \in Commands
  BY DEF Commands, Settlements
<1>1. now' >= now /\ now \in Nat /\ now' \in Nat
  <2>1. UNCHANGED now \/ Advance
    <3>1. ASSUME NEW u \in Users, NEW c \in Commands, Steps(u, c) PROVE UNCHANGED now
      <4>1. CASE Arrival(u, c)
        BY <4>1, ArrivalReceives DEF Receive
      <4>2. CASE StatementOverflows(u, c) \/ Retry(u, c) \/ Reply(u, c) \/ Fault(u, c)
        BY <4>2, ZenonT(60) DEF StatementOverflows, Retry, Reply, Fault
      <4>3. CASE Statement(u, c)
        BY <4>3 DEF Statement, AddUser, SelectMoney, HoldMoney, SelectStock, HoldStock,
                    FileTransaction, SelectLatest, Credit, DeleteTransaction
      <4>. QED  BY <3>1, <4>1, <4>2, <4>3 DEF Steps
    <3>. QED  BY <3>1 DEF Next, Progress, Steps, ClearExpired, vars
  <2>2. now \in Nat
    BY DEF TypeInv, TypeOK
  <2>. QED  BY <2>1, <2>2, ClockAssumption DEF Advance
<1>2. ASSUME NEW u \in Users
      PROVE  /\ call'[u]["COMMIT_BUY"].asked <= now'
             /\ call'[u]["COMMIT_BUY"].at = "select" =>
                  call'[u]["COMMIT_BUY"].asked <= call'[u]["COMMIT_BUY"].time
  <2>1. call[u]["COMMIT_BUY"] \in Call
    BY <1>0 DEF TypeInv, TypeOK
  <2>2. call[u]["COMMIT_BUY"].asked \in Nat
    BY <2>1 DEF Call
  <2>3. CASE call'[u]["COMMIT_BUY"] = call[u]["COMMIT_BUY"]
    BY <1>1, <2>2, <2>3 DEF LateInv, Timely
  <2>4. CASE Steps(u, "COMMIT_BUY")
    <3>1. PICK c : c = "COMMIT_BUY"
      OBVIOUS
    <3>2. /\ call'[u][c].asked <= now
          /\ call'[u][c].at = "select" => call'[u][c].asked <= call'[u][c].time
      BY <1>0, <2>4, <3>1, CommitTimes DEF Steps, LateInv
    <3>3. call'[u][c].asked \in Nat
      <4>1. TypeInv'
        BY TypeStep
      <4>. QED  BY <1>0, <3>1, <4>1 DEF TypeInv, TypeOK, Call
    <3>. QED  BY <1>1, <3>1, <3>2, <3>3
  <2>5. ASSUME NEW v \in Users, NEW c \in Commands, Steps(v, c), v # u \/ c # "COMMIT_BUY"
        PROVE  call'[u]["COMMIT_BUY"] = call[u]["COMMIT_BUY"]
    BY <1>0, <2>5, StepsFrame DEF Frame
  <2>6. UNCHANGED vars \/ Advance \/ ClearExpired => UNCHANGED call
    BY DEF vars, Advance, ClearExpired
  <2>. QED  BY <2>3, <2>4, <2>5, <2>6 DEF Next, Progress, Steps
<1>. QED  BY <1>2 DEF Timely

(* A COMMIT_BUY that goes on to its credit has found its order in time. *)
LEMMA CommitsInTime ==
    ASSUME TypeInv, LateInv, [Next]_vars, NEW u \in Users, NEW t \in transactions,
           call[u]["COMMIT_BUY"].at = "select", call'[u]["COMMIT_BUY"].at = "credit",
           call'[u]["COMMIT_BUY"].id = t.id
    PROVE  call[u]["COMMIT_BUY"].asked - t.time <= 60000
<1>. DEFINE k == call[u]["COMMIT_BUY"]
<1>0. "COMMIT_BUY" \in Commands
  BY DEF Commands, Settlements
<1>1. Steps(u, "COMMIT_BUY")
  <2>1. ~Advance /\ ~ClearExpired /\ ~UNCHANGED vars
    BY DEF vars, Advance, ClearExpired
  <2>2. PICK v \in Users, c \in Commands : Steps(v, c)
    BY <2>1 DEF Next, Progress, Steps
  <2>3. v = u /\ c = "COMMIT_BUY"
    BY <1>0, <2>2, StepsFrame DEF Frame
  <2>. QED  BY <2>2, <2>3
<1>2. SelectLatest(u, "COMMIT_BUY") /\ ~Return(u, "COMMIT_BUY", FALSE)
  <2>1. ~Arrival(u, "COMMIT_BUY") /\ ~StatementOverflows(u, "COMMIT_BUY") /\ ~Fault(u, "COMMIT_BUY")
    BY <1>0, ArrivalFrames, FaultFrames
  <2>2. ~Retry(u, "COMMIT_BUY") /\ ~Reply(u, "COMMIT_BUY")
    BY DEF Retry, Reply
  <2>3. ~Credit(u, "COMMIT_BUY") /\ ~DeleteTransaction(u, "COMMIT_BUY")
    BY DEF Credit, DeleteTransaction
  <2>4. ~Return(u, "COMMIT_BUY", FALSE)
    BY <1>0, ReturnWrites
  <2>. QED  BY <1>1, <2>1, <2>2, <2>3, <2>4 DEF Steps, Statement
<1>3. k \in Call /\ call \in [Users -> [Commands -> Call]]
  BY <1>0 DEF TypeInv, TypeOK
<1>4. PICK x \in Latest(u, Side("COMMIT_BUY")) :
        call'[u]["COMMIT_BUY"] = [k EXCEPT
               !.at = IF Expired(k.time, x) THEN "expire" ELSE "credit",
               !.stock = x.stock, !.price = x.price, !.id = x.id]
  BY <1>0, <1>2, <1>3, ZenonT(60) DEF SelectLatest
<1>5. ~Expired(k.time, x) /\ call'[u]["COMMIT_BUY"].id = x.id
  BY <1>3, <1>4 DEF Call
<1>6. x \in transactions
  BY <1>4 DEF Latest, Pending
<1>7. x = t
  BY <1>5, <1>6 DEF LateInv, IdsUnique
<1>8. k.asked <= k.time /\ k.asked \in Nat /\ k.time \in Nat \cup {NoTime} /\ t.time \in Nat
  BY <1>3 DEF LateInv, Timely, Call, TypeInv, TypeOK, Row
<1>. QED  BY <1>5, <1>7, <1>8 DEF Expired, NoTime

(***************************************************************************)
(* COMMIT_BUY honours no order whose sixty seconds were over when the      *)
(* service received it, also when its callback failed and ran again.       *)
(***************************************************************************)
THEOREM NoBuyIsLate == Spec => NoLateBuy
<1>1. Init => LateInv
  BY ClockAssumption DEF Init, LateInv, Timely, IdsUnique, IdleCall, Commands, Settlements
<1>2. TypeInv /\ LateInv /\ [Next]_vars => (TypeInv /\ LateInv)'
  BY TypeStep, TimelyStep, IdsStep DEF LateInv
<1>3. TypeInv /\ LateInv /\ [Next]_vars
        => [\A u \in Users, t \in transactions :
              /\ call[u]["COMMIT_BUY"].at = "select"
              /\ call'[u]["COMMIT_BUY"].at = "credit"
              /\ call'[u]["COMMIT_BUY"].id = t.id
              => call[u]["COMMIT_BUY"].asked - t.time <= 60000]_vars
  BY CommitsInTime
<1>. QED  BY <1>1, <1>2, <1>3, TypeInit, PTL DEF Spec, NoLateBuy
-----------------------------------------------------------------------------
(* The value of the open orders of user u among all the orders O ever filed. *)
Filed(u, O) == [t \in O |-> IF t.user = u /\ t.id \notin settled THEN t.price ELSE 0]
Ordered(u, O) == SumFunctionOnSet(Filed(u, O), O)

(* What the user's stocks cost. *)
Shares(u) == SumFunctionOnSet(stocks[u], Stocks)

Estate(u, O) ==
    money[u] + Shares(u) + Ordered(u, O)
      + (Unfiled(u, "BUY") + Unfiled(u, "SELL") + Adding(u))


(* The row that call[u][c] has selected. *)
Chosen(t, u, c) ==
    /\ t.user = u
    /\ t.id = call[u][c].id
    /\ t.stock = call[u][c].stock
    /\ t.price = call[u][c].price

(* The orders ever filed: those of the table are among them, and so is the one *)
(* that a settlement has selected, also when the event has deleted it since.   *)
Orders(O) ==
    /\ O \subseteq Row /\ IsFiniteSet(O) /\ transactions \subseteq O
    /\ \A i \in settled : i < nextId
    /\ \A t \in O : t.id < nextId
    /\ \A t1, t2 \in O : t1.id = t2.id => t1 = t2
    /\ \A u \in Users, c \in Commands :
         call[u][c].at \in Active \cup {"clear"} => c \in Settlements /\ \E t \in O : Chosen(t, u, c)

(* A call that comes to its UPDATE has selected a row, and still has it after. *)
LEMMA SelectionsChosen ==
    ASSUME TypeInv, NEW O, Orders(O), NEW u \in Users, NEW c \in Commands, Steps(u, c),
           call'[u][c].at \in Active \cup {"clear"}
    PROVE  c \in Settlements /\ \E t \in O : Chosen(t, u, c)'
<1>0. /\ TRUE \in BOOLEAN /\ FALSE \in BOOLEAN
      /\ "hold" \in Positions /\ "file" \in Positions /\ "done" \in Positions
      /\ "failed" \in Positions
  BY DEF Positions, Statements
<1>1. ASSUME NEW b \in BOOLEAN, Return(u, c, b) PROVE FALSE
  BY <1>1, ReturnWrites DEF Active
<1>2. ASSUME NEW p \in {"hold", "file", "done", "failed"}, Goto(u, c, p) PROVE FALSE
  BY <1>0, <1>2, GotoWrites DEF Active
<1>3. FirstStatement(c) \notin Active \cup {"clear"}
  BY DEF FirstStatement, Active
<1>4. CASE Arrival(u, c)
  BY <1>3, <1>4, ArrivalReceives, ReceiveWrites
<1>5. CASE Retry(u, c)
  BY <1>3, <1>5, RetryWrites
<1>6. CASE Reply(u, c)
  BY <1>6, ReplyWrites DEF Active
<1>7. CASE StatementOverflows(u, c) \/ Fault(u, c)
  BY <1>2, <1>7 DEF StatementOverflows, Fault
<1>8. CASE Statement(u, c)
  <2>1. \/ \E b \in BOOLEAN : Return(u, c, b)
        \/ \E p \in {"hold", "file", "done", "failed"} : Goto(u, c, p)
        \/ c \in Settlements /\ SelectLatest(u, c) /\ ~Return(u, c, FALSE)
        \/ c \in Settlements /\ Credit(u, c)
    BY <1>0, <1>8 DEF Statement, AddUser, SelectMoney, HoldMoney, SelectStock, HoldStock,
                 FileTransaction, DeleteTransaction
  <2>2. CASE c \in Settlements /\ SelectLatest(u, c) /\ ~Return(u, c, FALSE)
    <3>1. PICK t \in Latest(u, Side(c)) :
            /\ call'[u][c].id = t.id
            /\ call'[u][c].stock = t.stock
            /\ call'[u][c].price = t.price
      BY <2>2, SelectWrites
    <3>2. t \in O /\ t.user = u
      BY DEF Latest, Pending, Orders
    <3>. QED  BY <2>2, <3>1, <3>2 DEF Chosen
  <2>3. CASE c \in Settlements /\ Credit(u, c)
    <3>1. PICK t \in O : Chosen(t, u, c)
      BY <2>3 DEF Credit, Orders, Active
    <3>2. SameOrder(u, c)
      BY <2>3, CreditWrites
    <3>. QED  BY <2>3, <3>1, <3>2 DEF Chosen, SameOrder
  <2>. QED  BY <1>1, <1>2, <2>1, <2>2, <2>3
<1>. QED  BY <1>4, <1>5, <1>6, <1>7, <1>8 DEF Steps

(* What a step of one call does to the table, its ids and the settled orders. *)
LEMMA StepsRows ==
    ASSUME TypeInv, NEW u \in Users, NEW c \in Commands, Steps(u, c)
    PROVE  \/ c \in {"BUY", "SELL"} /\ FileTransaction(u, c)
           \/ /\ transactions' \subseteq transactions /\ UNCHANGED nextId
              /\ UNCHANGED settled \/ (Credit(u, c) /\ c \in Settlements)
<1>1. CASE Arrival(u, c)
  BY <1>1, ArrivalReceives DEF Receive
<1>2. CASE StatementOverflows(u, c) \/ Retry(u, c) \/ Reply(u, c) \/ Fault(u, c)
  BY <1>2 DEF StatementOverflows, Retry, Reply, Fault, history
<1>3. CASE Statement(u, c)
  BY <1>3 DEF Statement, AddUser, SelectMoney, HoldMoney, SelectStock, HoldStock,
              SelectLatest, Credit, DeleteTransaction, history
<1>. QED  BY <1>1, <1>2, <1>3 DEF Steps

(* A credit settles an id that was handed out. *)
LEMMA SettledBelow ==
    ASSUME TypeInv, NEW O, Orders(O), NEW u \in Users, NEW c \in Commands, Credit(u, c)
    PROVE  \A i \in settled' : i < nextId
<1>1. settled' = settled \cup {call[u][c].id} /\ call[u][c].at \in Active
  BY DEF Credit, Active
<1>. QED  BY <1>1 DEF Orders, Chosen

(* The row that is filed. *)
LEMMA FiledRow ==
    ASSUME TypeInv, NEW u \in Users, NEW c \in {"BUY", "SELL"}, FileTransaction(u, c)
    PROVE  \E n \in Row : /\ n.id = nextId /\ n.user = u /\ n.price = call[u][c].price
                          /\ transactions' = transactions \cup {n} /\ nextId' = nextId + 1
<1>. DEFINE n == [id |-> nextId, user |-> u, stock |-> call[u][c].stock,
                  price |-> call[u][c].price, type |-> c, time |-> call[u][c].time]
<1>1. call[u][c] \in Call /\ call[u][c].stock \in Stocks /\ call[u][c].time \in Nat
      /\ nextId \in Nat
  BY DEF TypeInv, TypeOK, OrdersNamed, Commands, FileTransaction
<1>2. n \in Row
  BY <1>1 DEF Row, Call
<1>3. n.id = nextId /\ n.user = u /\ n.price = call[u][c].price
  OBVIOUS
<1>4. transactions' = transactions \cup {n} /\ nextId' = nextId + 1
  BY DEF FileTransaction
<1>. HIDE DEF n
<1>. QED  BY <1>2, <1>3, <1>4

(* The orders ever filed, with the one that the step files. *)
LEMMA OrdersStep ==
    ASSUME TypeInv, NEW O, Orders(O), NEW u \in Users, NEW c \in Commands, Steps(u, c),
           NEW P, P = O \cup transactions'
    PROVE  Orders(P)'
<1>0. nextId \in Nat /\ \A t \in O : t.id \in Nat
  BY DEF TypeInv, TypeOK, Orders, Row
<1>1. /\ P \subseteq Row /\ IsFiniteSet(P) /\ O \subseteq P /\ transactions' \subseteq P
      /\ \A i \in settled' : i < nextId'
      /\ \A t \in P : t.id < nextId'
      /\ \A t1, t2 \in P : t1.id = t2.id => t1 = t2
  <2>1. CASE c \in {"BUY", "SELL"} /\ FileTransaction(u, c)
    <3>1. PICK n \in Row : /\ n.id = nextId /\ transactions' = transactions \cup {n}
                           /\ nextId' = nextId + 1
      BY <2>1, FiledRow
    <3>2. P = O \cup {n}
      BY <3>1 DEF Orders
    <3>3. settled' = settled /\ \A i \in settled : i \in Nat
      BY <2>1 DEF FileTransaction, history, TypeInv, TypeOK
    <3>4. \A i \in settled' : i < nextId'
      BY <1>0, <3>1, <3>3 DEF Orders
    <3>5. IsFiniteSet(O \cup {n})
      BY FS_AddElement DEF Orders
    <3>6. \A t \in O : t.id < nextId /\ t.id # n.id
      BY <1>0, <3>1 DEF Orders
    <3>7. \A t \in P : t.id < nextId'
      BY <1>0, <3>1, <3>2, <3>6
    <3>8. \A t1, t2 \in P : t1.id = t2.id => t1 = t2
      BY <3>2, <3>6 DEF Orders
    <3>. QED  BY <3>1, <3>2, <3>4, <3>5, <3>7, <3>8 DEF Orders
  <2>2. CASE /\ transactions' \subseteq transactions /\ UNCHANGED nextId
             /\ UNCHANGED settled \/ (Credit(u, c) /\ c \in Settlements)
    <3>1. P = O
      BY <2>2 DEF Orders
    <3>2. \A i \in settled' : i < nextId'
      BY <2>2, SettledBelow DEF Orders
    <3>. QED  BY <2>2, <3>1, <3>2 DEF Orders
  <2>. QED  BY <2>1, <2>2, StepsRows
<1>2. ASSUME NEW v \in Users, NEW d \in Commands, call'[v][d].at \in Active \cup {"clear"}
      PROVE  d \in Settlements /\ \E t \in P : Chosen(t, v, d)'
  <2>1. CASE v = u /\ d = c
    BY <1>1, <1>2, <2>1, SelectionsChosen
  <2>2. CASE v # u \/ d # c
    <3>1. call'[v][d] = call[v][d]
      BY <2>2, StepsFrame DEF Frame
    <3>2. d \in Settlements /\ \E t \in O : Chosen(t, v, d)
      BY <1>2, <3>1 DEF Orders
    <3>. QED  BY <1>1, <3>1, <3>2 DEF Chosen
  <2>. QED  BY <2>1, <2>2
<1>3. \A v \in Users, d \in Commands :
        call'[v][d].at \in Active \cup {"clear"} => d \in Settlements /\ \E t \in P : Chosen(t, v, d)'
  BY <1>2
<1>. QED  BY <1>1, <1>3 DEF Orders
-----------------------------------------------------------------------------
(* What user u asked to deposit, less what he owns. *)
Gap(u, O) == deposited[u] - Estate(u, O)

(* What a call keeps of it between two statements. *)
Carried(u, c) == IF c = "ADD" THEN Adding(u) ELSE IF c \in {"BUY", "SELL"} THEN Unfiled(u, c) ELSE 0
OnTheWay(u) == Unfiled(u, "BUY") + Unfiled(u, "SELL") + Adding(u)

LEMMA CarriedTypes ==
    TypeInv => \A u \in Users : /\ Unfiled(u, "BUY") \in Nat /\ Unfiled(u, "SELL") \in Nat
                                /\ Adding(u) \in Nat
<1>. SUFFICES ASSUME TypeInv, NEW u \in Users
              PROVE  /\ Unfiled(u, "BUY") \in Nat /\ Unfiled(u, "SELL") \in Nat
                     /\ Adding(u) \in Nat
  OBVIOUS
<1>1. call[u]["BUY"] \in Call /\ call[u]["SELL"] \in Call /\ call[u]["ADD"] \in Call
  BY DEF TypeInv, TypeOK, Commands
<1>. QED  BY <1>1 DEF Unfiled, Adding, Call

LEMMA NextCarried ==
    (TypeInv => \A u \in Users : /\ Unfiled(u, "BUY") \in Nat /\ Unfiled(u, "SELL") \in Nat
                                 /\ Adding(u) \in Nat)'
BY CarriedTypes, PTL

LEMMA CarriedByOne ==
    ASSUME TypeInv, TypeInv', NEW u \in Users, NEW c \in Commands, Frame(u, c), NEW v \in Users
    PROVE  /\ OnTheWay(v) \in Int /\ OnTheWay(v)' \in Int
           /\ v # u => OnTheWay(v)' = OnTheWay(v)
           /\ OnTheWay(u)' - OnTheWay(u) = Carried(u, c)' - Carried(u, c)
           /\ Carried(u, c) \in Int /\ Carried(u, c)' \in Int
<1>0. {"BUY", "SELL", "ADD"} \subseteq Commands
  BY DEF Commands
<1>1. \A w \in Users : /\ Unfiled(w, "BUY") \in Nat /\ Unfiled(w, "SELL") \in Nat
                       /\ Adding(w) \in Nat
  BY CarriedTypes
<1>2. \A w \in Users : /\ Unfiled(w, "BUY")' \in Nat /\ Unfiled(w, "SELL")' \in Nat
                       /\ Adding(w)' \in Nat
  BY NextCarried
<1>3. \A d \in Commands : v # u \/ d # c => call'[v][d] = call[v][d]
  BY DEF Frame
<1>4. v # u => OnTheWay(v)' = OnTheWay(v)
  BY <1>0, <1>3 DEF OnTheWay, Unfiled, Adding
<1>5. \A d \in Commands : d # c => call'[u][d] = call[u][d]
  BY DEF Frame
<1>6. /\ c # "BUY" => Unfiled(u, "BUY")' = Unfiled(u, "BUY")
      /\ c # "SELL" => Unfiled(u, "SELL")' = Unfiled(u, "SELL")
      /\ c # "ADD" => Adding(u)' = Adding(u)
  BY <1>0, <1>5 DEF Unfiled, Adding
<1>7. OnTheWay(u)' - OnTheWay(u) = Carried(u, c)' - Carried(u, c)
  BY <1>1, <1>2, <1>6 DEF OnTheWay, Carried
<1>8. OnTheWay(v) \in Int /\ OnTheWay(v)' \in Int
  BY <1>1, <1>2 DEF OnTheWay
<1>9. Carried(u, c) \in Int /\ Carried(u, c)' \in Int
  BY <1>1, <1>2 DEF Carried
<1>. QED  BY <1>4, <1>7, <1>8, <1>9

LEMMA EstateTypes ==
    ASSUME IsFiniteSet(Stocks), TypeInv, NEW O, O \subseteq Row, IsFiniteSet(O), NEW u \in Users
    PROVE  /\ money[u] \in Int /\ deposited[u] \in Int
           /\ Shares(u) \in Int /\ Ordered(u, O) \in Int
<1>1. Shares(u) \in Int
  <2>1. \A s \in Stocks : stocks[u][s] \in Int
    BY DEF TypeInv, TypeOK
  <2>. QED  BY <2>1, SumSplit DEF Shares
<1>2. Ordered(u, O) \in Int
  <2>1. \A t \in O : Filed(u, O)[t] \in Int
    BY DEF Filed, Row
  <2>. QED  BY <2>1, SumSplit DEF Ordered
<1>. QED  BY <1>1, <1>2 DEF TypeInv, TypeOK

LEMMA NextEstateTypes ==
    ASSUME IsFiniteSet(Stocks), TypeInv', NEW O, O \subseteq Row, IsFiniteSet(O), NEW u \in Users
    PROVE  /\ money'[u] \in Int /\ deposited'[u] \in Int
           /\ Shares(u)' \in Int /\ Ordered(u, O)' \in Int
<1>1. Shares(u)' \in Int
  <2>1. \A s \in Stocks : stocks'[u][s] \in Int
    BY DEF TypeInv, TypeOK
  <2>. QED  BY <2>1, SumSplit DEF Shares
<1>2. Ordered(u, O)' \in Int
  <2>1. \A t \in O : Filed(u, O)'[t] \in Int
    BY DEF Filed, Row
  <2>. QED  BY <2>1, SumSplit DEF Ordered
<1>. QED  BY <1>1, <1>2 DEF TypeInv, TypeOK

LEMMA EstateTyped ==
    ASSUME IsFiniteSet(Stocks), TypeInv, NEW O, Orders(O), NEW u \in Users
    PROVE  Estate(u, O) \in Int /\ deposited[u] \in Int /\ Gap(u, O) \in Int
<1>. DEFINE h == Shares(u)
            o == Ordered(u, O)
<1>1. h \in Int /\ o \in Int /\ money[u] \in Int /\ deposited[u] \in Int
  BY EstateTypes DEF Orders
<1>2. Unfiled(u, "BUY") \in Int /\ Unfiled(u, "SELL") \in Int /\ Adding(u) \in Int
  BY CarriedTypes
<1>3. Estate(u, O) = money[u] + h + o + (Unfiled(u, "BUY") + Unfiled(u, "SELL") + Adding(u))
  BY DEF Estate
<1>. HIDE DEF h, o
<1>4. Estate(u, O) \in Int
  BY <1>1, <1>2, <1>3
<1>. QED  BY <1>1, <1>4 DEF Gap

(* A step of one call moves value of its user, and the parts that it changes *)
(* add up to the same.                                                       *)
LEMMA Balanced ==
    ASSUME IsFiniteSet(Stocks), TypeInv, TypeInv', NEW O, NEW P, Orders(O), Orders(P)',
           NEW u \in Users, NEW c \in Commands, Frame(u, c),
           \A v \in Users \ {u} : /\ money'[v] = money[v] /\ stocks'[v] = stocks[v]
                                  /\ deposited'[v] = deposited[v]
                                  /\ Ordered(v, P)' = Ordered(v, O),
           money'[u] + Shares(u)' + Ordered(u, P)' + Carried(u, c)' - deposited'[u]
             = money[u] + Shares(u) + Ordered(u, O) + Carried(u, c) - deposited[u]
    PROVE  \A v \in Users : Gap(v, P)' = Gap(v, O)
<1>. SUFFICES ASSUME NEW v \in Users PROVE Gap(v, P)' = Gap(v, O)
  OBVIOUS
<1>1. Gap(v, O) = deposited[v] - (money[v] + Shares(v) + Ordered(v, O) + OnTheWay(v))
  BY DEF Gap, Estate, OnTheWay
<1>2. Gap(v, P)' = deposited'[v] - (money'[v] + Shares(v)' + Ordered(v, P)' + OnTheWay(v)')
  BY DEF Gap, Estate, OnTheWay
<1>3. CASE v = u
  <2>. DEFINE X == money[u] + Shares(u) + Ordered(u, O)
              Y == money'[u] + Shares(u)' + Ordered(u, P)'
              w == OnTheWay(u)
              w1 == OnTheWay(u)'
              k == Carried(u, c)
              k1 == Carried(u, c)'
              d == deposited[u]
              d1 == deposited'[u]
  <2>1. X \in Int /\ Y \in Int /\ d \in Int /\ d1 \in Int
    BY EstateTypes, NextEstateTypes DEF Orders
  <2>2. w \in Int /\ w1 \in Int /\ k \in Int /\ k1 \in Int /\ w1 - w = k1 - k
    BY CarriedByOne
  <2>3. Y + k1 - d1 = X + k - d
    OBVIOUS
  <2>4. d1 - (Y + w1) = d - (X + w)
    <3>. HIDE DEF X, Y, w, w1, k, k1, d, d1
    <3>. QED  BY <2>1, <2>2, <2>3
  <2>. QED  BY <1>1, <1>2, <1>3, <2>4
<1>4. CASE v # u
  <2>1. Shares(v)' = Shares(v) /\ OnTheWay(v)' = OnTheWay(v)
    BY <1>4, CarriedByOne DEF Shares
  <2>. QED  BY <1>1, <1>2, <1>4, <2>1
<1>. QED  BY <1>3, <1>4

(* The same of a step that settles and files nothing. *)
LEMMA BalancedSame ==
    ASSUME IsFiniteSet(Stocks), TypeInv, TypeInv', NEW O, Orders(O), Orders(O)',
           NEW u \in Users, NEW c \in Commands, Frame(u, c), UNCHANGED settled,
           \A v \in Users \ {u} : /\ money'[v] = money[v] /\ stocks'[v] = stocks[v]
                                  /\ deposited'[v] = deposited[v],
           money'[u] + Shares(u)' + Carried(u, c)' - deposited'[u]
             = money[u] + Shares(u) + Carried(u, c) - deposited[u]
    PROVE  \A v \in Users : Gap(v, O)' = Gap(v, O)
<1>1. \A v \in Users : Ordered(v, O)' = Ordered(v, O)
  BY DEF Ordered, Filed
<1>2. money'[u] + Shares(u)' + Ordered(u, O)' + Carried(u, c)' - deposited'[u]
        = money[u] + Shares(u) + Ordered(u, O) + Carried(u, c) - deposited[u]
  <2>. DEFINE m == money[u]
              m1 == money'[u]
              s == Shares(u)
              s1 == Shares(u)'
              k == Carried(u, c)
              k1 == Carried(u, c)'
              d == deposited[u]
              d1 == deposited'[u]
              o == Ordered(u, O)
  <2>1. /\ m \in Int /\ m1 \in Int /\ s \in Int /\ s1 \in Int /\ k \in Int /\ k1 \in Int
        /\ d \in Int /\ d1 \in Int /\ o \in Int
    BY EstateTypes, NextEstateTypes, CarriedByOne DEF Orders
  <2>2. m1 + s1 + k1 - d1 = m + s + k - d
    OBVIOUS
  <2>3. m1 + s1 + o + k1 - d1 = m + s + o + k - d
    <3>. HIDE DEF m, m1, s, s1, k, k1, d, d1, o
    <3>. QED  BY <2>1, <2>2
  <2>. QED  BY <1>1, <2>3
<1>3. \A v \in Users \ {u} : /\ money'[v] = money[v] /\ stocks'[v] = stocks[v]
                             /\ deposited'[v] = deposited[v]
                             /\ Ordered(v, O)' = Ordered(v, O)
  BY <1>1
<1>. QED  BY <1>2, <1>3, Balanced

(* A step that changes no balance. *)
LEMMA BalancedQuiet ==
    ASSUME IsFiniteSet(Stocks), TypeInv, TypeInv', NEW O, Orders(O), Orders(O)',
           NEW u \in Users, NEW c \in Commands, Frame(u, c),
           UNCHANGED <<money, stocks, deposited, settled>>, Carried(u, c)' = Carried(u, c)
    PROVE  \A v \in Users : Gap(v, O)' = Gap(v, O)
<1>1. Shares(u)' = Shares(u)
  BY DEF Shares
<1>. QED  BY <1>1, BalancedSame

LEMMA Deposits ==
    ASSUME IsFiniteSet(Stocks), TypeInv, TypeInv', NEW O, Orders(O), Orders(O)',
           NEW u \in Users, NEW c \in Commands, Arrival(u, c)
    PROVE  \A v \in Users : Gap(v, O)' = Gap(v, O)
<1>1. Frame(u, c) /\ call[u][c].at = "idle"
  BY ArrivalFrames
<1>2. CASE c = "ADD" /\ ReceiveAdd(u)
  <2>1. PICK f \in Funds : /\ Receive(u, c, NoStock, f)
                           /\ deposited' = [deposited EXCEPT ![u] = @ + f]
    BY <1>2 DEF ReceiveAdd
  <2>2. f \in Nat
    BY AmountsAssumption
  <2>3. call'[u][c].at = "upsert" /\ call'[u][c].price = f
    BY <1>2, <2>1, <2>2, ReceiveWrites DEF FirstStatement
  <2>4. Carried(u, c) = 0 /\ Carried(u, c)' = f
    BY <1>1, <1>2, <2>3 DEF Carried, Adding
  <2>5. UNCHANGED <<money, stocks, settled>> /\ Shares(u)' = Shares(u)
    BY <2>1 DEF Receive, Shares
  <2>6. /\ deposited'[u] = deposited[u] + f
        /\ \A v \in Users \ {u} : deposited'[v] = deposited[v]
    BY <2>1 DEF TypeInv, TypeOK
  <2>7. /\ money[u] \in Int /\ deposited[u] \in Int /\ Shares(u) \in Int
    BY EstateTypes DEF Orders
  <2>8. money'[u] + Shares(u)' + Carried(u, c)' - deposited'[u]
          = money[u] + Shares(u) + Carried(u, c) - deposited[u]
    <3>. DEFINE s == Shares(u)
    <3>1. s \in Int /\ Shares(u)' = s
      BY <2>5, <2>7
    <3>. HIDE DEF s
    <3>2. money[u] + s + f - (deposited[u] + f) = money[u] + s + 0 - deposited[u]
      BY <2>2, <2>7, <3>1
    <3>. QED  BY <2>4, <2>5, <2>6, <3>2 DEF s
  <2>. QED  BY <1>1, <2>5, <2>6, <2>8, BalancedSame
<1>3. CASE \/ c \in {"BUY", "SELL"} /\ ReceiveOrder(u, c)
           \/ c \in Settlements /\ ReceiveSettlement(u, c)
  <2>1. /\ c # "ADD" /\ UNCHANGED deposited
        /\ \E s \in Stocks \cup {NoStock}, p \in Nat : Receive(u, c, s, p)
    BY <1>3, WholeSharesNat DEF ReceiveOrder, ReceiveSettlement, Settlements
  <2>2. call'[u][c].at = FirstStatement(c) /\ UNCHANGED <<money, stocks, settled>>
    BY <2>1, ReceiveWrites, ZenonT(60) DEF Receive
  <2>3. Carried(u, c)' = Carried(u, c)
    BY <1>1, <2>1, <2>2 DEF Carried, Unfiled, FirstStatement
  <2>. QED  BY <1>1, <2>1, <2>2, <2>3, BalancedQuiet
<1>. QED  BY <1>2, <1>3, ArrivalKinds

(* ADD, and the UPDATE of BUY. *)
LEMMA MovesMoney ==
    ASSUME IsFiniteSet(Stocks), TypeInv, TypeInv', NEW O, Orders(O), Orders(O)',
           NEW u \in Users, NEW c \in Commands,
           (c = "ADD" /\ AddUser(u)) \/ (c = "BUY" /\ HoldMoney(u))
    PROVE  \A v \in Users : Gap(v, O)' = Gap(v, O)
<1>. DEFINE p == call[u][c].price
<1>0. p \in Int /\ TRUE \in BOOLEAN /\ "file" \in Positions
  BY DEF TypeInv, TypeOK, Call, Positions, Statements
<1>1. UNCHANGED <<stocks, deposited, settled>> /\ Shares(u)' = Shares(u)
  BY DEF AddUser, HoldMoney, history, Shares
<1>2. /\ money[u] \in Int /\ deposited[u] \in Int /\ Shares(u) \in Int
  BY EstateTypes DEF Orders
<1>3. CASE c = "ADD" /\ AddUser(u)
  <2>1. call[u][c].at = "upsert" /\ Return(u, c, TRUE) /\ money' = [money EXCEPT ![u] = @ + p]
    BY <1>3 DEF AddUser
  <2>2. Frame(u, c) /\ call'[u][c].at = "done"
    BY <1>0, <2>1, ReturnWrites
  <2>3. Carried(u, c) = p /\ Carried(u, c)' = 0
    BY <1>3, <2>1, <2>2 DEF Carried, Adding
  <2>4. money'[u] = money[u] + p /\ \A v \in Users \ {u} : money'[v] = money[v]
    BY <2>1 DEF TypeInv, TypeOK
  <2>5. money'[u] + Shares(u)' + Carried(u, c)' - deposited'[u]
          = money[u] + Shares(u) + Carried(u, c) - deposited[u]
    <3>. DEFINE s == Shares(u)
    <3>1. s \in Int /\ Shares(u)' = s
      BY <1>1, <1>2
    <3>. HIDE DEF s, p
    <3>2. (money[u] + p) + s + 0 - deposited[u] = money[u] + s + p - deposited[u]
      BY <1>0, <1>2, <3>1
    <3>. QED  BY <1>1, <2>3, <2>4, <3>2 DEF s
  <2>. QED  BY <1>1, <2>2, <2>4, <2>5, BalancedSame
<1>4. CASE c = "BUY" /\ HoldMoney(u)
  <2>1. call[u][c].at = "hold" /\ Goto(u, c, "file") /\ money' = [money EXCEPT ![u] = @ - p]
    BY <1>4 DEF HoldMoney
  <2>2. Frame(u, c) /\ call'[u][c].at = "file" /\ call'[u][c].price = p
    BY <1>0, <2>1, GotoWrites DEF SameOrder
  <2>3. Carried(u, c) = 0 /\ Carried(u, c)' = p
    BY <1>4, <2>1, <2>2 DEF Carried, Unfiled
  <2>4. money'[u] = money[u] - p /\ \A v \in Users \ {u} : money'[v] = money[v]
    BY <2>1 DEF TypeInv, TypeOK
  <2>5. money'[u] + Shares(u)' + Carried(u, c)' - deposited'[u]
          = money[u] + Shares(u) + Carried(u, c) - deposited[u]
    <3>. DEFINE s == Shares(u)
    <3>1. s \in Int /\ Shares(u)' = s
      BY <1>1, <1>2
    <3>. HIDE DEF s, p
    <3>2. (money[u] - p) + s + p - deposited[u] = money[u] + s + 0 - deposited[u]
      BY <1>0, <1>2, <3>1
    <3>. QED  BY <1>1, <2>3, <2>4, <3>2 DEF s
  <2>. QED  BY <1>1, <2>2, <2>4, <2>5, BalancedSame
<1>. QED  BY <1>3, <1>4

(* One stock of a user changes. *)
LEMMA SharesChange ==
    ASSUME IsFiniteSet(Stocks), TypeInv, NEW u \in Users, NEW s \in Stocks, NEW n \in Int,
           stocks' = [stocks EXCEPT ![u][s] = @ + n]
    PROVE  /\ Shares(u)' = Shares(u) + n
           /\ \A v \in Users \ {u} : stocks'[v] = stocks[v]
<1>1. /\ \A x \in Stocks : stocks[u][x] \in Int
      /\ stocks'[u][s] = stocks[u][s] + n
      /\ \A x \in Stocks \ {s} : stocks'[u][x] = stocks[u][x]
      /\ \A v \in Users \ {u} : stocks'[v] = stocks[v]
  BY DEF TypeInv, TypeOK
<1>2. stocks'[u][s] \in Int
  BY <1>1
<1>3. SumFunctionOnSet(stocks'[u], Stocks)
        = SumFunctionOnSet(stocks[u], Stocks) + (stocks'[u][s] - stocks[u][s])
  <2>. DEFINE f == stocks[u]
              g == stocks'[u]
  <2>1. /\ \A x \in Stocks : f[x] \in Int
        /\ g[s] \in Int
        /\ \A x \in Stocks \ {s} : g[x] = f[x]
    BY <1>1, <1>2
  <2>. HIDE DEF f, g
  <2>2. SumFunctionOnSet(g, Stocks) = SumFunctionOnSet(f, Stocks) + (g[s] - f[s])
    BY <2>1, SumChange
  <2>. QED  BY <2>2 DEF f, g
<1>4. stocks'[u][s] - stocks[u][s] = n
  BY <1>1
<1>. QED  BY <1>1, <1>3, <1>4 DEF Shares

(* The UPDATE of SELL. *)
LEMMA MovesStock ==
    ASSUME IsFiniteSet(Stocks), TypeInv, TypeInv', NEW O, Orders(O), Orders(O)',
           NEW u \in Users, NEW c \in Commands, c = "SELL", HoldStock(u)
    PROVE  \A v \in Users : Gap(v, O)' = Gap(v, O)
<1>. DEFINE p == call[u][c].price
            s == call[u][c].stock
<1>0. p \in Int /\ "file" \in Positions /\ s \in Stocks
  BY DEF HoldStock, TypeInv, TypeOK, OrdersNamed, Call, Positions, Statements
<1>1. UNCHANGED <<money, deposited, settled>>
  BY DEF HoldStock, history
<1>2. call[u][c].at = "hold" /\ Goto(u, c, "file") /\ stocks' = [stocks EXCEPT ![u][s] = @ - p]
  BY DEF HoldStock
<1>3. Frame(u, c) /\ call'[u][c].at = "file" /\ call'[u][c].price = p
  BY <1>0, <1>2, GotoWrites DEF SameOrder
<1>4. Carried(u, c) = 0 /\ Carried(u, c)' = p
  BY <1>2, <1>3 DEF Carried, Unfiled
<1>5. \E n \in Int : n = -p /\ stocks' = [stocks EXCEPT ![u][s] = @ + n]
  <2>. HIDE DEF p, s
  <2>1. stocks[u][s] \in Int
    BY <1>0 DEF TypeInv, TypeOK
  <2>2. stocks[u][s] - p = stocks[u][s] + (-p) /\ -p \in Int
    BY <1>0, <2>1
  <2>3. stocks' = [stocks EXCEPT ![u][s] = stocks[u][s] - p]
    BY <1>2
  <2>4. stocks' = [stocks EXCEPT ![u][s] = @ + (-p)]
    BY <2>2, <2>3
  <2>. QED  BY <2>2, <2>4
<1>6. /\ Shares(u)' = Shares(u) + (-p) /\ Shares(u) \in Int
      /\ \A v \in Users \ {u} : stocks'[v] = stocks[v]
  <2>. HIDE DEF p, s
  <2>1. PICK n \in Int : n = -p /\ stocks' = [stocks EXCEPT ![u][s] = @ + n]
    BY <1>5
  <2>2. /\ Shares(u)' = Shares(u) + n
        /\ \A v \in Users \ {u} : stocks'[v] = stocks[v]
    BY <1>0, <2>1, SharesChange
  <2>. QED  BY <2>1, <2>2, EstateTypes DEF Orders
<1>7. /\ money[u] \in Int /\ deposited[u] \in Int
  BY DEF TypeInv, TypeOK
<1>8. money'[u] + Shares(u)' + Carried(u, c)' - deposited'[u]
        = money[u] + Shares(u) + Carried(u, c) - deposited[u]
  <2>. DEFINE h == Shares(u)
  <2>1. h \in Int /\ Shares(u)' = h + (-p)
    BY <1>6
  <2>. HIDE DEF h, p
  <2>2. money[u] + (h + (-p)) + p - deposited[u] = money[u] + h + 0 - deposited[u]
    BY <1>0, <1>7, <2>1
  <2>. QED  BY <1>1, <1>4, <2>1, <2>2 DEF h
<1>. QED  BY <1>1, <1>3, <1>6, <1>8, BalancedSame
(* A row that is filed adds its price to the orders of its user. *)
LEMMA OrderedMore ==
    ASSUME NEW O, O \subseteq Row, IsFiniteSet(O), NEW n \in Row, n \notin O,
           n.id \notin settled, UNCHANGED settled, NEW v
    PROVE  /\ n.user = v => Ordered(v, O \cup {n})' = Ordered(v, O) + n.price
           /\ n.user # v => Ordered(v, O \cup {n})' = Ordered(v, O)
<1>. DEFINE P == O \cup {n}
            f == Filed(v, O)
            g == Filed(v, P)
<1>1. g' = g
  BY DEF Filed
<1>2. /\ \A t \in P : g[t] \in Int
      /\ \A t \in O : f[t] = g[t]
      /\ \A t \in O : f[t] \in Int
      /\ g[n] = IF n.user = v THEN n.price ELSE 0
      /\ n.price \in Int
  BY DEF Filed, Row
<1>3. Ordered(v, O \cup {n})' = SumFunctionOnSet(g, P) /\ Ordered(v, O) = SumFunctionOnSet(f, O)
  BY <1>1 DEF Ordered
<1>. HIDE DEF f, g
<1>4. SumFunctionOnSet(g, O \cup {n}) = SumFunctionOnSet(g, O) + g[n]
  BY <1>2, SumMore
<1>5. SumFunctionOnSet(g, O) = SumFunctionOnSet(f, O) /\ SumFunctionOnSet(f, O) \in Int
  BY <1>2, SumSame, SumSplit
<1>. QED  BY <1>2, <1>3, <1>4, <1>5

(* A row that is settled is no order of its user any more. *)
LEMMA OrderedLess ==
    ASSUME NEW O, O \subseteq Row, IsFiniteSet(O), NEW t \in O,
           \A x \in O : x.id = t.id => x = t,
           t.id \notin settled, settled' = settled \cup {t.id}, NEW v
    PROVE  /\ t.user = v => Ordered(v, O)' = Ordered(v, O) - t.price
           /\ t.user # v => Ordered(v, O)' = Ordered(v, O)
<1>. DEFINE f == Filed(v, O)
            g == Filed(v, O)'
<1>1. /\ \A x \in O : f[x] \in Int
      /\ \A x \in O : f[x] = IF x.user = v /\ x.id \notin settled THEN x.price ELSE 0
      /\ \A x \in O : g[x] = IF x.user = v /\ x.id \notin settled' THEN x.price ELSE 0
      /\ t.price \in Int
  BY DEF Filed, Row
<1>2. Ordered(v, O)' = SumFunctionOnSet(g, O) /\ Ordered(v, O) = SumFunctionOnSet(f, O)
  BY DEF Ordered
<1>. HIDE DEF f, g
<1>3. /\ g[t] = 0 /\ \A x \in O \ {t} : g[x] = f[x]
      /\ f[t] = IF t.user = v THEN t.price ELSE 0
  BY <1>1
<1>4. SumFunctionOnSet(g, O) = SumFunctionOnSet(f, O) + (g[t] - f[t])
  BY <1>1, <1>3, SumChange
<1>5. SumFunctionOnSet(f, O) \in Int
  BY <1>1, SumSplit
<1>. QED  BY <1>1, <1>2, <1>3, <1>4, <1>5

(* The INSERT of an order. *)
LEMMA Files ==
    ASSUME IsFiniteSet(Stocks), TypeInv, TypeInv', NEW O, Orders(O),
           NEW P, P = O \cup transactions', Orders(P)',
           NEW u \in Users, NEW c \in {"BUY", "SELL"}, FileTransaction(u, c)
    PROVE  \A v \in Users : Gap(v, P)' = Gap(v, O)
<1>. DEFINE p == call[u][c].price
<1>0. /\ p \in Int /\ TRUE \in BOOLEAN /\ c \in Commands /\ nextId \in Nat
  BY DEF TypeInv, TypeOK, Call, Commands
<1>1. PICK n \in Row : /\ n.id = nextId /\ n.user = u /\ n.price = p
                       /\ transactions' = transactions \cup {n} /\ nextId' = nextId + 1
  BY FiledRow
<1>2. UNCHANGED <<money, stocks, deposited, settled>> /\ Shares(u)' = Shares(u)
  BY DEF FileTransaction, history, Shares
<1>3. n \notin O /\ n.id \notin settled /\ P = O \cup {n}
  BY <1>0, <1>1 DEF Orders
<1>4. Ordered(u, P)' = Ordered(u, O) + p /\ \A v \in Users \ {u} : Ordered(v, P)' = Ordered(v, O)
  BY <1>1, <1>2, <1>3, OrderedMore DEF Orders
<1>5. call[u][c].at = "file" /\ Frame(u, c) /\ call'[u][c].at = "done"
  <2>1. Return(u, c, TRUE) /\ call[u][c].at = "file"
    BY DEF FileTransaction
  <2>. QED  BY <1>0, <2>1, ReturnWrites
<1>6. Carried(u, c) = p /\ Carried(u, c)' = 0
  BY <1>5 DEF Carried, Unfiled
<1>7. /\ money[u] \in Int /\ deposited[u] \in Int /\ Shares(u) \in Int /\ Ordered(u, O) \in Int
  BY EstateTypes DEF Orders
<1>8. money'[u] + Shares(u)' + Ordered(u, P)' + Carried(u, c)' - deposited'[u]
        = money[u] + Shares(u) + Ordered(u, O) + Carried(u, c) - deposited[u]
  <2>. DEFINE s == Shares(u)
              o == Ordered(u, O)
  <2>1. s \in Int /\ Shares(u)' = s /\ o \in Int /\ Ordered(u, P)' = o + p
    BY <1>2, <1>4, <1>7
  <2>. HIDE DEF s, o, p
  <2>2. money[u] + s + (o + p) + 0 - deposited[u] = money[u] + s + o + p - deposited[u]
    BY <1>0, <1>7, <2>1
  <2>. QED  BY <1>2, <1>6, <2>1, <2>2 DEF s, o
<1>9. \A v \in Users \ {u} : /\ money'[v] = money[v] /\ stocks'[v] = stocks[v]
                             /\ deposited'[v] = deposited[v]
                             /\ Ordered(v, P)' = Ordered(v, O)
  BY <1>2, <1>4
<1>. QED  BY <1>0, <1>5, <1>8, <1>9, Balanced

(* The UPDATE that gives the value of an order back, or what was bought for it. *)
LEMMA Credits ==
    ASSUME IsFiniteSet(Stocks), TypeInv, TypeInv', NEW O, Orders(O), Orders(O)',
           NEW u \in Users, NEW c \in Settlements, Credit(u, c), resettled' = {}
    PROVE  \A v \in Users : Gap(v, O)' = Gap(v, O)
<1>. DEFINE p == call[u][c].price
            s == call[u][c].stock
<1>0. /\ p \in Int /\ c \in Commands /\ c \notin {"ADD", "BUY", "SELL"}
  BY DEF TypeInv, TypeOK, Call, Commands, Settlements
<1>1. /\ call[u][c].at \in Active /\ UNCHANGED deposited
      /\ settled' = settled \cup {call[u][c].id} /\ call[u][c].id \notin settled
  BY DEF Credit, Active
<1>2. PICK t \in O : t.user = u /\ t.id = call[u][c].id /\ t.stock = s /\ t.price = p
  BY <1>0, <1>1 DEF Orders, Chosen
<1>3. s \in Stocks
  BY <1>2 DEF Orders, Row
<1>4. Ordered(u, O)' = Ordered(u, O) - p /\ \A v \in Users \ {u} : Ordered(v, O)' = Ordered(v, O)
  BY <1>1, <1>2, OrderedLess DEF Orders
<1>5. Frame(u, c) /\ Carried(u, c) = 0 /\ Carried(u, c)' = 0
  BY <1>0, CreditWrites DEF Carried
<1>6. /\ money[u] \in Int /\ deposited[u] \in Int /\ Shares(u) \in Int /\ Ordered(u, O) \in Int
  BY EstateTypes DEF Orders
<1>7. /\ \/ money'[u] = money[u] + p /\ Shares(u)' = Shares(u)
         \/ money'[u] = money[u] /\ Shares(u)' = Shares(u) + p
      /\ \A v \in Users \ {u} : money'[v] = money[v] /\ stocks'[v] = stocks[v]
  <2>. HIDE DEF p, s
  <2>1. CASE CreditMoney(u, c)
    <3>1. money' = [money EXCEPT ![u] = @ + p] /\ UNCHANGED stocks
      BY <2>1 DEF CreditMoney, p
    <3>2. money'[u] = money[u] + p /\ \A v \in Users \ {u} : money'[v] = money[v]
      BY <3>1 DEF TypeInv, TypeOK
    <3>. QED  BY <3>1, <3>2 DEF Shares
  <2>2. CASE CreditStock(u, c)
    <3>1. stocks' = [stocks EXCEPT ![u][s] = @ + p] /\ UNCHANGED money
      BY <2>2 DEF CreditStock, p, s
    <3>. QED  BY <1>0, <1>3, <3>1, SharesChange
  <2>. QED  BY <2>1, <2>2 DEF Credit
<1>8. money'[u] + Shares(u)' + Ordered(u, O)' + Carried(u, c)' - deposited'[u]
        = money[u] + Shares(u) + Ordered(u, O) + Carried(u, c) - deposited[u]
  <2>. DEFINE h == Shares(u)
              o == Ordered(u, O)
  <2>1. /\ h \in Int /\ o \in Int /\ Ordered(u, O)' = o - p
        /\ \/ money'[u] = money[u] + p /\ Shares(u)' = h
           \/ money'[u] = money[u] /\ Shares(u)' = h + p
    BY <1>4, <1>6, <1>7
  <2>. HIDE DEF h, o, p
  <2>2. /\ (money[u] + p) + h + (o - p) + 0 - deposited[u] = money[u] + h + o + 0 - deposited[u]
        /\ money[u] + (h + p) + (o - p) + 0 - deposited[u] = money[u] + h + o + 0 - deposited[u]
    BY <1>0, <1>6, <2>1
  <2>. QED  BY <1>1, <1>5, <2>1, <2>2 DEF h, o
<1>9. \A v \in Users \ {u} : /\ money'[v] = money[v] /\ stocks'[v] = stocks[v]
                             /\ deposited'[v] = deposited[v]
                             /\ Ordered(v, O)' = Ordered(v, O)
  BY <1>1, <1>4, <1>7
<1>. QED  BY <1>0, <1>5, <1>8, <1>9, Balanced

(* Every other statement, overflow, retry and answer changes no balance. *)
LEMMA CarriedStays ==
    ASSUME TypeInv, NEW O, Orders(O), NEW u \in Users, NEW c \in Commands,
           \/ c = "BUY" /\ SelectMoney(u)
           \/ c = "SELL" /\ SelectStock(u)
           \/ c \in Settlements /\ (SelectLatest(u, c) \/ DeleteTransaction(u, c))
           \/ StatementOverflows(u, c) \/ Retry(u, c) \/ Reply(u, c)
    PROVE  /\ Frame(u, c) /\ Carried(u, c)' = Carried(u, c)
           /\ UNCHANGED <<money, stocks, deposited, settled>>
<1>0. /\ TRUE \in BOOLEAN /\ FALSE \in BOOLEAN /\ "hold" \in Positions /\ "failed" \in Positions
  BY DEF Positions, Statements
<1>1. UNCHANGED <<money, stocks, deposited, settled>>
  BY DEF SelectMoney, SelectStock, SelectLatest, DeleteTransaction, StatementOverflows,
         Retry, Reply, history
<1>2. Frame(u, c)
  BY StepsFrame DEF Steps, Statement
<1>3. CASE c \in Settlements
  BY <1>1, <1>2, <1>3 DEF Carried, Settlements
<1>4. CASE (c = "BUY" /\ SelectMoney(u)) \/ (c = "SELL" /\ SelectStock(u))
  <2>1. call[u][c].at = "select" /\ (Goto(u, c, "hold") \/ Return(u, c, FALSE))
    BY <1>4 DEF SelectMoney, SelectStock
  <2>2. call'[u][c].at \in {"hold", "done"}
    BY <1>0, <2>1, GotoWrites, ReturnWrites
  <2>. QED  BY <1>1, <1>2, <1>4, <2>1, <2>2 DEF Carried, Unfiled
<1>5. CASE StatementOverflows(u, c)
  <2>1. call[u][c].at \in Active \cup {"upsert"} /\ Goto(u, c, "failed")
    BY <1>5 DEF StatementOverflows, Overflows, Active
  <2>2. call'[u][c].at = "failed" /\ call'[u][c].price = call[u][c].price
    BY <1>0, <2>1, GotoWrites DEF SameOrder
  <2>3. c = "ADD" => call[u][c].at = "upsert"
    BY <2>1 DEF Orders, Settlements
  <2>. QED  BY <1>1, <1>2, <2>1, <2>2, <2>3 DEF Carried, Unfiled, Adding, Active
<1>6. CASE Retry(u, c)
  <2>1. /\ call[u][c].at = "failed" /\ call'[u][c].at = FirstStatement(c)
        /\ call'[u][c].price = call[u][c].price
    BY <1>6, RetryWrites DEF Retry
  <2>. QED  BY <1>1, <1>2, <2>1 DEF Carried, Unfiled, Adding, FirstStatement
<1>7. CASE Reply(u, c)
  <2>1. call[u][c].at = "done" /\ call'[u][c].at = "idle"
    BY <1>7, ReplyWrites DEF Reply
  <2>. QED  BY <1>1, <1>2, <2>1 DEF Carried, Unfiled, Adding
<1>. QED  BY <1>3, <1>4, <1>5, <1>6, <1>7
-----------------------------------------------------------------------------
(* A step of a call that nothing failed and that settled nothing twice. *)
LEMMA GapCall ==
    ASSUME IsFiniteSet(Stocks), TypeInv, TypeInv', NEW O, Orders(O),
           NEW P, P = O \cup transactions', Orders(P)',
           NEW u \in Users, NEW c \in Commands, Steps(u, c), faults' = 0, resettled' = {}
    PROVE  \A v \in Users : Gap(v, P)' = Gap(v, O)
<1>1. CASE c \in {"BUY", "SELL"} /\ FileTransaction(u, c)
  BY <1>1, Files
<1>2. CASE ~(c \in {"BUY", "SELL"} /\ FileTransaction(u, c))
  <2>1. P = O
    BY <1>2, StepsRows DEF Orders
  <2>2. ~Fault(u, c)
    BY DEF Fault, TypeInv, TypeOK
  <2>3. CASE Arrival(u, c)
    BY <2>1, <2>3, Deposits
  <2>4. CASE (c = "ADD" /\ AddUser(u)) \/ (c = "BUY" /\ HoldMoney(u))
    BY <2>1, <2>4, MovesMoney
  <2>5. CASE c = "SELL" /\ HoldStock(u)
    BY <2>1, <2>5, MovesStock
  <2>6. CASE c \in Settlements /\ Credit(u, c)
    BY <2>1, <2>6, Credits
  <2>7. CASE \/ c = "BUY" /\ SelectMoney(u)
             \/ c = "SELL" /\ SelectStock(u)
             \/ c \in Settlements /\ (SelectLatest(u, c) \/ DeleteTransaction(u, c))
             \/ StatementOverflows(u, c) \/ Retry(u, c) \/ Reply(u, c)
    BY <2>1, <2>7, CarriedStays, BalancedQuiet
  <2>. QED  BY <1>2, <2>2, <2>3, <2>4, <2>5, <2>6, <2>7 DEF Steps, Statement
<1>. QED  BY <1>1, <1>2

(* The clock and the event move no value. *)
LEMMA GapClock ==
    ASSUME NEW O, Orders(O), Advance \/ ClearExpired \/ UNCHANGED vars
    PROVE  /\ Orders(O)' /\ transactions' \subseteq O
           /\ UNCHANGED <<faults, resettled>> /\ \A v \in Users : Gap(v, O)' = Gap(v, O)
<1>1. /\ UNCHANGED <<money, stocks, call, deposited, settled, nextId, faults, resettled>>
      /\ transactions' \subseteq transactions
  BY DEF Advance, ClearExpired, vars, history
<1>2. Orders(O)' /\ transactions' \subseteq O
  BY <1>1 DEF Orders, Chosen
<1>3. \A v \in Users : Gap(v, O)' = Gap(v, O)
  BY <1>1 DEF Gap, Estate, Shares, Ordered, Filed, Unfiled, Adding
<1>. QED  BY <1>1, <1>2, <1>3

(* What no step undoes: a fault, and an order settled twice. *)
LEMMA CallMonotone ==
    ASSUME TypeInv, NEW u \in Users, NEW c \in Commands, Steps(u, c)
    PROVE  /\ faults' = 0 => faults = 0
           /\ resettled' = {} => resettled = {}
           /\ settled \subseteq settled'
<1>0. faults \in Nat
  BY DEF TypeInv, TypeOK
<1>1. CASE Fault(u, c)
  BY <1>0, <1>1 DEF Fault, history
<1>2. CASE Credit(u, c)
  BY <1>2 DEF Credit
<1>3. CASE Arrival(u, c)
  BY <1>3, ArrivalReceives DEF Receive
<1>4. CASE StatementOverflows(u, c) \/ Retry(u, c) \/ Reply(u, c)
  BY <1>4, ZenonT(60) DEF StatementOverflows, Retry, Reply, history
<1>5. CASE Statement(u, c) /\ ~Credit(u, c)
  BY <1>5 DEF Statement, AddUser, SelectMoney, HoldMoney, SelectStock, HoldStock,
              FileTransaction, SelectLatest, DeleteTransaction, history
<1>. QED  BY <1>1, <1>2, <1>3, <1>4, <1>5 DEF Steps

LEMMA GapStep ==
    ASSUME IsFiniteSet(Stocks), TypeInv, TypeInv', NEW O, Orders(O), [Next]_vars,
           NEW P, P = O \cup transactions'
    PROVE  /\ Orders(P)'
           /\ faults' = 0 => faults = 0
           /\ resettled' = {} => resettled = {}
           /\ settled \subseteq settled'
           /\ faults' = 0 /\ resettled' = {} => \A v \in Users : Gap(v, P)' = Gap(v, O)
<1>1. CASE Advance \/ ClearExpired \/ UNCHANGED vars
  <2>1. P = O
    BY <1>1, GapClock
  <2>2. settled' = settled
    BY <1>1 DEF Advance, ClearExpired, vars, history
  <2>. QED  BY <1>1, <2>1, <2>2, GapClock
<1>2. ASSUME NEW u \in Users, NEW c \in Commands, Steps(u, c)
      PROVE  /\ Orders(P)'
             /\ faults' = 0 => faults = 0
             /\ resettled' = {} => resettled = {}
             /\ settled \subseteq settled'
             /\ faults' = 0 /\ resettled' = {} => \A v \in Users : Gap(v, P)' = Gap(v, O)
  <2>1. Orders(P)'
    BY <1>2, OrdersStep
  <2>. QED  BY <1>2, <2>1, CallMonotone, GapCall
<1>. QED  BY <1>1, <1>2 DEF Next, Progress, Steps

LEMMA GapInit ==
    ASSUME IsFiniteSet(Stocks), Init
    PROVE  Orders({}) /\ \A u \in Users : Gap(u, {}) = 0
<1>1. Orders({})
  <2>1. IsFiniteSet({})
    BY FS_EmptySet
  <2>2. transactions = {} /\ settled = {}
    BY DEF Init
  <2>3. \A u \in Users, c \in Commands : call[u][c].at = "idle"
    BY DEF Init, IdleCall
  <2>. QED  BY <2>1, <2>2, <2>3 DEF Orders, Active
<1>2. ASSUME NEW u \in Users PROVE Gap(u, {}) = 0
  <2>1. Ordered(u, {}) = 0
    BY SumEmpty DEF Ordered
  <2>2. Shares(u) = 0
    <3>. DEFINE f == stocks[u]
    <3>1. \A s \in Stocks : f[s] = 0
      BY DEF Init
    <3>. HIDE DEF f
    <3>2. SumFunctionOnSet(f, Stocks) = SumFunctionOnSet(f, {})
      BY <3>1, SumSupport
    <3>. QED  BY <3>2, SumEmpty DEF Shares, f
  <2>3. money[u] = 0 /\ deposited[u] = 0
    BY DEF Init
  <2>4. Unfiled(u, "BUY") = 0 /\ Unfiled(u, "SELL") = 0 /\ Adding(u) = 0
    BY DEF Init, Unfiled, Adding, IdleCall, Commands
  <2>. QED  BY <2>1, <2>2, <2>3, <2>4 DEF Gap, Estate
<1>. QED  BY <1>1, <1>2
(* The orders of the table that are not settled make up what is on order. *)
Open(u, O) == {t \in O : t.user = u /\ t.id \notin settled}

LEMMA OrderedOpen ==
    ASSUME NEW O, O \subseteq Row, IsFiniteSet(O), NEW u, NEW R, R = Open(u, O)
    PROVE  Ordered(u, O) = SumFunctionOnSet([t \in R |-> t.price], R)
<1>. DEFINE f == Filed(u, O)
            g == [t \in R |-> t.price]
<1>1. /\ R \subseteq O
      /\ \A t \in O : f[t] \in Int
      /\ \A t \in O \ R : f[t] = 0
      /\ \A t \in R : f[t] = g[t]
  BY DEF Filed, Open, Row
<1>2. IsFiniteSet(R)
  BY <1>1, FS_Subset
<1>. HIDE DEF f, g
<1>3. SumFunctionOnSet(f, O) = SumFunctionOnSet(f, R)
  BY <1>1, SumSupport
<1>4. SumFunctionOnSet(f, R) = SumFunctionOnSet(g, R)
  BY <1>1, <1>2, SumSame
<1>. QED  BY <1>3, <1>4 DEF Ordered, f, g

(* The stocks of Ledger add what a SELL carries. *)
LEMMA LedgerShares ==
    ASSUME IsFiniteSet(Stocks), TypeInv, NEW u \in Users
    PROVE  SumFunction(LedgerStocks[u]) = Shares(u) + Unfiled(u, "SELL")
<1>. DEFINE f == stocks[u]
            g == LedgerStocks[u]
            s == call[u]["SELL"].stock
            n == Unfiled(u, "SELL")
<1>1. /\ \A x \in Stocks : f[x] \in Int
      /\ DOMAIN g = Stocks /\ n \in Int
      /\ \A x \in Stocks : g[x] = f[x] + IF s = x THEN n ELSE 0
      /\ n # 0 => s \in Stocks
  <2>1. n \in Int
    BY CarriedTypes
  <2>2. n # 0 => s \in Stocks
    BY DEF Unfiled, TypeInv, OrdersNamed
  <2>. QED  BY <2>1, <2>2 DEF LedgerStocks, TypeInv, TypeOK
<1>2. SumFunction(g) = SumFunctionOnSet(g, Stocks) /\ Shares(u) = SumFunctionOnSet(f, Stocks)
  BY <1>1 DEF SumFunction, SumFunctionOnSet, FoldFunction, FoldFunctionOnSet, Shares
<1>. HIDE DEF f, g, s, n
<1>3. CASE n = 0
  <2>1. \A x \in Stocks : g[x] = f[x]
    BY <1>1, <1>3
  <2>2. SumFunctionOnSet(g, Stocks) = SumFunctionOnSet(f, Stocks)
    BY <2>1, SumSame
  <2>3. SumFunctionOnSet(f, Stocks) \in Int
    BY <1>1, SumSplit
  <2>. QED  BY <1>2, <1>3, <2>2, <2>3 DEF g, n
<1>4. CASE n # 0
  <2>1. s \in Stocks /\ g[s] = f[s] + n /\ g[s] \in Int /\ f[s] \in Int
    BY <1>1, <1>4
  <2>2. \A x \in Stocks \ {s} : g[x] = f[x]
    BY <1>1
  <2>3. SumFunctionOnSet(g, Stocks) = SumFunctionOnSet(f, Stocks) + (g[s] - f[s])
    BY <1>1, <2>1, <2>2, SumChange
  <2>4. g[s] - f[s] = n
    BY <1>1, <2>1
  <2>. QED  BY <1>2, <2>3, <2>4 DEF g, n
<1>. QED  BY <1>3, <1>4

(* With the event off, and users who wait, an order that is not settled is in *)
(* the table.                                                                 *)
Present(O) == \A t \in O : t.id \notin settled => t \in transactions

LEMMA PresentStep ==
    ASSUME ~EventOn, CreditInv, [Next]_vars, NEW O, Orders(O), Present(O),
           settled \subseteq settled', NEW P, P = O \cup transactions'
    PROVE  Present(P)'
<1>1. ~ClearExpired
  BY DEF ClearExpired
<1>. QED  BY <1>1, RowsLeave DEF Present

(* What Ledger shows of a user's value is all of it. *)
LEMMA WorthIsEstate ==
    ASSUME IsFiniteSet(Stocks), TypeInv, OnceInv, CreditInv, NEW O, Orders(O), Present(O),
           NEW u \in Users
    PROVE  Worth(u) = Estate(u, O)
<1>. DEFINE R == {t \in OpenOrders : t.user = u}
<1>1. \A t \in transactions : Clearing(t) <=> t.id \in settled
  <2>1. ASSUME NEW t \in transactions, Clearing(t) PROVE t.id \in settled
    <3>1. t.user \in Users /\ Settlements \subseteq Commands
      BY DEF TypeInv, TypeOK, Row, Commands
    <3>. QED  BY <2>1, <3>1 DEF Clearing, CreditInv, Credited
  <2>2. ASSUME NEW t \in transactions, t.id \in settled PROVE Clearing(t)
    <3>1. t.user \in Users
      BY DEF TypeInv, TypeOK, Row
    <3>2. PICK c \in Commands : call[t.user][c].at = "clear" /\ call[t.user][c].id = t.id
      BY <2>2 DEF OnceInv, SettledClearing
    <3>3. c \in Settlements
      BY <3>1, <3>2 DEF Orders
    <3>. QED  BY <3>2, <3>3 DEF Clearing
  <2>. QED  BY <2>1, <2>2
<1>2. R = Open(u, O)
  BY <1>1 DEF OpenOrders, Open, Orders, Present
<1>3. Ordered(u, O) = SumFunctionOnSet([t \in R |-> t.price], R)
  <2>. HIDE DEF R
  <2>. QED  BY <1>2, OrderedOpen DEF Orders
<1>4. SumFunction([t \in R |-> t.price]) = Ordered(u, O)
  <2>. HIDE DEF R
  <2>. QED  BY <1>3 DEF SumFunction, SumFunctionOnSet, FoldFunction, FoldFunctionOnSet
<1>5. Worth(u) = LedgerMoney[u] + SumFunction(LedgerStocks[u])
                   + SumFunction([t \in R |-> t.price]) + Adding(u)
  BY DEF Worth
<1>6. LedgerMoney[u] = money[u] + Unfiled(u, "BUY")
  BY DEF LedgerMoney
<1>. DEFINE h == Shares(u)
            o == Ordered(u, O)
            b == Unfiled(u, "BUY")
            s == Unfiled(u, "SELL")
            a == Adding(u)
<1>7. Worth(u) = (money[u] + b) + (h + s) + o + a /\ Estate(u, O) = money[u] + h + o + (b + s + a)
  <2>. HIDE DEF R
  <2>. QED  BY <1>4, <1>5, <1>6, LedgerShares DEF Estate
<1>8. h \in Int /\ o \in Int /\ b \in Int /\ s \in Int /\ a \in Int /\ money[u] \in Int
  BY EstateTypes, CarriedTypes DEF Orders
<1>. HIDE DEF h, o, b, s, a
<1>. QED  BY <1>7, <1>8

(* With no faults allowed none is counted. *)
LEMMA NoFaults ==
    ASSUME MaxFaults = 0, TypeInv, faults = 0, [Next]_vars
    PROVE  faults' = 0
<1>1. \A u \in Users, c \in Commands : ~Fault(u, c)
  BY DEF Fault
<1>2. ASSUME NEW u \in Users, NEW c \in Commands, Arrival(u, c) \/ Progress(u, c)
      PROVE  faults' = faults
  <2>1. CASE Arrival(u, c)
    BY <2>1, ArrivalReceives, ZenonT(60) DEF Receive
  <2>2. CASE Progress(u, c)
    BY <2>2 DEF Progress, Statement, AddUser, SelectMoney, HoldMoney, SelectStock, HoldStock,
       FileTransaction, SelectLatest, Credit, DeleteTransaction, StatementOverflows, Retry, Reply
  <2>. QED  BY <1>2, <2>1, <2>2
<1>3. Advance \/ ClearExpired \/ UNCHANGED vars => faults' = faults
  BY DEF Advance, ClearExpired, vars
<1>. QED  BY <1>1, <1>2, <1>3 DEF Next

Conserved == \E O \in SUBSET Row : Orders(O) /\ Present(O) /\ \A u \in Users : Gap(u, O) = 0

LEMMA ConservedStep ==
    ASSUME IsFiniteSet(Stocks), ~EventOn, TypeInv, TypeInv', CreditInv, faults' = 0,
           resettled' = {}, Conserved, [Next]_vars
    PROVE  Conserved'
<1>1. PICK O \in SUBSET Row : Orders(O) /\ Present(O) /\ \A u \in Users : Gap(u, O) = 0
  BY DEF Conserved
<1>2. PICK P : P = O \cup transactions'
  OBVIOUS
<1>3. /\ Orders(P)' /\ settled \subseteq settled'
      /\ \A u \in Users : Gap(u, P)' = Gap(u, O)
  BY <1>1, <1>2, GapStep
<1>4. Present(P)'
  BY <1>1, <1>2, <1>3, PresentStep
<1>5. P \in SUBSET Row
  BY <1>3 DEF Orders
<1>6. Orders(P)' /\ Present(P)' /\ \A u \in Users : Gap(u, P)' = 0
  BY <1>1, <1>3, <1>4
<1>. QED  BY <1>5, <1>6 DEF Conserved

(***************************************************************************)
(* While users wait for their answers, no statement fails on its own and   *)
(* the event is off, what a user owns, through every statement of every    *)
(* command, is what he asked to deposit.                                   *)
(***************************************************************************)
THEOREM ValueCorrect ==
    IsFiniteSet(Stocks) /\ Serial /\ MaxFaults = 0 /\ ~EventOn => (Spec => []ValueConserved)
<1>. SUFFICES ASSUME IsFiniteSet(Stocks), Serial, MaxFaults = 0, ~EventOn
              PROVE  Spec => []ValueConserved
  OBVIOUS
<1>. DEFINE All == TypeInv /\ OnceInv /\ CreditInv /\ faults = 0 /\ Conserved
<1>1. Init => All
  <2>. SUFFICES ASSUME Init PROVE Conserved /\ faults = 0
    BY TypeInit, OnceInit, CreditInit
  <2>1. Orders({}) /\ Present({}) /\ \A u \in Users : Gap(u, {}) = 0
    BY GapInit DEF Present
  <2>2. {} \in SUBSET Row
    OBVIOUS
  <2>3. Conserved
    BY <2>1, <2>2 DEF Conserved
  <2>. QED  BY <2>3 DEF Init
<1>2. All /\ [Next]_vars => All'
  <2>. SUFFICES ASSUME All, [Next]_vars PROVE All'
    OBVIOUS
  <2>1. TypeInv' /\ OnceInv' /\ CreditInv'
    BY TypeStep, OnceStep, CreditStep
  <2>2. faults' = 0
    BY NoFaults
  <2>3. resettled' = {}
    BY <2>1 DEF OnceInv
  <2>4. Conserved'
    BY <2>1, <2>2, <2>3, ConservedStep
  <2>. QED  BY <2>1, <2>2, <2>4
<1>3. All => ValueConserved
  <2>. SUFFICES ASSUME All, NEW u \in Users PROVE Worth(u) = deposited[u]
    BY DEF ValueConserved
  <2>1. PICK O \in SUBSET Row : Orders(O) /\ Present(O) /\ Gap(u, O) = 0
    BY DEF Conserved
  <2>2. Worth(u) = Estate(u, O)
    BY <2>1, WorthIsEstate
  <2>3. Estate(u, O) \in Int /\ deposited[u] \in Int
    BY <2>1, EstateTyped
  <2>4. deposited[u] - Estate(u, O) = 0
    BY <2>1 DEF Gap
  <2>. QED  BY <2>2, <2>3, <2>4
<1>. HIDE DEF All
<1>. QED  BY <1>1, <1>2, <1>3, PTL DEF Spec

(* The table's orders that are not settled are among all that are on order. *)
OnTable(u) ==
    LET orders == {t \in transactions : t.user = u /\ t.id \notin settled}
    IN  SumFunction([t \in orders |-> t.price])

LEMMA OrdersPart ==
    ASSUME NEW O, Orders(O), NEW u \in Users
    PROVE  OnTable(u) \in Int /\ OnTable(u) <= Ordered(u, O)
<1>. DEFINE f == Filed(u, O)
            R == {t \in transactions : t.user = u /\ t.id \notin settled}
            h == [t \in R |-> t.price]
<1>1. IsFiniteSet(O) /\ O \subseteq Row /\ transactions \subseteq O
  BY DEF Orders
<1>2. /\ R \subseteq O
      /\ \A t \in O : f[t] \in Int /\ 0 <= f[t]
      /\ \A t \in R : h[t] \in Int /\ h[t] <= f[t]
  BY <1>1 DEF Filed, Row
<1>3. OnTable(u) = SumFunctionOnSet(h, R)
  BY DEF OnTable, SumFunction, SumFunctionOnSet, FoldFunction, FoldFunctionOnSet
<1>4. Ordered(u, O) = SumFunctionOnSet(f, O)
  BY DEF Ordered
<1>. HIDE DEF f, R, h
<1>5. SumFunctionOnSet(h, R) <= SumFunctionOnSet(f, O)
  BY <1>1, <1>2, SumPart
<1>6. IsFiniteSet(R)
  BY <1>1, <1>2, FS_Subset
<1>7. SumFunctionOnSet(h, R) \in Int
  BY <1>2, <1>6, SumSplit
<1>. QED  BY <1>3, <1>4, <1>5, <1>7

(***************************************************************************)
(* With overlapping calls and the event: until a call fails or an order is *)
(* settled twice, no user has more in his balances, on the way and in      *)
(* orders that are not settled than he asked to deposit.  He may have      *)
(* less, since the event returns nothing of what it deletes.               *)
(***************************************************************************)
NothingGained ==
    faults = 0 /\ resettled = {} =>
      \A u \in Users : money[u] + Shares(u) + OnTable(u) + OnTheWay(u) <= deposited[u]

THEOREM NoGain == IsFiniteSet(Stocks) => (Spec => []NothingGained)
<1>. SUFFICES ASSUME IsFiniteSet(Stocks) PROVE Spec => []NothingGained
  OBVIOUS
<1>. DEFINE Level ==
              \E O \in SUBSET Row :
                Orders(O) /\ (faults = 0 /\ resettled = {} => \A u \in Users : Gap(u, O) = 0)
            All == TypeInv /\ Level
<1>1. Init => All
  <2>. SUFFICES ASSUME Init PROVE Level
    BY TypeInit
  <2>1. {} \in SUBSET Row /\ Orders({}) /\ \A u \in Users : Gap(u, {}) = 0
    BY GapInit
  <2>. QED  BY <2>1
<1>2. All /\ [Next]_vars => All'
  <2>. SUFFICES ASSUME All, [Next]_vars PROVE All'
    OBVIOUS
  <2>1. TypeInv'
    BY TypeStep
  <2>2. PICK O \in SUBSET Row :
          Orders(O) /\ (faults = 0 /\ resettled = {} => \A u \in Users : Gap(u, O) = 0)
    OBVIOUS
  <2>3. PICK P : P = O \cup transactions'
    OBVIOUS
  <2>4. /\ Orders(P)'
        /\ faults' = 0 => faults = 0
        /\ resettled' = {} => resettled = {}
        /\ faults' = 0 /\ resettled' = {} => \A v \in Users : Gap(v, P)' = Gap(v, O)
    BY <2>1, <2>2, <2>3, GapStep
  <2>5. P \in SUBSET Row
    BY <2>4 DEF Orders
  <2>6. Orders(P)' /\ (faults' = 0 /\ resettled' = {} => \A u \in Users : Gap(u, P)' = 0)
    BY <2>2, <2>4
  <2>. QED  BY <2>1, <2>5, <2>6
<1>3. All => NothingGained
  <2>. SUFFICES ASSUME All, faults = 0, resettled = {}, NEW u \in Users
                PROVE  money[u] + Shares(u) + OnTable(u) + OnTheWay(u) <= deposited[u]
    BY DEF NothingGained
  <2>1. PICK O \in SUBSET Row : Orders(O) /\ Gap(u, O) = 0
    OBVIOUS
  <2>2. Estate(u, O) = deposited[u]
    <3>1. Estate(u, O) \in Int /\ deposited[u] \in Int
      BY <2>1, EstateTyped
    <3>. QED  BY <2>1, <3>1 DEF Gap
  <2>3. OnTable(u) \in Int /\ OnTable(u) <= Ordered(u, O)
    BY <2>1, OrdersPart
  <2>4. Shares(u) \in Int /\ Ordered(u, O) \in Int /\ money[u] \in Int
    BY <2>1, EstateTypes DEF Orders
  <2>5. OnTheWay(u) \in Int /\ Estate(u, O) = money[u] + Shares(u) + Ordered(u, O) + OnTheWay(u)
    BY CarriedTypes DEF OnTheWay, Estate
  <2>. QED  BY <2>2, <2>3, <2>4, <2>5
<1>. HIDE DEF All
<1>. QED  BY <1>1, <1>2, <1>3, PTL DEF Spec
=============================================================================
