--------------------------- MODULE TradingProofs ---------------------------
(***************************************************************************)
(* Theorems about Trading, from those about its two parts: for every       *)
(* number of users, stocks, commands and faults, no money is promised      *)
(* twice but to a user whose BUY and SET_BUY_AMOUNT crossed; and while     *)
(* nothing fails none comes into being between the two.                    *)
(***************************************************************************)
EXTENDS Trading, AccountsProofs

(* The triggers' own theorems, about the triggers of this composition. *)
TP == INSTANCE FiringProofs WITH Direction <- "BUY", Funds <- 0, Overlap <- TRUE,
                                   source <- money, target <- bought

(* The constants of this composition meet the assumptions of Triggers. *)
LEMMA TriggerConstants ==
    TP!DirectionAssumption /\ TP!AmountsAssumption /\ TP!BoundAssumption
BY AmountsAssumption, BoundAssumption, TriggerAssumption
DEF TP!DirectionAssumption, TP!AmountsAssumption, TP!BoundAssumption

(* Both instances of Triggers, Trading's own and the theorems', are the same. *)
LEMMA SameThreads ==
    /\ T!Ids = TP!Ids /\ T!Kinds = TP!Kinds /\ T!Handlers = TP!Handlers
    /\ T!Loops = TP!Loops /\ T!Threads = TP!Threads /\ T!Rest = TP!Rest
BY DEF T!Ids, TP!Ids, T!Kinds, TP!Kinds, T!Handlers, TP!Handlers, T!Loops, TP!Loops,
       T!Threads, TP!Threads, T!Rest, TP!Rest

LEMMA SameFinite == ASSUME NEW S PROVE TP!IsFiniteSet(S) <=> IsFiniteSet(S)
BY DEF TP!IsFiniteSet, IsFiniteSet

LEMMA SameInit == T!Init => TP!Init
BY SameThreads, ZenonT(60) DEF T!Init, TP!Init
LEMMA SameNext == T!Next => TP!Next
BY DEF T!Ids, TP!Ids, T!Kinds, TP!Kinds, T!Handlers, TP!Handlers, T!Loops, TP!Loops,
    T!Threads, TP!Threads, T!Rest, TP!Rest, T!Become, TP!Become, T!Goto, TP!Goto,
    T!Finish, TP!Finish, T!accounts, TP!accounts, T!registry, TP!registry, T!bounds,
    TP!bounds, T!Quiet, TP!Quiet, T!MayBegin, TP!MayBegin, T!Receive, TP!Receive,
    T!ReceiveSetAmount, TP!ReceiveSetAmount, T!ReceiveSetTrigger, TP!ReceiveSetTrigger,
    T!ReceiveCancel, TP!ReceiveCancel, T!Reply, TP!Reply, T!Check, TP!Check, T!Enter,
    TP!Enter, T!Register, TP!Register, T!HoldAmount, TP!HoldAmount, T!Hold, TP!Hold,
    T!Reached, TP!Reached, T!Accepts, TP!Accepts, T!Update, TP!Update, T!Compare,
    TP!Compare, T!Known, TP!Known, T!Find, TP!Find, T!Take, TP!Take, T!ReturnAmount,
    TP!ReturnAmount, T!Return, TP!Return, T!NoUsers, TP!NoUsers, T!Registered,
    TP!Registered, T!Poll, TP!Poll, T!Quote, TP!Quote, T!Unquoted, TP!Unquoted, T!Exit,
    TP!Exit, T!Fires, TP!Fires, T!WholeShares, TP!WholeShares, T!FireNext, TP!FireNext,
    T!FiredAll, TP!FiredAll, T!PayLeftover, TP!PayLeftover, T!PaySpent, TP!PaySpent,
    T!PayFirst, TP!PayFirst, T!PaySecond, TP!PaySecond, T!Pay, TP!Pay, T!FiredUser,
    TP!FiredUser, T!FindFired, TP!FindFired, T!DropFired, TP!DropFired, T!Restarted,
    TP!Restarted, T!Again, TP!Again, T!Fault, TP!Fault, T!AnswerLost, TP!AnswerLost,
    T!HandlerStep, TP!HandlerStep, T!LoopStep, TP!LoopStep, T!FireStep, TP!FireStep,
    T!Progress, TP!Progress, T!Next, TP!Next
-----------------------------------------------------------------------------
(***************************************************************************)
(* What a step of Accounts does to the money of user v: a BUY that comes   *)
(* to its UPDATE has seen the money it takes, and no other call lowers it. *)
(***************************************************************************)
MoneyKept(v) ==
    /\ money'[v] >= money[v]
    /\ BuyHolds(v)' =>
         \/ BuyHolds(v) /\ call'[v]["BUY"].price = call[v]["BUY"].price
         \/ call'[v]["BUY"].price <= money[v]

MoneyTaken(v) ==
    /\ BuyHolds(v) /\ ~BuyHolds(v)'
    /\ money'[v] = money[v] - call[v]["BUY"].price

(* A call that does not bring a BUY to its UPDATE, and lowers no money. *)
LEMMA NoUpdate ==
    ASSUME TypeInv, NEW u \in Users, NEW c \in Commands, NEW r \in Call,
           call' = [call EXCEPT ![u][c] = r], r.at # "hold" \/ c # "BUY",
           \A v \in Users : money'[v] >= money[v]
    PROVE  \A v \in Users : MoneyKept(v)
<1>1. /\ call'[u][c] = r
      /\ \A v \in Users, d \in Commands : v # u \/ d # c => call'[v][d] = call[v][d]
  BY OneCall DEF TypeInv, TypeOK
<1>2. "BUY" \in Commands
  BY DEF Commands
<1>3. ASSUME NEW v \in Users, v # u \/ c # "BUY" PROVE MoneyKept(v)
  BY <1>1, <1>2, <1>3 DEF MoneyKept, BuyHolds
<1>4. ASSUME NEW v \in Users, v = u, c = "BUY" PROVE MoneyKept(v)
  BY <1>1, <1>2, <1>4 DEF MoneyKept, BuyHolds
<1>. QED  BY <1>3, <1>4

LEMMA MoneyStays ==
    ASSUME TypeInv, UNCHANGED money
    PROVE  \A v \in Users : money'[v] >= money[v]
BY DEF TypeInv, TypeOK

(* A deposit and a settlement. *)
LEMMA MoreMoney ==
    ASSUME TypeInv, NEW u \in Users, NEW n \in Nat, money' = [money EXCEPT ![u] = money[u] + n]
    PROVE  \A v \in Users : money'[v] >= money[v]
BY DEF TypeInv, TypeOK

(* buy_stock: the SELECT promises what is there, the UPDATE takes it. *)
LEMMA BuyMoney ==
    ASSUME TypeInv, NEW u \in Users, SelectMoney(u) \/ HoldMoney(u)
    PROVE  \A v \in Users : MoneyKept(v) \/ MoneyTaken(v)
<1>0. "BUY" \in Commands /\ {"hold", "file"} \subseteq Positions
  BY DEF Commands, Positions, Statements
<1>1. CASE SelectMoney(u)
  <2>0. UNCHANGED money
    BY <1>1 DEF SelectMoney
  <2>1. CASE Return(u, "BUY", FALSE)
    <3>1. PICK r \in Call : call' = [call EXCEPT ![u]["BUY"] = r] /\ r.at = "done"
      BY <1>0, <2>1, ReturnRecord, ZenonT(60)
    <3>. QED  BY <1>0, <2>0, <3>1, MoneyStays, NoUpdate
  <2>2. CASE call[u]["BUY"].price <= money[u] /\ Goto(u, "BUY", "hold")
    <3>1. PICK r \in Call : /\ call' = [call EXCEPT ![u]["BUY"] = r]
                            /\ r.price = call[u]["BUY"].price
      BY <1>0, <2>2, GotoRecord
    <3>2. /\ call'[u]["BUY"] = r
          /\ \A v \in Users, d \in Commands : v # u \/ d # "BUY" => call'[v][d] = call[v][d]
      BY <1>0, <3>1, OneCall DEF TypeInv, TypeOK
    <3>3. ASSUME NEW v \in Users PROVE MoneyKept(v)
      <4>1. CASE v = u
        BY <2>0, <2>2, <3>1, <3>2, <4>1, MoneyStays DEF MoneyKept
      <4>2. CASE v # u
        BY <1>0, <2>0, <3>2, <4>2, MoneyStays DEF MoneyKept, BuyHolds
      <4>. QED  BY <4>1, <4>2
    <3>. QED  BY <3>3
  <2>. QED  BY <1>1, <2>1, <2>2 DEF SelectMoney
<1>2. CASE HoldMoney(u)
  <2>1. call[u]["BUY"].at = "hold"
        /\ money' = [money EXCEPT ![u] = money[u] - call[u]["BUY"].price]
    BY <1>2 DEF HoldMoney
  <2>2. PICK r \in Call : call' = [call EXCEPT ![u]["BUY"] = r] /\ r.at = "file"
    BY <1>0, <1>2, GotoRecord DEF HoldMoney
  <2>3. /\ call'[u]["BUY"] = r
        /\ \A v \in Users, d \in Commands : v # u \/ d # "BUY" => call'[v][d] = call[v][d]
    BY <1>0, <2>2, OneCall DEF TypeInv, TypeOK
  <2>4. money \in [Users -> Int]
    BY DEF TypeInv, TypeOK
  <2>5. ASSUME NEW v \in Users, v = u PROVE MoneyTaken(v)
    BY <2>1, <2>2, <2>3, <2>4, <2>5 DEF MoneyTaken, BuyHolds
  <2>6. ASSUME NEW v \in Users, v # u PROVE MoneyKept(v)
    BY <1>0, <2>1, <2>3, <2>4, <2>6 DEF MoneyKept, BuyHolds
  <2>. QED  BY <2>5, <2>6
<1>. QED  BY <1>1, <1>2

(* Of all statements, only the UPDATE of buy_stock lowers money. *)
LEMMA StatementMoney ==
    ASSUME TypeInv, NEW u \in Users, NEW c \in Commands, Statement(u, c)
    PROVE  \A v \in Users : MoneyKept(v) \/ MoneyTaken(v)
<1>0. call[u][c] \in Call
  BY DEF TypeInv, TypeOK
<1>1. call[u][c].price \in Nat
  BY <1>0 DEF Call
<1>2. CASE c = "ADD" /\ AddUser(u)
  <2>0. Return(u, c, TRUE) /\ money' = [money EXCEPT ![u] = money[u] + call[u][c].price]
    BY <1>2 DEF AddUser
  <2>1. PICK r \in Call : call' = [call EXCEPT ![u][c] = r] /\ r.at = "done"
    <3>1. PICK b \in BOOLEAN : Return(u, c, b)
      BY <2>0
    <3>. QED  BY <3>1, ReturnRecord
  <2>. QED  BY <1>1, <2>0, <2>1, MoreMoney, NoUpdate
<1>3. CASE c = "BUY" /\ (SelectMoney(u) \/ HoldMoney(u))
  BY <1>3, BuyMoney
<1>4. CASE c = "SELL" /\ (SelectStock(u) \/ HoldStock(u))
  <2>1. UNCHANGED money
    BY <1>4 DEF SelectStock, HoldStock
  <2>2. PICK r \in Call : call' = [call EXCEPT ![u][c] = r]
    <3>1. {"hold", "file"} \subseteq Positions
      BY DEF Positions, Statements
    <3>2. \/ Goto(u, c, "hold") \/ Goto(u, c, "file") \/ Return(u, c, FALSE)
      BY <1>4 DEF SelectStock, HoldStock
    <3>0. FALSE \in BOOLEAN
      OBVIOUS
    <3>3. CASE Goto(u, c, "hold")
      BY <3>1, <3>3, GotoRecord
    <3>4. CASE Goto(u, c, "file")
      BY <3>1, <3>4, GotoRecord
    <3>5. CASE Return(u, c, FALSE)
      <4>1. PICK r \in Call : call' = [call EXCEPT ![u][c] = r] /\ r.at = "done"
        BY <3>0, <3>5, ReturnRecord, ZenonT(60)
      <4>. QED  BY <4>1
    <3>. QED  BY <3>2, <3>3, <3>4, <3>5
  <2>. QED  BY <1>4, <2>1, <2>2, MoneyStays, NoUpdate
<1>5. CASE FileTransaction(u, c)
  <2>1. PICK r \in Call : call' = [call EXCEPT ![u][c] = r] /\ r.at = "done"
    <3>1. PICK b \in BOOLEAN : Return(u, c, b)
      BY <1>5 DEF FileTransaction
    <3>2. PICK r \in Call : call' = [call EXCEPT ![u][c] = r] /\ r.at = "done"
      BY <3>1, ReturnRecord
    <3>. QED  BY <3>2
  <2>. QED  BY <1>5, <2>1, MoneyStays, NoUpdate DEF FileTransaction
<1>6. CASE SelectLatest(u, c)
  <2>1. UNCHANGED money
    BY <1>6 DEF SelectLatest
  <2>2. PICK r \in Call : call' = [call EXCEPT ![u][c] = r] /\ r.at # "hold"
    <3>1. CASE Return(u, c, FALSE)
      BY <3>1, ReturnRecord
    <3>2. CASE ~Return(u, c, FALSE)
      <4>1. PICK r \in Call, t \in transactions :
              /\ call' = [call EXCEPT ![u][c] = r]
              /\ r.at \in {"credit", "expire"} /\ r.id = t.id /\ t.user = u
        BY <1>6, <3>2, SelectRecord
      <4>. QED  BY <4>1
    <3>. QED  BY <3>1, <3>2
  <2>. QED  BY <2>1, <2>2, MoneyStays, NoUpdate
<1>7. CASE Credit(u, c)
  <2>1. PICK r \in Call : call' = [call EXCEPT ![u][c] = r] /\ r.at = "clear"
    BY <1>7, CreditRecord
  <2>2. \A v \in Users : money'[v] >= money[v]
    <3>1. CASE CreditMoney(u, c)
      BY <1>1, <3>1, MoreMoney DEF CreditMoney
    <3>2. CASE CreditStock(u, c)
      BY <3>2, MoneyStays DEF CreditStock
    <3>. QED  BY <1>7, <3>1, <3>2 DEF Credit
  <2>. QED  BY <2>1, <2>2, NoUpdate
<1>8. CASE DeleteTransaction(u, c)
  <2>1. PICK r \in Call : call' = [call EXCEPT ![u][c] = r] /\ r.at = "done"
    BY <1>8, GotoRecord DEF DeleteTransaction, Positions
  <2>. QED  BY <1>8, <2>1, MoneyStays, NoUpdate DEF DeleteTransaction
<1>. QED  BY <1>2, <1>3, <1>4, <1>5, <1>6, <1>7, <1>8 DEF Statement

(* Arrivals, answers, failures and retries. *)
LEMMA RestMoney ==
    ASSUME TypeInv, NEW u \in Users, NEW c \in Commands,
           \/ Arrival(u, c) \/ Reply(u, c) \/ StatementOverflows(u, c)
           \/ Fault(u, c) \/ Retry(u, c)
    PROVE  \A v \in Users : MoneyKept(v)
<1>0. FirstStatement(c) # "hold" /\ "failed" \in Positions
  BY DEF FirstStatement, Positions
<1>1. CASE Arrival(u, c)
  <2>1. PICK s \in Stocks \cup {NoStock}, p \in Nat : Receive(u, c, s, p)
    BY <1>1, ArrivalReceives
  <2>2. PICK r \in Call : call' = [call EXCEPT ![u][c] = r] /\ r.at # "hold"
    BY <1>0, <2>1, ReceiveRecord
  <2>. QED  BY <2>1, <2>2, MoneyStays, NoUpdate DEF Receive
<1>2. CASE Reply(u, c)
  BY <1>2, IdleRecord, MoneyStays, NoUpdate DEF Reply
<1>3. CASE StatementOverflows(u, c) \/ Fault(u, c)
  <2>1. PICK r \in Call : call' = [call EXCEPT ![u][c] = r] /\ r.at = "failed"
    BY <1>0, <1>3, GotoRecord DEF StatementOverflows, Fault
  <2>. QED  BY <1>3, <2>1, MoneyStays, NoUpdate DEF StatementOverflows, Fault
<1>4. CASE Retry(u, c)
  <2>1. PICK r \in Call : call' = [call EXCEPT ![u][c] = r] /\ r.at # "hold"
    BY <1>0, <1>4, RetryRecord
  <2>. QED  BY <1>4, <2>1, MoneyStays, NoUpdate DEF Retry
<1>. QED  BY <1>1, <1>2, <1>3, <1>4

(***************************************************************************)
(* A step of Accounts takes from a user's money only the price of his own  *)
(* BUY, whose check has found it there.                                    *)
(***************************************************************************)
LEMMA AccountsMoney ==
    ASSUME TypeInv, Next
    PROVE  \A v \in Users : MoneyKept(v) \/ MoneyTaken(v)
<1>1. CASE Advance \/ ClearExpired
  BY <1>1, MoneyStays DEF Advance, ClearExpired, MoneyKept, BuyHolds
<1>. QED  BY <1>1, StatementMoney, RestMoney DEF Next, Progress
-----------------------------------------------------------------------------
(***************************************************************************)
(* NoOverdraft is not inductive: between the check and the UPDATE of one   *)
(* of the two holding commands, the money must still cover what that one   *)
(* takes, and the other may not be between its own two statements.         *)
(***************************************************************************)
Solvent(u) ==
    /\ money[u] >= 0
    /\ BuyHolds(u) => call[u]["BUY"].price <= money[u]
    /\ TriggerHolds(u) => thread[<<"SET_AMOUNT", u>>].arg <= money[u]
    /\ ~(BuyHolds(u) /\ TriggerHolds(u))

TradeInv == TypeInv /\ TP!Inv /\ TP!Affordable /\ \A u \in Users \ crossed : Solvent(u)

(* The types of what Solvent compares. *)
Typed(u) ==
    /\ money[u] \in Int /\ call[u]["BUY"].price \in Nat
    /\ thread[<<"SET_AMOUNT", u>>].arg \in Nat

LEMMA Numbers == TypeInv /\ TP!Inv => \A u \in Users : Typed(u)
<1>. SUFFICES ASSUME TypeInv, TP!Inv, NEW u \in Users PROVE Typed(u)
  OBVIOUS
<1>1. call[u]["BUY"] \in Call
  BY DEF TypeInv, TypeOK, Commands
<1>2. <<"SET_AMOUNT", u>> \in TP!Threads
  BY TP!ThreadKinds, TriggerConstants DEF TP!Kinds
<1>3. thread[<<"SET_AMOUNT", u>>] \in TP!Thread
  BY <1>2, TP!Typed, TriggerConstants
<1>. QED  BY <1>1, <1>3 DEF Typed, Call, TP!Thread, TypeInv, TypeOK

LEMMA NextNumbers == (TypeInv /\ TP!Inv => \A u \in Users : Typed(u))'
BY Numbers, PTL

(* A step of Accounts leaves the threads alone, a user not crossed solvent. *)
LEMMA SolventAccounts ==
    ASSUME TradeInv, TypeInv', TP!Inv', Next, UNCHANGED book, NEW u \in Users,
           u \notin crossed, ~(BuyHolds(u) /\ TriggerHolds(u))'
    PROVE  Solvent(u)'
<1>1. Typed(u)
  BY Numbers DEF TradeInv
<1>2. Typed(u)'
  BY NextNumbers
<1>3. Solvent(u)
  BY DEF TradeInv
<1>4. UNCHANGED thread
  BY DEF book
<1>5. MoneyKept(u) \/ MoneyTaken(u)
  BY AccountsMoney DEF TradeInv
<1>6. CASE MoneyKept(u)
  BY <1>1, <1>2, <1>3, <1>4, <1>6 DEF Solvent, Typed, MoneyKept, BuyHolds, TriggerHolds
<1>7. CASE MoneyTaken(u)
  BY <1>1, <1>2, <1>3, <1>4, <1>7 DEF Solvent, Typed, MoneyTaken, BuyHolds, TriggerHolds
<1>. QED  BY <1>5, <1>6, <1>7

(* A step of the triggers leaves the calls alone, a user not crossed solvent. *)
LEMMA SolventTriggers ==
    ASSUME TradeInv, TypeInv', TP!Inv', TP!Next, UNCHANGED call, NEW u \in Users,
           u \notin crossed, ~(BuyHolds(u) /\ TriggerHolds(u))'
    PROVE  Solvent(u)'
<1>1. Typed(u)
  BY Numbers DEF TradeInv
<1>2. Typed(u)'
  BY NextNumbers
<1>3. Solvent(u)
  BY DEF TradeInv
<1>4. TP!Raised(u) \/ TP!Taken(u)
  <2>1. TP!Solvency
    BY TriggerConstants, TP!NextSolvent DEF TradeInv
  <2>. QED  BY <2>1 DEF TP!Solvency
<1>5. TriggerHolds(u) = (thread[<<"SET_AMOUNT", u>>].at \in TP!Promised)
      /\ TriggerHolds(u)' = (thread'[<<"SET_AMOUNT", u>>].at \in TP!Promised)
  BY DEF TriggerHolds, TP!Promised
<1>6. BuyHolds(u)' = BuyHolds(u) /\ call'[u]["BUY"].price = call[u]["BUY"].price
  BY DEF BuyHolds
<1>7. CASE TP!Raised(u)
  <2>. DEFINE k == thread[<<"SET_AMOUNT", u>>]
  <2>1. /\ money'[u] >= money[u]
        /\ TriggerHolds(u)' => (TriggerHolds(u) /\ k'.arg = k.arg) \/ k'.arg <= money[u]
    BY <1>5, <1>7 DEF TP!Raised
  <2>. HIDE DEF k
  <2>2. money[u] >= 0 /\ money'[u] >= 0
    BY <1>1, <1>2, <1>3, <2>1 DEF Solvent, Typed
  <2>3. BuyHolds(u)' => call'[u]["BUY"].price <= money'[u]
    BY <1>1, <1>2, <1>3, <1>6, <2>1 DEF Solvent, Typed
  <2>4. TriggerHolds(u)' => k'.arg <= money'[u]
    BY <1>1, <1>2, <1>3, <2>1 DEF Solvent, Typed, k
  <2>. QED  BY <2>2, <2>3, <2>4 DEF Solvent, k
<1>8. CASE TP!Taken(u)
  <2>1. TriggerHolds(u)
    BY <1>8 DEF TP!Taken, TriggerHolds
  <2>2. ~BuyHolds(u)' /\ ~TriggerHolds(u)'
    BY <1>3, <1>5, <1>6, <1>8, <2>1 DEF Solvent, TP!Taken
  <2>3. money'[u] = money[u] - thread[<<"SET_AMOUNT", u>>].arg
    BY <1>8 DEF TP!Taken
  <2>. QED  BY <1>1, <1>2, <1>3, <2>1, <2>2, <2>3 DEF Solvent, Typed
<1>. QED  BY <1>4, <1>7, <1>8

(* Nothing is held or promised at the start. *)
LEMMA TradeInit == TradingInit => TradeInv
<1>. SUFFICES ASSUME TradingInit PROVE TradeInv
  OBVIOUS
<1>1. Init /\ TP!Init /\ crossed = {}
  BY SameInit DEF TradingInit
<1>2. TypeInv
  BY <1>1, TypeInit
<1>3. TP!Inv /\ TP!Affordable
  BY <1>1, TriggerConstants, TP!InitInv, TP!InitAffordable
<1>4. ASSUME NEW u \in Users PROVE Solvent(u)
  <2>1. money[u] = 0 /\ ~BuyHolds(u)
    BY <1>1 DEF Init, BuyHolds, IdleCall, Commands
  <2>2. <<"SET_AMOUNT", u>> \in TP!Threads
    BY TP!ThreadKinds, TriggerConstants DEF TP!Kinds
  <2>3. ~TriggerHolds(u)
    BY <1>1, <2>2 DEF TP!Init, TriggerHolds, TP!Rest
  <2>. QED  BY <2>1, <2>3 DEF Solvent
<1>. QED  BY <1>2, <1>3, <1>4 DEF TradeInv

(* Nobody but Fault counts a fault, and only up to the bound. *)
LEMMA FaultsCounted ==
    ASSUME TypeInv, TP!Inv, Next
    PROVE  faults' \in 0 .. MaxFaults /\ faults <= faults'
<1>1. faults \in 0 .. MaxFaults /\ MaxFaults \in Nat
  BY TriggerConstants, BoundAssumption DEF TP!Inv, TP!TypeOK
<1>2. ASSUME NEW u \in Users, NEW c \in Commands, Fault(u, c)
      PROVE  faults' \in 0 .. MaxFaults /\ faults <= faults'
  BY <1>1, <1>2 DEF Fault
<1>3. ASSUME NEW u \in Users, NEW c \in Commands, Arrival(u, c) PROVE UNCHANGED faults
  BY <1>3, ArrivalReceives, ZenonT(60) DEF Receive
<1>4. ASSUME NEW u \in Users, NEW c \in Commands, Progress(u, c) PROVE UNCHANGED faults
  BY <1>4 DEF Progress, Statement, AddUser, SelectMoney, HoldMoney, SelectStock, HoldStock,
     FileTransaction, SelectLatest, Credit, DeleteTransaction, StatementOverflows, Retry, Reply
<1>5. Advance \/ ClearExpired => UNCHANGED faults
  BY DEF Advance, ClearExpired
<1>. QED  BY <1>1, <1>2, <1>3, <1>4, <1>5 DEF Next

(* Each part's step keeps its own invariant, the other part's, and Solvent. *)
LEMMA TradeStep == TradeInv /\ [TradingNext]_tradingVars => TradeInv'
<1>. SUFFICES ASSUME TradeInv, [TradingNext]_tradingVars PROVE TradeInv'
  OBVIOUS
<1>0. TypeInv /\ TP!Inv /\ TP!Affordable
  BY DEF TradeInv
<1>1. CASE Next /\ UNCHANGED book /\ crossed' = crossed \cup Crossing'
  <2>1. TypeInv'
    BY <1>0, <1>1, TypeStep
  <2>2. money' \in [Users -> Int]
    BY <2>1 DEF TypeInv, TypeOK
  <2>3. UNCHANGED <<bought, TP!registry, triggers, thread, commands>>
    BY <1>1 DEF book, TP!registry
  <2>4. TP!Inv' /\ TP!Affordable'
    BY <1>0, <1>1, <2>2, <2>3, FaultsCounted, TriggerConstants, TP!AccountsChange
  <2>5. ASSUME NEW u \in Users, u \notin crossed' PROVE Solvent(u)'
    <3>1. u \notin crossed /\ ~(BuyHolds(u) /\ TriggerHolds(u))'
      BY <1>1, <2>5 DEF Crossing
    <3>. QED  BY <1>1, <2>1, <2>4, <3>1, SolventAccounts
  <2>. QED  BY <2>1, <2>4, <2>5 DEF TradeInv
<1>2. CASE /\ T!Next /\ UNCHANGED <<stocks, transactions, nextId, now, call, history>>
           /\ crossed' = crossed \cup Crossing'
  <2>1. TP!Next
    BY <1>2, SameNext
  <2>2. TP!Inv'
    BY <1>0, <2>1, TriggerConstants, TP!NextInv
  <2>3. TP!Affordable'
    <3>1. TP!Solvency
      BY <1>0, <2>1, TriggerConstants, TP!NextSolvent
    <3>. QED  BY <3>1 DEF TP!Solvency
  <2>4. TypeInv'
    <3>1. money' \in [Users -> Int] /\ faults' \in Nat
      BY <2>2, BoundAssumption DEF TP!Inv, TP!TypeOK
    <3>. QED  BY <1>0, <1>2, <3>1 DEF TypeInv, TypeOK, OrdersNamed, history
  <2>5. ASSUME NEW u \in Users, u \notin crossed' PROVE Solvent(u)'
    <3>1. u \notin crossed /\ ~(BuyHolds(u) /\ TriggerHolds(u))'
      BY <1>2, <2>5 DEF Crossing
    <3>. QED  BY <1>2, <2>1, <2>2, <2>4, <3>1, SolventTriggers
  <2>. QED  BY <2>2, <2>3, <2>4, <2>5 DEF TradeInv
<1>3. CASE UNCHANGED tradingVars
  <2>1. TypeInv'
    BY <1>0, <1>3, TypeStep DEF tradingVars
  <2>2. /\ money' \in [Users -> Int] /\ faults' \in 0 .. MaxFaults /\ faults <= faults'
        /\ UNCHANGED <<bought, TP!registry, triggers, thread, commands>>
    BY <1>0, <1>3, BoundAssumption
       DEF tradingVars, vars, book, TP!registry, TypeInv, TypeOK, TP!Inv, TP!TypeOK
  <2>3. TP!Inv' /\ TP!Affordable'
    BY <1>0, <2>2, TriggerConstants, TP!AccountsChange
  <2>4. ASSUME NEW u \in Users, u \notin crossed' PROVE Solvent(u)'
    BY <1>3, <2>4 DEF TradeInv, Solvent, BuyHolds, TriggerHolds, tradingVars, vars, book
  <2>. QED  BY <2>1, <2>3, <2>4 DEF TradeInv
<1>. QED  BY <1>1, <1>2, <1>3 DEF TradingNext

(***************************************************************************)
(* Whatever commands, settlements, triggers, faults and retries share a    *)
(* user's money, it becomes negative only if his own BUY and               *)
(* SET_BUY_AMOUNT both checked it before either held what it needs.        *)
(***************************************************************************)
THEOREM MoneyCovers == TradingSpec => []NoOverdraft
<1>1. TradeInv => NoOverdraft
  BY DEF TradeInv, Solvent, NoOverdraft
<1>. QED  BY <1>1, TradeInit, TradeStep, PTL DEF TradingSpec
-----------------------------------------------------------------------------
(***************************************************************************)
(* What a user asked to deposit is in the books of both parts: what Gap    *)
(* misses from his accounts is what the triggers bought and what they keep *)
(* of his money.  While nothing fails a step of either part moves value    *)
(* within its own books only.                                              *)
(***************************************************************************)
Accounted(O) ==
    /\ Orders(O)
    /\ faults = 0 => TP!Calm
    /\ faults = 0 /\ resettled = {} => \A u \in Users : Gap(u, O) + money[u] = TP!Holdings(u)

CreatedInv == TypeInv /\ TP!FireInv /\ \E O \in SUBSET Row : Accounted(O)

LEMMA CreatedInit == IsFiniteSet(Users) /\ IsFiniteSet(Stocks) /\ TradingInit => CreatedInv
<1>. SUFFICES ASSUME IsFiniteSet(Users), IsFiniteSet(Stocks), TradingInit PROVE CreatedInv
  OBVIOUS
<1>1. Init /\ TP!Init
  BY SameInit DEF TradingInit
<1>2. TypeInv
  BY <1>1, TypeInit
<1>3. TP!FireInv
  BY <1>1, TriggerConstants, TP!InitFire
<1>4. TP!Calm /\ \A u \in Users : TP!Holdings(u) = 0
  BY <1>1, SameFinite, TriggerConstants, TP!InitCalm
<1>5. Orders({}) /\ \A u \in Users : Gap(u, {}) = 0 /\ money[u] = 0
  BY <1>1, GapInit DEF Init
<1>6. {} \in SUBSET Row /\ Accounted({})
  BY <1>4, <1>5 DEF Accounted
<1>. QED  BY <1>2, <1>3, <1>6 DEF CreatedInv

(* A step of Accounts changes no trigger and no thread. *)
LEMMA CreatedAccounts ==
    ASSUME IsFiniteSet(Users), IsFiniteSet(Stocks), CreatedInv, [Next]_vars, UNCHANGED book
    PROVE  CreatedInv'
<1>1. TypeInv /\ TypeInv' /\ TP!FireInv
  BY TypeStep DEF CreatedInv
<1>2. TP!FireInv'
  <2>1. TP!Inv
    BY <1>1 DEF TP!FireInv
  <2>2. faults \in 0 .. MaxFaults
    BY <2>1 DEF TP!Inv, TP!TypeOK
  <2>3. faults' \in 0 .. MaxFaults /\ faults <= faults'
    <3>1. CASE Next
      BY <1>1, <2>1, <3>1, FaultsCounted
    <3>2. CASE UNCHANGED vars
      BY <2>2, <3>2, BoundAssumption DEF vars
    <3>. QED  BY <3>1, <3>2
  <2>4. money' \in [Users -> Int]
    BY <1>1 DEF TypeInv, TypeOK
  <2>5. UNCHANGED <<bought, TP!registry, triggers, thread, commands>>
    BY DEF book, TP!registry
  <2>. QED  BY <1>1, <2>3, <2>4, <2>5, TriggerConstants, TP!FireAccounts
<1>3. PICK O \in SUBSET Row : Accounted(O)
  BY DEF CreatedInv
<1>4. PICK P : P = O \cup transactions'
  OBVIOUS
<1>5. /\ Orders(P)'
      /\ faults' = 0 => faults = 0
      /\ resettled' = {} => resettled = {}
      /\ faults' = 0 /\ resettled' = {} => \A v \in Users : Gap(v, P)' = Gap(v, O)
  BY <1>1, <1>3, <1>4, GapStep DEF Accounted
<1>6. faults' = 0 => TP!Calm'
  <2>1. UNCHANGED <<users, triggers, thread>>
    BY DEF book
  <2>2. TP!Calm => TP!Calm'
    <3>1. \A u \in Users : TP!Returns(u, thread[<<"CANCEL", u>>])' = TP!Returns(u, thread[<<"CANCEL", u>>])
      BY <2>1 DEF TP!Returns
    <3>2. \A u \in Users : TP!Holds(thread[<<"SET_AMOUNT", u>>])' = TP!Holds(thread[<<"SET_AMOUNT", u>>])
      BY <2>1 DEF TP!Holds
    <3>3. \A i \in 1 .. Len(triggers) : TP!Unheld(i)' = TP!Unheld(i)
      BY <2>1 DEF TP!Unheld
    <3>. QED  BY <2>1, <3>1, <3>2, <3>3 DEF TP!Calm
  <2>. QED  BY <1>3, <1>5, <2>2 DEF Accounted
<1>7. ASSUME faults' = 0, resettled' = {}, NEW u \in Users
      PROVE  Gap(u, P)' + money'[u] = TP!Holdings(u)'
  <2>. DEFINE h == TP!InTrust(u) - TP!HalfPaid(u)
  <2>1. Gap(u, P)' = Gap(u, O) /\ Gap(u, O) + money[u] = TP!Holdings(u)
    BY <1>3, <1>5, <1>7 DEF Accounted
  <2>2. /\ TP!Holdings(u) = money[u] + bought[u] + h
        /\ TP!Holdings(u)' = money'[u] + bought'[u] + h'
    BY DEF TP!Holdings
  <2>3. h' = h /\ bought'[u] = bought[u]
    BY DEF book, TP!InTrust, TP!HalfPaid, TP!KeptOf, TP!HalfOf, TP!FirstPart
  <2>4. h \in Int /\ bought[u] \in Int
    <3>1. TP!Inv
      BY <1>1 DEF TP!FireInv
    <3>2. TP!SumsTyped(u)
      BY <3>1, SameFinite, TriggerConstants, TP!SumsAreTyped
    <3>. QED  BY <3>2 DEF TP!SumsTyped
  <2>5. money[u] \in Int /\ money'[u] \in Int
    BY <1>1 DEF TypeInv, TypeOK
  <2>6. Gap(u, O) \in Int
    BY <1>1, <1>3, EstateTyped DEF Accounted
  <2>. HIDE DEF h
  <2>7. PICK m \in Int, n \in Int, g \in Int, k \in Int :
            m = money[u] /\ n = money'[u] /\ g = Gap(u, O) /\ k = h
    BY <2>4, <2>5, <2>6
  <2>8. g + m = m + bought[u] + k
    BY <2>1, <2>2, <2>7
  <2>9. g + n = n + bought[u] + k
    BY <2>4, <2>7, <2>8
  <2>. QED  BY <2>1, <2>2, <2>3, <2>7, <2>9
<1>8. P \in SUBSET Row
  BY <1>5 DEF Orders
<1>9. Accounted(P)'
  BY <1>5, <1>6, <1>7 DEF Accounted
<1>. QED  BY <1>1, <1>2, <1>8, <1>9 DEF CreatedInv

(* A step of the triggers changes, of what Accounts has, the money only. *)
LEMMA CreatedTriggers ==
    ASSUME IsFiniteSet(Users), IsFiniteSet(Stocks), CreatedInv, TP!Next,
           UNCHANGED <<stocks, transactions, nextId, now, call, history>>
    PROVE  CreatedInv'
<1>1. TypeInv /\ TP!FireInv /\ TP!FireInv'
  BY TriggerConstants, TP!NextFire DEF CreatedInv
<1>2. TP!Inv /\ TP!Inv'
  BY <1>1 DEF TP!FireInv
<1>3. TypeInv'
  <2>1. money' \in [Users -> Int] /\ faults' \in Nat
    BY <1>2, BoundAssumption DEF TP!Inv, TP!TypeOK
  <2>. QED  BY <1>1, <2>1 DEF TypeInv, TypeOK, OrdersNamed, history
<1>4. PICK O \in SUBSET Row : Accounted(O)
  BY DEF CreatedInv
<1>5. UNCHANGED <<deposited, settled, resettled>>
  BY DEF history
<1>6. Orders(O)'
  BY <1>4, <1>5 DEF Accounted, Orders, Chosen
<1>7. ASSUME faults' = 0
      PROVE  faults = 0 /\ TP!Calm' /\ TP!HoldingsStay
  <2>1. faults = 0 /\ faults' = faults
    <3>1. faults \in Nat /\ faults <= faults'
      BY <1>2, TriggerConstants, TP!FaultsOnly
    <3>. QED  BY <1>7, <3>1
  <2>2. TP!Calm
    BY <1>4, <2>1 DEF Accounted
  <2>. QED  BY <1>1, <2>1, <2>2, SameFinite, TriggerConstants, TP!NextHoldings
<1>8. ASSUME faults' = 0, resettled' = {}, NEW u \in Users
      PROVE  Gap(u, O)' + money'[u] = TP!Holdings(u)'
  <2>. DEFINE h == Shares(u)
              o == Ordered(u, O)
              w == Unfiled(u, "BUY") + Unfiled(u, "SELL") + Adding(u)
  <2>1. Gap(u, O) + money[u] = TP!Holdings(u) /\ TP!Holdings(u)' = TP!Holdings(u)
    BY <1>4, <1>5, <1>7, <1>8 DEF Accounted, TP!HoldingsStay
  <2>2. /\ Gap(u, O) = deposited[u] - (money[u] + h + o + w)
        /\ Gap(u, O)' = deposited'[u] - (money'[u] + h' + o' + w')
    BY DEF Gap, Estate
  <2>3. h' = h /\ o' = o /\ w' = w /\ deposited'[u] = deposited[u]
    BY <1>5 DEF Shares, Ordered, Filed, Unfiled, Adding
  <2>4. h \in Int /\ o \in Int /\ money[u] \in Int /\ money'[u] \in Int /\ deposited[u] \in Int
    BY <1>1, <1>3, <1>4, EstateTypes DEF Accounted, Orders, TypeInv, TypeOK
  <2>5. w \in Int
    BY <1>1, CarriedTypes
  <2>. HIDE DEF h, o, w
  <2>6. PICK m \in Int, n \in Int, d \in Int, x \in Int :
            m = money[u] /\ n = money'[u] /\ d = deposited[u] /\ x = h + o + w
    BY <2>4, <2>5
  <2>7. Gap(u, O) = d - (m + x) /\ Gap(u, O)' = d - (n + x)
    BY <2>2, <2>3, <2>4, <2>5, <2>6
  <2>8. Gap(u, O)' + n = Gap(u, O) + m
    BY <2>6, <2>7
  <2>. QED  BY <2>1, <2>6, <2>8
<1>9. Accounted(O)'
  BY <1>6, <1>7, <1>8 DEF Accounted
<1>. QED  BY <1>1, <1>3, <1>9 DEF CreatedInv

LEMMA CreatedStep ==
    IsFiniteSet(Users) /\ IsFiniteSet(Stocks) =>
      (CreatedInv /\ [TradingNext]_tradingVars => CreatedInv')
<1>1. UNCHANGED tradingVars => [Next]_vars /\ UNCHANGED book
  BY DEF tradingVars, vars, book
<1>. QED  BY <1>1, CreatedAccounts, CreatedTriggers, SameNext DEF TradingNext

(* What triggers that are still to be completed keep is part of what all do. *)
LEMMA TriggersPart ==
    ASSUME IsFiniteSet(Users), TP!FireInv, TP!Calm, T!Quiet, DoneOnce, NEW u \in Users
    PROVE  /\ InTriggers(u) \in Int /\ InTriggers(u) <= TP!InTrust(u)
           /\ TP!HalfPaid(u) = 0
<1>1. TP!Inv
  BY DEF TP!FireInv
<1>2. TP!SumsTyped(u)
  BY <1>1, SameFinite, TriggerConstants, TP!SumsAreTyped
<1>3. \A w \in TP!Threads : thread[w].at \in {"idle", "poll"}
  BY SameThreads DEF T!Quiet
<1>4. TP!HalfPaid(u) = 0
  <2>. DEFINE f == TP!HalfOf(u)
  <2>1. \A w \in TP!Threads : f[w] = 0
    BY <1>3 DEF TP!HalfOf
  <2>2. IsFiniteSet(TP!Threads)
    BY <1>2, SameFinite DEF TP!SumsTyped
  <2>. HIDE DEF f
  <2>3. TP!SumFunctionOnSet(f, TP!Threads) = SumFunctionOnSet(f, TP!Threads)
    BY DEF TP!SumFunctionOnSet, TP!FoldFunctionOnSet, TP!MapThenFoldSet,
           SumFunctionOnSet, FoldFunctionOnSet, MapThenFoldSet
  <2>4. SumFunctionOnSet(f, TP!Threads) = SumFunctionOnSet(f, {})
    BY <2>1, <2>2, SumSupport
  <2>. QED  BY <2>3, <2>4, SumEmpty DEF TP!HalfPaid, f
<1>. DEFINE D == DOMAIN triggers
            f == TP!KeptOf(u)
            R == {i \in D : /\ triggers[i].user = u /\ triggers[i].held > 0
                            /\ ~triggers[i].canceled /\ triggers[i].fired = 0}
            h == [i \in R |-> triggers[i].amount]
<1>5. IsFiniteSet(D) /\ D = 1 .. Len(triggers) /\ \A i \in D : f[i] \in Int
  BY <1>2, SameFinite DEF TP!SumsTyped
<1>6. ASSUME NEW i \in D
      PROVE  /\ 0 <= f[i]
             /\ i \in R => h[i] \in Int /\ h[i] <= f[i]
  <2>1. /\ triggers[i].amount \in Nat /\ triggers[i].held \in Nat
        /\ triggers[i].fired \in Nat /\ triggers[i].canceled \in BOOLEAN
    BY <1>1, <1>5, <1>6, TriggerConstants, TP!TriggerTyped
  <2>2. triggers[i].held # 0
    <3>1. \A v \in Users : thread[<<"SET_AMOUNT", v>>].at # "hold"
      BY <1>3, TriggerConstants, TP!ThreadKinds DEF TP!Kinds
    <3>2. ~TP!Unheld(i)
      BY <3>1 DEF TP!Unheld
    <3>. QED  BY <1>5, <1>6, <3>2 DEF TP!Calm
  <2>3. triggers[i].fired + (IF triggers[i].canceled THEN 1 ELSE 0) <= 1
    BY DEF DoneOnce
  <2>. DEFINE n == triggers[i].held - triggers[i].fired - IF triggers[i].canceled THEN 1 ELSE 0
  <2>4. /\ n \in Nat
        /\ i \in R => n >= 1
    BY <2>1, <2>2, <2>3
  <2>5. f[i] = IF triggers[i].user = u THEN n * triggers[i].amount ELSE 0
    BY DEF TP!KeptOf, TP!Keeps
  <2>. HIDE DEF n
  <2>6. PICK a \in Nat, k \in Nat : a = triggers[i].amount /\ k = n
    BY <2>1, <2>4
  <2>7. 0 <= k * a /\ (k >= 1 => a <= k * a)
    <3>1. k = 0 => k * a = 0
      OBVIOUS
    <3>2. k >= 1 => k * a = (k - 1) * a + a
      OBVIOUS
    <3>3. k >= 1 => (k - 1) * a >= 0
      OBVIOUS
    <3>. QED  BY <3>1, <3>2, <3>3
  <2>. QED  BY <2>4, <2>5, <2>6, <2>7
<1>7. InTriggers(u) = SumFunctionOnSet(h, R)
  BY DEF InTriggers, SumFunction, SumFunctionOnSet, FoldFunction, FoldFunctionOnSet
<1>8. R \subseteq D /\ \A i \in R : h[i] \in Int /\ h[i] <= f[i]
  BY <1>6
<1>9. TP!InTrust(u) = SumFunctionOnSet(f, D)
  BY DEF TP!InTrust, TP!SumFunctionOnSet, TP!FoldFunctionOnSet, TP!MapThenFoldSet,
         SumFunctionOnSet, FoldFunctionOnSet, MapThenFoldSet
<1>10. \A i \in D : f[i] \in Int /\ 0 <= f[i]
  BY <1>5, <1>6
<1>. HIDE DEF D, f, R, h
<1>11. SumFunctionOnSet(h, R) <= SumFunctionOnSet(f, D)
  BY <1>5, <1>8, <1>10, SumPart
<1>12. IsFiniteSet(R)
  BY <1>5, <1>8, FS_Subset
<1>13. SumFunctionOnSet(h, R) \in Int
  BY <1>8, <1>12, SumSplit
<1>. QED  BY <1>4, <1>7, <1>9, <1>11, <1>13

(***************************************************************************)
(* While no call fails, and no order or trigger is completed twice, no     *)
(* user has more in his accounts, on order and in triggers than he added,  *)
(* whenever the triggers' threads rest, whatever commands, settlements,    *)
(* polls and timeouts of the event came between.                           *)
(***************************************************************************)
THEOREM NothingCreated ==
    IsFiniteSet(Users) /\ IsFiniteSet(Stocks) => (TradingSpec => []NoValueCreated)
<1>. SUFFICES ASSUME IsFiniteSet(Users), IsFiniteSet(Stocks)
              PROVE  TradingSpec => []NoValueCreated
  OBVIOUS
<1>1. CreatedInv => NoValueCreated
  <2>. SUFFICES ASSUME CreatedInv, T!Quiet, DoneOnce, faults = 0, NEW u \in Users
                PROVE  Balances(u) + OnOrder(u) + InTriggers(u) <= deposited[u]
    BY DEF NoValueCreated
  <2>1. PICK O \in SUBSET Row : Accounted(O)
    BY DEF CreatedInv
  <2>2. Orders(O) /\ TP!Calm /\ Gap(u, O) + money[u] = TP!Holdings(u)
    BY <2>1 DEF Accounted, DoneOnce
  <2>3. OnOrder(u) \in Int /\ OnOrder(u) <= Ordered(u, O)
    BY <2>2, OrdersPart DEF OnOrder, OnTable
  <2>4. /\ InTriggers(u) \in Int /\ InTriggers(u) <= TP!InTrust(u)
        /\ TP!HalfPaid(u) = 0
    BY <2>2, TriggersPart DEF CreatedInv
  <2>5. TP!InTrust(u) \in Int /\ bought[u] \in Int
    <3>1. TP!SumsTyped(u)
      BY SameFinite, TriggerConstants, TP!SumsAreTyped DEF CreatedInv, TP!FireInv
    <3>. QED  BY <3>1 DEF TP!SumsTyped
  <2>6. /\ Shares(u) \in Int /\ Ordered(u, O) \in Int
        /\ money[u] \in Int /\ deposited[u] \in Int
    BY <2>2, EstateTypes DEF CreatedInv, Orders
  <2>7. Unfiled(u, "BUY") \in Nat /\ Unfiled(u, "SELL") \in Nat /\ Adding(u) \in Nat
    BY CarriedTypes DEF CreatedInv
  <2>8. Balances(u) = money[u] + bought[u] + Shares(u)
    <3>1. DOMAIN stocks[u] = Stocks
      BY DEF CreatedInv, TypeInv, TypeOK
    <3>2. SumFunction(stocks[u]) = Shares(u)
      BY <3>1 DEF Shares, SumFunction, SumFunctionOnSet, FoldFunction, FoldFunctionOnSet
    <3>. QED  BY <3>2 DEF Balances
  <2>9. TP!Holdings(u) = money[u] + bought[u] + (TP!InTrust(u) - TP!HalfPaid(u))
    BY DEF TP!Holdings
  <2>. DEFINE w == Unfiled(u, "BUY") + Unfiled(u, "SELL") + Adding(u)
  <2>10. Gap(u, O) = deposited[u] - (money[u] + Shares(u) + Ordered(u, O) + w)
    BY DEF Gap, Estate
  <2>11. w \in Nat
    BY <2>7
  <2>. HIDE DEF w
  <2>. QED  BY <2>2, <2>3, <2>4, <2>5, <2>6, <2>8, <2>9, <2>10, <2>11
<1>. QED  BY <1>1, CreatedInit, CreatedStep, PTL DEF TradingSpec
=============================================================================
