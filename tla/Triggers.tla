------------------------------ MODULE Triggers ------------------------------
(***************************************************************************)
(* The triggers of one stock in BuyTriggerService or SellTriggerService.   *)
(* A user sets an amount (SET_BUY_AMOUNT: the amount is registered with    *)
(* the stock's timer, then held from the account), sets a limit            *)
(* (SET_BUY_TRIGGER) and may cancel (CANCEL_SET_BUY).  The timer's own     *)
(* loop polls quotes and fires every trigger whose limit is reached; the   *)
(* handler of SET_BUY_TRIGGER fires its trigger itself when the last quote *)
(* already reaches the limit.                                              *)
(*                                                                         *)
(* A thread is a handler of one user and one command (its connection       *)
(* serves one message at a time) or the loop of one timer.  One action is  *)
(* one operation on a ConcurrentDictionary, one locked section or one SQL  *)
(* statement; between two of them any other thread may run.                *)
(***************************************************************************)
EXTENDS Integers, Sequences

CONSTANTS
    Users,
    Direction,        \* "BUY" or "SELL": the service
    Funds,       \* what each user owns at first of the balance that triggers hold
    Amounts,     \* the amounts a command may hold
    Limits,      \* the limits a command may set
    Costs,       \* the prices the quote service may answer
    MaxInt,      \* int.MaxValue, the cost of a timer before its first quote
    MaxCommands, \* bound: commands received
    MaxFaults,   \* bound: statements and answers of the database that fail
    Overlap      \* commands and polls may run at the same time

ASSUME DirectionAssumption == Direction \in {"BUY", "SELL"} /\ Overlap \in BOOLEAN
ASSUME AmountsAssumption ==
    /\ Funds \in Nat
    /\ Amounts \cup Limits \cup Costs \subseteq Nat \ {0}
    /\ MaxInt \in Nat
    /\ \A n \in Amounts \cup Limits \cup Costs : n < MaxInt
ASSUME BoundAssumption == MaxCommands \in Nat /\ MaxFaults \in Nat

Kinds == {"SET_AMOUNT", "SET_TRIGGER", "CANCEL"}
Ids == 1 .. (MaxCommands + MaxFaults)   \* of the triggers, and of the timers
Handlers == Kinds \X Users
Loops == {"timer"} \X Ids
Threads == Handlers \cup Loops

VARIABLES
    source,    \* the balance that triggers hold: money for a buy, stock for a sell
    target,    \* the balance that a fired trigger pays into: stock, or money
    current,   \* _timers: the stock's timer, or 0
    born,      \* timers created so far
    users,     \* users[t][u]: the trigger of user u that timer t has registered, or 0
    cost,      \* cost[t]: the last quote of timer t
    triggers,  \* every trigger created so far; held, fired, canceled are history
    thread,    \* where each thread stands, and its local variables
    commands,  \* commands received so far
    faults     \* faults so far

vars == <<source, target, current, born, users, cost, triggers, thread, commands, faults>>

Positions ==
    {"idle", "check", "enter", "register", "hold", "update", "compare", "find", "take", "return",
     "next", "first", "second", "found", "drop", "poll", "quote", "exit", "done"}

Thread == [at : Positions, arg : Nat, timer : Ids \cup {0}, fresh : BOOLEAN,
           trigger : Ids \cup {0}, batch : SUBSET Ids, left : SUBSET Ids,
           spent : Nat, ok : BOOLEAN]

Rest == [at |-> "idle", arg |-> 0, timer |-> 0, fresh |-> FALSE, trigger |-> 0,
         batch |-> {}, left |-> {}, spent |-> 0, ok |-> FALSE]

Trigger == [user : Users, amount : Nat, limit : Nat,   \* limit 0: none is set
            held : Nat, fired : Nat, canceled : BOOLEAN]

Init ==
    /\ source = [u \in Users |-> Funds]
    /\ target = [u \in Users |-> 0]
    /\ current = 0
    /\ born = 0
    /\ users = [t \in Ids |-> [u \in Users |-> 0]]
    /\ cost = [t \in Ids |-> MaxInt]
    /\ triggers = <<>>
    /\ thread = [w \in Threads |-> Rest]
    /\ commands = 0
    /\ faults = 0

-----------------------------------------------------------------------------
Become(w, r) == thread' = [thread EXCEPT ![w] = r]
Goto(w, position) == thread' = [thread EXCEPT ![w].at = position]
Finish(w, success) == thread' = [thread EXCEPT ![w].at = "done", ![w].ok = success]

accounts == <<source, target>>
registry == <<current, born, users, cost>>
bounds == <<commands, faults>>

Quiet == \A w \in Threads : thread[w].at \in {"idle", "poll"}
MayBegin == Overlap \/ Quiet

(* A command reaches its service. *)
Receive(kind, u, arg, position) ==
    LET w == <<kind, u>> IN
    /\ thread[w].at = "idle"
    /\ MayBegin
    /\ commands < MaxCommands
    /\ commands' = commands + 1
    /\ Become(w, [Rest EXCEPT !.at = position, !.arg = arg])
    /\ UNCHANGED <<accounts, registry, triggers, faults>>

ReceiveSetAmount(u) == \E a \in Amounts : Receive("SET_AMOUNT", u, a, "check")
ReceiveSetTrigger(u) == \E n \in Limits : Receive("SET_TRIGGER", u, n, "enter")
ReceiveCancel(u) == Receive("CANCEL", u, 0, "find")

(* Mutant of Reply: a refusal is not answered. *)
ReplyOnSuccess(w) ==
    /\ w \in Handlers
    /\ thread[w].at = "done" /\ thread[w].ok
    /\ Become(w, Rest)
    /\ UNCHANGED <<accounts, registry, triggers, bounds>>

(* The service answers. *)
Reply(w) ==
    /\ w \in Handlers
    /\ thread[w].at = "done"
    /\ Become(w, Rest)
    /\ UNCHANGED <<accounts, registry, triggers, bounds>>

-----------------------------------------------------------------------------
(* SET_AMOUNT.  CheckMoney, CheckUserStock: the account must cover the amount. *)
Check(w) ==
    /\ thread[w].at = "check"
    /\ IF thread[w].arg <= source[w[2]] THEN Goto(w, "enter") ELSE Finish(w, FALSE)
    /\ UNCHANGED <<accounts, registry, triggers, bounds>>

(* Mutant of Enter: SET_AMOUNT makes a timer without looking for one. *)
EnterAnew(w) ==
    LET k == thread[w] IN
    /\ k.at = "enter"
    /\ IF w[1] = "SET_AMOUNT"
         THEN /\ current' = born + 1
              /\ born' = born + 1
              /\ Become(w, [k EXCEPT !.at = "register", !.timer = born + 1, !.fresh = TRUE])
         ELSE /\ IF current = 0 THEN Finish(w, FALSE)
                 ELSE Become(w, [k EXCEPT !.at = "update", !.timer = current])
              /\ UNCHANGED <<current, born>>
    /\ UNCHANGED <<accounts, users, cost, triggers, bounds>>

(* The locked section of StartOrUpdateTimer: find the stock's timer, or make one *)
(* for SET_AMOUNT and refuse SET_TRIGGER.                                        *)
Enter(w) ==
    LET k == thread[w]
        onward == IF w[1] = "SET_AMOUNT" THEN "register" ELSE "update" IN
    /\ k.at = "enter"
    /\ \/ /\ current # 0
          /\ Become(w, [k EXCEPT !.at = onward, !.timer = current, !.fresh = FALSE])
          /\ UNCHANGED <<current, born>>
       \/ /\ current = 0 /\ w[1] = "SET_AMOUNT"
          /\ current' = born + 1
          /\ born' = born + 1
          /\ Become(w, [k EXCEPT !.at = onward, !.timer = born + 1, !.fresh = TRUE])
       \/ /\ current = 0 /\ w[1] = "SET_TRIGGER"
          /\ Finish(w, FALSE)
          /\ UNCHANGED <<current, born>>
    /\ UNCHANGED <<accounts, users, cost, triggers, bounds>>

(* Mutant of Register: a second amount is answered with success. *)
RegisterTwice(w) ==
    LET k == thread[w]
        id == Len(triggers) + 1 IN
    /\ k.at = "register"
    /\ IF users[k.timer][w[2]] # 0
         THEN Finish(w, TRUE) /\ UNCHANGED <<users, triggers>>
         ELSE /\ users' = [users EXCEPT ![k.timer][w[2]] = id]
              /\ triggers' = Append(triggers, [user |-> w[2], amount |-> k.arg, limit |-> 0,
                                               held |-> 0, fired |-> 0, canceled |-> FALSE])
              /\ thread' = [thread EXCEPT ![w].at = "hold", ![w].trigger = id,
                              ![<<"timer", k.timer>>].at = IF k.fresh THEN "poll" ELSE @,
                              ![<<"timer", k.timer>>].timer = k.timer]
    /\ UNCHANGED <<accounts, current, born, cost, bounds>>

(* AddOrUpdateUser for SET_AMOUNT: a second amount is refused; a new timer's   *)
(* loop is started.  Nobody else adds this user, so lookup and TryAdd are one. *)
Register(w) ==
    LET k == thread[w]
        u == w[2]
        id == Len(triggers) + 1
        waiting == [thread EXCEPT ![w].at = "hold", ![w].trigger = id] IN
    /\ k.at = "register"
    /\ \/ /\ users[k.timer][u] # 0
          /\ Finish(w, FALSE)
          /\ UNCHANGED <<users, triggers>>
       \/ /\ users[k.timer][u] = 0
          /\ users' = [users EXCEPT ![k.timer][u] = id]
          /\ triggers' = Append(triggers, [user |-> u, amount |-> k.arg, limit |-> 0,
                                           held |-> 0, fired |-> 0, canceled |-> FALSE])
          /\ thread' = IF k.fresh
                         THEN [waiting EXCEPT ![<<"timer", k.timer>>].at = "poll",
                                              ![<<"timer", k.timer>>].timer = k.timer]
                         ELSE waiting
    /\ UNCHANGED <<accounts, current, born, cost, bounds>>

(* SetUserMoney, HoldUserStock: the account pays what the trigger holds. *)
HoldAmount(w) ==
    LET k == thread[w] IN
    /\ k.at = "hold"
    /\ source' = [source EXCEPT ![w[2]] = @ - k.arg]
    /\ triggers' = [triggers EXCEPT ![k.trigger].held = @ + 1]
    /\ UNCHANGED <<target, registry>>

Hold(w) == HoldAmount(w) /\ Finish(w, TRUE) /\ UNCHANGED bounds

-----------------------------------------------------------------------------
(* Mutant of Reached: the comparisons of the two services are swapped. *)
ReachedSwapped(limit, price) ==
    /\ limit # 0
    /\ IF Direction = "BUY" THEN limit <= price ELSE limit >= price

(* The limit of a buy is reached from above, the limit of a sell from below. *)
Reached(limit, price) ==
    /\ limit # 0
    /\ IF Direction = "BUY" THEN limit >= price ELSE limit <= price

(* A registered trigger takes a new limit that its amount covers. *)
Accepts(id, limit) ==
    id # 0 /\ limit # triggers[id].limit /\ limit <= triggers[id].amount

(* AddOrUpdateUser for SET_TRIGGER: refuse, or set the limit. *)
Update(w) ==
    LET k == thread[w]
        id == users[k.timer][w[2]] IN
    /\ k.at = "update"
    /\ \/ /\ ~Accepts(id, k.arg)
          /\ Finish(w, FALSE)
          /\ UNCHANGED triggers
       \/ /\ Accepts(id, k.arg)
          /\ triggers' = [triggers EXCEPT ![id].limit = k.arg]
          /\ Become(w, [k EXCEPT !.at = "compare", !.trigger = id])
    /\ UNCHANGED <<accounts, registry, bounds>>

(* Then fire at once when the last quote reaches it. *)
Compare(w) ==
    LET k == thread[w] IN
    /\ k.at = "compare"
    /\ IF Reached(triggers[k.trigger].limit, cost[k.timer])
         THEN Become(w, [k EXCEPT !.at = "next", !.batch = {k.trigger}, !.left = {k.trigger}])
         ELSE Finish(w, TRUE)
    /\ UNCHANGED <<accounts, registry, triggers, bounds>>

-----------------------------------------------------------------------------
(* RemoveUserTrigger finds the stock's timer, and the user in it. *)
Known(u) == current # 0 /\ users[current][u] # 0

(* CANCEL: RemoveUserTrigger, as far as ContainsKey. *)
Find(w) ==
    LET k == thread[w] IN
    /\ k.at = "find"
    /\ IF Known(w[2]) THEN Become(w, [k EXCEPT !.at = "take", !.timer = current])
                     ELSE Finish(w, FALSE)
    /\ UNCHANGED <<accounts, registry, triggers, bounds>>

(* Remove: TryRemove is tried until it removes whatever the user has there. *)
Take(w) ==
    LET k == thread[w]
        id == users[k.timer][w[2]] IN
    /\ k.at = "take"
    /\ id # 0
    /\ users' = [users EXCEPT ![k.timer][w[2]] = 0]
    /\ Become(w, [k EXCEPT !.at = "return", !.trigger = id, !.arg = triggers[id].amount])
    /\ UNCHANGED <<accounts, current, born, cost, triggers, bounds>>

(* return_user_money, return_user_stock. *)
ReturnAmount(w) ==
    LET k == thread[w] IN
    /\ k.at = "return"
    /\ source' = [source EXCEPT ![w[2]] = @ + k.arg]
    /\ triggers' = [triggers EXCEPT ![k.trigger].canceled = TRUE]
    /\ UNCHANGED <<target, registry>>

Return(w) == ReturnAmount(w) /\ Finish(w, TRUE) /\ UNCHANGED bounds

-----------------------------------------------------------------------------
(* Mutant of NoUsers: the loop ends when one user is gone. *)
NoneOfSome(t) == \E u \in Users : users[t][u] = 0

(* The loop of a timer, Start.  It ends once the timer has no users. *)
NoUsers(t) == \A u \in Users : users[t][u] = 0
Registered(t) == {users[t][u] : u \in Users} \ {0}

Poll(w) ==
    LET k == thread[w] IN
    /\ k.at = "poll"
    /\ MayBegin
    /\ Goto(w, IF NoUsers(k.timer) THEN "exit" ELSE "quote")
    /\ UNCHANGED <<accounts, registry, triggers, bounds>>

(* GetStock answers a price: every user registered by now is considered.  When *)
(* no limit is reached, the loop waits to poll again.                          *)
Quote(w) == \E price \in Costs :
    LET k == thread[w]
        reached == {id \in Registered(k.timer) : Reached(triggers[id].limit, price)} IN
    /\ k.at = "quote"
    /\ cost' = [cost EXCEPT ![k.timer] = price]
    /\ Become(w, IF reached = {} THEN [k EXCEPT !.at = "poll"]
                 ELSE [k EXCEPT !.at = "next", !.batch = Registered(k.timer),
                                !.left = Registered(k.timer)])
    /\ UNCHANGED <<accounts, current, born, users, triggers, bounds>>

(* No price: there is no user left to ask for, or the quote service fails. *)
Unquoted(w) ==
    /\ thread[w].at = "quote"
    /\ \/ Registered(thread[w].timer) = {} /\ UNCHANGED faults
       \/ faults < MaxFaults /\ faults' = faults + 1
    /\ Goto(w, "poll")
    /\ UNCHANGED <<accounts, registry, triggers, commands>>

(* Mutant of Exit: the loop ends and leaves its timer in _timers. *)
ExitOnly(w) ==
    /\ thread[w].at = "exit"
    /\ Become(w, Rest)
    /\ UNCHANGED <<accounts, registry, triggers, bounds>>

(* The loop has ended: _timers.TryRemove. *)
Exit(w) ==
    /\ thread[w].at = "exit"
    /\ current' = 0
    /\ Become(w, Rest)
    /\ UNCHANGED <<accounts, born, users, cost, triggers, bounds>>

-----------------------------------------------------------------------------
(* BuyStockAndRemoveUserTrigger, run by a loop over the users it saw, or by a *)
(* handler over its trigger.  The loop's Where is evaluated as it is iterated. *)
Fires(w, id) == w \in Handlers \/ Reached(triggers[id].limit, cost[thread[w].timer])

(* Mutant of WholeShares: the leftover, with its sign turned. *)
NegativeLeftover(amount, price) == (amount \div price) * price - amount

(* The whole shares that the amount is worth at this price, in cents. *)
WholeShares(amount, price) == (amount \div price) * price

FireNext(w) == \E id \in thread[w].left :
    LET k == thread[w] IN
    /\ k.at = "next"
    /\ Become(w, IF Fires(w, id)
                   THEN [k EXCEPT !.at = "first", !.trigger = id, !.left = @ \ {id},
                                  !.spent = WholeShares(triggers[id].amount, cost[k.timer])]
                   ELSE [k EXCEPT !.left = @ \ {id}])
    /\ UNCHANGED <<accounts, registry, triggers, bounds>>

FiredAll(w) ==
    /\ thread[w].at = "next"
    /\ thread[w].left = {}
    /\ IF w \in Handlers THEN Finish(w, TRUE) ELSE Goto(w, "poll")
    /\ UNCHANGED <<accounts, registry, triggers, bounds>>

(* Mutant of PayLeftover: the whole amount is paid back. *)
PayAmount(w) ==
    LET t == triggers[thread[w].trigger] IN
    /\ source' = [source EXCEPT ![t.user] = @ + t.amount]
    /\ UNCHANGED target

(* The two statements of buy_trigger and of sell_trigger: the source gets what *)
(* is left over and the target what the shares are worth; sell_trigger pays    *)
(* the target first.                                                           *)
PayLeftover(w) ==
    LET t == triggers[thread[w].trigger] IN
    /\ source' = [source EXCEPT ![t.user] = @ + (t.amount - thread[w].spent)]
    /\ UNCHANGED target

PaySpent(w) ==
    LET t == triggers[thread[w].trigger] IN
    /\ target' = [target EXCEPT ![t.user] = @ + thread[w].spent]
    /\ UNCHANGED source

PayFirst(w) ==
    /\ thread[w].at = "first"
    /\ IF Direction = "BUY" THEN PayLeftover(w) ELSE PaySpent(w)
    /\ Goto(w, "second")
    /\ UNCHANGED <<registry, triggers, bounds>>

PaySecond(w) ==
    /\ thread[w].at = "second"
    /\ IF Direction = "BUY" THEN PaySpent(w) ELSE PayLeftover(w)
    /\ triggers' = [triggers EXCEPT ![thread[w].trigger].fired = @ + 1]
    /\ UNCHANGED registry

Pay(w) == PaySecond(w) /\ Goto(w, "found") /\ UNCHANGED bounds

(* The user of the trigger that fired. *)
FiredUser(w) == triggers[thread[w].trigger].user

(* Mutant of FindFired: a trigger that fired is not removed. *)
FindNothing(w) ==
    /\ thread[w].at = "found"
    /\ Goto(w, "next")
    /\ UNCHANGED <<accounts, registry, triggers, bounds>>

(* RemoveUserTrigger of this user: ContainsKey, and then TryRemove. *)
FindFired(w) ==
    LET k == thread[w] IN
    /\ k.at = "found"
    /\ IF Known(FiredUser(w))
         THEN Become(w, [k EXCEPT !.at = "drop", !.arg = current])
         ELSE Goto(w, "next")
    /\ UNCHANGED <<accounts, registry, triggers, bounds>>

DropFired(w) ==
    LET k == thread[w] IN
    /\ k.at = "drop"
    /\ users[k.arg][FiredUser(w)] # 0
    /\ users' = [users EXCEPT ![k.arg][FiredUser(w)] = 0]
    /\ Goto(w, "next")
    /\ UNCHANGED <<accounts, current, born, cost, triggers, bounds>>

-----------------------------------------------------------------------------
(* Mutant of Restarted: a failed SET_AMOUNT goes on with its last statement. *)
RestartedAtHold(w) ==
    LET k == thread[w] IN
    IF w[1] = "SET_AMOUNT" THEN [k EXCEPT !.at = IF k.trigger = 0 THEN "check" ELSE "hold"]
    ELSE IF w[1] = "CANCEL" THEN [k EXCEPT !.at = "return"]
    ELSE [k EXCEPT !.at = "next", !.left = k.batch]

(* PerformTransaction runs a failed callback again, from its start.            *)
Restarted(w) ==
    LET k == thread[w] IN
    IF w[1] = "SET_AMOUNT" THEN [k EXCEPT !.at = "check"]
    ELSE IF w[1] = "CANCEL" THEN [k EXCEPT !.at = "return"]
    ELSE [k EXCEPT !.at = "next", !.left = k.batch]

Again(w) ==
    /\ faults < MaxFaults
    /\ faults' = faults + 1
    /\ Become(w, Restarted(w))
    /\ UNCHANGED commands

(* A statement fails before it has an effect. *)
Fault(w) ==
    /\ thread[w].at \in {"check", "hold", "return", "first", "second"}
    /\ Again(w)
    /\ UNCHANGED <<accounts, registry, triggers>>

(* The answer of a procedure that has run is lost. *)
AnswerLost(w) == (HoldAmount(w) \/ ReturnAmount(w) \/ PaySecond(w)) /\ Again(w)

-----------------------------------------------------------------------------
(* What a thread does without being asked again. *)
HandlerStep(w) ==
    Check(w) \/ Enter(w) \/ Register(w) \/ Hold(w) \/ Update(w) \/ Compare(w)
      \/ Find(w) \/ Take(w) \/ Return(w) \/ Reply(w)
LoopStep(w) == Poll(w) \/ Quote(w) \/ Unquoted(w) \/ Exit(w)
FireStep(w) == FireNext(w) \/ FiredAll(w) \/ PayFirst(w) \/ Pay(w) \/ FindFired(w) \/ DropFired(w)
Progress(w) == HandlerStep(w) \/ LoopStep(w) \/ FireStep(w)

Next ==
    \/ \E u \in Users : ReceiveSetAmount(u) \/ ReceiveSetTrigger(u) \/ ReceiveCancel(u)
    \/ \E w \in Threads : Progress(w) \/ Fault(w) \/ AnswerLost(w)

Spec == Init /\ [][Next]_vars

(* Every thread that can go on does so; commands and faults need not come. *)
FairSpec == Spec /\ \A w \in Threads : WF_vars(Progress(w))

-----------------------------------------------------------------------------
TypeOK ==
    /\ source \in [Users -> Int] /\ target \in [Users -> Int]
    /\ current \in Ids \cup {0} /\ born \in Ids \cup {0}
    /\ users \in [Ids -> [Users -> Ids \cup {0}]]
    /\ cost \in [Ids -> Nat]
    /\ triggers \in Seq(Trigger) /\ Len(triggers) \in 0 .. MaxCommands + MaxFaults
    /\ thread \in [Threads -> Thread]
    /\ commands \in 0 .. MaxCommands /\ faults \in 0 .. MaxFaults

(***************************************************************************)
(* The amount of a trigger leaves the account at most once, whatever fails *)
(* and is run again: a callback that runs again finds its user registered  *)
(* and holds nothing, or registers a new trigger.                          *)
(***************************************************************************)
HeldAtMostOnce == \A i \in DOMAIN triggers : triggers[i].held <= 1

(***************************************************************************)
(* The handler of SET_TRIGGER and the loop may both see the limit reached  *)
(* and both complete the trigger; nobody completes it a third time, except *)
(* that a failed callback runs its batch again: whoever completes it first *)
(* takes it away from later commands and polls.                            *)
(***************************************************************************)
CompletedByTwo == \A i \in DOMAIN triggers : triggers[i].fired <= 2 + faults

(* A SET_AMOUNT that answers success has held the amount it registered. *)
SuccessMeansHeld ==
    \A u \in Users :
      LET k == thread[<<"SET_AMOUNT", u>>] IN
      k.at = "done" /\ k.ok =>
        \E i \in DOMAIN triggers : i = k.trigger /\ triggers[i].held = 1

(***************************************************************************)
(* The stock's timer has a loop that polls it, or its first user is about  *)
(* to start one: StartOrUpdateTimer makes a timer under the lock, and only *)
(* a loop that has ended takes it away.                                    *)
(***************************************************************************)
CurrentTimerRuns ==
    current # 0 =>
      \/ thread[<<"timer", current>>].at # "idle"
      \/ \E u \in Users : LET k == thread[<<"SET_AMOUNT", u>>] IN
           k.at = "register" /\ k.fresh /\ k.timer = current

(* A trigger fires at a price that the quote service answered. *)
FiresAtQuotedPrice ==
    \A w \in Threads :
      thread[w].at = "first" => cost[thread[w].timer] \in Costs

(***************************************************************************)
(* A trigger whose cancellation returned the held amount was not completed *)
(* as well.                                                                *)
(***************************************************************************)
CanceledNotFired == \A i \in DOMAIN triggers : ~(triggers[i].canceled /\ triggers[i].fired > 0)

(***************************************************************************)
(* While nothing runs, a trigger that holds an amount is registered with   *)
(* the stock's timer, where CANCEL and the limit find it.                  *)
(***************************************************************************)
HeldIsRegistered ==
    Quiet => \A i \in DOMAIN triggers :
      LET t == triggers[i] IN
      t.held = 1 /\ ~t.canceled /\ t.fired = 0 => current # 0 /\ users[current][t.user] = i

(* Every command is answered. *)
EveryCommandAnswered ==
    \A w \in Handlers : thread[w].at # "idle" ~> thread[w].at = "idle"

(***************************************************************************)
(* A trigger whose limit every price reaches, and that keeps this limit,   *)
(* is completed or canceled.                                               *)
(***************************************************************************)
Ripe(i) == \E j \in DOMAIN triggers :
    j = i /\ \A price \in Costs : Reached(triggers[j].limit, price)
Settled(i) == \E j \in DOMAIN triggers :
    j = i /\ (triggers[j].canceled \/ triggers[j].fired > 0)

ReachedTriggersFire == \A i \in Ids : Ripe(i) ~> ~Ripe(i) \/ Settled(i)
=============================================================================
