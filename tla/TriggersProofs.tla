--------------------------- MODULE TriggersProofs ---------------------------
(***************************************************************************)
(* Theorems about Triggers, for both services, every number of users,      *)
(* commands and faults, and every set of amounts, limits and prices.       *)
(***************************************************************************)
EXTENDS Triggers, FiniteSetTheorems, TLAPS

(***************************************************************************)
(* Where a thread of each kind may stand.                                  *)
(***************************************************************************)
Firing == {"next", "first", "second", "found", "drop"}

Placed(w, k) ==
    /\ w[1] = "SET_AMOUNT" => k.at \in {"idle", "check", "enter", "register", "hold", "done"}
    /\ w[1] = "SET_TRIGGER" => k.at \in {"idle", "enter", "update", "compare", "done"} \cup Firing
    /\ w[1] = "CANCEL" => k.at \in {"idle", "find", "take", "return", "done"}
    /\ w[1] = "timer" => k.at \in {"idle", "poll", "quote", "exit"} \cup Firing

(* What a thread refers to exists: its timer, its trigger, its batch. *)
Sound(w, k) ==
    /\ k.timer \in 0 .. born
    /\ k.at \in {"register", "update", "compare", "take", "poll", "quote", "exit"} \cup Firing =>
         k.timer # 0
    /\ k.trigger \in 0 .. Len(triggers)
    /\ k.at \in {"hold", "return", "compare", "first", "second", "found", "drop"} => k.trigger # 0
    /\ k.batch \subseteq 1 .. Len(triggers) /\ k.left \subseteq 1 .. Len(triggers)
    /\ k.at = "drop" => k.arg \in 1 .. born
    /\ k.at \in {"check", "enter", "register", "hold"} /\ w[1] = "SET_AMOUNT" => k.arg \in Amounts

(***************************************************************************)
(* A SET_AMOUNT that is about to hold has registered a trigger of its own  *)
(* user that holds nothing, and one that succeeded has held it.  Whoever   *)
(* has made a timer registers its first user there: himself.               *)
(***************************************************************************)
Own(w, k) ==
    w[1] = "SET_AMOUNT" =>
      /\ k.at = "hold" => triggers[k.trigger].user = w[2] /\ triggers[k.trigger].held = 0
      /\ k.at = "done" /\ k.ok =>
           k.trigger # 0 /\ triggers[k.trigger].user = w[2] /\ triggers[k.trigger].held = 1
      /\ k.at = "register" /\ k.fresh => users[k.timer][w[2]] = 0

(* What the timers have registered are triggers of those users. *)
Registry ==
    /\ current \in 0 .. born
    /\ \A t \in Ids, u \in Users :
         users[t][u] # 0 =>
           /\ t <= born
           /\ users[t][u] \in 1 .. Len(triggers)
           /\ triggers[users[t][u]].user = u
    /\ \A t \in Ids : cost[t] \in Costs \cup {MaxInt}
    /\ \A i \in 1 .. Len(triggers) : triggers[i].amount \in Amounts

(***************************************************************************)
(* The numbers of timers and triggers suffice: each SET_AMOUNT that may    *)
(* still make one stands for a command or a fault that has made none.      *)
(***************************************************************************)
Entering == {u \in Users : thread[<<"SET_AMOUNT", u>>].at \in {"check", "enter"}}
Registering == {u \in Users : thread[<<"SET_AMOUNT", u>>].at \in {"check", "enter", "register"}}

Budget ==
    /\ IsFiniteSet(Registering)
    /\ born + Cardinality(Entering) <= commands + faults
    /\ Len(triggers) + Cardinality(Registering) <= commands + faults

Inv ==
    /\ TypeOK
    /\ Registry
    /\ Budget
    /\ HeldAtMostOnce
    /\ CurrentTimerRuns
    /\ \A w \in Threads : Placed(w, thread[w]) /\ Sound(w, thread[w]) /\ Own(w, thread[w])

-----------------------------------------------------------------------------
(* Facts about threads that many steps need. *)
LEMMA Constants ==
    /\ Ids = 1 .. (MaxCommands + MaxFaults)
    /\ MaxCommands \in Nat /\ MaxFaults \in Nat
    /\ \A n \in Amounts \cup Limits \cup Costs : n \in Nat /\ n > 0 /\ n < MaxInt
    /\ MaxInt \in Nat /\ Funds \in Nat /\ 0 \in Nat
    /\ Direction \in {"BUY", "SELL"}
BY AmountsAssumption, BoundAssumption, DirectionAssumption DEF Ids

LEMMA ThreadKinds ==
    /\ \A w \in Handlers : w[1] \in Kinds /\ w[2] \in Users /\ w = <<w[1], w[2]>>
    /\ \A w \in Loops : w[1] = "timer" /\ w[2] \in Ids /\ w = <<"timer", w[2]>> /\ w \notin Handlers
    /\ \A w \in Threads : w[1] # "timer" => w \in Handlers
    /\ \A kind \in Kinds, u \in Users : <<kind, u>> \in Handlers
    /\ \A t \in Ids : <<"timer", t>> \in Loops
    /\ Handlers \subseteq Threads /\ Loops \subseteq Threads
BY DEF Handlers, Loops, Threads, Kinds

(* One thread becomes r; the others stay. *)
Moves(w, r) ==
    /\ thread' \in [Threads -> Thread]
    /\ thread'[w] = r
    /\ \A v \in Threads \ {w} : thread'[v] = thread[v]

LEMMA BecomeMoves ==
    ASSUME thread \in [Threads -> Thread], NEW w \in Threads, NEW r \in Thread, Become(w, r)
    PROVE  Moves(w, r)
BY DEF Become, Moves

(* A record of a thread at another position. *)
LEMMA GotoMoves ==
    ASSUME thread \in [Threads -> Thread], NEW w \in Threads, NEW p \in Positions, Goto(w, p)
    PROVE  \E r \in Thread :
             /\ Moves(w, r) /\ r.at = p
             /\ r.arg = thread[w].arg /\ r.timer = thread[w].timer /\ r.fresh = thread[w].fresh
             /\ r.trigger = thread[w].trigger /\ r.batch = thread[w].batch
             /\ r.left = thread[w].left /\ r.spent = thread[w].spent /\ r.ok = thread[w].ok
<1>. DEFINE r == [thread[w] EXCEPT !.at = p]
<1>1. /\ r \in Thread /\ r.at = p
      /\ r.arg = thread[w].arg /\ r.timer = thread[w].timer /\ r.fresh = thread[w].fresh
      /\ r.trigger = thread[w].trigger /\ r.batch = thread[w].batch
      /\ r.left = thread[w].left /\ r.spent = thread[w].spent /\ r.ok = thread[w].ok
  BY DEF Thread
<1>2. Become(w, r)
  BY DEF Goto, Become
<1>. HIDE DEF r
<1>. QED  BY <1>1, <1>2, BecomeMoves

LEMMA FinishMoves ==
    ASSUME thread \in [Threads -> Thread], NEW w \in Threads, NEW b \in BOOLEAN, Finish(w, b)
    PROVE  \E r \in Thread :
             /\ Moves(w, r) /\ r.at = "done" /\ r.ok = b
             /\ r.arg = thread[w].arg /\ r.timer = thread[w].timer /\ r.fresh = thread[w].fresh
             /\ r.trigger = thread[w].trigger /\ r.batch = thread[w].batch
             /\ r.left = thread[w].left /\ r.spent = thread[w].spent
<1>. DEFINE r == [thread[w] EXCEPT !.at = "done", !.ok = b]
<1>1. /\ r \in Thread /\ r.at = "done" /\ r.ok = b
      /\ r.arg = thread[w].arg /\ r.timer = thread[w].timer /\ r.fresh = thread[w].fresh
      /\ r.trigger = thread[w].trigger /\ r.batch = thread[w].batch
      /\ r.left = thread[w].left /\ r.spent = thread[w].spent
  BY ZenonT(60) DEF Thread, Positions
<1>2. Become(w, r)
  BY DEF Finish, Become
<1>. HIDE DEF r
<1>. QED  BY <1>1, <1>2, BecomeMoves

-----------------------------------------------------------------------------
(* Counting the SET_AMOUNTs that have not come so far yet. *)
LEMMA Subsets ==
    ASSUME NEW A, IsFiniteSet(A), NEW B, B \subseteq A
    PROVE  /\ IsFiniteSet(B) /\ Cardinality(B) \in Nat /\ Cardinality(A) \in Nat
           /\ Cardinality(B) <= Cardinality(A)
BY FS_Subset, FS_CardinalityType

LEMMA OneMore ==
    ASSUME NEW A, IsFiniteSet(A), NEW x, NEW B, B \subseteq A \cup {x}
    PROVE  /\ IsFiniteSet(B) /\ Cardinality(B) \in Nat /\ Cardinality(A) \in Nat
           /\ Cardinality(B) <= Cardinality(A) + 1
<1>1. /\ IsFiniteSet(A \cup {x}) /\ Cardinality(A) \in Nat
      /\ Cardinality(A \cup {x}) = Cardinality(A) \/ Cardinality(A \cup {x}) = Cardinality(A) + 1
  BY FS_AddElement, FS_CardinalityType
<1>2. /\ IsFiniteSet(B) /\ Cardinality(B) \in Nat
      /\ Cardinality(B) <= Cardinality(A \cup {x})
  BY <1>1, Subsets
<1>. QED  BY <1>1, <1>2

LEMMA OneLess ==
    ASSUME NEW A, IsFiniteSet(A), NEW x \in A, NEW B, B \subseteq A \ {x}
    PROVE  /\ IsFiniteSet(B) /\ Cardinality(B) \in Nat /\ Cardinality(A) \in Nat
           /\ Cardinality(B) + 1 <= Cardinality(A)
<1>1. /\ IsFiniteSet(A \ {x}) /\ Cardinality(A \ {x}) = Cardinality(A) - 1
      /\ Cardinality(A) \in Nat
  BY FS_RemoveElement, FS_CardinalityType
<1>2. /\ IsFiniteSet(B) /\ Cardinality(B) \in Nat
      /\ Cardinality(B) <= Cardinality(A \ {x})
  BY <1>1, Subsets
<1>. QED  BY <1>1, <1>2

OthersStay(w) == \A v \in Handlers \ {w} : thread'[v] = thread[v]

LEMMA Budgeted ==
    ASSUME TypeOK, Budget
    PROVE  /\ IsFiniteSet(Entering) /\ IsFiniteSet(Registering)
           /\ Cardinality(Entering) \in Nat /\ Cardinality(Registering) \in Nat
           /\ born \in Nat /\ Len(triggers) \in Nat /\ commands \in Nat /\ faults \in Nat
<1>1. Entering \subseteq Registering
  BY DEF Entering, Registering
<1>. QED  BY <1>1, Subsets, Constants DEF Budget, TypeOK

(* A step that brings nobody back ahead. *)
LEMMA BudgetStays ==
    ASSUME TypeOK, Budget, NEW w \in Threads, OthersStay(w),
           UNCHANGED <<commands, faults>>,
           w[1] = "SET_AMOUNT" =>
             /\ thread'[w].at \in {"check", "enter"} => thread[w].at \in {"check", "enter"}
             /\ thread'[w].at = "register" => thread[w].at \in {"check", "enter", "register"},
           born' = born, Len(triggers') = Len(triggers)
    PROVE  Budget'
<1>1. ASSUME NEW u \in Users, <<"SET_AMOUNT", u>> # w
      PROVE  thread'[<<"SET_AMOUNT", u>>] = thread[<<"SET_AMOUNT", u>>]
  BY <1>1, ThreadKinds DEF OthersStay, Kinds
<1>2. Entering' \subseteq Entering /\ Registering' \subseteq Registering
  BY <1>1 DEF Entering, Registering
<1>3. /\ IsFiniteSet(Registering')
      /\ Cardinality(Entering') \in Nat /\ Cardinality(Registering') \in Nat
      /\ Cardinality(Entering') <= Cardinality(Entering)
      /\ Cardinality(Registering') <= Cardinality(Registering)
  BY <1>2, Budgeted, Subsets
<1>. QED  BY <1>3, Budgeted DEF Budget

Charged ==
    \/ commands' = commands + 1 /\ UNCHANGED faults
    \/ faults' = faults + 1 /\ UNCHANGED commands

(* A command that arrives, or a fault that takes one back to its start. *)
LEMMA BudgetGrows ==
    ASSUME TypeOK, Budget, NEW w \in Threads, OthersStay(w),
           Charged,
           born' = born, Len(triggers') = Len(triggers)
    PROVE  Budget'
<1>1. ASSUME NEW u \in Users, u # w[2]
      PROVE  thread'[<<"SET_AMOUNT", u>>] = thread[<<"SET_AMOUNT", u>>]
  BY <1>1, ThreadKinds DEF OthersStay, Kinds
<1>2. Entering' \subseteq Entering \cup {w[2]} /\ Registering' \subseteq Registering \cup {w[2]}
  BY <1>1 DEF Entering, Registering
<1>3. /\ IsFiniteSet(Registering')
      /\ Cardinality(Entering') \in Nat /\ Cardinality(Registering') \in Nat
      /\ Cardinality(Entering') <= Cardinality(Entering) + 1
      /\ Cardinality(Registering') <= Cardinality(Registering) + 1
  BY <1>2, Budgeted, OneMore
<1>4. CASE commands' = commands + 1 /\ UNCHANGED faults
  BY <1>3, <1>4, Budgeted, SMTT(30) DEF Budget
<1>5. CASE faults' = faults + 1 /\ UNCHANGED commands
  BY <1>3, <1>5, Budgeted, SMTT(30) DEF Budget
<1>. QED  BY <1>4, <1>5 DEF Charged

-----------------------------------------------------------------------------
(***************************************************************************)
(* A step of one thread that makes no timer and no trigger and registers   *)
(* nobody: what it must satisfy to keep the invariant.                     *)
(***************************************************************************)
SameTriggers(w) ==
    /\ triggers' \in Seq(Trigger)
    /\ Len(triggers') = Len(triggers)
    /\ \A i \in 1 .. Len(triggers) :
         /\ triggers'[i].user = triggers[i].user
         /\ triggers'[i].amount = triggers[i].amount
         /\ \/ triggers'[i].held = triggers[i].held
            \/ /\ w[1] = "SET_AMOUNT" /\ thread[w].at = "hold" /\ i = thread[w].trigger
               /\ triggers'[i].held = 1

NobodyNew ==
    /\ users' \in [Ids -> [Users -> Ids \cup {0}]]
    /\ \A t \in Ids, u \in Users : users'[t][u] # 0 => users'[t][u] = users[t][u]

Cheap(w, r) ==
    /\ UNCHANGED <<commands, faults>>
    /\ w[1] = "SET_AMOUNT" =>
         /\ r.at \in {"check", "enter"} => thread[w].at \in {"check", "enter"}
         /\ r.at = "register" => thread[w].at \in {"check", "enter", "register"}

OwnAfter(w, k) ==
    w[1] = "SET_AMOUNT" =>
      /\ k.at = "hold" => triggers'[k.trigger].user = w[2] /\ triggers'[k.trigger].held = 0
      /\ k.at = "done" /\ k.ok =>
           k.trigger # 0 /\ triggers'[k.trigger].user = w[2] /\ triggers'[k.trigger].held = 1
      /\ k.at = "register" /\ k.fresh => users'[k.timer][w[2]] = 0

LEMMA Kept ==
    ASSUME Inv, NEW w \in Threads, NEW r \in Thread, Moves(w, r),
           Placed(w, r), Sound(w, r), OwnAfter(w, r),
           source' \in [Users -> Int], target' \in [Users -> Int],
           current' \in {current, 0}, born' = born,
           cost' \in [Ids -> Nat], \A t \in Ids : cost'[t] \in Costs \cup {MaxInt},
           NobodyNew, SameTriggers(w),
           Charged \/ Cheap(w, r), commands' \in 0 .. MaxCommands, faults' \in 0 .. MaxFaults,
           w[1] = "timer" => r.at # "idle" \/ current' = 0,
           ~(thread[w].at = "register" /\ thread[w].fresh)
    PROVE  Inv'
<1>1. TypeOK'
  BY Constants DEF Inv, TypeOK, Moves, NobodyNew, SameTriggers
<1>2. Registry'
  <2>1. current' \in 0 .. born'
    BY Constants DEF Inv, Registry, TypeOK
  <2>2. ASSUME NEW t \in Ids, NEW u \in Users, users'[t][u] # 0
        PROVE  t <= born' /\ users'[t][u] \in 1 .. Len(triggers') /\ triggers'[users'[t][u]].user = u
    <3>1. users'[t][u] = users[t][u]
      BY <2>2 DEF NobodyNew
    <3>2. t <= born /\ users[t][u] \in 1 .. Len(triggers) /\ triggers[users[t][u]].user = u
      BY <2>2, <3>1 DEF Inv, Registry
    <3>. QED  BY <3>1, <3>2 DEF SameTriggers
  <2>3. \A i \in 1 .. Len(triggers') : triggers'[i].amount \in Amounts
    BY DEF Inv, Registry, SameTriggers
  <2>. QED  BY <2>1, <2>2, <2>3 DEF Registry
<1>3. Budget'
  <2>1. TypeOK /\ Budget /\ thread'[w] = r /\ Len(triggers') = Len(triggers) /\ OthersStay(w)
    BY ThreadKinds DEF Inv, Moves, OthersStay, SameTriggers
  <2>2. CASE Charged
    BY <2>1, <2>2, BudgetGrows
  <2>3. CASE Cheap(w, r)
    BY <2>1, <2>3, BudgetStays DEF Cheap
  <2>. QED  BY <2>2, <2>3
<1>4. HeldAtMostOnce'
  <2>1. DOMAIN triggers' = 1 .. Len(triggers) /\ DOMAIN triggers = 1 .. Len(triggers)
    BY DEF Inv, TypeOK, SameTriggers
  <2>2. ASSUME NEW i \in 1 .. Len(triggers) PROVE triggers'[i].held <= 1
    BY <2>1 DEF Inv, HeldAtMostOnce, SameTriggers
  <2>. QED  BY <2>1, <2>2 DEF HeldAtMostOnce
<1>5. CurrentTimerRuns'
  <2>. SUFFICES ASSUME current' # 0
                PROVE  \/ thread'[<<"timer", current'>>].at # "idle"
                       \/ \E u \in Users : LET k == thread'[<<"SET_AMOUNT", u>>] IN
                            k.at = "register" /\ k.fresh /\ k.timer = current'
    BY DEF CurrentTimerRuns
  <2>1. current' = current /\ <<"timer", current>> \in Threads
    BY ThreadKinds DEF Inv, TypeOK
  <2>2. CASE thread[<<"timer", current>>].at # "idle"
    <3>1. CASE w = <<"timer", current>>
      BY <2>1, <3>1 DEF Moves
    <3>2. CASE w # <<"timer", current>>
      BY <2>1, <2>2, <3>2 DEF Moves
    <3>. QED  BY <3>1, <3>2
  <2>3. CASE thread[<<"timer", current>>].at = "idle"
    <3>1. PICK u \in Users : LET k == thread[<<"SET_AMOUNT", u>>] IN
                                k.at = "register" /\ k.fresh /\ k.timer = current
      BY <2>1, <2>3 DEF Inv, CurrentTimerRuns
    <3>2. <<"SET_AMOUNT", u>> \in Threads \ {w}
      BY <3>1, ThreadKinds DEF Kinds
    <3>. QED  BY <2>1, <3>1, <3>2 DEF Moves
  <2>. QED  BY <2>2, <2>3
<1>6. Placed(w, thread'[w]) /\ (Sound(w, thread[w]) /\ Own(w, thread[w]))'
  BY DEF Moves, Sound, SameTriggers, Own, OwnAfter
<1>7. ASSUME NEW v \in Threads \ {w}
      PROVE  Placed(v, thread'[v]) /\ (Sound(v, thread[v]) /\ Own(v, thread[v]))'
  <2>1. /\ Placed(v, thread[v]) /\ Sound(v, thread[v]) /\ Own(v, thread[v])
        /\ Sound(w, thread[w]) /\ Own(w, thread[w]) /\ thread'[v] = thread[v]
    BY DEF Inv, Moves
  <2>2. Placed(v, thread'[v]) /\ Sound(v, thread[v])'
    BY <2>1 DEF Sound, SameTriggers
  <2>3. Own(v, thread[v])'
    <3>. SUFFICES ASSUME v[1] = "SET_AMOUNT" PROVE Own(v, thread[v])'
      BY DEF Own
    <3>1. v[2] \in Users /\ (w[1] = "SET_AMOUNT" => w[2] # v[2])
      BY ThreadKinds
    <3>2. ASSUME thread[v].trigger # 0, triggers[thread[v].trigger].user = v[2]
          PROVE  /\ triggers'[thread[v].trigger].user = v[2]
                 /\ triggers'[thread[v].trigger].held = triggers[thread[v].trigger].held
      <4>1. thread[v].trigger \in 1 .. Len(triggers)
        BY <2>1, <3>2 DEF Sound, Inv, TypeOK
      <4>2. ~(w[1] = "SET_AMOUNT" /\ thread[w].at = "hold" /\ thread[v].trigger = thread[w].trigger)
        BY <2>1, <3>1, <3>2 DEF Own
      <4>. QED  BY <3>2, <4>1, <4>2 DEF SameTriggers
    <3>3. thread[v].at = "register" => thread[v].timer \in Ids
      BY <2>1, Constants DEF Sound, Inv, TypeOK, Thread
    <3>4. thread[v].at = "hold" => thread[v].trigger # 0
      BY <2>1 DEF Sound
    <3>5. thread[v].at = "register" /\ thread[v].fresh => users'[thread[v].timer][v[2]] = 0
      BY <2>1, <3>1, <3>3 DEF Own, NobodyNew
    <3>. QED  BY <2>1, <3>2, <3>4, <3>5 DEF Own
  <2>. QED  BY <2>2, <2>3
<1>. QED  BY <1>1, <1>2, <1>3, <1>4, <1>5, <1>6, <1>7 DEF Inv

LEMMA Typed ==
    ASSUME Inv, NEW w \in Threads
    PROVE  /\ source \in [Users -> Int] /\ target \in [Users -> Int]
           /\ current \in 0 .. born /\ current \in Ids \cup {0} /\ born \in Nat
           /\ users \in [Ids -> [Users -> Ids \cup {0}]]
           /\ cost \in [Ids -> Nat] /\ \A t \in Ids : cost[t] \in Costs \cup {MaxInt}
           /\ triggers \in Seq(Trigger) /\ Len(triggers) \in Nat
           /\ thread \in [Threads -> Thread] /\ thread[w] \in Thread
           /\ Placed(w, thread[w]) /\ Sound(w, thread[w]) /\ Own(w, thread[w])
           /\ commands \in 0 .. MaxCommands /\ faults \in 0 .. MaxFaults
BY Constants DEF Inv, TypeOK, Registry

(* What a user has registered with a timer is a trigger of his. *)
LEMMA RegisteredTrigger ==
    ASSUME Inv, NEW i \in Ids, NEW u \in Users, users[i][u] # 0
    PROVE  users[i][u] \in Ids /\ users[i][u] \in 1 .. Len(triggers)
<1>1. users \in [Ids -> [Users -> Ids \cup {0}]]
  BY DEF Inv, TypeOK
<1>2. users[i] \in [Users -> Ids \cup {0}]
  BY <1>1
<1>3. users[i][u] \in Ids \cup {0}
  BY <1>2
<1>4. users[i][u] \in 1 .. Len(triggers)
  BY DEF Inv, Registry
<1>. QED  BY <1>3, <1>4

LEMMA Unmarked ==
    ASSUME Inv
    PROVE  /\ UNCHANGED triggers => \A w \in Threads : SameTriggers(w)
           /\ UNCHANGED users => NobodyNew
BY DEF Inv, TypeOK, SameTriggers, NobodyNew

LEMMA Marked ==
    ASSUME Inv, NEW w \in Threads, NEW i \in 1 .. Len(triggers), NEW t \in Trigger,
           t.user = triggers[i].user, t.amount = triggers[i].amount,
           \/ t.held = triggers[i].held
           \/ /\ w[1] = "SET_AMOUNT" /\ thread[w].at = "hold" /\ i = thread[w].trigger
              /\ t.held = 1,
           triggers' = [triggers EXCEPT ![i] = t]
    PROVE  SameTriggers(w)
<1>1. triggers \in Seq(Trigger) /\ triggers' \in Seq(Trigger) /\ Len(triggers') = Len(triggers)
  BY DEF Inv, TypeOK
<1>2. triggers'[i] = t /\ \A j \in 1 .. Len(triggers) : j # i => triggers'[j] = triggers[j]
  BY <1>1
<1>. QED  BY <1>1, <1>2 DEF SameTriggers

(* A step that only moves a thread, or also pays an account. *)
LEMMA MoveKept ==
    ASSUME Inv, NEW w \in Threads, NEW r \in Thread, Moves(w, r),
           Placed(w, r), Sound(w, r), Own(w, r),
           source' \in [Users -> Int], target' \in [Users -> Int],
           UNCHANGED <<registry, triggers>>,
           Charged \/ Cheap(w, r), commands' \in 0 .. MaxCommands, faults' \in 0 .. MaxFaults,
           w[1] = "timer" => r.at # "idle",
           ~(thread[w].at = "register" /\ thread[w].fresh)
    PROVE  Inv'
<1>1. NobodyNew /\ SameTriggers(w)
  BY Unmarked DEF registry
<1>2. OwnAfter(w, r)
  BY DEF Own, OwnAfter, registry
<1>. QED  BY <1>1, <1>2, Kept, Typed DEF registry

(* A step that ends a handler, or takes a thread on. *)
LEMMA FinishKept ==
    ASSUME Inv, NEW w \in Handlers, NEW b \in BOOLEAN, Finish(w, b), b => w[1] # "SET_AMOUNT",
           ~(thread[w].at = "register" /\ thread[w].fresh),
           UNCHANGED <<accounts, registry, triggers, bounds>>
    PROVE  Inv'
<1>1. w \in Threads /\ w[1] \in Kinds
  BY ThreadKinds
<1>2. PICK r \in Thread : Moves(w, r) /\ r.at = "done" /\ r.arg = thread[w].arg /\ r.ok = b
          /\ r.timer = thread[w].timer /\ r.trigger = thread[w].trigger
          /\ r.batch = thread[w].batch /\ r.left = thread[w].left
  BY <1>1, FinishMoves, Typed
<1>3. Placed(w, r) /\ Own(w, r) /\ Cheap(w, r) /\ Sound(w, r)
  BY <1>1, <1>2, Typed DEF Placed, Own, Cheap, Sound, Firing, bounds, Kinds
<1>. QED  BY <1>1, <1>2, <1>3, MoveKept, Typed DEF accounts, bounds, Kinds

LEMMA GotoKept ==
    ASSUME Inv, NEW w \in Threads, NEW p \in {"enter", "exit", "quote", "poll", "second", "next"},
           Goto(w, p), Placed(w, [at |-> p]), p = "enter" => thread[w].at = "check",
           p # "enter" => thread[w].timer # 0, p = "second" => thread[w].trigger # 0,
           thread[w].at # "register",
           source' \in [Users -> Int], target' \in [Users -> Int],
           UNCHANGED <<registry, triggers>>,
           Charged \/ UNCHANGED bounds, commands' \in 0 .. MaxCommands, faults' \in 0 .. MaxFaults
    PROVE  Inv'
<1>. p \in Positions
  BY DEF Positions
<1>1. PICK r \in Thread : Moves(w, r) /\ r.at = p /\ r.arg = thread[w].arg
          /\ r.timer = thread[w].timer /\ r.trigger = thread[w].trigger
          /\ r.batch = thread[w].batch /\ r.left = thread[w].left
  BY GotoMoves, Typed
<1>2. Placed(w, r) /\ Own(w, r) /\ (Charged \/ Cheap(w, r))
  BY <1>1, Typed DEF Placed, Own, Cheap, bounds
<1>3. Sound(w, r)
  BY <1>1, Typed DEF Sound, Firing
<1>. QED  BY <1>1, <1>2, <1>3, MoveKept, Typed

-----------------------------------------------------------------------------
(* Each action keeps the invariant. *)
LEMMA StepReceive ==
    ASSUME Inv, NEW kind \in Kinds, NEW u \in Users, NEW arg \in Nat,
           NEW position \in {"check", "enter", "find"}, Receive(kind, u, arg, position),
           kind = "SET_AMOUNT" => position = "check" /\ arg \in Amounts,
           kind = "SET_TRIGGER" => position = "enter",
           kind = "CANCEL" => position = "find"
    PROVE  Inv'
<1>. DEFINE w == <<kind, u>>
            r == [Rest EXCEPT !.at = position, !.arg = arg]
<1>1. w \in Threads /\ w[1] = kind
  BY ThreadKinds
<1>2. /\ r \in Thread /\ r.at = position /\ r.arg = arg /\ r.timer = 0 /\ r.trigger = 0
      /\ r.batch = {} /\ r.left = {}
  BY DEF Rest, Thread, Positions
<1>3. Become(w, r) /\ thread[w].at = "idle" /\ commands < MaxCommands
      /\ commands' = commands + 1 /\ UNCHANGED <<accounts, registry, triggers, faults>>
  BY DEF Receive
<1>. HIDE DEF r, w
<1>4. Moves(w, r)
  BY <1>1, <1>2, <1>3, BecomeMoves, Typed
<1>5. Placed(w, r) /\ Own(w, r)
  BY <1>1, <1>2 DEF Placed, Own, Kinds
<1>6. Sound(w, r)
  BY <1>1, <1>2, Typed DEF Sound, Firing
<1>7. Charged /\ commands' \in 0 .. MaxCommands /\ faults' \in 0 .. MaxFaults
  BY <1>1, <1>3, Typed, Constants DEF Charged
<1>. QED  BY <1>1, <1>2, <1>3, <1>4, <1>5, <1>6, <1>7, MoveKept, Typed DEF accounts, Kinds

LEMMA StepReply ==
    ASSUME Inv, NEW w \in Threads, Reply(w)
    PROVE  Inv'
<1>1. /\ Rest \in Thread /\ Rest.at = "idle" /\ Rest.timer = 0 /\ Rest.trigger = 0
      /\ Rest.batch = {} /\ Rest.left = {}
  BY DEF Rest, Thread, Positions
<1>2. w \in Handlers /\ Become(w, Rest) /\ thread[w].at = "done"
      /\ UNCHANGED <<accounts, registry, triggers, commands, faults>>
  BY DEF Reply, bounds
<1>3. Moves(w, Rest)
  BY <1>1, <1>2, BecomeMoves, Typed
<1>4. Placed(w, Rest) /\ Own(w, Rest) /\ Cheap(w, Rest) /\ w[1] # "timer"
  BY <1>1, <1>2, ThreadKinds DEF Placed, Own, Kinds, Cheap
<1>5. Sound(w, Rest)
  BY <1>1, Typed DEF Sound, Firing
<1>. QED  BY <1>1, <1>2, <1>3, <1>4, <1>5, MoveKept, Typed DEF accounts

LEMMA StepCheck ==
    ASSUME Inv, NEW w \in Threads, Check(w)
    PROVE  Inv'
<1>1. /\ thread[w].at = "check" /\ UNCHANGED <<accounts, registry, triggers, bounds>>
      /\ Goto(w, "enter") \/ Finish(w, FALSE)
  BY DEF Check
<1>2. w \in Handlers /\ w[1] = "SET_AMOUNT"
  BY <1>1, Typed, ThreadKinds DEF Placed, Firing, Kinds, Threads
<1>3. Placed(w, [at |-> "enter"])
  BY <1>2 DEF Placed
<1>. QED  BY <1>1, <1>2, <1>3, FinishKept, GotoKept, Typed DEF accounts, bounds

LEMMA StepCompare ==
    ASSUME Inv, NEW w \in Threads, Compare(w)
    PROVE  Inv'
<1>. DEFINE r == [thread[w] EXCEPT !.at = "next", !.batch = {thread[w].trigger},
                                   !.left = {thread[w].trigger}]
<1>1. /\ thread[w].at = "compare" /\ UNCHANGED <<accounts, registry, triggers, bounds>>
      /\ Become(w, r) \/ Finish(w, TRUE)
  BY DEF Compare
<1>2. w \in Handlers /\ w[1] = "SET_TRIGGER"
  BY <1>1, Typed, ThreadKinds DEF Placed, Firing, Kinds, Threads
<1>3. thread[w].trigger \in Ids /\ thread[w].trigger \in 1 .. Len(triggers) /\ thread[w].timer # 0
  BY <1>1, Typed DEF Sound, Thread
<1>4. /\ r \in Thread /\ r.at = "next" /\ r.batch = {thread[w].trigger}
      /\ r.left = {thread[w].trigger} /\ r.timer = thread[w].timer
      /\ r.trigger = thread[w].trigger
  BY <1>3, Typed, ZenonT(60) DEF Thread, Positions
<1>. HIDE DEF r
<1>5. CASE Become(w, r)
  <2>1. Moves(w, r)
    BY <1>4, <1>5, BecomeMoves, Typed
  <2>2. Placed(w, r) /\ Own(w, r) /\ Cheap(w, r)
    BY <1>1, <1>2, <1>4 DEF Placed, Own, Cheap, Firing, bounds
  <2>3. Sound(w, r)
    BY <1>3, <1>4, Typed DEF Sound, Firing
  <2>. QED  BY <1>1, <1>2, <1>4, <2>1, <2>2, <2>3, MoveKept, Typed DEF accounts, bounds
<1>. QED  BY <1>1, <1>2, <1>5, FinishKept

LEMMA StepFind ==
    ASSUME Inv, NEW w \in Threads, Find(w)
    PROVE  Inv'
<1>. DEFINE r == [thread[w] EXCEPT !.at = "take", !.timer = current]
<1>1. /\ thread[w].at = "find" /\ UNCHANGED <<accounts, registry, triggers, bounds>>
      /\ (current # 0 /\ Become(w, r)) \/ Finish(w, FALSE)
  BY DEF Find, Known
<1>2. w \in Handlers /\ w[1] = "CANCEL"
  BY <1>1, Typed, ThreadKinds DEF Placed, Firing, Kinds, Threads
<1>3. /\ r \in Thread /\ r.at = "take" /\ r.batch = thread[w].batch
      /\ r.left = thread[w].left /\ r.timer = current /\ r.trigger = thread[w].trigger
  BY Typed, ZenonT(60) DEF Thread, Positions
<1>. HIDE DEF r
<1>4. CASE current # 0 /\ Become(w, r)
  <2>1. Moves(w, r)
    BY <1>3, <1>4, BecomeMoves, Typed
  <2>2. Placed(w, r) /\ Own(w, r) /\ Cheap(w, r)
    BY <1>1, <1>2, <1>3 DEF Placed, Own, Cheap, Firing, bounds
  <2>3. Sound(w, r)
    BY <1>3, <1>4, Typed, ZenonT(60) DEF Sound, Firing
  <2>. QED  BY <1>1, <1>2, <1>3, <2>1, <2>2, <2>3, MoveKept, Typed DEF accounts, bounds
<1>. QED  BY <1>1, <1>2, <1>4, FinishKept

LEMMA StepUpdate ==
    ASSUME Inv, NEW w \in Threads, Update(w)
    PROVE  Inv'
<1>. DEFINE id == users[thread[w].timer][w[2]]
            r == [thread[w] EXCEPT !.at = "compare", !.trigger = id]
            t == [triggers[id] EXCEPT !.limit = thread[w].arg]
<1>1. /\ thread[w].at = "update" /\ UNCHANGED <<accounts, registry, bounds>>
      /\ \/ Finish(w, FALSE) /\ UNCHANGED triggers
         \/ id # 0 /\ triggers' = [triggers EXCEPT ![id] = t] /\ Become(w, r)
  BY ZenonT(60) DEF Update, Accepts
<1>2. w \in Handlers /\ w[1] = "SET_TRIGGER" /\ w[2] \in Users
  BY <1>1, Typed, ThreadKinds, ZenonT(60) DEF Placed, Firing, Kinds, Threads
<1>3. thread[w].timer \in Ids /\ thread[w].timer # 0
  BY <1>1, Typed DEF Sound, Thread
<1>4. CASE id # 0 /\ triggers' = [triggers EXCEPT ![id] = t] /\ Become(w, r)
  <2>1. id \in Ids /\ id \in 1 .. Len(triggers)
    BY <1>2, <1>3, <1>4, RegisteredTrigger
  <2>2. /\ r \in Thread /\ r.at = "compare" /\ r.batch = thread[w].batch
        /\ r.left = thread[w].left /\ r.timer = thread[w].timer /\ r.trigger = id
    BY <2>1, Typed, ZenonT(60) DEF Thread, Positions
  <2>3. triggers[id] \in Trigger /\ thread[w].arg \in Nat
    BY <2>1, Typed DEF Thread
  <2>4. /\ t \in Trigger /\ t.user = triggers[id].user /\ t.amount = triggers[id].amount
        /\ t.held = triggers[id].held
    BY <2>3 DEF Trigger
  <2>. HIDE DEF r, t, id
  <2>5. Moves(w, r) /\ SameTriggers(w) /\ NobodyNew
    BY <1>1, <1>4, <2>1, <2>2, <2>4, BecomeMoves, Typed, Marked, Unmarked DEF registry
  <2>6. Placed(w, r) /\ OwnAfter(w, r) /\ Cheap(w, r)
    BY <1>1, <1>2, <2>2 DEF Placed, OwnAfter, Cheap, Firing, bounds
  <2>7. Sound(w, r)
    <3>1. Sound(w, thread[w])
      BY Typed
    <3>. QED  BY <1>3, <2>1, <2>2, <3>1 DEF Sound, Firing
  <2>8. /\ current' = current /\ born' = born /\ cost' = cost /\ UNCHANGED <<source, target>>
        /\ UNCHANGED <<commands, faults>> /\ w[1] # "timer"
    BY <1>1, <1>2 DEF registry, accounts, bounds
  <2>. QED  BY <1>1, <2>2, <2>5, <2>6, <2>7, <2>8, Kept, Typed, ZenonT(60)
<1>. QED  BY <1>1, <1>2, <1>4, FinishKept, ZenonT(60)

LEMMA StepTake ==
    ASSUME Inv, NEW w \in Threads, Take(w)
    PROVE  Inv'
<1>. DEFINE id == users[thread[w].timer][w[2]]
            r == [thread[w] EXCEPT !.at = "return", !.trigger = id, !.arg = triggers[id].amount]
<1>1. /\ thread[w].at = "take" /\ UNCHANGED <<accounts, current, born, cost, triggers, bounds>>
      /\ id # 0 /\ users' = [users EXCEPT ![thread[w].timer][w[2]] = 0] /\ Become(w, r)
  BY DEF Take
<1>2. w \in Handlers /\ w[1] = "CANCEL" /\ w[2] \in Users
  BY <1>1, Typed, ThreadKinds DEF Placed, Firing, Kinds, Threads
<1>3. thread[w].timer \in Ids /\ thread[w].timer # 0
  BY <1>1, Typed DEF Sound, Thread
<1>4. id \in Ids
  BY <1>1, <1>2, <1>3, RegisteredTrigger
<1>5. id \in 1 .. Len(triggers)
  BY <1>1, <1>2, <1>3, RegisteredTrigger
<1>6. triggers[id].amount \in Nat
  <2>1. triggers[id] \in Trigger
    BY <1>5, Typed, SMTT(30)
  <2>. QED  BY <2>1 DEF Trigger
<1>7. /\ r \in Thread /\ r.at = "return" /\ r.batch = thread[w].batch
      /\ r.left = thread[w].left /\ r.timer = thread[w].timer /\ r.trigger = id
  BY <1>4, <1>6, Typed, ZenonT(60) DEF Thread, Positions
<1>8. NobodyNew /\ SameTriggers(w)
  BY <1>1, <1>2, <1>3, Typed, Unmarked DEF NobodyNew
<1>. HIDE DEF r, id
<1>9. Moves(w, r)
  BY <1>1, <1>7, BecomeMoves, Typed
<1>10. Placed(w, r) /\ OwnAfter(w, r) /\ Cheap(w, r)
  BY <1>1, <1>2, <1>7 DEF Placed, OwnAfter, Cheap, Firing, bounds
<1>11. Sound(w, r)
  <2>1. Sound(w, thread[w])
    BY Typed
  <2>. QED  BY <1>3, <1>5, <1>7, <2>1 DEF Sound, Firing
<1>12. /\ UNCHANGED <<current, born, cost, source, target, commands, faults>> /\ w[1] # "timer"
  BY <1>1, <1>2 DEF accounts, bounds
<1>. QED  BY <1>1, <1>7, <1>8, <1>9, <1>10, <1>11, <1>12, Kept, Typed

(* The three procedures that change an account and leave history at a trigger. *)
LEMMA HeldOnce ==
    ASSUME NEW x \in Trigger, x.held = 0
    PROVE  LET t == [x EXCEPT !.held = @ + 1] IN
           t \in Trigger /\ t.user = x.user /\ t.amount = x.amount /\ t.held = 1
<1>1. x.held + 1 = 1
  OBVIOUS
<1>. QED  BY <1>1 DEF Trigger

LEMMA HoldEffect ==
    ASSUME Inv, NEW w \in Threads, HoldAmount(w)
    PROVE  /\ thread[w].at = "hold" /\ w[1] = "SET_AMOUNT" /\ w \in Handlers
           /\ source' \in [Users -> Int] /\ target' = target /\ UNCHANGED registry
           /\ SameTriggers(w)
           /\ thread[w].trigger \in 1 .. Len(triggers)
           /\ triggers'[thread[w].trigger].user = w[2] /\ triggers'[thread[w].trigger].held = 1
<1>. DEFINE i == thread[w].trigger
            t == [triggers[i] EXCEPT !.held = @ + 1]
<1>1. /\ thread[w].at = "hold" /\ triggers' = [triggers EXCEPT ![i] = t]
      /\ source' = [source EXCEPT ![w[2]] = @ - thread[w].arg]
      /\ UNCHANGED <<target, registry>>
  BY DEF HoldAmount
<1>2. w \in Handlers /\ w[1] = "SET_AMOUNT" /\ w[2] \in Users
  BY <1>1, Typed, ThreadKinds DEF Placed, Firing, Kinds, Threads
<1>3. i \in 1 .. Len(triggers)
  BY <1>1, Typed DEF Sound
<1>4. /\ triggers[i] \in Trigger /\ triggers[i].user = w[2] /\ triggers[i].held = 0
      /\ triggers \in Seq(Trigger)
  BY <1>1, <1>2, <1>3, Typed DEF Own
<1>5. /\ t \in Trigger /\ t.user = w[2] /\ t.held = 1 /\ t.amount = triggers[i].amount
  BY <1>4, HeldOnce
<1>6. source' \in [Users -> Int]
  BY <1>1, <1>2, Typed DEF Thread
<1>. HIDE DEF t
<1>7. triggers'[i] = t
  BY <1>1, <1>3, <1>4
<1>8. SameTriggers(w)
  BY <1>1, <1>2, <1>3, <1>4, <1>5, Marked
<1>. QED  BY <1>1, <1>2, <1>3, <1>5, <1>6, <1>7, <1>8

LEMMA ReturnEffect ==
    ASSUME Inv, NEW w \in Threads, ReturnAmount(w)
    PROVE  /\ thread[w].at = "return" /\ w[1] = "CANCEL" /\ w \in Handlers
           /\ source' \in [Users -> Int] /\ target' = target /\ UNCHANGED registry
           /\ SameTriggers(w)
<1>. DEFINE i == thread[w].trigger
            t == [triggers[i] EXCEPT !.canceled = TRUE]
<1>1. /\ thread[w].at = "return" /\ triggers' = [triggers EXCEPT ![i] = t]
      /\ source' = [source EXCEPT ![w[2]] = @ + thread[w].arg]
      /\ UNCHANGED <<target, registry>>
  BY DEF ReturnAmount
<1>2. w \in Handlers /\ w[1] = "CANCEL" /\ w[2] \in Users
  BY <1>1, Typed, ThreadKinds DEF Placed, Firing, Kinds, Threads
<1>3. i \in 1 .. Len(triggers)
  BY <1>1, Typed DEF Sound
<1>4. triggers[i] \in Trigger
  BY <1>3, Typed
<1>5. /\ t \in Trigger /\ t.user = triggers[i].user /\ t.amount = triggers[i].amount
      /\ t.held = triggers[i].held
  BY <1>4 DEF Trigger
<1>6. source' \in [Users -> Int]
  BY <1>1, <1>2, Typed DEF Thread
<1>. HIDE DEF t
<1>7. SameTriggers(w)
  BY <1>1, <1>3, <1>5, Marked
<1>. QED  BY <1>1, <1>2, <1>6, <1>7

LEMMA StepHold ==
    ASSUME Inv, NEW w \in Threads, Hold(w)
    PROVE  Inv'
<1>1. HoldAmount(w) /\ Finish(w, TRUE) /\ UNCHANGED <<commands, faults>>
  BY DEF Hold, bounds
<1>2. PICK r \in Thread : Moves(w, r) /\ r.at = "done"
          /\ r.timer = thread[w].timer /\ r.trigger = thread[w].trigger
          /\ r.batch = thread[w].batch /\ r.left = thread[w].left
  BY <1>1, FinishMoves, Typed
<1>3. Placed(w, r) /\ OwnAfter(w, r) /\ Cheap(w, r) /\ Sound(w, r)
  BY <1>1, <1>2, HoldEffect, Typed DEF Placed, OwnAfter, Cheap, Sound, Firing
<1>4. NobodyNew /\ UNCHANGED <<current, born, cost>>
  BY <1>1, HoldEffect, Unmarked DEF registry
<1>. QED  BY <1>1, <1>2, <1>3, <1>4, HoldEffect, Kept, Typed

LEMMA StepReturn ==
    ASSUME Inv, NEW w \in Threads, Return(w)
    PROVE  Inv'
<1>1. ReturnAmount(w) /\ Finish(w, TRUE) /\ UNCHANGED <<commands, faults>>
  BY DEF Return, bounds
<1>2. PICK r \in Thread : Moves(w, r) /\ r.at = "done"
          /\ r.timer = thread[w].timer /\ r.trigger = thread[w].trigger
          /\ r.batch = thread[w].batch /\ r.left = thread[w].left
  BY <1>1, FinishMoves, Typed
<1>3. Placed(w, r) /\ OwnAfter(w, r) /\ Cheap(w, r) /\ Sound(w, r)
  BY <1>1, <1>2, ReturnEffect, Typed DEF Placed, OwnAfter, Cheap, Sound, Firing
<1>4. NobodyNew /\ UNCHANGED <<current, born, cost>>
  BY <1>1, ReturnEffect, Unmarked DEF registry
<1>. QED  BY <1>1, <1>2, <1>3, <1>4, ReturnEffect, Kept, Typed

LEMMA StepPoll ==
    ASSUME Inv, NEW w \in Threads, Poll(w)
    PROVE  Inv'
<1>1. /\ thread[w].at = "poll" /\ UNCHANGED <<accounts, registry, triggers, bounds>>
      /\ Goto(w, "exit") \/ Goto(w, "quote")
  BY DEF Poll
<1>2. w[1] = "timer" /\ thread[w].timer # 0
  BY <1>1, Typed, ThreadKinds DEF Placed, Sound, Firing, Kinds, Threads
<1>3. Placed(w, [at |-> "exit"]) /\ Placed(w, [at |-> "quote"])
  BY <1>2 DEF Placed
<1>. QED  BY <1>1, <1>2, <1>3, GotoKept, Typed DEF accounts, bounds

LEMMA StepUnquoted ==
    ASSUME Inv, NEW w \in Threads, Unquoted(w)
    PROVE  Inv'
<1>1. /\ thread[w].at = "quote" /\ UNCHANGED <<accounts, registry, triggers, commands>>
      /\ Goto(w, "poll")
      /\ UNCHANGED faults \/ (faults < MaxFaults /\ faults' = faults + 1)
  BY DEF Unquoted
<1>2. w[1] = "timer" /\ thread[w].timer # 0
  BY <1>1, Typed, ThreadKinds DEF Placed, Sound, Firing, Kinds, Threads
<1>3. Placed(w, [at |-> "poll"])
  BY <1>2 DEF Placed
<1>4. /\ Charged \/ UNCHANGED bounds
      /\ commands' \in 0 .. MaxCommands /\ faults' \in 0 .. MaxFaults
  BY <1>1, Typed, Constants DEF Charged, bounds
<1>. QED  BY <1>1, <1>2, <1>3, <1>4, GotoKept, Typed DEF accounts

LEMMA StepQuote ==
    ASSUME Inv, NEW w \in Threads, Quote(w)
    PROVE  Inv'
<1>. DEFINE seen == Registered(thread[w].timer)
            r == [thread[w] EXCEPT !.at = "next", !.batch = seen, !.left = seen]
            p == [thread[w] EXCEPT !.at = "poll"]
<1>1. PICK price \in Costs :
        /\ thread[w].at = "quote" /\ UNCHANGED <<accounts, current, born, users, triggers, bounds>>
        /\ cost' = [cost EXCEPT ![thread[w].timer] = price]
        /\ Become(w, r) \/ Become(w, p)
  BY DEF Quote
<1>2. w[1] = "timer" /\ w \in Loops /\ thread[w].timer \in Ids /\ thread[w].timer # 0
  BY <1>1, Typed, ThreadKinds DEF Placed, Sound, Firing, Kinds, Threads, Thread
<1>3. seen \subseteq Ids /\ seen \subseteq 1 .. Len(triggers)
  <2>. SUFFICES ASSUME NEW u \in Users, users[thread[w].timer][u] # 0
                PROVE  /\ users[thread[w].timer][u] \in Ids
                       /\ users[thread[w].timer][u] \in 1 .. Len(triggers)
    BY DEF Registered
  <2>1. users[thread[w].timer][u] \in Ids
    BY <1>2, Typed
  <2>2. users[thread[w].timer][u] \in 1 .. Len(triggers)
    BY <1>2 DEF Inv, Registry
  <2>. QED  BY <2>1, <2>2
<1>4. /\ r \in Thread /\ r.at = "next" /\ r.batch = seen /\ r.left = seen
      /\ r.timer = thread[w].timer /\ r.trigger = thread[w].trigger
      /\ p \in Thread /\ p.at = "poll" /\ p.batch = thread[w].batch /\ p.left = thread[w].left
      /\ p.timer = thread[w].timer /\ p.trigger = thread[w].trigger
  <2>. HIDE DEF seen
  <2>. QED  BY <1>3, Typed, ZenonT(60) DEF Thread, Positions
<1>. HIDE DEF r, p, seen
<1>5. NobodyNew /\ SameTriggers(w) /\ UNCHANGED <<current, born, source, target, commands, faults>>
  BY <1>1, Unmarked DEF accounts, bounds
<1>6. cost' \in [Ids -> Nat] /\ \A t \in Ids : cost'[t] \in Costs \cup {MaxInt}
  BY <1>1, <1>2, Typed, Constants
<1>7. PICK s \in {r, p} : Become(w, s)
  BY <1>1
<1>8. /\ Placed(w, s) /\ OwnAfter(w, s) /\ Cheap(w, s) /\ Moves(w, s) /\ s \in Thread
      /\ s.at # "idle"
  BY <1>2, <1>4, <1>5, <1>7, BecomeMoves, Typed DEF Placed, OwnAfter, Cheap, Firing
<1>9. Sound(w, s)
  <2>1. Sound(w, thread[w])
    BY Typed
  <2>. QED  BY <1>2, <1>3, <1>4, <1>7, <2>1 DEF Sound, Firing
<1>. QED  BY <1>1, <1>5, <1>6, <1>8, <1>9, Kept, Typed

LEMMA StepExit ==
    ASSUME Inv, NEW w \in Threads, Exit(w)
    PROVE  Inv'
<1>1. /\ thread[w].at = "exit" /\ UNCHANGED <<born, users, cost, triggers, commands, faults>>
      /\ current' = 0 /\ Become(w, Rest) /\ UNCHANGED <<source, target>>
  BY DEF Exit, accounts, bounds
<1>2. /\ Rest \in Thread /\ Rest.at = "idle" /\ Rest.timer = 0 /\ Rest.trigger = 0
      /\ Rest.batch = {} /\ Rest.left = {}
  BY DEF Rest, Thread, Positions
<1>3. Moves(w, Rest) /\ NobodyNew /\ SameTriggers(w)
  BY <1>1, <1>2, BecomeMoves, Typed, Unmarked
<1>4. Placed(w, Rest) /\ OwnAfter(w, Rest) /\ Cheap(w, Rest)
  BY <1>1, <1>2, Typed DEF Placed, OwnAfter, Cheap, Firing
<1>5. Sound(w, Rest)
  BY <1>2, Typed DEF Sound, Firing
<1>. QED  BY <1>1, <1>2, <1>3, <1>4, <1>5, Kept, Typed

(* Where a thread stands that completes triggers. *)
LEMMA FiringThread ==
    ASSUME Inv, NEW w \in Threads, thread[w].at \in Firing
    PROVE  /\ w[1] \in {"SET_TRIGGER", "timer"} /\ thread[w].timer \in Ids /\ thread[w].timer # 0
           /\ thread[w].at # "next" => thread[w].trigger \in 1 .. Len(triggers)
           /\ thread[w].left \subseteq 1 .. Len(triggers)
<1>1. Placed(w, thread[w]) /\ Sound(w, thread[w]) /\ thread[w] \in Thread
  BY Typed
<1>2. w[1] \in {"SET_TRIGGER", "timer"}
  BY <1>1, ThreadKinds DEF Placed, Firing, Kinds, Threads
<1>3. thread[w].timer \in Ids /\ thread[w].timer # 0
  BY <1>1 DEF Sound, Thread, Firing
<1>4. thread[w].at # "next" => thread[w].trigger \in 1 .. Len(triggers)
  BY <1>1 DEF Sound, Firing
<1>. QED  BY <1>1, <1>2, <1>3, <1>4 DEF Sound

LEMMA Shares ==
    ASSUME NEW amount \in Nat, NEW price \in Nat \ {0}
    PROVE  WholeShares(amount, price) \in Nat
<1>1. amount \div price \in Nat
  OBVIOUS
<1>. QED  BY <1>1 DEF WholeShares

LEMMA SharesBounded ==
    ASSUME NEW amount \in Nat, NEW price \in Nat \ {0}
    PROVE  WholeShares(amount, price) <= amount
<1>1. (amount \div price) * price <= amount
  OBVIOUS
<1>. QED  BY <1>1 DEF WholeShares

LEMMA StepFireNext ==
    ASSUME Inv, NEW w \in Threads, FireNext(w)
    PROVE  Inv'
<1>. DEFINE r(id) == [thread[w] EXCEPT !.at = "first", !.trigger = id, !.left = @ \ {id},
                          !.spent = WholeShares(triggers[id].amount, cost[thread[w].timer])]
            p(id) == [thread[w] EXCEPT !.left = @ \ {id}]
<1>1. PICK id \in thread[w].left :
        /\ thread[w].at = "next" /\ UNCHANGED <<accounts, registry, triggers, bounds>>
        /\ Become(w, r(id)) \/ Become(w, p(id))
  BY DEF FireNext
<1>2. /\ w[1] \in {"SET_TRIGGER", "timer"} /\ thread[w].timer \in Ids /\ thread[w].timer # 0
      /\ id \in 1 .. Len(triggers)
  BY <1>1, FiringThread DEF Firing
<1>3. id \in Ids
  BY <1>1, Typed DEF Thread
<1>4. WholeShares(triggers[id].amount, cost[thread[w].timer]) \in Nat
  <2>1. triggers[id] \in Trigger /\ cost[thread[w].timer] \in Costs \cup {MaxInt}
    BY <1>2, Typed
  <2>2. triggers[id].amount \in Amounts
    BY <1>2 DEF Inv, Registry
  <2>3. triggers[id].amount \in Nat /\ cost[thread[w].timer] \in Nat \ {0}
    BY <2>1, <2>2, Constants
  <2>. QED  BY <2>3, Shares
<1>5. /\ r(id) \in Thread /\ r(id).at = "first" /\ r(id).trigger = id
      /\ r(id).timer = thread[w].timer
      /\ r(id).batch = thread[w].batch /\ r(id).left = thread[w].left \ {id}
  BY <1>3, <1>4, Typed, ZenonT(60) DEF Thread, Positions
<1>6. /\ p(id) \in Thread /\ p(id).at = "next" /\ p(id).trigger = thread[w].trigger
      /\ p(id).timer = thread[w].timer
      /\ p(id).batch = thread[w].batch /\ p(id).left = thread[w].left \ {id}
  BY <1>1, Typed DEF Thread
<1>7. PICK s \in {r(id), p(id)} : Become(w, s)
  BY <1>1
<1>8. /\ s \in Thread /\ s.at \in {"first", "next"} /\ s.trigger \in {id, thread[w].trigger}
      /\ (s.at = "first" => s.trigger = id) /\ s.timer = thread[w].timer
      /\ s.batch = thread[w].batch /\ s.left = thread[w].left \ {id}
  BY <1>5, <1>6, <1>7
<1>. HIDE DEF r, p
<1>9. /\ Placed(w, s) /\ Own(w, s) /\ Cheap(w, s) /\ Moves(w, s)
  BY <1>1, <1>2, <1>7, <1>8, BecomeMoves, Typed DEF Placed, Own, Cheap, Firing, bounds
<1>10. Sound(w, s)
  <2>1. Sound(w, thread[w])
    BY Typed
  <2>. QED  BY <1>2, <1>8, <2>1 DEF Sound, Firing
<1>. QED  BY <1>1, <1>8, <1>9, <1>10, MoveKept, Typed DEF accounts, bounds

LEMMA StepFiredAll ==
    ASSUME Inv, NEW w \in Threads, FiredAll(w)
    PROVE  Inv'
<1>1. /\ thread[w].at = "next" /\ UNCHANGED <<accounts, registry, triggers, bounds>>
      /\ IF w \in Handlers THEN Finish(w, TRUE) ELSE Goto(w, "poll")
  BY DEF FiredAll
<1>2. w[1] \in {"SET_TRIGGER", "timer"} /\ thread[w].timer # 0
  BY <1>1, FiringThread DEF Firing
<1>3. w \notin Handlers => Placed(w, [at |-> "poll"])
  BY <1>2, ThreadKinds DEF Placed
<1>. QED  BY <1>1, <1>2, <1>3, FinishKept, GotoKept, Typed DEF accounts, bounds


(* The two payments of a trigger that fires. *)
LEMMA PayEffect ==
    ASSUME Inv, NEW w \in Threads, thread[w].at \in {"first", "second"},
           PayLeftover(w) \/ PaySpent(w)
    PROVE  source' \in [Users -> Int] /\ target' \in [Users -> Int]
<1>. DEFINE t == triggers[thread[w].trigger]
<1>1. thread[w].trigger \in 1 .. Len(triggers) /\ thread[w].spent \in Nat
  BY FiringThread, Typed DEF Firing, Thread
<1>2. t \in Trigger
  BY <1>1, Typed
<1>3. t.user \in Users /\ t.amount \in Nat
  BY <1>2 DEF Trigger
<1>. HIDE DEF t
<1>4. \/ source' = [source EXCEPT ![t.user] = @ + (t.amount - thread[w].spent)] /\ target' = target
      \/ target' = [target EXCEPT ![t.user] = @ + thread[w].spent] /\ source' = source
  BY DEF PayLeftover, PaySpent, t
<1>5. CASE /\ source' = [source EXCEPT ![t.user] = @ + (t.amount - thread[w].spent)]
           /\ target' = target
  BY <1>1, <1>3, <1>5, Typed
<1>6. CASE target' = [target EXCEPT ![t.user] = @ + thread[w].spent] /\ source' = source
  BY <1>1, <1>3, <1>6, Typed
<1>. QED  BY <1>4, <1>5, <1>6

LEMMA SecondEffect ==
    ASSUME Inv, NEW w \in Threads, PaySecond(w)
    PROVE  /\ thread[w].at = "second" /\ w[1] \in {"SET_TRIGGER", "timer"}
           /\ source' \in [Users -> Int] /\ target' \in [Users -> Int] /\ UNCHANGED registry
           /\ SameTriggers(w)
<1>. DEFINE i == thread[w].trigger
            t == [triggers[i] EXCEPT !.fired = @ + 1]
<1>1. /\ thread[w].at = "second" /\ triggers' = [triggers EXCEPT ![i] = t]
      /\ PayLeftover(w) \/ PaySpent(w)
  BY DEF PaySecond
<1>2. w[1] \in {"SET_TRIGGER", "timer"} /\ i \in 1 .. Len(triggers)
  BY <1>1, FiringThread DEF Firing
<1>3. triggers[i] \in Trigger
  BY <1>2, Typed
<1>4. /\ t \in Trigger /\ t.user = triggers[i].user /\ t.amount = triggers[i].amount
      /\ t.held = triggers[i].held
  <2>1. triggers[i].fired + 1 \in Nat
    BY <1>3 DEF Trigger
  <2>. QED  BY <1>3, <2>1 DEF Trigger
<1>. HIDE DEF t
<1>5. SameTriggers(w)
  BY <1>1, <1>2, <1>4, Marked
<1>6. UNCHANGED registry
  BY DEF PaySecond
<1>. QED  BY <1>1, <1>2, <1>5, <1>6, PayEffect

LEMMA StepPayFirst ==
    ASSUME Inv, NEW w \in Threads, PayFirst(w)
    PROVE  Inv'
<1>1. /\ thread[w].at = "first" /\ UNCHANGED <<registry, triggers, bounds>>
      /\ Goto(w, "second") /\ (PayLeftover(w) \/ PaySpent(w))
  BY DEF PayFirst
<1>2. /\ w[1] \in {"SET_TRIGGER", "timer"} /\ thread[w].timer # 0 /\ thread[w].timer \in Ids
      /\ thread[w].trigger \in 1 .. Len(triggers)
  BY <1>1, FiringThread DEF Firing
<1>3. Placed(w, [at |-> "second"])
  BY <1>2 DEF Placed, Firing
<1>4. source' \in [Users -> Int] /\ target' \in [Users -> Int]
  BY <1>1, PayEffect
<1>5. commands' \in 0 .. MaxCommands /\ faults' \in 0 .. MaxFaults /\ thread[w].trigger # 0
  BY <1>1, <1>2, Typed DEF bounds
<1>. QED  BY <1>1, <1>2, <1>3, <1>4, <1>5, GotoKept

LEMMA StepPay ==
    ASSUME Inv, NEW w \in Threads, Pay(w)
    PROVE  Inv'
<1>1. PaySecond(w) /\ Goto(w, "found") /\ UNCHANGED <<commands, faults>>
  BY DEF Pay, bounds
<1>2. PICK r \in Thread : Moves(w, r) /\ r.at = "found"
          /\ r.timer = thread[w].timer /\ r.trigger = thread[w].trigger
          /\ r.batch = thread[w].batch /\ r.left = thread[w].left
  BY <1>1, GotoMoves, Typed DEF Positions
<1>3. Placed(w, r) /\ OwnAfter(w, r) /\ Cheap(w, r) /\ Sound(w, r)
  BY <1>1, <1>2, SecondEffect, Typed DEF Placed, OwnAfter, Cheap, Sound, Firing
<1>4. NobodyNew /\ UNCHANGED <<current, born, cost>>
  BY <1>1, SecondEffect, Unmarked DEF registry
<1>. QED  BY <1>1, <1>2, <1>3, <1>4, SecondEffect, Kept, Typed

LEMMA StepFindFired ==
    ASSUME Inv, NEW w \in Threads, FindFired(w)
    PROVE  Inv'
<1>. DEFINE r == [thread[w] EXCEPT !.at = "drop", !.arg = current]
<1>1. /\ thread[w].at = "found" /\ UNCHANGED <<accounts, registry, triggers, bounds>>
      /\ (current # 0 /\ Become(w, r)) \/ Goto(w, "next")
  BY DEF FindFired, Known
<1>2. /\ w[1] \in {"SET_TRIGGER", "timer"} /\ thread[w].timer # 0
      /\ thread[w].trigger \in 1 .. Len(triggers)
  BY <1>1, FiringThread DEF Firing
<1>3. Placed(w, [at |-> "next"])
  BY <1>2 DEF Placed, Firing
<1>. current \in Nat
  BY Typed
<1>4. /\ r \in Thread /\ r.at = "drop" /\ r.arg = current /\ r.batch = thread[w].batch
      /\ r.left = thread[w].left /\ r.timer = thread[w].timer /\ r.trigger = thread[w].trigger
  BY Typed, ZenonT(60) DEF Thread, Positions
<1>. HIDE DEF r
<1>5. CASE current # 0 /\ Become(w, r)
  <2>1. Moves(w, r)
    BY <1>4, <1>5, BecomeMoves, Typed
  <2>2. Placed(w, r) /\ Own(w, r) /\ Cheap(w, r)
    BY <1>1, <1>2, <1>4 DEF Placed, Own, Cheap, Firing, bounds
  <2>3. Sound(w, r)
    BY <1>2, <1>4, <1>5, Typed DEF Sound, Firing
  <2>. QED  BY <1>1, <1>4, <2>1, <2>2, <2>3, MoveKept, Typed DEF accounts, bounds
<1>. QED  BY <1>1, <1>2, <1>3, <1>5, GotoKept, Typed DEF accounts, bounds

LEMMA StepDropFired ==
    ASSUME Inv, NEW w \in Threads, DropFired(w)
    PROVE  Inv'
<1>1. /\ thread[w].at = "drop" /\ UNCHANGED <<accounts, current, born, cost, triggers, bounds>>
      /\ users' = [users EXCEPT ![thread[w].arg][FiredUser(w)] = 0] /\ Goto(w, "next")
  BY DEF DropFired
<1>2. /\ w[1] \in {"SET_TRIGGER", "timer"} /\ thread[w].timer # 0
      /\ thread[w].trigger \in 1 .. Len(triggers)
  BY <1>1, FiringThread DEF Firing
<1>3. PICK r \in Thread : Moves(w, r) /\ r.at = "next"
          /\ r.timer = thread[w].timer /\ r.trigger = thread[w].trigger
          /\ r.batch = thread[w].batch /\ r.left = thread[w].left
  BY <1>1, GotoMoves, Typed DEF Positions
<1>4. Placed(w, r) /\ OwnAfter(w, r) /\ Cheap(w, r) /\ Sound(w, r)
  BY <1>1, <1>2, <1>3, Typed DEF Placed, OwnAfter, Cheap, Sound, Firing, bounds
<1>5. NobodyNew /\ SameTriggers(w)
  BY <1>1, Typed, Unmarked DEF NobodyNew
<1>. QED  BY <1>1, <1>3, <1>4, <1>5, Kept, Typed DEF accounts, bounds

-----------------------------------------------------------------------------
(* A callback that runs again. *)
LEMMA AgainKept ==
    ASSUME Inv, NEW w \in Threads, Again(w), SameTriggers(w),
           \/ thread[w].at \in {"check", "hold"} /\ w[1] = "SET_AMOUNT"
           \/ thread[w].at = "return" /\ w[1] = "CANCEL"
           \/ thread[w].at \in {"first", "second"} /\ w[1] \in {"SET_TRIGGER", "timer"},
           source' \in [Users -> Int], target' \in [Users -> Int], UNCHANGED registry
    PROVE  Inv'
<1>. DEFINE r == Restarted(w)
<1>1. /\ r \in Thread /\ r.arg = thread[w].arg /\ r.timer = thread[w].timer
      /\ r.trigger = thread[w].trigger /\ r.batch = thread[w].batch
      /\ r.left \in {thread[w].left, thread[w].batch}
      /\ w[1] = "SET_AMOUNT" => r.at = "check"
      /\ w[1] = "CANCEL" => r.at = "return"
      /\ w[1] \in {"SET_TRIGGER", "timer"} => r.at = "next"
  <2>0. PICK k \in Thread : k = thread[w]
    BY Typed
  <2>1. CASE w[1] = "SET_AMOUNT"
    <3>1. r = [k EXCEPT !.at = "check"]
      BY <2>0, <2>1 DEF Restarted
    <3>. QED  BY <2>0, <2>1, <3>1 DEF Thread, Positions
  <2>2. CASE w[1] = "CANCEL"
    <3>1. r = [k EXCEPT !.at = "return"]
      BY <2>0, <2>2 DEF Restarted
    <3>. QED  BY <2>0, <2>2, <3>1 DEF Thread, Positions
  <2>3. CASE w[1] \in {"SET_TRIGGER", "timer"}
    <3>1. r = [k EXCEPT !.at = "next", !.left = k.batch]
      BY <2>0, <2>3 DEF Restarted
    <3>. QED
      <4>. HIDE DEF r
      <4>. QED  BY <2>0, <2>3, <3>1 DEF Thread, Positions
  <2>. QED  BY <2>1, <2>2, <2>3
<1>2. Become(w, r) /\ faults < MaxFaults /\ faults' = faults + 1 /\ UNCHANGED commands
  BY DEF Again
<1>. HIDE DEF r
<1>3. Moves(w, r) /\ Charged /\ commands' \in 0 .. MaxCommands /\ faults' \in 0 .. MaxFaults
  BY <1>1, <1>2, BecomeMoves, Typed, Constants DEF Charged
<1>4. Placed(w, r) /\ OwnAfter(w, r)
  BY <1>1 DEF Placed, OwnAfter, Firing
<1>5. Sound(w, r)
  <2>1. Sound(w, thread[w])
    BY Typed
  <2>. QED  BY <1>1, <2>1 DEF Sound, Firing
<1>6. NobodyNew /\ UNCHANGED <<current, born, cost>>
  BY Unmarked DEF registry
<1>. QED  BY <1>1, <1>3, <1>4, <1>5, <1>6, Kept, Typed

LEMMA StepFault ==
    ASSUME Inv, NEW w \in Threads, Fault(w) \/ AnswerLost(w)
    PROVE  Inv'
<1>1. CASE Fault(w)
  <2>1. /\ thread[w].at \in {"check", "hold", "return", "first", "second"} /\ Again(w)
        /\ UNCHANGED <<source, target, registry, triggers>>
    BY <1>1 DEF Fault, accounts
  <2>2. \/ thread[w].at \in {"check", "hold"} /\ w[1] = "SET_AMOUNT"
        \/ thread[w].at = "return" /\ w[1] = "CANCEL"
        \/ thread[w].at \in {"first", "second"} /\ w[1] \in {"SET_TRIGGER", "timer"}
    BY <2>1, Typed, ThreadKinds DEF Placed, Firing, Kinds, Threads
  <2>. QED  BY <2>1, <2>2, AgainKept, Unmarked, Typed
<1>2. CASE AnswerLost(w)
  <2>1. Again(w) /\ (HoldAmount(w) \/ ReturnAmount(w) \/ PaySecond(w))
    BY <1>2 DEF AnswerLost
  <2>. QED  BY <2>1, AgainKept, HoldEffect, ReturnEffect, SecondEffect, Typed
<1>. QED  BY <1>1, <1>2

-----------------------------------------------------------------------------
(* The two steps that make something: a timer, a trigger. *)
LEMMA Room ==
    ASSUME Inv, NEW u \in Users, NEW w \in Threads, w = <<"SET_AMOUNT", u>>,
           OthersStay(w), thread[w].at \in {"enter", "register"},
           thread'[w].at \notin {"check", "enter"}
    PROVE  /\ IsFiniteSet(Registering')
           /\ Cardinality(Entering') \in Nat /\ Cardinality(Registering') \in Nat
           /\ thread[w].at = "enter" => born + 1 + Cardinality(Entering') <= commands + faults
           /\ thread[w].at = "register" => born + Cardinality(Entering') <= commands + faults
           /\ Len(triggers) + Cardinality(Registering') <= commands + faults
           /\ thread'[w].at # "register" =>
                Len(triggers) + 1 + Cardinality(Registering') <= commands + faults
<1>. TypeOK /\ Budget
  BY DEF Inv
<1>1. \A v \in Users \ {u} : thread'[<<"SET_AMOUNT", v>>] = thread[<<"SET_AMOUNT", v>>]
  BY ThreadKinds DEF OthersStay, Kinds
<1>2. Entering' \subseteq Entering \ {u} /\ Registering' \subseteq Registering /\ u \in Registering
  BY <1>1 DEF Entering, Registering
<1>3. thread'[w].at # "register" => Registering' \subseteq Registering \ {u}
  BY <1>1 DEF Registering
<1>4. thread[w].at = "enter" => u \in Entering
  BY DEF Entering
<1>5. /\ Cardinality(Entering') \in Nat /\ Cardinality(Entering') <= Cardinality(Entering)
      /\ IsFiniteSet(Registering') /\ Cardinality(Registering') \in Nat
      /\ Cardinality(Registering') <= Cardinality(Registering)
  BY <1>2, Budgeted, Subsets
<1>6. thread[w].at = "enter" => Cardinality(Entering') + 1 <= Cardinality(Entering)
  BY <1>2, <1>4, Budgeted, OneLess
<1>7. thread'[w].at # "register" => Cardinality(Registering') + 1 <= Cardinality(Registering)
  BY <1>2, <1>3, Budgeted, OneLess
<1>8. /\ thread[w].at = "enter" => born + 1 + Cardinality(Entering') <= commands + faults
      /\ thread[w].at = "register" => born + Cardinality(Entering') <= commands + faults
  BY <1>5, <1>6, Budgeted DEF Budget
<1>9. /\ Len(triggers) + Cardinality(Registering') <= commands + faults
      /\ thread'[w].at # "register" =>
           Len(triggers) + 1 + Cardinality(Registering') <= commands + faults
  BY <1>5, <1>7, Budgeted DEF Budget
<1>. QED  BY <1>5, <1>8, <1>9

LEMMA EnterMakes ==
    ASSUME Inv, NEW w \in Threads, thread[w].at = "enter", w[1] = "SET_AMOUNT", current = 0,
           current' = born + 1, born' = born + 1,
           Become(w, [thread[w] EXCEPT !.at = "register", !.timer = born + 1, !.fresh = TRUE]),
           UNCHANGED <<accounts, users, cost, triggers, bounds>>
    PROVE  Inv'
<1>. DEFINE r == [thread[w] EXCEPT !.at = "register", !.timer = born + 1, !.fresh = TRUE]
            u == w[2]
<1>1. w \in Handlers /\ u \in Users /\ w = <<"SET_AMOUNT", u>>
  BY ThreadKinds
<1>2. /\ UNCHANGED <<source, target, users, cost, triggers, commands, faults>>
      /\ thread' = [thread EXCEPT ![w] = r]
  BY DEF accounts, bounds, Become
<1>3. r.at = "register"
  BY Typed DEF Thread
<1>4. OthersStay(w) /\ thread'[w] = r
  BY <1>2, ThreadKinds, Typed DEF OthersStay
<1>5. /\ IsFiniteSet(Registering')
      /\ Cardinality(Entering') \in Nat /\ Cardinality(Registering') \in Nat
      /\ born + 1 + Cardinality(Entering') <= commands + faults
      /\ Len(triggers) + Cardinality(Registering') <= commands + faults
  BY <1>1, <1>3, <1>4, Room
<1>6. born + 1 \in Ids /\ born \in Nat
  <2>1. born \in Nat /\ commands \in 0 .. MaxCommands /\ faults \in 0 .. MaxFaults
    BY Typed
  <2>2. born + 1 <= commands + faults
    BY <1>5, <2>1
  <2>. QED  BY <2>1, <2>2, Constants
<1>7. /\ r \in Thread /\ r.at = "register" /\ r.timer = born + 1 /\ r.fresh /\ r.arg = thread[w].arg
      /\ r.batch = thread[w].batch /\ r.left = thread[w].left /\ r.trigger = thread[w].trigger
  BY <1>6, Typed, ZenonT(60) DEF Thread, Positions
<1>. HIDE DEF r
<1>8. Moves(w, r)
  BY <1>2, <1>7, Typed DEF Moves
<1>9. TypeOK'
  BY <1>2, <1>6, <1>8, Constants DEF Inv, TypeOK, Moves
<1>10. Registry'
  <2>1. current' \in 0 .. born'
    BY <1>6
  <2>2. ASSUME NEW t \in Ids, NEW v \in Users, users[t][v] # 0 PROVE t <= born'
    BY <1>6, <2>2, Constants DEF Inv, Registry
  <2>. QED  BY <1>2, <2>1, <2>2 DEF Inv, Registry
<1>11. Budget'
  BY <1>2, <1>5 DEF Budget
<1>12. HeldAtMostOnce'
  BY <1>2 DEF Inv, HeldAtMostOnce
<1>13. CurrentTimerRuns'
  BY <1>1, <1>7, <1>8 DEF CurrentTimerRuns, Moves
<1>14. (Placed(w, thread[w]) /\ Sound(w, thread[w]) /\ Own(w, thread[w]))'
  <2>1. Placed(w, r)
    BY <1>1, <1>7 DEF Placed
  <2>2. Sound(w, thread[w])'
    <3>1. Sound(w, thread[w]) /\ thread'[w] = r
      BY <1>4, Typed
    <3>. QED  BY <1>2, <1>6, <1>7, <3>1 DEF Sound, Firing
  <2>3. users[born + 1][u] = 0
    BY <1>1, <1>6 DEF Inv, Registry
  <2>4. Own(w, thread[w])'
    BY <1>2, <1>4, <1>7, <2>3 DEF Own
  <2>. QED  BY <1>4, <2>1, <2>2, <2>4 DEF Placed
<1>15. ASSUME NEW v \in Threads \ {w}
       PROVE  (Placed(v, thread[v]) /\ Sound(v, thread[v]) /\ Own(v, thread[v]))'
  <2>1. /\ Placed(v, thread[v]) /\ Sound(v, thread[v]) /\ Own(v, thread[v])
        /\ thread'[v] = thread[v]
    BY <1>8 DEF Inv, Moves
  <2>2. Sound(v, thread[v])'
    BY <1>2, <1>6, <2>1 DEF Sound
  <2>. QED  BY <1>2, <2>1, <2>2 DEF Placed, Own
<1>. QED  BY <1>9, <1>10, <1>11, <1>12, <1>13, <1>14, <1>15 DEF Inv

LEMMA StepEnter ==
    ASSUME Inv, NEW w \in Threads, Enter(w)
    PROVE  Inv'
<1>. DEFINE onward == IF w[1] = "SET_AMOUNT" THEN "register" ELSE "update"
            r == [thread[w] EXCEPT !.at = onward, !.timer = current, !.fresh = FALSE]
<1>1. thread[w].at = "enter" /\ UNCHANGED <<accounts, users, cost, triggers, bounds>>
  BY DEF Enter
<1>2. w \in Handlers /\ w[1] \in {"SET_AMOUNT", "SET_TRIGGER"}
  BY <1>1, Typed, ThreadKinds DEF Placed, Firing, Kinds, Threads
<1>3. CASE current # 0 /\ Become(w, r) /\ UNCHANGED <<current, born>>
  <2>1. /\ r \in Thread /\ r.at = onward /\ r.timer = current /\ ~r.fresh /\ r.arg = thread[w].arg
        /\ r.batch = thread[w].batch /\ r.left = thread[w].left /\ r.trigger = thread[w].trigger
    BY Typed, ZenonT(60) DEF Thread, Positions
  <2>. HIDE DEF r
  <2>2. Moves(w, r)
    BY <1>3, <2>1, BecomeMoves, Typed
  <2>3. Placed(w, r) /\ Own(w, r) /\ Cheap(w, r)
    BY <1>1, <1>2, <2>1 DEF Placed, Own, Cheap, Firing, bounds
  <2>4. Sound(w, r)
    <3>1. Sound(w, thread[w])
      BY Typed
    <3>. QED  BY <1>1, <1>3, <2>1, <3>1, Typed DEF Sound, Firing
  <2>. QED  BY <1>1, <1>2, <1>3, <2>1, <2>2, <2>3, <2>4, MoveKept, Typed
            DEF accounts, bounds, registry
<1>4. CASE /\ current = 0 /\ w[1] = "SET_AMOUNT" /\ current' = born + 1 /\ born' = born + 1
           /\ Become(w, [thread[w] EXCEPT !.at = onward, !.timer = born + 1, !.fresh = TRUE])
  BY <1>1, <1>4, EnterMakes
<1>5. CASE Finish(w, FALSE) /\ UNCHANGED <<current, born>>
  BY <1>1, <1>2, <1>5, FinishKept DEF registry
<1>. QED  BY <1>3, <1>4, <1>5 DEF Enter

(* Thread w registers its trigger and becomes r; a fresh timer's loop becomes q. *)
Registers(w, r, l, q) ==
    /\ thread[w].at = "register" /\ w[1] = "SET_AMOUNT" /\ l = <<"timer", thread[w].timer>>
    /\ r.at = "hold" /\ r.trigger = Len(triggers) + 1 /\ r.arg = thread[w].arg
    /\ r.timer = thread[w].timer /\ r.batch = thread[w].batch /\ r.left = thread[w].left
    /\ q.arg = thread[l].arg /\ q.trigger = thread[l].trigger
    /\ q.batch = thread[l].batch /\ q.left = thread[l].left
    /\ \/ thread[w].fresh /\ q.at = "poll" /\ q.timer = thread[w].timer
       \/ ~thread[w].fresh /\ q = thread[l]
    /\ thread' = [thread EXCEPT ![w] = r, ![l] = q]
    /\ users' = [users EXCEPT ![thread[w].timer][w[2]] = Len(triggers) + 1]
    /\ triggers' = Append(triggers, [user |-> w[2], amount |-> thread[w].arg, limit |-> 0,
                                     held |-> 0, fired |-> 0, canceled |-> FALSE])
    /\ UNCHANGED <<accounts, current, born, cost, bounds>>

LEMMA RegisterMakes ==
    ASSUME Inv, NEW w \in Threads, NEW r \in Thread, NEW l \in Threads, NEW q \in Thread,
           Registers(w, r, l, q)
    PROVE  Inv'
<1>. USE DEF Registers
<1>. DEFINE u == w[2]
            id == Len(triggers) + 1
            t == [user |-> w[2], amount |-> thread[w].arg, limit |-> 0,
                  held |-> 0, fired |-> 0, canceled |-> FALSE]
<1>1. w \in Handlers /\ u \in Users /\ w = <<"SET_AMOUNT", u>> /\ l \notin Handlers /\ w # l
      /\ l[1] = "timer"
  <2>1. w \in Handlers /\ u \in Users /\ w = <<"SET_AMOUNT", u>>
    BY ThreadKinds
  <2>2. l[1] = "timer" /\ l \notin Handlers
    BY ThreadKinds DEF Kinds
  <2>. QED  BY <2>1, <2>2
<1>2. UNCHANGED <<source, target, current, born, cost, commands, faults>>
  BY DEF accounts, bounds
<1>3. /\ thread' \in [Threads -> Thread] /\ thread'[w] = r /\ thread'[l] = q
      /\ \A v \in Threads \ {w, l} : thread'[v] = thread[v]
  BY <1>1, Typed
<1>4. OthersStay(w)
  BY <1>1, <1>3, ThreadKinds DEF OthersStay
<1>5. /\ IsFiniteSet(Registering')
      /\ Cardinality(Entering') \in Nat /\ Cardinality(Registering') \in Nat
      /\ born + Cardinality(Entering') <= commands + faults
      /\ Len(triggers) + 1 + Cardinality(Registering') <= commands + faults
  BY <1>1, <1>3, <1>4, Room
<1>6. /\ id \in Ids /\ Len(triggers) \in Nat /\ born \in Nat
      /\ Len(triggers) + 1 \in 0 .. MaxCommands + MaxFaults
  <2>1. /\ Len(triggers) \in Nat /\ born \in Nat
        /\ commands \in 0 .. MaxCommands /\ faults \in 0 .. MaxFaults
    BY Typed
  <2>2. id <= commands + faults
    BY <1>5, <2>1
  <2>. QED  BY <2>1, <2>2, Constants
<1>7. /\ thread[w].timer \in Ids /\ thread[w].timer \in 1 .. born /\ thread[w].timer # 0
      /\ thread[w].arg \in Amounts /\ thread[w].arg \in Nat
  <2>1. Sound(w, thread[w]) /\ thread[w] \in Thread
    BY Typed
  <2>2. thread[w].timer \in Ids /\ thread[w].timer \in 1 .. born /\ thread[w].timer # 0
    BY <1>6, <2>1 DEF Sound, Thread
  <2>. QED  BY <2>1, <2>2 DEF Sound, Thread
<1>8. t \in Trigger /\ t.user = u /\ t.held = 0 /\ t.amount \in Amounts
  BY <1>1, <1>7, Constants DEF Trigger
<1>. HIDE DEF t
<1>9. /\ triggers' \in Seq(Trigger) /\ Len(triggers') = id /\ triggers'[id] = t
      /\ \A i \in 1 .. Len(triggers) : triggers'[i] = triggers[i]
  <2>1. triggers \in Seq(Trigger) /\ triggers' = Append(triggers, t)
    BY Typed DEF t
  <2>. QED  BY <2>1, <1>8
<1>10. /\ users' \in [Ids -> [Users -> Ids \cup {0}]] /\ users'[thread[w].timer][u] = id
       /\ \A b \in Ids, v \in Users :
            <<b, v>> # <<thread[w].timer, u>> => users'[b][v] = users[b][v]
  <2>. HIDE DEF id
  <2>1. users' = [users EXCEPT ![thread[w].timer][u] = id]
    BY DEF id
  <2>. QED  BY <1>1, <1>6, <1>7, <2>1, Typed
<1>11. TypeOK'
  BY <1>2, <1>3, <1>6, <1>9, <1>10 DEF Inv, TypeOK
<1>12. Registry'
  <2>1. ASSUME NEW b \in Ids, NEW v \in Users, users'[b][v] # 0
        PROVE  b <= born /\ users'[b][v] \in 1 .. id /\ triggers'[users'[b][v]].user = v
    <3>1. CASE <<b, v>> = <<thread[w].timer, u>>
      BY <1>6, <1>7, <1>8, <1>9, <1>10, <3>1
    <3>2. CASE <<b, v>> # <<thread[w].timer, u>>
      <4>1. users'[b][v] = users[b][v]
        BY <1>10, <3>2
      <4>2. b <= born /\ users[b][v] \in 1 .. Len(triggers) /\ triggers[users[b][v]].user = v
        BY <2>1, <4>1 DEF Inv, Registry
      <4>. QED  BY <1>6, <1>9, <4>1, <4>2
    <3>. QED  BY <3>1, <3>2
  <2>2. ASSUME NEW i \in 1 .. id PROVE triggers'[i].amount \in Amounts
    <3>1. CASE i = id
      BY <1>8, <1>9, <3>1
    <3>2. CASE i # id
      <4>1. i \in 1 .. Len(triggers)
        BY <1>6, <3>2
      <4>. QED  BY <1>9, <4>1 DEF Inv, Registry
    <3>. QED  BY <3>1, <3>2
  <2>. QED  BY <1>2, <1>9, <2>1, <2>2, ZenonT(60) DEF Inv, Registry
<1>13. Budget'
  BY <1>2, <1>5, <1>9 DEF Budget
<1>14. HeldAtMostOnce'
  <2>1. ASSUME NEW i \in 1 .. id PROVE triggers'[i].held <= 1
    <3>1. CASE i = id
      BY <1>8, <1>9, <3>1
    <3>2. CASE i # id
      <4>1. i \in 1 .. Len(triggers) /\ i \in DOMAIN triggers
        BY <1>6, <3>2, Typed
      <4>. QED  BY <1>9, <4>1 DEF Inv, HeldAtMostOnce
    <3>. QED  BY <3>1, <3>2
  <2>2. DOMAIN triggers' = 1 .. id
    BY <1>9
  <2>. QED  BY <2>1, <2>2 DEF HeldAtMostOnce
<1>15. CurrentTimerRuns'
  <2>. SUFFICES ASSUME current # 0
                PROVE  \/ thread'[<<"timer", current>>].at # "idle"
                       \/ \E v \in Users : LET k == thread'[<<"SET_AMOUNT", v>>] IN
                            k.at = "register" /\ k.fresh /\ k.timer = current
    BY <1>2 DEF CurrentTimerRuns
  <2>1. <<"timer", current>> \in Threads /\ <<"timer", current>> # w
    BY <1>1, ThreadKinds, Typed DEF Kinds
  <2>2. CASE thread[<<"timer", current>>].at # "idle"
    <3>1. CASE <<"timer", current>> = l
      BY <1>3, <2>2, <3>1
    <3>2. CASE <<"timer", current>> # l
      BY <1>3, <2>1, <2>2, <3>2
    <3>. QED  BY <3>1, <3>2
  <2>3. CASE thread[<<"timer", current>>].at = "idle"
    <3>1. PICK v \in Users : LET k == thread[<<"SET_AMOUNT", v>>] IN
                                k.at = "register" /\ k.fresh /\ k.timer = current
      BY <2>3 DEF Inv, CurrentTimerRuns
    <3>2. CASE v = u
      BY <1>1, <1>3, <3>1, <3>2
    <3>3. CASE v # u
      <4>1. <<"SET_AMOUNT", v>> \in Threads \ {w, l}
        BY <1>1, <3>3, ThreadKinds DEF Kinds
      <4>. QED  BY <1>3, <3>1, <4>1
    <3>. QED  BY <3>2, <3>3
  <2>. QED  BY <2>2, <2>3
<1>. HIDE DEF Registers
<1>16. (Placed(w, thread[w]) /\ Sound(w, thread[w]) /\ Own(w, thread[w]))'
  <2>1. /\ thread[w].at = "register" /\ w[1] = "SET_AMOUNT"
        /\ r.at = "hold" /\ r.trigger = id /\ r.arg = thread[w].arg
        /\ r.timer = thread[w].timer /\ r.batch = thread[w].batch /\ r.left = thread[w].left
    BY DEF Registers
  <2>2. Sound(w, thread[w])'
    <3>1. Sound(w, thread[w])
      BY Typed
    <3>. QED  BY <1>2, <1>3, <1>6, <1>7, <1>9, <2>1, <3>1 DEF Sound, Firing
  <2>. QED  BY <1>1, <1>3, <1>8, <1>9, <2>1, <2>2 DEF Placed, Own
<1>17. /\ 1 .. Len(triggers) \subseteq 1 .. Len(triggers')
       /\ 0 .. Len(triggers) \subseteq 0 .. Len(triggers') /\ born' = born
  BY <1>2, <1>6, <1>9
<1>18. (Placed(l, thread[l]) /\ Sound(l, thread[l]) /\ Own(l, thread[l]))'
  <2>1. Placed(l, thread[l]) /\ Sound(l, thread[l])
    BY Typed
  <2>2. /\ q.arg = thread[l].arg /\ q.trigger = thread[l].trigger
        /\ q.batch = thread[l].batch /\ q.left = thread[l].left
        /\ \/ q.at = "poll" /\ q.timer = thread[w].timer
           \/ q.at = thread[l].at /\ q.timer = thread[l].timer
    BY DEF Registers
  <2>3. Placed(l, thread'[l])
    BY <1>1, <1>3, <2>1, <2>2 DEF Placed
  <2>4. Sound(l, thread[l])'
    <3>1. CASE q.at = "poll" /\ q.timer = thread[w].timer
      <4>1. q.timer \in 0 .. born /\ q.timer # 0
        BY <1>6, <1>7, <3>1
      <4>. QED  BY <1>1, <1>3, <1>17, <2>1, <2>2, <3>1, <4>1 DEF Sound, Firing
    <3>2. CASE q.at = thread[l].at /\ q.timer = thread[l].timer
      BY <1>1, <1>3, <1>17, <2>1, <2>2, <3>2 DEF Sound, Firing
    <3>. QED  BY <2>2, <3>1, <3>2
  <2>. QED  BY <1>1, <2>3, <2>4 DEF Placed, Own
<1>19. ASSUME NEW v \in Threads \ {w, l}
       PROVE  (Placed(v, thread[v]) /\ Sound(v, thread[v]) /\ Own(v, thread[v]))'
  <2>1. /\ Placed(v, thread[v]) /\ Sound(v, thread[v]) /\ Own(v, thread[v])
        /\ thread'[v] = thread[v]
    BY <1>3 DEF Inv
  <2>2. Sound(v, thread[v])'
    BY <1>17, <2>1 DEF Sound
  <2>3. Own(v, thread[v])'
    <3>. SUFFICES ASSUME v[1] = "SET_AMOUNT" PROVE Own(v, thread[v])'
      BY DEF Own
    <3>1. v[2] \in Users /\ v = <<"SET_AMOUNT", v[2]>>
      BY ThreadKinds
    <3>2. v[2] # u
      BY <1>1, <3>1
    <3>3. thread[v].trigger # 0 => triggers'[thread[v].trigger] = triggers[thread[v].trigger]
      BY <1>6, <1>9, <2>1 DEF Sound
    <3>4. thread[v].at = "register" => thread[v].timer \in Ids
      BY <2>1, Typed DEF Sound, Thread
    <3>5. thread[v].at = "hold" => thread[v].trigger # 0
      BY <2>1 DEF Sound
    <3>6. thread[v].at = "register" /\ thread[v].fresh => users'[thread[v].timer][v[2]] = 0
      <4>. SUFFICES ASSUME thread[v].at = "register", thread[v].fresh
                    PROVE  users'[thread[v].timer][v[2]] = 0
        OBVIOUS
      <4>1. users'[thread[v].timer][v[2]] = users[thread[v].timer][v[2]]
        BY <1>10, <3>1, <3>2, <3>4
      <4>. QED  BY <2>1, <4>1 DEF Own
    <3>. QED  BY <2>1, <3>3, <3>5, <3>6 DEF Own
  <2>. QED  BY <2>1, <2>2, <2>3 DEF Placed
<1>. QED  BY <1>11, <1>12, <1>13, <1>14, <1>15, <1>16, <1>18, <1>19 DEF Inv

(* Register refuses a second amount, or registers the trigger. *)
LEMMA RegisterForms ==
    ASSUME Inv, NEW w \in Threads, Register(w)
    PROVE  /\ thread[w].at = "register" /\ w \in Handlers /\ w[1] = "SET_AMOUNT"
           /\ UNCHANGED <<accounts, current, born, cost, bounds>>
           /\ \/ /\ users[thread[w].timer][w[2]] # 0 /\ Finish(w, FALSE)
                 /\ UNCHANGED <<users, triggers>>
              \/ \E r \in Thread, l \in Threads, q \in Thread : Registers(w, r, l, q)
<1>. DEFINE id == Len(triggers) + 1
            l == <<"timer", thread[w].timer>>
            waiting == [thread EXCEPT ![w].at = "hold", ![w].trigger = id]
            r == [thread[w] EXCEPT !.at = "hold", !.trigger = id]
            p == [thread[l] EXCEPT !.at = "poll", !.timer = thread[w].timer]
<1>1. thread[w].at = "register" /\ UNCHANGED <<accounts, current, born, cost, bounds>>
  BY DEF Register
<1>2. w \in Handlers /\ w[1] = "SET_AMOUNT" /\ w = <<"SET_AMOUNT", w[2]>>
  BY <1>1, Typed, ThreadKinds DEF Placed, Firing, Kinds, Threads
<1>3. CASE users[thread[w].timer][w[2]] # 0 /\ Finish(w, FALSE) /\ UNCHANGED <<users, triggers>>
  BY <1>1, <1>2, <1>3
<1>4. CASE /\ users' = [users EXCEPT ![thread[w].timer][w[2]] = id]
           /\ triggers' = Append(triggers, [user |-> w[2], amount |-> thread[w].arg, limit |-> 0,
                                            held |-> 0, fired |-> 0, canceled |-> FALSE])
           /\ thread' = IF thread[w].fresh
                          THEN [waiting EXCEPT ![l].at = "poll", ![l].timer = thread[w].timer]
                          ELSE waiting
  <2>1. thread[w].timer \in Ids /\ Len(triggers) \in Nat
    BY <1>1, Typed DEF Sound, Thread
  <2>2. l \in Threads /\ l # w
    BY <1>2, <2>1, ThreadKinds DEF Kinds
  <2>3. id \in Ids
    <3>1. w[2] \in Users /\ Budget /\ TypeOK
      BY <1>2, ThreadKinds DEF Inv
    <3>2. w[2] \in Registering
      BY <1>1, <1>2, <3>1 DEF Registering
    <3>3. Cardinality(Registering) \in Nat /\ 1 <= Cardinality(Registering)
      BY <3>1, <3>2, Budgeted, FS_EmptySet
    <3>4. /\ Len(triggers) + Cardinality(Registering) <= commands + faults
          /\ commands \in 0 .. MaxCommands /\ faults \in 0 .. MaxFaults
      BY <3>1, Typed DEF Budget
    <3>. QED  BY <2>1, <3>3, <3>4, Constants
  <2>4. /\ r \in Thread /\ r.at = "hold" /\ r.trigger = id /\ r.arg = thread[w].arg
        /\ r.timer = thread[w].timer /\ r.batch = thread[w].batch /\ r.left = thread[w].left
    BY <2>3, Typed, ZenonT(60) DEF Thread, Positions
  <2>5. /\ p \in Thread /\ p.at = "poll" /\ p.timer = thread[w].timer /\ p.arg = thread[l].arg
        /\ p.trigger = thread[l].trigger /\ p.batch = thread[l].batch /\ p.left = thread[l].left
    <3>1. thread[l] \in Thread
      BY <2>2, Typed
    <3>. QED  BY <2>1, <3>1 DEF Thread, Positions
  <2>6. CASE thread[w].fresh
    <3>1. thread' = [thread EXCEPT ![w] = r, ![l] = p]
      BY <1>4, <2>2, <2>6, Typed
    <3>2. Registers(w, r, l, p)
      <4>. HIDE DEF r, p
      <4>. QED  BY <1>1, <1>2, <1>4, <2>4, <2>5, <2>6, <3>1 DEF Registers
    <3>. HIDE DEF r, p, l
    <3>. QED  BY <1>1, <1>2, <2>2, <2>4, <2>5, <3>2
  <2>7. CASE ~thread[w].fresh
    <3>1. thread' = [thread EXCEPT ![w] = r, ![l] = thread[l]]
      BY <1>4, <2>2, <2>7, Typed
    <3>2. Registers(w, r, l, thread[l])
      <4>. HIDE DEF r, p
      <4>. QED  BY <1>1, <1>2, <1>4, <2>4, <2>7, <3>1 DEF Registers
    <3>3. thread[l] \in Thread
      BY <2>2, Typed
    <3>. HIDE DEF r, p, l
    <3>. QED  BY <1>1, <1>2, <2>2, <2>4, <3>2, <3>3
  <2>. QED  BY <2>6, <2>7
<1>. QED  BY <1>3, <1>4 DEF Register

LEMMA StepRegister ==
    ASSUME Inv, NEW w \in Threads, Register(w)
    PROVE  Inv'
<1>1. CASE users[thread[w].timer][w[2]] # 0 /\ Finish(w, FALSE) /\ UNCHANGED <<users, triggers>>
  <2>1. ~thread[w].fresh
    BY <1>1, RegisterForms, Typed DEF Own
  <2>. QED  BY <1>1, <2>1, RegisterForms, FinishKept DEF registry
<1>2. CASE \E r \in Thread, l \in Threads, q \in Thread : Registers(w, r, l, q)
  BY <1>2, RegisterMakes
<1>. QED  BY <1>1, <1>2, RegisterForms

-----------------------------------------------------------------------------
LEMMA InitInv ==
    ASSUME Init
    PROVE  Inv
<1>. USE Constants DEF Init
<1>1. /\ Rest \in Thread /\ Rest.at = "idle" /\ Rest.timer = 0 /\ Rest.trigger = 0
      /\ Rest.batch = {} /\ Rest.left = {}
  BY DEF Rest, Thread, Positions
<1>2. \A w \in Threads : thread[w] = Rest
  OBVIOUS
<1>3. TypeOK
  BY <1>1 DEF TypeOK
<1>4. Registry
  BY DEF Registry
<1>5. Budget
  <2>1. Entering = {} /\ Registering = {}
    BY <1>1, <1>2, ThreadKinds DEF Entering, Registering, Kinds
  <2>. QED  BY <2>1, FS_EmptySet DEF Budget
<1>6. HeldAtMostOnce /\ CurrentTimerRuns
  BY DEF HeldAtMostOnce, CurrentTimerRuns
<1>7. \A w \in Threads : Placed(w, thread[w]) /\ Sound(w, thread[w]) /\ Own(w, thread[w])
  BY <1>1, <1>2 DEF Placed, Sound, Own, Firing
<1>. QED  BY <1>3, <1>4, <1>5, <1>6, <1>7 DEF Inv

LEMMA StepCommand ==
    ASSUME Inv, NEW u \in Users, ReceiveSetAmount(u) \/ ReceiveSetTrigger(u) \/ ReceiveCancel(u)
    PROVE  Inv'
<1>1. CASE ReceiveSetAmount(u)
  <2>1. PICK a \in Amounts : Receive("SET_AMOUNT", u, a, "check")
    BY <1>1 DEF ReceiveSetAmount
  <2>. QED  BY <2>1, StepReceive, Constants DEF Kinds
<1>2. CASE ReceiveSetTrigger(u)
  <2>1. PICK n \in Limits : Receive("SET_TRIGGER", u, n, "enter")
    BY <1>2 DEF ReceiveSetTrigger
  <2>. QED  BY <2>1, StepReceive, Constants DEF Kinds
<1>3. CASE ReceiveCancel(u)
  BY <1>3, StepReceive, Constants DEF Kinds, ReceiveCancel
<1>. QED  BY <1>1, <1>2, <1>3

LEMMA StepProgress ==
    ASSUME Inv, NEW w \in Threads, Progress(w)
    PROVE  Inv'
<1>1. CASE HandlerStep(w)
  BY <1>1, StepCheck, StepEnter, StepRegister, StepHold, StepUpdate, StepCompare, StepFind,
     StepTake, StepReturn, StepReply DEF HandlerStep
<1>2. CASE LoopStep(w)
  BY <1>2, StepPoll, StepQuote, StepUnquoted, StepExit DEF LoopStep
<1>3. CASE FireStep(w)
  BY <1>3, StepFireNext, StepFiredAll, StepPayFirst, StepPay, StepFindFired, StepDropFired
     DEF FireStep
<1>. QED  BY <1>1, <1>2, <1>3 DEF Progress

LEMMA NextInv ==
    ASSUME Inv, [Next]_vars
    PROVE  Inv'
<1>1. CASE UNCHANGED vars
  <2>. USE <1>1 DEF vars, Inv
  <2>1. TypeOK' /\ Registry'
    BY DEF TypeOK, Registry
  <2>2. Budget'
    BY DEF Budget, Entering, Registering
  <2>3. HeldAtMostOnce' /\ CurrentTimerRuns'
    BY DEF HeldAtMostOnce, CurrentTimerRuns
  <2>4. \A w \in Threads : (Placed(w, thread[w]) /\ Sound(w, thread[w]) /\ Own(w, thread[w]))'
    BY DEF Placed, Sound, Own
  <2>. QED  BY <2>1, <2>2, <2>3, <2>4
<1>2. CASE Next
  BY <1>2, StepCommand, StepProgress, StepFault DEF Next
<1>. QED  BY <1>1, <1>2

(***************************************************************************)
(* The inductive invariant holds in every behaviour of Triggers, whatever  *)
(* users, prices and faults there are and however their steps interleave.  *)
(***************************************************************************)
THEOREM Invariance == Spec => []Inv
<1>1. Init => Inv
  BY InitInv
<1>2. Inv /\ [Next]_vars => Inv'
  BY NextInv
<1>. QED  BY <1>1, <1>2, PTL DEF Spec

(***************************************************************************)
(* Triggers!TypeOK: no amount goes below zero and every thread refers to   *)
(* triggers and timers that exist, through every restart of a callback.    *)
(***************************************************************************)
THEOREM TypeCorrect == Spec => []TypeOK
<1>1. Inv => TypeOK
  BY DEF Inv
<1>. QED  BY <1>1, Invariance, PTL

(***************************************************************************)
(* Triggers!HeldAtMostOnce: hold_user_money takes the amount of a trigger  *)
(* once, although PerformTransaction may run a callback any number of      *)
(* times: the handler itself does not repeat a hold that has succeeded.    *)
(***************************************************************************)
THEOREM HeldOnceOnly == Spec => []HeldAtMostOnce
<1>1. Inv => HeldAtMostOnce
  BY DEF Inv
<1>. QED  BY <1>1, Invariance, PTL

(***************************************************************************)
(* Triggers!SuccessMeansHeld: a SET_BUY_AMOUNT or SET_SELL_AMOUNT that is  *)
(* answered with success has taken the amount of its own trigger.          *)
(***************************************************************************)
THEOREM SuccessHeld == Spec => []SuccessMeansHeld
<1>1. ASSUME Inv PROVE SuccessMeansHeld
  <2>. SUFFICES ASSUME NEW u \in Users, NEW w \in Threads, w = <<"SET_AMOUNT", u>>,
                       thread[w].at = "done", thread[w].ok
                PROVE  thread[w].trigger \in DOMAIN triggers /\ triggers[thread[w].trigger].held = 1
    BY ThreadKinds DEF SuccessMeansHeld, Kinds
  <2>1. thread[w].trigger # 0 /\ triggers[thread[w].trigger].held = 1
    BY <1>1, Typed DEF Own
  <2>2. thread[w].trigger \in 1 .. Len(triggers) /\ DOMAIN triggers = 1 .. Len(triggers)
    BY <1>1, <2>1, Typed DEF Sound
  <2>. QED  BY <2>1, <2>2
<1>. QED  BY <1>1, Invariance, PTL

(***************************************************************************)
(* Triggers!CurrentTimerRuns: the timer that _timers names for the stock   *)
(* has a running loop as long as it is there, although loops end, and are  *)
(* replaced, while handlers register users with them.                      *)
(***************************************************************************)
THEOREM TimerRuns == Spec => []CurrentTimerRuns
<1>1. Inv => CurrentTimerRuns
  BY DEF Inv
<1>. QED  BY <1>1, Invariance, PTL
-----------------------------------------------------------------------------
(***************************************************************************)
(* What a step does to the accounts that triggers hold from: it takes the  *)
(* amount of a SET_AMOUNT whose check has seen it, or it takes nothing.    *)
(* A trigger that fires gives back what is left over, which is no less     *)
(* than nothing: its shares never cost more than the amount.               *)
(***************************************************************************)
Affordable == \A w \in Threads :
    thread[w].at \in {"first", "second"} => thread[w].spent <= triggers[thread[w].trigger].amount

(* Between the SELECT that checks the account and the UPDATE that holds the amount. *)
Promised == {"enter", "register", "hold"}

Raised(u) ==
    LET w == <<"SET_AMOUNT", u>> IN
    /\ source'[u] >= source[u]
    /\ thread'[w].at \in Promised =>
         \/ thread[w].at \in Promised /\ thread'[w].arg = thread[w].arg
         \/ thread'[w].arg <= source[u]

Taken(u) ==
    LET w == <<"SET_AMOUNT", u>> IN
    /\ thread[w].at = "hold" /\ thread'[w].at \notin Promised
    /\ source'[u] = source[u] - thread[w].arg

Solvency == Affordable' /\ \A u \in Users : Raised(u) \/ Taken(u)

SameAmounts == \A i \in 1 .. Len(triggers) : triggers'[i].amount = triggers[i].amount

(* What a step of thread w leaves alone. *)
Others(w) == \A v \in Threads \ {w} : thread'[v] = thread[v]

LEMMA Moved ==
    ASSUME Inv, NEW w \in Threads
    PROVE  /\ \A p : Goto(w, p) =>
                /\ thread'[w].at = p /\ thread'[w].arg = thread[w].arg
                /\ thread'[w].spent = thread[w].spent /\ thread'[w].trigger = thread[w].trigger
                /\ Others(w)
           /\ \A b : Finish(w, b) => thread'[w].at = "done" /\ Others(w)
           /\ \A r : Become(w, r) => thread'[w] = r /\ Others(w)
<1>1. thread \in [Threads -> Thread] /\ thread[w] \in Thread
  BY Typed
<1>2. ASSUME NEW p, Goto(w, p)
      PROVE  /\ thread'[w].at = p /\ thread'[w].arg = thread[w].arg
             /\ thread'[w].spent = thread[w].spent /\ thread'[w].trigger = thread[w].trigger
             /\ Others(w)
  BY <1>1, <1>2 DEF Goto, Others, Thread
<1>3. ASSUME NEW b, Finish(w, b) PROVE thread'[w].at = "done" /\ Others(w)
  BY <1>1, <1>3 DEF Finish, Others, Thread
<1>4. ASSUME NEW r, Become(w, r) PROVE thread'[w] = r /\ Others(w)
  BY <1>1, <1>4 DEF Become, Others
<1>. QED  BY <1>2, <1>3, <1>4

(* Nobody but the thread that moves can make the invariant fail. *)
LEMMA AffordKept ==
    ASSUME Inv, Affordable, NEW w \in Threads, SameAmounts,
           \A v \in Threads \ {w} : thread'[v] = thread[v] \/ thread'[v].at = "poll",
           thread'[w].at \in {"first", "second"} =>
             thread'[w].spent <= triggers'[thread'[w].trigger].amount
    PROVE  Affordable'
<1>. SUFFICES ASSUME NEW v \in Threads, thread'[v].at \in {"first", "second"}
              PROVE  thread'[v].spent <= triggers'[thread'[v].trigger].amount
  BY DEF Affordable
<1>1. CASE v # w
  <2>1. thread'[v] = thread[v]
    BY <1>1
  <2>2. thread[v].trigger \in 1 .. Len(triggers)
    BY <2>1, FiringThread DEF Firing
  <2>. QED  BY <2>1, <2>2 DEF Affordable, SameAmounts
<1>. QED  BY <1>1

(* A step that pays nobody and completes nothing. *)
LEMMA StillSolvent ==
    ASSUME Inv, Affordable, NEW w \in Threads, Others(w), SameAmounts, UNCHANGED source,
           thread'[w].at \notin {"first", "second"},
           w[1] = "SET_AMOUNT" /\ thread'[w].at \in Promised =>
             \/ thread[w].at \in Promised /\ thread'[w].arg = thread[w].arg
             \/ thread'[w].arg <= source[w[2]]
    PROVE  Solvency
<1>1. Affordable'
  BY AffordKept DEF Others
<1>2. ASSUME NEW u \in Users PROVE Raised(u)
  <2>1. source'[u] >= source[u]
    BY Typed
  <2>2. <<"SET_AMOUNT", u>> \in Threads
    BY ThreadKinds DEF Kinds
  <2>3. CASE w = <<"SET_AMOUNT", u>>
    BY <2>1, <2>3 DEF Raised
  <2>4. CASE w # <<"SET_AMOUNT", u>>
    BY <2>1, <2>2, <2>4 DEF Raised, Others
  <2>. QED  BY <2>3, <2>4
<1>. QED  BY <1>1, <1>2 DEF Solvency
(* The steps that move one thread and change no account. *)
LEMMA SolventHandler ==
    ASSUME Inv, Affordable, NEW w \in Threads,
           Check(w) \/ Enter(w) \/ Update(w) \/ Compare(w) \/ Find(w) \/ Take(w) \/ Reply(w)
    PROVE  Solvency
<1>1. UNCHANGED source
  BY DEF Check, Enter, Update, Compare, Find, Take, Reply, accounts
<1>2. SameAmounts
  <2>1. CASE UNCHANGED triggers
    BY <2>1 DEF SameAmounts
  <2>2. CASE Update(w)
    <3>1. PICK id, n : UNCHANGED triggers \/ triggers' = [triggers EXCEPT ![id].limit = n]
      BY <2>2 DEF Update
    <3>2. ASSUME NEW i \in 1 .. Len(triggers) PROVE triggers'[i].amount = triggers[i].amount
      <4>1. triggers[i] \in Trigger /\ triggers \in Seq(Trigger)
        BY Typed
      <4>2. triggers'[i] = triggers[i] \/ triggers'[i] = [triggers[i] EXCEPT !.limit = n]
        BY <3>1, <4>1
      <4>. QED  BY <4>1, <4>2 DEF Trigger
    <3>. QED  BY <3>2 DEF SameAmounts
  <2>. QED  BY <2>1, <2>2 DEF Check, Enter, Compare, Find, Take, Reply
<1>3. /\ Others(w) /\ thread'[w].at \notin {"first", "second"}
      /\ w[1] = "SET_AMOUNT" /\ thread'[w].at \in Promised =>
           \/ thread[w].at \in Promised /\ thread'[w].arg = thread[w].arg
           \/ thread'[w].arg <= source[w[2]]
  <2>. DEFINE k == thread[w]
  <2>0. k \in Thread
    BY Typed
  <2>1. CASE Check(w)
    <3>1. CASE k.arg <= source[w[2]] /\ Goto(w, "enter")
      <4>1. thread'[w].at = "enter" /\ thread'[w].arg = k.arg /\ Others(w)
        BY <3>1, Moved
      <4>. QED  BY <3>1, <4>1
    <3>2. CASE Finish(w, FALSE)
      BY <3>2, Moved DEF Promised
    <3>. QED  BY <2>1, <3>1, <3>2 DEF Check
  <2>2. CASE Enter(w)
    <3>. DEFINE onward == IF w[1] = "SET_AMOUNT" THEN "register" ELSE "update"
                r == [k EXCEPT !.at = onward, !.timer = current, !.fresh = FALSE]
                m == [k EXCEPT !.at = onward, !.timer = born + 1, !.fresh = TRUE]
    <3>1. k.at = "enter" /\ (Become(w, r) \/ Become(w, m) \/ Finish(w, FALSE))
      BY <2>2 DEF Enter
    <3>2. r.at \in {"register", "update"} /\ r.arg = k.arg /\ m.at \in {"register", "update"} /\ m.arg = k.arg
      BY <2>0 DEF Thread
    <3>. HIDE DEF r, m, onward
    <3>. QED  BY <3>1, <3>2, Moved DEF Promised
  <2>3. CASE Update(w)
    <3>. DEFINE r(id) == [k EXCEPT !.at = "compare", !.trigger = id]
    <3>1. PICK id : Become(w, r(id)) \/ Finish(w, FALSE)
      BY <2>3 DEF Update
    <3>2. r(id).at = "compare"
      BY <2>0 DEF Thread
    <3>. HIDE DEF r
    <3>. QED  BY <3>1, <3>2, Moved DEF Promised
  <2>4. CASE Compare(w)
    <3>. DEFINE r == [k EXCEPT !.at = "next", !.batch = {k.trigger}, !.left = {k.trigger}]
    <3>1. Become(w, r) \/ Finish(w, TRUE)
      BY <2>4 DEF Compare
    <3>2. r.at = "next"
      BY <2>0 DEF Thread
    <3>. HIDE DEF r
    <3>. QED  BY <3>1, <3>2, Moved DEF Promised
  <2>5. CASE Find(w)
    <3>. DEFINE r == [k EXCEPT !.at = "take", !.timer = current]
    <3>1. Become(w, r) \/ Finish(w, FALSE)
      BY <2>5 DEF Find
    <3>2. r.at = "take"
      BY <2>0 DEF Thread
    <3>. HIDE DEF r
    <3>. QED  BY <3>1, <3>2, Moved DEF Promised
  <2>6. CASE Take(w)
    <3>. DEFINE r(id) == [k EXCEPT !.at = "return", !.trigger = id, !.arg = triggers[id].amount]
    <3>1. PICK id : Become(w, r(id))
      BY <2>6 DEF Take
    <3>2. r(id).at = "return"
      BY <2>0 DEF Thread
    <3>. HIDE DEF r
    <3>. QED  BY <3>1, <3>2, Moved, ZenonT(60) DEF Promised
  <2>7. CASE Reply(w)
    BY <2>7, Moved DEF Reply, Rest, Promised
  <2>. QED  BY <2>1, <2>2, <2>3, <2>4, <2>5, <2>6, <2>7
<1>. QED  BY <1>1, <1>2, <1>3, StillSolvent, ZenonT(60)

LEMMA SolventLoop ==
    ASSUME Inv, Affordable, NEW w \in Threads,
           Poll(w) \/ Quote(w) \/ Unquoted(w) \/ Exit(w) \/ FiredAll(w) \/ FindFired(w) \/ DropFired(w)
    PROVE  Solvency
<1>1. UNCHANGED source /\ SameAmounts
  BY DEF Poll, Quote, Unquoted, Exit, FiredAll, FindFired, DropFired, accounts, SameAmounts
<1>2. Others(w) /\ thread'[w].at \notin {"first", "second"} \cup Promised
  <2>. DEFINE k == thread[w]
  <2>0. k \in Thread
    BY Typed
  <2>1. CASE Quote(w)
    <3>. DEFINE r(b) == [k EXCEPT !.at = "next", !.batch = b, !.left = b]
                p == [k EXCEPT !.at = "poll"]
    <3>1. PICK b : Become(w, r(b)) \/ Become(w, p)
      BY <2>1 DEF Quote
    <3>2. r(b).at = "next" /\ p.at = "poll"
      BY <2>0 DEF Thread
    <3>. HIDE DEF r, p
    <3>. QED  BY <3>1, <3>2, Moved DEF Promised
  <2>2. CASE FindFired(w)
    <3>. DEFINE r == [k EXCEPT !.at = "drop", !.arg = current]
    <3>1. Become(w, r) \/ Goto(w, "next")
      BY <2>2 DEF FindFired
    <3>2. r.at = "drop"
      BY <2>0 DEF Thread
    <3>. HIDE DEF r
    <3>. QED  BY <3>1, <3>2, Moved DEF Promised
  <2>3. CASE Poll(w) \/ Unquoted(w) \/ DropFired(w)
    <3>1. PICK p \in {"exit", "quote", "poll", "next"} : Goto(w, p)
      BY <2>3 DEF Poll, Unquoted, DropFired
    <3>. QED  BY <3>1, Moved DEF Promised
  <2>4. CASE Exit(w)
    BY <2>4, Moved DEF Exit, Rest, Promised
  <2>5. CASE FiredAll(w)
    <3>1. CASE Finish(w, TRUE)
      BY <3>1, Moved DEF Promised
    <3>2. CASE Goto(w, "poll")
      BY <3>2, Moved DEF Promised
    <3>. QED  BY <2>5, <3>1, <3>2 DEF FiredAll
  <2>. QED  BY <2>1, <2>2, <2>3, <2>4, <2>5
<1>. QED  BY <1>1, <1>2, StillSolvent

LEMMA SolventReceive ==
    ASSUME Inv, Affordable, NEW u \in Users,
           ReceiveSetAmount(u) \/ ReceiveSetTrigger(u) \/ ReceiveCancel(u)
    PROVE  Solvency
<1>1. PICK kind \in Kinds, arg \in Nat, position \in {"check", "enter", "find"} :
        Receive(kind, u, arg, position) /\ (kind = "SET_AMOUNT" => position = "check")
  <2>1. CASE ReceiveSetAmount(u)
    <3>1. PICK a \in Amounts : Receive("SET_AMOUNT", u, a, "check")
      BY <2>1 DEF ReceiveSetAmount
    <3>. QED  BY <3>1, Constants DEF Kinds
  <2>2. CASE ReceiveSetTrigger(u)
    <3>1. PICK n \in Limits : Receive("SET_TRIGGER", u, n, "enter")
      BY <2>2 DEF ReceiveSetTrigger
    <3>. QED  BY <3>1, Constants DEF Kinds
  <2>3. CASE ReceiveCancel(u)
    <3>1. Receive("CANCEL", u, 0, "find")
      BY <2>3 DEF ReceiveCancel
    <3>. QED  BY <3>1, Constants DEF Kinds
  <2>. QED  BY <2>1, <2>2, <2>3
<1>. DEFINE w == <<kind, u>>
            r == [Rest EXCEPT !.at = position, !.arg = arg]
<1>2. /\ Become(w, r) /\ UNCHANGED <<source, triggers>> /\ w \in Threads /\ r.at = position
      /\ w[1] = kind
  BY <1>1, ThreadKinds DEF Receive, accounts, Rest
<1>. HIDE DEF w, r
<1>3. SameAmounts
  BY <1>2 DEF SameAmounts
<1>. QED  BY <1>1, <1>2, <1>3, Moved, StillSolvent DEF Promised
(* A SET_AMOUNT registers its trigger, and may start the timer's loop. *)
LEMMA SolventRegister ==
    ASSUME Inv, Affordable, NEW w \in Threads, Register(w)
    PROVE  Solvency
<1>. DEFINE id == Len(triggers) + 1
            t == [user |-> w[2], amount |-> thread[w].arg, limit |-> 0,
                  held |-> 0, fired |-> 0, canceled |-> FALSE]
            waiting == [thread EXCEPT ![w].at = "hold", ![w].trigger = id]
            l == <<"timer", thread[w].timer>>
            started == [waiting EXCEPT ![l].at = "poll", ![l].timer = thread[w].timer]
<1>1. /\ thread[w].at = "register" /\ source' = source
      /\ w[1] = "SET_AMOUNT" /\ w[2] \in Users /\ w = <<"SET_AMOUNT", w[2]>>
  BY Typed, ThreadKinds DEF Register, accounts, Placed, Firing, Kinds, Threads
<1>2. CASE Finish(w, FALSE) /\ UNCHANGED triggers
  BY <1>1, <1>2, Moved, StillSolvent DEF SameAmounts, Promised
<1>3. CASE /\ triggers' = Append(triggers, t)
           /\ thread' = IF thread[w].fresh THEN started ELSE waiting
  <2>0. thread \in [Threads -> Thread] /\ triggers \in Seq(Trigger)
    BY Typed
  <2>1. /\ waiting[w].at = "hold" /\ waiting[w].arg = thread[w].arg
        /\ \A v \in Threads \ {w} : waiting[v] = thread[v]
    BY <2>0 DEF Thread
  <2>2. l # w /\ l \notin Handlers
    BY <1>1, ThreadKinds, Typed DEF Handlers, Kinds
  <2>3. /\ started[w] = waiting[w]
        /\ \A v \in Threads \ {w} : v # l => started[v] = thread[v]
        /\ l \in Threads => started[l].at = "poll"
    <3>1. \A v \in Threads : v # l => started[v] = waiting[v]
      BY <2>0
    <3>2. l \in Threads => started[l].at = "poll"
      BY <2>0, <2>1, <2>2 DEF Thread
    <3>. QED  BY <2>1, <2>2, <3>1, <3>2
  <2>4. SameAmounts
    <3>. HIDE DEF t
    <3>. QED  BY <1>3, <2>0 DEF SameAmounts
  <2>. HIDE DEF waiting, started, l, t
  <2>5. /\ thread'[w].at = "hold" /\ thread'[w].arg = thread[w].arg
        /\ \A v \in Threads \ {w} : thread'[v] = thread[v] \/ (thread'[v].at = "poll" /\ v \notin Handlers)
    BY <1>3, <2>1, <2>2, <2>3
  <2>6. Affordable'
    BY <2>4, <2>5, AffordKept
  <2>7. ASSUME NEW u \in Users PROVE Raised(u)
    <3>1. source'[u] >= source[u] /\ <<"SET_AMOUNT", u>> \in Handlers
      BY <1>1, Typed, ThreadKinds DEF Kinds
    <3>2. \/ w = <<"SET_AMOUNT", u>>
          \/ thread'[<<"SET_AMOUNT", u>>] = thread[<<"SET_AMOUNT", u>>]
      BY <2>5, <3>1, ThreadKinds
    <3>. QED  BY <1>1, <2>5, <3>1, <3>2 DEF Raised, Promised
  <2>. QED  BY <2>6, <2>7 DEF Solvency
<1>. QED  BY <1>2, <1>3 DEF Register

(* The statement that holds the amount, or returns it, and whatever follows. *)
LEMMA HoldTakes ==
    ASSUME Inv, Affordable, NEW w \in Threads, HoldAmount(w), Others(w),
           thread'[w].at \notin {"first", "second"} \cup Promised
    PROVE  Solvency
<1>1. /\ w[1] = "SET_AMOUNT" /\ w = <<"SET_AMOUNT", w[2]>> /\ w[2] \in Users /\ SameAmounts
      /\ thread[w].at = "hold" /\ source \in [Users -> Int]
      /\ source' = [source EXCEPT ![w[2]] = @ - thread[w].arg]
  <2>1. w \in Handlers /\ w[1] = "SET_AMOUNT" /\ SameTriggers(w)
    BY HoldEffect
  <2>2. w = <<"SET_AMOUNT", w[2]>> /\ w[2] \in Users
    BY <2>1, ThreadKinds
  <2>3. thread[w].at = "hold" /\ source' = [source EXCEPT ![w[2]] = @ - thread[w].arg]
    BY DEF HoldAmount
  <2>. QED  BY <2>1, <2>2, <2>3, Typed DEF SameTriggers, SameAmounts
<1>2. Affordable'
  BY <1>1, AffordKept DEF Others
<1>3. Taken(w[2])
  BY <1>1 DEF Taken
<1>4. ASSUME NEW u \in Users, u # w[2] PROVE Raised(u)
  <2>1. <<"SET_AMOUNT", u>> \in Threads /\ <<"SET_AMOUNT", u>> # w
    BY <1>1, <1>4, ThreadKinds DEF Kinds
  <2>2. source'[u] = source[u] /\ source[u] \in Int
    BY <1>1, <1>4
  <2>. QED  BY <2>1, <2>2 DEF Raised, Others
<1>. QED  BY <1>2, <1>3, <1>4 DEF Solvency

(* A statement that pays a user n more. *)
LEMMA PaidSolvent ==
    ASSUME Inv, Affordable, NEW w \in Threads, Others(w), SameAmounts, w[1] # "SET_AMOUNT",
           thread'[w].at \in {"first", "second"} =>
             thread'[w].spent <= triggers'[thread'[w].trigger].amount,
           NEW v \in Users, NEW n \in Nat,
           source' = [source EXCEPT ![v] = @ + n]
    PROVE  Solvency
<1>1. Affordable'
  BY AffordKept DEF Others
<1>2. ASSUME NEW u \in Users PROVE Raised(u)
  <2>1. source'[u] >= source[u]
    <3>1. source \in [Users -> Int]
      BY Typed
    <3>. QED  BY <3>1
  <2>2. <<"SET_AMOUNT", u>> \in Threads /\ <<"SET_AMOUNT", u>> # w
    BY ThreadKinds DEF Kinds
  <2>. QED  BY <2>1, <2>2 DEF Raised, Others
<1>. QED  BY <1>1, <1>2 DEF Solvency

LEMMA ReturnPays ==
    ASSUME Inv, Affordable, NEW w \in Threads, ReturnAmount(w), Others(w),
           thread'[w].at \notin {"first", "second"}
    PROVE  Solvency
<1>1. /\ w[1] = "CANCEL" /\ w[2] \in Users /\ SameAmounts
      /\ source' = [source EXCEPT ![w[2]] = @ + thread[w].arg]
  BY ReturnEffect, ThreadKinds, Typed DEF ReturnAmount, SameTriggers, SameAmounts
<1>2. thread[w].arg \in Nat
  BY Typed DEF Thread
<1>. QED  BY <1>1, <1>2, PaidSolvent

(* Of a trigger that fires the leftover is paid, or the shares. *)
LEMMA FiringPays ==
    ASSUME Inv, Affordable, NEW w \in Threads, thread[w].at \in {"first", "second"},
           PayLeftover(w) \/ PaySpent(w), Others(w), SameAmounts,
           thread'[w].at \in {"first", "second"} =>
             thread'[w].spent <= triggers'[thread'[w].trigger].amount
    PROVE  Solvency
<1>1. /\ w[1] # "SET_AMOUNT" /\ thread[w].trigger \in 1 .. Len(triggers)
      /\ thread[w].spent \in Nat /\ thread[w].spent <= triggers[thread[w].trigger].amount
  BY FiringThread, Typed DEF Firing, Thread, Affordable
<1>2. PICK a \in Nat, v \in Users :
        a = triggers[thread[w].trigger].amount /\ v = triggers[thread[w].trigger].user
  <2>1. triggers[thread[w].trigger] \in Trigger
    BY <1>1, Typed
  <2>. QED  BY <2>1 DEF Trigger
<1>3. PICK n \in Nat : n = a - thread[w].spent
  BY <1>1, <1>2
<1>4. source \in [Users -> Int]
  BY Typed
<1>5. CASE PayLeftover(w)
  <2>1. source' = [source EXCEPT ![v] = @ + n]
    BY <1>2, <1>3, <1>5 DEF PayLeftover
  <2>. QED  BY <1>1, <2>1, PaidSolvent
<1>6. CASE PaySpent(w)
  <2>1. source' = [source EXCEPT ![v] = @ + 0]
    BY <1>4, <1>6 DEF PaySpent
  <2>. QED  BY <1>1, <2>1, PaidSolvent
<1>. QED  BY <1>5, <1>6
LEMMA SolventFireNext ==
    ASSUME Inv, Affordable, NEW w \in Threads, FireNext(w)
    PROVE  Solvency
<1>. DEFINE r(id) == [thread[w] EXCEPT !.at = "first", !.trigger = id, !.left = @ \ {id},
                          !.spent = WholeShares(triggers[id].amount, cost[thread[w].timer])]
            p(id) == [thread[w] EXCEPT !.left = @ \ {id}]
<1>1. PICK id \in thread[w].left :
        /\ thread[w].at = "next" /\ UNCHANGED <<source, triggers>>
        /\ Become(w, r(id)) \/ Become(w, p(id))
  BY DEF FireNext, accounts
<1>2. id \in 1 .. Len(triggers) /\ w[1] # "SET_AMOUNT" /\ thread[w].timer \in Ids
  BY <1>1, FiringThread DEF Firing
<1>3. WholeShares(triggers[id].amount, cost[thread[w].timer]) <= triggers[id].amount
  <2>1. triggers[id].amount \in Amounts
    BY <1>2 DEF Inv, Registry
  <2>2. cost[thread[w].timer] \in Costs \cup {MaxInt}
    BY <1>2, Typed
  <2>3. triggers[id].amount \in Nat /\ cost[thread[w].timer] \in Nat \ {0}
    BY <2>1, <2>2, Constants
  <2>. QED  BY <2>3, SharesBounded
<1>4. /\ r(id).at = "first" /\ r(id).trigger = id
      /\ r(id).spent = WholeShares(triggers[id].amount, cost[thread[w].timer])
      /\ p(id).at = "next"
  BY <1>1, Typed DEF Thread
<1>. HIDE DEF r, p
<1>5. Others(w) /\ (thread'[w] = r(id) \/ thread'[w] = p(id))
  BY <1>1, Moved
<1>6. SameAmounts
  BY <1>1 DEF SameAmounts
<1>7. Affordable'
  BY <1>1, <1>3, <1>4, <1>5, <1>6, AffordKept DEF Others
<1>8. ASSUME NEW u \in Users PROVE Raised(u)
  <2>1. source'[u] >= source[u]
    BY <1>1, Typed
  <2>2. <<"SET_AMOUNT", u>> \in Threads /\ <<"SET_AMOUNT", u>> # w
    BY <1>2, ThreadKinds DEF Kinds
  <2>. QED  BY <1>5, <2>1, <2>2 DEF Raised, Others
<1>. QED  BY <1>7, <1>8 DEF Solvency

LEMMA SolventFirst ==
    ASSUME Inv, Affordable, NEW w \in Threads, PayFirst(w)
    PROVE  Solvency
<1>1. /\ thread[w].at = "first" /\ Goto(w, "second") /\ UNCHANGED triggers
      /\ PayLeftover(w) \/ PaySpent(w)
  BY DEF PayFirst
<1>2. /\ Others(w) /\ thread'[w].spent = thread[w].spent
      /\ thread'[w].trigger = thread[w].trigger
  BY <1>1, Moved
<1>3. SameAmounts
  BY <1>1 DEF SameAmounts
<1>4. thread'[w].spent <= triggers'[thread'[w].trigger].amount
  BY <1>1, <1>2 DEF Affordable
<1>. QED  BY <1>1, <1>2, <1>3, <1>4, FiringPays

LEMMA SecondPays ==
    ASSUME Inv, Affordable, NEW w \in Threads, PaySecond(w), Others(w),
           thread'[w].at \notin {"first", "second"}
    PROVE  Solvency
<1>1. thread[w].at = "second" /\ (PayLeftover(w) \/ PaySpent(w))
  BY DEF PaySecond
<1>2. SameAmounts
  BY SecondEffect DEF SameTriggers, SameAmounts
<1>. QED  BY <1>1, <1>2, FiringPays

LEMMA SolventFault ==
    ASSUME Inv, Affordable, NEW w \in Threads, Fault(w) \/ AnswerLost(w)
    PROVE  Solvency
<1>1. Become(w, Restarted(w)) /\ Restarted(w).at \in {"check", "return", "next"}
  <2>1. Become(w, Restarted(w))
    BY DEF Fault, AnswerLost, Again
  <2>2. thread[w] \in Thread
    BY Typed
  <2>. QED  BY <2>1, <2>2 DEF Restarted, Thread
<1>2. Others(w) /\ thread'[w].at \notin {"first", "second"} \cup Promised
  BY <1>1, Moved DEF Promised
<1>3. CASE Fault(w)
  <2>1. UNCHANGED source /\ SameAmounts
    BY <1>3 DEF Fault, accounts, SameAmounts
  <2>. QED  BY <1>2, <2>1, StillSolvent
<1>4. CASE AnswerLost(w)
  BY <1>2, <1>4, HoldTakes, ReturnPays, SecondPays DEF AnswerLost
<1>. QED  BY <1>3, <1>4

LEMMA InitAffordable == ASSUME Init PROVE Affordable
<1>1. Rest.at = "idle" /\ \A w \in Threads : thread[w] = Rest
  BY DEF Init, Rest
<1>. QED  BY <1>1 DEF Affordable

(***************************************************************************)
(* A step of the triggers takes from a user's account only the amount of   *)
(* his own SET_AMOUNT, whose check has found it there.                     *)
(***************************************************************************)
LEMMA NextSolvent ==
    ASSUME Inv, Affordable, Next
    PROVE  Solvency
<1>1. ASSUME NEW u \in Users, ReceiveSetAmount(u) \/ ReceiveSetTrigger(u) \/ ReceiveCancel(u)
      PROVE  Solvency
  BY <1>1, SolventReceive
<1>2. ASSUME NEW w \in Threads, Hold(w) \/ Return(w) \/ Pay(w) PROVE Solvency
  <2>1. CASE Hold(w)
    <3>1. HoldAmount(w) /\ Finish(w, TRUE)
      BY <2>1 DEF Hold
    <3>. QED  BY <3>1, Moved, HoldTakes DEF Promised
  <2>2. CASE Return(w)
    <3>1. ReturnAmount(w) /\ Finish(w, TRUE)
      BY <2>2 DEF Return
    <3>. QED  BY <3>1, Moved, ReturnPays
  <2>3. CASE Pay(w)
    <3>1. PaySecond(w) /\ Goto(w, "found")
      BY <2>3 DEF Pay
    <3>. QED  BY <3>1, Moved, SecondPays
  <2>. QED  BY <1>2, <2>1, <2>2, <2>3
<1>3. ASSUME NEW w \in Threads, Progress(w) PROVE Solvency
  BY <1>2, <1>3, SolventHandler, SolventRegister, SolventLoop, SolventFireNext, SolventFirst
     DEF Progress, HandlerStep, LoopStep, FireStep
<1>. QED  BY <1>1, <1>3, SolventFault DEF Next

(* The accounts may also change beside the triggers, and other calls may fail. *)
LEMMA AccountsChange ==
    ASSUME Inv, source' \in [Users -> Int], faults' \in 0 .. MaxFaults, faults <= faults',
           UNCHANGED <<target, registry, triggers, thread, commands>>
    PROVE  Inv' /\ (Affordable => Affordable')
<1>. UNCHANGED <<target, current, born, users, cost, triggers, thread, commands>>
  BY DEF registry
<1>1. TypeOK' /\ Registry'
  BY DEF Inv, TypeOK, Registry
<1>2. Budget'
  <2>1. Entering' = Entering /\ Registering' = Registering
    BY DEF Entering, Registering
  <2>2. TypeOK /\ Budget
    BY DEF Inv
  <2>3. /\ Cardinality(Entering) \in Nat /\ Cardinality(Registering) \in Nat
        /\ born \in Nat /\ Len(triggers) \in Nat /\ commands \in Nat /\ faults \in Nat
    BY <2>2, Budgeted
  <2>. QED  BY <2>1, <2>2, <2>3, Constants DEF Budget
<1>3. HeldAtMostOnce' /\ CurrentTimerRuns'
  BY DEF Inv, HeldAtMostOnce, CurrentTimerRuns
<1>4. \A w \in Threads : (Placed(w, thread[w]) /\ Sound(w, thread[w]) /\ Own(w, thread[w]))'
  BY DEF Inv, Placed, Sound, Own
<1>5. Affordable => Affordable'
  BY DEF Affordable
<1>. QED  BY <1>1, <1>2, <1>3, <1>4, <1>5 DEF Inv
=============================================================================
