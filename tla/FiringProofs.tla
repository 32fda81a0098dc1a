---------------------------- MODULE FiringProofs ----------------------------
(***************************************************************************)
(* Theorems about Triggers: how often a trigger is completed; and, while   *)
(* commands and polls come one at a time, that one that holds an amount    *)
(* stays registered and that the services implement TriggerBook.  Then     *)
(* what it keeps: while nothing fails, a user's accounts and his triggers  *)
(* together hold what he had, however commands and polls overlap.          *)
(***************************************************************************)
EXTENDS TriggersProofs, TriggersBook, Sums

(***************************************************************************)
(* The stock's timer has the only loop, and a handler that has made the    *)
(* timer and not yet started its loop is the only one.                     *)
(***************************************************************************)
Starting(w) == w[1] = "SET_AMOUNT" /\ thread[w].at = "register" /\ thread[w].fresh

OneLoop ==
    /\ \A w \in Loops :
         /\ thread[w].at # "idle" => w[2] = current /\ thread[w].timer = current
         /\ thread[w].at = "idle" => thread[w].left = {}
    /\ \A w \in Threads : Starting(w) =>
         /\ thread[w].timer = current /\ thread[<<"timer", current>>].at = "idle"
         /\ \A v \in Threads : Starting(v) => v = w

(***************************************************************************)
(* What a thread that completes triggers knows about them, the stock's     *)
(* timer being c and the registered triggers us: its triggers belong to    *)
(* its own user, the one it works on has left its batch, and where it      *)
(* removes a trigger that is still registered with the stock's timer, it   *)
(* removes it there.                                                       *)
(***************************************************************************)
Working == {"first", "second", "found", "drop"}

Turn(w, k, c, us) ==
    /\ k.at \in Working => k.trigger \notin k.left
    /\ k.at = "drop" /\ c # 0 /\ us[c][triggers[k.trigger].user] = k.trigger => k.arg = c
    /\ w[1] = "SET_TRIGGER" =>
         /\ \A i \in k.left \cup k.batch : triggers[i].user = w[2]
         /\ k.at \in {"compare"} \cup Working => triggers[k.trigger].user = w[2]

(***************************************************************************)
(* A thread k may still complete trigger i of user u before it looks for   *)
(* another one: it has it before it, or finds it registered and has not    *)
(* just completed it.                                                      *)
(***************************************************************************)
May(k, i, u, c, us) ==
    \/ i \in k.left
    \/ k.at \in {"compare", "first", "second"} /\ k.trigger = i
    \/ ~(k.at \in {"found", "drop"} /\ k.trigger = i) /\ c # 0 /\ us[c][u] = i
    \/ k.at = "update" /\ us[k.timer][u] = i

MayFire(w, i) == May(thread[w], i, triggers[i].user, current, users)

One(b) == IF b THEN 1 ELSE 0

(* Completions so far, and those that may still come without a fault. *)
Credit(i) ==
    triggers[i].fired + One(MayFire(<<"SET_TRIGGER", triggers[i].user>>, i))
      + One(current # 0 /\ MayFire(<<"timer", current>>, i)) <= 2 + faults

FireInv ==
    /\ Inv
    /\ OneLoop
    /\ \A w \in Threads : Turn(w, thread[w], current, users)
    /\ \A i \in 1 .. Len(triggers) : Credit(i)

-----------------------------------------------------------------------------
SameOwners ==
    /\ Len(triggers') = Len(triggers)
    /\ \A i \in 1 .. Len(triggers) : triggers'[i].user = triggers[i].user

(* The threads that complete trigger i, and what their step may spend. *)
Completer(w, i) == w[1] = "timer" \/ w = <<"SET_TRIGGER", triggers[i].user>>

Spends(w, r, i) ==
    IF Completer(w, i)
      THEN triggers'[i].fired + One(May(r, i, triggers[i].user, current', users')) + faults
             <= triggers[i].fired + One(MayFire(w, i)) + faults'
      ELSE triggers'[i].fired = triggers[i].fired /\ faults <= faults'

LEMMA OneRange == ASSUME NEW b PROVE One(b) \in {0, 1} /\ (b <=> One(b) = 1)
BY DEF One

LEMMA OneGrows ==
    ASSUME NEW b \in BOOLEAN, NEW c \in BOOLEAN, b => c
    PROVE  One(b) <= One(c) /\ One(b) \in {0, 1} /\ One(c) \in {0, 1}
BY DEF One

(* What one may spend less, the completion has taken; the other keeps. *)
LEMMA Spending ==
    ASSUME NEW f \in Nat, NEW g \in Nat, NEW m \in Nat, NEW n \in Nat,
           NEW a \in Nat, NEW b \in Nat, NEW c \in Nat, NEW d \in Nat,
           f + a + b <= 2 + m, c <= a, g + d + m <= f + b + n
    PROVE  g + c + d <= 2 + n /\ g + d + c <= 2 + n
OBVIOUS

LEMMA MayBoolean ==
    ASSUME NEW k, NEW i, NEW u, NEW c, NEW us
    PROVE  May(k, i, u, c, us) \in BOOLEAN
BY DEF May

(* Removals take no thread further. *)
LEMMA MayShrinks ==
    ASSUME TypeOK, NobodyNew, current' \in {current, 0}, NEW k \in Thread, NEW u \in Users,
           NEW i \in Nat \ {0}, k.at = "update" => k.timer # 0,
           May(k, i, u, current', users')
    PROVE  May(k, i, u, current, users)
<1>1. current \in Ids \cup {0} /\ k.timer \in Ids \cup {0}
  BY DEF TypeOK, Thread
<1>2. CASE i \in k.left \/ (k.at \in {"compare", "first", "second"} /\ k.trigger = i)
  BY <1>2 DEF May
<1>3. CASE ~(k.at \in {"found", "drop"} /\ k.trigger = i) /\ current' # 0 /\ users'[current'][u] = i
  <2>1. current' = current /\ current \in Ids /\ users'[current][u] # 0
    BY <1>1, <1>3
  <2>2. users[current][u] = i
    BY <1>3, <2>1 DEF NobodyNew
  <2>. QED  BY <1>3, <2>1, <2>2 DEF May
<1>4. CASE k.at = "update" /\ users'[k.timer][u] = i
  <2>1. k.timer \in Ids /\ users'[k.timer][u] # 0
    BY <1>1, <1>4
  <2>2. users[k.timer][u] = i
    BY <1>4, <2>1 DEF NobodyNew
  <2>. QED  BY <1>4, <2>2 DEF May
<1>. QED  BY <1>2, <1>3, <1>4 DEF May

(***************************************************************************)
(* A step of one thread that makes no timer and no trigger.                *)
(***************************************************************************)
LEMMA OneLoopKept ==
    ASSUME FireInv, Inv', NEW w \in Threads, Others(w), current' \in {current, 0},
           w[1] = "timer" =>
             /\ thread[w].at # "idle"
             /\ \/ thread'[w].at # "idle" /\ current' = current /\ thread'[w].timer = thread[w].timer
                \/ thread'[w].at = "idle" /\ current' = 0 /\ thread'[w].left = {},
           w[1] # "timer" => current' = current,
           ~Starting(w)'
    PROVE  OneLoop'
<1>. OneLoop /\ Inv
  BY DEF FireInv
<1>1. w[1] = "timer" => w \in Loops /\ w = <<"timer", current>>
  BY ThreadKinds DEF OneLoop, Threads, Kinds
<1>2. current' # current => w[1] = "timer" /\ current # 0
  OBVIOUS
<1>3. ASSUME NEW v \in Loops
      PROVE  /\ thread'[v].at # "idle" => v[2] = current' /\ thread'[v].timer = current'
             /\ thread'[v].at = "idle" => thread'[v].left = {}
  <2>0. v \in Threads /\ v[1] = "timer" /\ v = <<"timer", v[2]>>
    BY ThreadKinds
  <2>1. CASE v = w
    BY <1>1, <2>0, <2>1 DEF OneLoop
  <2>2. CASE v # w
    <3>1. thread'[v] = thread[v]
      BY <2>0, <2>2 DEF Others
    <3>2. thread[v].at # "idle" => current' = current
      BY <1>1, <1>2, <2>0, <2>2 DEF OneLoop
    <3>. QED  BY <3>1, <3>2 DEF OneLoop
  <2>. QED  BY <2>1, <2>2
<1>4. ASSUME NEW v \in Threads, Starting(v)'
      PROVE  /\ thread'[v].timer = current' /\ thread'[<<"timer", current'>>].at = "idle"
             /\ \A x \in Threads : Starting(x)' => x = v
  <2>1. v # w /\ thread'[v] = thread[v] /\ Starting(v)
    BY <1>4 DEF Others, Starting
  <2>2. \A x \in Threads : Starting(x)' => Starting(x)
    BY DEF Others, Starting
  <2>3. w # <<"timer", current>> /\ current' = current
    BY <1>1, <1>2, <2>1 DEF OneLoop
  <2>4. <<"timer", current>> \in Threads
    <3>1. current # 0
      BY <2>1, Typed DEF Sound, Starting, OneLoop
    <3>. QED  BY <3>1, Typed, ThreadKinds
  <2>. QED  BY <2>1, <2>2, <2>3, <2>4 DEF OneLoop, Others
<1>. QED  BY <1>3, <1>4 DEF OneLoop

LEMMA TurnKept ==
    ASSUME FireInv, NEW v \in Threads, thread'[v] = thread[v], current' \in {current, 0},
           NobodyNew, SameOwners
    PROVE  Turn(v, thread[v], current, users)'
<1>. DEFINE k == thread[v]
<1>1. Turn(v, k, current, users) /\ Sound(v, k) /\ Inv /\ k \in Thread
  BY Typed DEF FireInv
<1>2. k.left \subseteq 1 .. Len(triggers) /\ k.batch \subseteq 1 .. Len(triggers)
  BY <1>1 DEF Sound
<1>3. k.at \in {"compare"} \cup Working => k.trigger \in 1 .. Len(triggers)
  BY <1>1, Typed DEF Sound, Working
<1>4. k.at = "drop" => triggers'[k.trigger].user = triggers[k.trigger].user
                       /\ triggers[k.trigger].user \in Users /\ k.trigger # 0
  <2>1. k.at = "drop" => k.trigger \in 1 .. Len(triggers)
    BY <1>3 DEF Working
  <2>2. k.at = "drop" => triggers[k.trigger] \in Trigger
    BY <1>1, <2>1, Typed
  <2>. QED  BY <2>1, <2>2 DEF SameOwners, Trigger
<1>5. ASSUME k.at = "drop", current' # 0, users'[current'][triggers'[k.trigger].user] = k.trigger
      PROVE  k.arg = current'
  <2>1. current' = current /\ current \in Ids
    BY <1>1, <1>5, Typed
  <2>2. users[current][triggers[k.trigger].user] = k.trigger
    BY <1>4, <1>5, <2>1 DEF NobodyNew
  <2>. QED  BY <1>1, <1>5, <2>1, <2>2 DEF Turn
<1>6. v[1] = "SET_TRIGGER" =>
        /\ \A i \in k.left \cup k.batch : triggers'[i].user = v[2]
        /\ k.at \in {"compare"} \cup Working => triggers'[k.trigger].user = v[2]
  BY <1>1, <1>2, <1>3 DEF Turn, SameOwners
<1>7. k.at \in Working => k.trigger \notin k.left
  BY <1>1 DEF Turn
<1>. HIDE DEF k
<1>8. k' = k
  BY DEF k
<1>. QED  BY <1>5, <1>6, <1>7, <1>8 DEF Turn, k

LEMMA CreditKept ==
    ASSUME FireInv, Inv', NEW w \in Threads, Others(w), current' \in {current, 0},
           w[1] = "timer" => w = <<"timer", current>>,
           NobodyNew, SameOwners, NEW i \in 1 .. Len(triggers), Spends(w, thread'[w], i)
    PROVE  Credit(i)'
<1>. DEFINE u == triggers[i].user
            h == <<"SET_TRIGGER", u>>
            l == <<"timer", current>>
<1>1. /\ Inv /\ TypeOK /\ TypeOK' /\ i \in Nat \ {0} /\ Credit(i)
      /\ triggers[i] \in Trigger /\ i \in 1 .. Len(triggers') /\ triggers' \in Seq(Trigger)
  <2>1. Inv /\ TypeOK /\ TypeOK' /\ Credit(i)
    BY DEF FireInv, Inv
  <2>2. triggers \in Seq(Trigger) /\ triggers' \in Seq(Trigger) /\ Len(triggers') = Len(triggers)
    BY <2>1 DEF TypeOK, SameOwners
  <2>. QED  BY <2>1, <2>2
<1>2. u \in Users /\ triggers'[i].user = u /\ triggers[i].fired \in Nat
      /\ triggers'[i].fired \in Nat /\ faults \in Nat /\ faults' \in Nat
  <2>1. triggers'[i] \in Trigger
    BY <1>1
  <2>2. faults \in Nat /\ faults' \in Nat
    BY <1>1, Constants DEF TypeOK
  <2>. QED  BY <1>1, <2>1, <2>2 DEF Trigger, SameOwners
<1>3. h \in Threads /\ h # l /\ (current # 0 => l \in Threads)
  BY <1>1, <1>2, ThreadKinds, Typed DEF Kinds
<1>4. ASSUME NEW v \in Threads, v # w, May(thread'[v], i, u, current', users')
      PROVE  MayFire(v, i)
  <2>1. thread'[v] = thread[v] /\ thread[v] \in Thread
    BY <1>1, <1>4, Typed DEF Others
  <2>2. thread[v].at = "update" => thread[v].timer # 0
    BY <1>1, Typed DEF Sound
  <2>. QED  BY <1>1, <1>2, <1>4, <2>1, <2>2, MayShrinks DEF MayFire
<1>5. /\ MayFire(h, i)' <=> May(thread'[h], i, u, current', users')
      /\ current' # 0 => (MayFire(<<"timer", current>>, i)' <=> May(thread'[l], i, u, current', users'))
  BY <1>2 DEF MayFire
<1>. DEFINE a == May(thread[h], i, u, current, users)
            b == current # 0 /\ May(thread[l], i, u, current, users)
            c == May(thread'[h], i, u, current', users')
            d == current' # 0 /\ May(thread'[l], i, u, current', users')
<1>6. /\ a \in BOOLEAN /\ b \in BOOLEAN /\ c \in BOOLEAN /\ d \in BOOLEAN
  BY MayBoolean
<1>0. PICK f \in Nat, g \in Nat, m \in Nat, n \in Nat :
        f = triggers[i].fired /\ g = triggers'[i].fired /\ m = faults /\ n = faults'
  BY <1>2
<1>7. f + One(a) + One(b) <= 2 + m
  BY <1>0, <1>1 DEF Credit, MayFire
<1>8. /\ w # h => (c => a)
      /\ w # l => (d => b)
  BY <1>3, <1>4 DEF MayFire
<1>9. /\ w = h => g + One(c) + m <= f + One(a) + n
      /\ w = l => g + One(May(thread'[l], i, u, current', users')) + m
                    <= f + One(May(thread[l], i, u, current, users)) + n
      /\ w # h /\ w # l => g = f /\ m <= n
  BY <1>0 DEF Spends, Completer, MayFire
<1>10. g + One(c) + One(d) <= 2 + n
  <2>0. One(a) \in Nat /\ One(b) \in Nat /\ One(c) \in Nat /\ One(d) \in Nat
    BY OneRange
  <2>1. CASE w = h
    <3>. HIDE DEF a, b, c, d
    <3>1. One(d) <= One(b)
      BY <1>3, <1>6, <1>8, <2>1, OneGrows
    <3>2. g + One(c) + m <= f + One(a) + n
      BY <1>9, <2>1
    <3>3. f + One(b) + One(a) <= 2 + m
      BY <1>7, <2>0
    <3>. QED  BY <2>0, <3>1, <3>2, <3>3, Spending
  <2>2. CASE w = l
    <3>1. One(c) <= One(a)
      <4>. HIDE DEF a, c
      <4>. QED  BY <1>3, <1>6, <1>8, <2>2, OneGrows
    <3>2. current # 0
      <4>1. w \in Loops
        BY <2>2, ThreadKinds DEF Threads, Kinds
      <4>. QED  BY <1>1, <2>2, <4>1, ThreadKinds, Constants
    <3>3. g + One(d) + m <= f + One(b) + n
      <4>1. b <=> May(thread[l], i, u, current, users)
        BY <3>2
      <4>2. CASE current' # 0
        <5>1. d <=> May(thread'[l], i, u, current', users')
          BY <4>2
        <5>. QED  BY <1>9, <2>2, <4>1, <5>1 DEF One
      <4>3. CASE current' = 0
        <5>1. One(d) = 0 /\ One(b) = One(May(thread[l], i, u, current, users))
          BY <4>1, <4>3 DEF One
        <5>2. One(May(thread'[l], i, u, current', users')) \in Nat
          BY OneRange
        <5>. HIDE DEF b, d
        <5>3. g + One(May(thread'[l], i, u, current', users')) + m
                <= f + One(May(thread[l], i, u, current, users)) + n
          BY <1>9, <2>2
        <5>. QED  BY <2>0, <5>1, <5>2, <5>3
      <4>. QED  BY <4>2, <4>3
    <3>. HIDE DEF a, b, c, d
    <3>. QED  BY <1>7, <2>0, <3>1, <3>3, Spending
  <2>3. CASE w # h /\ w # l
    <3>. HIDE DEF a, b, c, d
    <3>1. One(c) <= One(a) /\ One(d) <= One(b)
      BY <1>6, <1>8, <2>3, OneGrows
    <3>2. g = f /\ m <= n
      BY <1>9, <2>3
    <3>3. g + One(d) + m <= f + One(b) + n
      BY <2>0, <3>1, <3>2
    <3>. QED  BY <1>7, <2>0, <3>1, <3>3, Spending
  <2>. QED  BY <2>1, <2>2, <2>3
<1>11. /\ (triggers[i].fired)' = triggers'[i].fired
       /\ One(MayFire(<<"SET_TRIGGER", triggers[i].user>>, i))' = One(c)
       /\ One(current # 0 /\ MayFire(<<"timer", current>>, i))' = One(d)
  <2>1. MayFire(<<"SET_TRIGGER", triggers[i].user>>, i)' <=> c
    BY <1>2 DEF MayFire
  <2>2. (current # 0 /\ MayFire(<<"timer", current>>, i))' <=> d
    BY <1>2 DEF MayFire
  <2>. HIDE DEF c, d
  <2>. QED  BY <2>1, <2>2 DEF One
<1>. QED  BY <1>0, <1>10, <1>11 DEF Credit

LEMMA FireKept ==
    ASSUME FireInv, Inv', NEW w \in Threads, Others(w), current' \in {current, 0},
           w[1] = "timer" =>
             /\ thread[w].at # "idle"
             /\ \/ thread'[w].at # "idle" /\ current' = current /\ thread'[w].timer = thread[w].timer
                \/ thread'[w].at = "idle" /\ current' = 0 /\ thread'[w].left = {},
           w[1] # "timer" => current' = current,
           ~Starting(w)', NobodyNew, SameOwners,
           Turn(w, thread[w], current, users)',
           \A i \in 1 .. Len(triggers) : Spends(w, thread'[w], i)
    PROVE  FireInv'
<1>1. OneLoop'
  BY OneLoopKept
<1>2. \A v \in Threads : Turn(v, thread[v], current, users)'
  BY TurnKept DEF Others
<1>3. w[1] = "timer" => w = <<"timer", current>>
  BY ThreadKinds DEF FireInv, OneLoop, Threads, Kinds
<1>4. \A i \in 1 .. Len(triggers') : Credit(i)'
  BY <1>3, CreditKept DEF SameOwners
<1>. QED  BY <1>1, <1>2, <1>4 DEF FireInv

(* SET_AMOUNT and CANCEL complete nothing. *)
SameFired == \A i \in 1 .. Len(triggers) : triggers'[i].fired = triggers[i].fired

LEMMA AmountKept ==
    ASSUME FireInv, Inv', NEW w \in Threads, w[1] \in {"SET_AMOUNT", "CANCEL"}, Others(w),
           current' = current, ~Starting(w)', NobodyNew, SameOwners, SameFired,
           faults' \in Nat, faults <= faults'
    PROVE  FireInv'
<1>1. Placed(w, thread'[w])
  BY DEF Inv
<1>2. Turn(w, thread[w], current, users)'
  BY <1>1 DEF Placed, Turn, Working
<1>3. \A i \in 1 .. Len(triggers) : Spends(w, thread'[w], i)
  BY DEF Spends, Completer, SameFired
<1>. QED  BY <1>2, <1>3, FireKept

LEMMA Alone ==
    ASSUME FireInv, NEW w \in Threads
    PROVE  /\ \A r : Become(w, r) => Others(w) /\ thread'[w] = r
           /\ \A p : Goto(w, p) => Others(w)
           /\ \A b : Finish(w, b) => Others(w)
           /\ UNCHANGED users => NobodyNew
           /\ UNCHANGED triggers => SameOwners /\ SameFired
           /\ faults \in Nat
<1>1. Inv /\ thread \in [Threads -> Thread] /\ faults \in Nat
  BY Typed, Constants DEF FireInv
<1>. QED  BY <1>1, Unmarked DEF Become, Goto, Finish, Others, SameOwners, SameFired

LEMMA MarkedOwners ==
    ASSUME FireInv, NEW i \in 1 .. Len(triggers), NEW t,
           t.user = triggers[i].user, triggers' = [triggers EXCEPT ![i] = t]
    PROVE  SameOwners /\ (t.fired = triggers[i].fired => SameFired)
<1>1. triggers \in Seq(Trigger)
  BY DEF FireInv, Inv, TypeOK
<1>2. /\ Len(triggers') = Len(triggers) /\ triggers'[i] = t
      /\ \A j \in 1 .. Len(triggers) : j # i => triggers'[j] = triggers[j]
  BY <1>1
<1>. QED  BY <1>2 DEF SameOwners, SameFired

-----------------------------------------------------------------------------
(* The steps of SET_AMOUNT and CANCEL. *)
LEMMA AmountSteps ==
    ASSUME FireInv, Inv', NEW w \in Threads, w[1] \in {"SET_AMOUNT", "CANCEL"},
           UNCHANGED <<registry, triggers>>, faults' \in Nat, faults <= faults',
           Others(w), thread'[w].at # "register"
    PROVE  FireInv'
BY Alone, AmountKept DEF Starting, registry

LEMMA KindAt ==
    ASSUME Inv, NEW w \in Threads
    PROVE  /\ thread[w].at \in {"check", "register", "hold"} => w[1] = "SET_AMOUNT"
           /\ thread[w].at \in {"find", "take", "return"} => w[1] = "CANCEL"
           /\ thread[w].at \in {"update", "compare"} => w[1] = "SET_TRIGGER"
           /\ thread[w].at \in {"poll", "quote", "exit"} => w[1] = "timer"
           /\ thread[w].at \in Firing => w[1] \in {"SET_TRIGGER", "timer"}
           /\ thread[w].at = "enter" => w[1] \in {"SET_AMOUNT", "SET_TRIGGER"}
           /\ thread[w].at = "done" => w[1] # "timer"
           /\ w[1] \in Kinds \cup {"timer"} /\ (w[1] # "timer" => w[2] \in Users)
BY Typed, ThreadKinds DEF Placed, Firing, Kinds, Threads

LEMMA FireCheck ==
    ASSUME FireInv, Inv', NEW w \in Threads, Check(w) \/ Find(w)
    PROVE  FireInv'
<1>. Inv /\ thread \in [Threads -> Thread]
  BY Typed DEF FireInv
<1>1. w[1] \in {"SET_AMOUNT", "CANCEL"}
  BY KindAt DEF Check, Find
<1>2. UNCHANGED <<registry, triggers, faults>>
  BY DEF Check, Find, bounds
<1>3. Others(w) /\ thread'[w].at # "register"
  <2>. DEFINE r == [thread[w] EXCEPT !.at = "take", !.timer = current]
  <2>1. r.at = "take"
    BY DEF Thread
  <2>2. Goto(w, "enter") \/ Finish(w, FALSE) \/ Become(w, r)
    BY DEF Check, Find
  <2>. HIDE DEF r
  <2>. QED  BY <2>1, <2>2 DEF Others, Goto, Finish, Become, Thread
<1>4. faults \in Nat
  BY Alone
<1>. QED  BY <1>1, <1>2, <1>3, <1>4, AmountSteps

LEMMA FireTake ==
    ASSUME FireInv, Inv', NEW w \in Threads, Take(w)
    PROVE  FireInv'
<1>. DEFINE r == [thread[w] EXCEPT !.at = "return", !.trigger = users[thread[w].timer][w[2]],
                                   !.arg = triggers[users[thread[w].timer][w[2]]].amount]
<1>1. Inv /\ thread[w].at = "take"
  BY DEF FireInv, Take
<1>2. w[1] = "CANCEL" /\ w[2] \in Users
  BY <1>1, KindAt
<1>3. /\ users' = [users EXCEPT ![thread[w].timer][w[2]] = 0] /\ Become(w, r)
      /\ UNCHANGED <<current, triggers, faults>>
  BY DEF Take, bounds
<1>4. NobodyNew
  BY <1>1, <1>2, <1>3, Typed DEF NobodyNew
<1>. HIDE DEF r
<1>. QED  BY <1>2, <1>3, <1>4, Alone, AmountKept DEF Starting

LEMMA AmountOwners ==
    ASSUME FireInv, NEW w \in Threads, HoldAmount(w) \/ ReturnAmount(w)
    PROVE  SameOwners /\ SameFired
<1>. DEFINE i == thread[w].trigger
            t == [triggers[i] EXCEPT !.held = @ + 1]
            c == [triggers[i] EXCEPT !.canceled = TRUE]
<1>1. Inv /\ thread[w].at \in {"hold", "return"}
  BY DEF FireInv, HoldAmount, ReturnAmount
<1>2. i \in 1 .. Len(triggers)
  BY <1>1, Typed DEF Sound
<1>3. triggers' = [triggers EXCEPT ![i] = t] \/ triggers' = [triggers EXCEPT ![i] = c]
  BY DEF HoldAmount, ReturnAmount
<1>4. triggers[i] \in Trigger
  BY <1>1, <1>2, Typed
<1>5. /\ t.user = triggers[i].user /\ t.fired = triggers[i].fired
      /\ c.user = triggers[i].user /\ c.fired = triggers[i].fired
  BY <1>4 DEF Trigger
<1>. HIDE DEF t, c
<1>. QED  BY <1>2, <1>3, <1>5, MarkedOwners

LEMMA FireAmount ==
    ASSUME FireInv, Inv', NEW w \in Threads, Hold(w) \/ Return(w)
    PROVE  FireInv'
<1>1. /\ Inv /\ (HoldAmount(w) \/ ReturnAmount(w)) /\ Finish(w, TRUE) /\ UNCHANGED faults
  BY DEF FireInv, Hold, Return, bounds
<1>2. w[1] \in {"SET_AMOUNT", "CANCEL"} /\ UNCHANGED registry
  BY <1>1, HoldEffect, ReturnEffect
<1>3. SameOwners /\ SameFired
  BY <1>1, AmountOwners
<1>4. Others(w) /\ thread'[w].at # "register"
  BY <1>1, Typed DEF Finish, Others, Thread
<1>. QED  BY <1>1, <1>2, <1>3, <1>4, Alone, AmountKept DEF Starting, registry
-----------------------------------------------------------------------------
(* The steps of SET_TRIGGER and of the loops. *)
LEMMA TurnMoves ==
    ASSUME FireInv, Inv', NEW w \in Threads, w[1] \in {"SET_TRIGGER", "timer"},
           NEW r \in Thread, Others(w), thread'[w] = r, UNCHANGED <<current, triggers>>, NobodyNew,
           faults' \in Nat, faults <= faults',
           w[1] = "timer" => thread[w].at # "idle" /\ r.at # "idle" /\ r.timer = thread[w].timer,
           r.at \in Working => r.trigger \notin r.left,
           r.at = "drop" => r.arg = current,
           w[1] = "SET_TRIGGER" =>
             /\ \A i \in r.left \cup r.batch : triggers[i].user = w[2]
             /\ r.at \in {"compare"} \cup Working => triggers[r.trigger].user = w[2],
           \A i \in 1 .. Len(triggers) :
             May(r, i, triggers[i].user, current, users) => MayFire(w, i)
    PROVE  FireInv'
<1>1. Inv /\ TypeOK
  BY DEF FireInv, Inv
<1>2. SameOwners /\ SameFired /\ faults \in Nat
  BY Alone
<1>3. Turn(w, thread[w], current, users)'
  BY DEF Turn
<1>4. r.at = "update" => r.timer # 0
  <2>1. Sound(w, thread[w])'
    BY DEF Inv
  <2>. QED  BY <2>1 DEF Sound
<1>5. ASSUME NEW i \in 1 .. Len(triggers) PROVE Spends(w, r, i)
  <2>1. triggers[i] \in Trigger /\ i \in Nat \ {0}
    BY <1>1, Typed
  <2>2. triggers[i].user \in Users /\ triggers[i].fired \in Nat
    BY <2>1 DEF Trigger
  <2>3. May(r, i, triggers[i].user, current', users') => MayFire(w, i)
    BY <1>1, <1>4, <2>1, <2>2, MayShrinks
  <2>4. One(May(r, i, triggers[i].user, current', users')) <= One(MayFire(w, i))
        /\ One(May(r, i, triggers[i].user, current', users')) \in Nat
        /\ One(MayFire(w, i)) \in Nat
    BY <2>3, MayBoolean, OneGrows, OneRange DEF MayFire
  <2>5. triggers'[i].fired = triggers[i].fired
    OBVIOUS
  <2>. QED  BY <1>2, <2>2, <2>4, <2>5 DEF Spends
<1>. QED  BY <1>2, <1>3, <1>5, FireKept DEF Starting

LEMMA FireReceive ==
    ASSUME FireInv, Inv', NEW kind \in Kinds, NEW u \in Users, NEW arg \in Nat,
           NEW position \in {"check", "enter", "find"}, Receive(kind, u, arg, position)
    PROVE  FireInv'
<1>. DEFINE w == <<kind, u>>
            r == [Rest EXCEPT !.at = position, !.arg = arg]
<1>1. w \in Threads /\ w[1] = kind /\ Inv
  BY ThreadKinds DEF FireInv
<1>2. /\ r \in Thread /\ r.at = position /\ r.left = {} /\ r.batch = {}
  BY DEF Rest, Thread, Positions
<1>3. Become(w, r) /\ thread[w].at = "idle" /\ UNCHANGED <<registry, triggers, faults>>
  BY DEF Receive
<1>. HIDE DEF r, w
<1>4. Others(w) /\ thread'[w] = r /\ NobodyNew /\ faults \in Nat
  BY <1>1, <1>3, Alone DEF registry
<1>5. CASE kind # "SET_TRIGGER"
  BY <1>1, <1>2, <1>3, <1>4, <1>5, AmountSteps DEF Kinds
<1>6. CASE kind = "SET_TRIGGER"
  <2>1. \A i \in 1 .. Len(triggers) : May(r, i, triggers[i].user, current, users) => MayFire(w, i)
    BY <1>2, <1>3 DEF May, MayFire
  <2>. QED  BY <1>1, <1>2, <1>3, <1>4, <1>6, <2>1, TurnMoves DEF Working, registry
<1>. QED  BY <1>5, <1>6

LEMMA FireReply ==
    ASSUME FireInv, Inv', NEW w \in Threads, Reply(w)
    PROVE  FireInv'
<1>1. /\ Rest \in Thread /\ Rest.at = "idle" /\ Rest.left = {} /\ Rest.batch = {}
  BY DEF Rest, Thread, Positions
<1>2. w \in Handlers /\ Become(w, Rest) /\ thread[w].at = "done" /\ UNCHANGED <<registry, triggers, faults>>
  BY DEF Reply, bounds
<1>3. Others(w) /\ thread'[w] = Rest /\ NobodyNew /\ faults \in Nat /\ w[1] \in Kinds
  BY <1>2, Alone, ThreadKinds DEF registry
<1>4. CASE w[1] # "SET_TRIGGER"
  BY <1>1, <1>2, <1>3, <1>4, AmountSteps DEF Kinds
<1>5. CASE w[1] = "SET_TRIGGER"
  <2>1. \A i \in 1 .. Len(triggers) : May(Rest, i, triggers[i].user, current, users) => MayFire(w, i)
    BY <1>1, <1>2 DEF May, MayFire
  <2>. QED  BY <1>1, <1>2, <1>3, <1>5, <2>1, TurnMoves DEF Working, registry
<1>. QED  BY <1>4, <1>5

LEMMA TurnFinish ==
    ASSUME FireInv, Inv', NEW w \in Threads, w[1] = "SET_TRIGGER", NEW b \in BOOLEAN, Finish(w, b),
           thread[w].at \notin {"found", "drop"}, UNCHANGED <<registry, triggers, faults>>
    PROVE  FireInv'
<1>. Inv /\ thread \in [Threads -> Thread] /\ faults \in Nat /\ Turn(w, thread[w], current, users)
  BY Typed, Alone DEF FireInv
<1>1. PICK r \in Thread : Moves(w, r) /\ r.at = "done" /\ r.left = thread[w].left
          /\ r.batch = thread[w].batch /\ r.trigger = thread[w].trigger /\ r.timer = thread[w].timer
  BY FinishMoves
<1>2. \A i \in 1 .. Len(triggers) : May(r, i, triggers[i].user, current, users) => MayFire(w, i)
  BY <1>1 DEF May, MayFire
<1>3. Others(w) /\ thread'[w] = r /\ NobodyNew
  BY <1>1, Alone DEF Moves, registry
<1>. QED  BY <1>1, <1>2, <1>3, TurnMoves DEF Turn, Working, registry

LEMMA TurnGoto ==
    ASSUME FireInv, Inv', NEW w \in Threads, w[1] \in {"SET_TRIGGER", "timer"},
           NEW p \in {"exit", "quote", "poll", "second"}, Goto(w, p),
           thread[w].at \notin {"found", "drop"}, p = "second" => thread[w].at = "first",
           w[1] = "timer" => thread[w].at # "idle",
           UNCHANGED <<registry, triggers>>, faults' \in Nat, faults <= faults'
    PROVE  FireInv'
<1>. Inv /\ thread \in [Threads -> Thread] /\ Turn(w, thread[w], current, users) /\ p \in Positions
  BY Typed DEF FireInv, Positions
<1>1. PICK r \in Thread : Moves(w, r) /\ r.at = p /\ r.left = thread[w].left
          /\ r.batch = thread[w].batch /\ r.trigger = thread[w].trigger /\ r.timer = thread[w].timer
  BY GotoMoves
<1>2. \A i \in 1 .. Len(triggers) : May(r, i, triggers[i].user, current, users) => MayFire(w, i)
  BY <1>1 DEF May, MayFire
<1>3. Others(w) /\ thread'[w] = r /\ NobodyNew
  BY <1>1, Alone DEF Moves, registry
<1>4. w[1] = "SET_TRIGGER" =>
        /\ \A i \in r.left \cup r.batch : triggers[i].user = w[2]
        /\ r.at \in {"compare"} \cup Working => triggers[r.trigger].user = w[2]
  BY <1>1 DEF Turn, Working
<1>5. r.at \in Working => r.trigger \notin r.left
  BY <1>1, ZenonT(60) DEF Turn, Working
<1>. QED  BY <1>1, <1>2, <1>3, <1>4, <1>5, TurnMoves DEF registry

LEMMA FireUpdate ==
    ASSUME FireInv, Inv', NEW w \in Threads, Update(w)
    PROVE  FireInv'
<1>. DEFINE id == users[thread[w].timer][w[2]]
            r == [thread[w] EXCEPT !.at = "compare", !.trigger = id]
            t == [triggers[id] EXCEPT !.limit = thread[w].arg]
<1>1. /\ thread[w].at = "update" /\ UNCHANGED <<registry, faults>> /\ UNCHANGED <<current, users>>
      /\ \/ Finish(w, FALSE) /\ UNCHANGED triggers
         \/ id # 0 /\ triggers' = [triggers EXCEPT ![id] = t] /\ Become(w, r)
  BY ZenonT(60) DEF Update, Accepts, bounds, registry
<1>2. Inv /\ w[1] = "SET_TRIGGER" /\ w[2] \in Users /\ faults \in Nat /\ Turn(w, thread[w], current, users)
  BY <1>1, KindAt, Alone, ZenonT(60) DEF FireInv
<1>3. thread[w].timer \in Ids
  BY <1>1, <1>2, Typed DEF Sound, Thread
<1>4. CASE id # 0 /\ triggers' = [triggers EXCEPT ![id] = t] /\ Become(w, r)
  <2>1. id \in 1 .. Len(triggers) /\ triggers[id].user = w[2]
    BY <1>2, <1>3, <1>4, ZenonT(60) DEF Inv, Registry
  <2>2. /\ r.at = "compare" /\ r.trigger = id /\ r.left = thread[w].left /\ r.batch = thread[w].batch
    BY <1>2, Typed DEF Thread
  <2>3. t.user = triggers[id].user /\ t.fired = triggers[id].fired
    <3>1. triggers[id] \in Trigger
      BY <1>2, <2>1, Typed
    <3>. QED  BY <3>1 DEF Trigger
  <2>. HIDE DEF r, t
  <2>4. SameOwners /\ SameFired /\ NobodyNew /\ Others(w) /\ thread'[w] = r
    BY <1>1, <1>4, <2>1, <2>3, MarkedOwners, Alone
  <2>5. r.left \subseteq 1 .. Len(triggers) /\ r.batch \subseteq 1 .. Len(triggers)
    BY <1>2, <2>2, Typed DEF Sound
  <2>6. Turn(w, thread[w], current, users)'
    BY <1>2, <2>1, <2>2, <2>4, <2>5 DEF Turn, Working, SameOwners
  <2>7. ASSUME NEW i \in 1 .. Len(triggers) PROVE Spends(w, r, i)
    <3>1. triggers[i] \in Trigger
      BY <1>2, Typed
    <3>2. triggers[i].fired \in Nat
      BY <3>1 DEF Trigger
    <3>3. Completer(w, i) => triggers[i].user = w[2]
      BY <1>2 DEF Completer
    <3>4. Completer(w, i) => (May(r, i, triggers[i].user, current, users) => MayFire(w, i))
      BY <1>1, <2>2, <3>3 DEF May, MayFire
    <3>5. Completer(w, i) => One(May(r, i, triggers[i].user, current, users)) <= One(MayFire(w, i))
      BY <3>4, MayBoolean, OneGrows DEF MayFire
    <3>6. One(May(r, i, triggers[i].user, current, users)) \in Nat /\ One(MayFire(w, i)) \in Nat
      BY OneRange
    <3>7. triggers'[i].fired = triggers[i].fired
      BY <2>4 DEF SameFired
    <3>. QED  BY <1>1, <1>2, <3>2, <3>5, <3>6, <3>7 DEF Spends
  <2>. QED  BY <1>1, <1>2, <2>2, <2>4, <2>6, <2>7, FireKept, ZenonT(60) DEF Starting
<1>. QED  BY <1>1, <1>2, <1>4, TurnFinish, ZenonT(60)

LEMMA FireCompare ==
    ASSUME FireInv, Inv', NEW w \in Threads, Compare(w)
    PROVE  FireInv'
<1>. DEFINE r == [thread[w] EXCEPT !.at = "next", !.batch = {thread[w].trigger},
                                   !.left = {thread[w].trigger}]
<1>1. /\ thread[w].at = "compare" /\ UNCHANGED <<registry, triggers, faults>>
      /\ Become(w, r) \/ Finish(w, TRUE)
  BY DEF Compare, bounds
<1>2. Inv /\ w[1] = "SET_TRIGGER" /\ faults \in Nat /\ Turn(w, thread[w], current, users)
  BY <1>1, KindAt, Alone DEF FireInv
<1>3. /\ r.at = "next" /\ r.batch = {thread[w].trigger} /\ r.left = {thread[w].trigger}
      /\ r \in Thread
  <2>1. thread[w].trigger \in Ids
    BY <1>1, <1>2, Typed DEF Sound, Thread
  <2>. QED  BY <1>2, <2>1, Typed, ZenonT(60) DEF Thread, Positions
<1>. HIDE DEF r
<1>4. CASE Become(w, r)
  <2>1. \A i \in 1 .. Len(triggers) : May(r, i, triggers[i].user, current, users) => MayFire(w, i)
    BY <1>1, <1>3 DEF May, MayFire
  <2>2. \A i \in r.left \cup r.batch : triggers[i].user = w[2]
    BY <1>1, <1>2, <1>3 DEF Turn
  <2>. QED  BY <1>1, <1>2, <1>3, <1>4, <2>1, <2>2, Alone, TurnMoves DEF Working, registry
<1>. QED  BY <1>1, <1>2, <1>4, TurnFinish

LEMMA FireMove ==
    ASSUME FireInv, Inv', NEW w \in Threads, Poll(w) \/ Unquoted(w) \/ PayFirst(w)
    PROVE  FireInv'
<1>1. Inv /\ faults \in Nat
  BY Alone DEF FireInv
<1>2. UNCHANGED <<registry, triggers>> /\ faults' \in Nat /\ faults <= faults'
  BY <1>1 DEF Poll, Unquoted, PayFirst, bounds
<1>3. CASE Poll(w)
  <2>1. thread[w].at = "poll" /\ (Goto(w, "exit") \/ Goto(w, "quote"))
    BY <1>3 DEF Poll
  <2>. QED  BY <1>1, <1>2, <2>1, KindAt, TurnGoto
<1>4. CASE Unquoted(w)
  <2>1. thread[w].at = "quote" /\ Goto(w, "poll")
    BY <1>4 DEF Unquoted
  <2>. QED  BY <1>1, <1>2, <2>1, KindAt, TurnGoto
<1>5. CASE PayFirst(w)
  <2>1. thread[w].at = "first" /\ Goto(w, "second")
    BY <1>5 DEF PayFirst
  <2>2. w[1] \in {"SET_TRIGGER", "timer"}
    BY <1>1, <2>1, KindAt DEF Firing
  <2>. QED  BY <1>2, <2>1, <2>2, TurnGoto
<1>. QED  BY <1>3, <1>4, <1>5

LEMMA FireFiredAll ==
    ASSUME FireInv, Inv', NEW w \in Threads, FiredAll(w)
    PROVE  FireInv'
<1>1. /\ thread[w].at = "next" /\ UNCHANGED <<registry, triggers, faults>>
      /\ IF w \in Handlers THEN Finish(w, TRUE) ELSE Goto(w, "poll")
  BY DEF FiredAll, bounds
<1>2. Inv /\ w[1] \in {"SET_TRIGGER", "timer"} /\ faults \in Nat
  BY <1>1, KindAt, Alone DEF FireInv, Firing
<1>3. w \in Handlers => w[1] # "timer"
  BY ThreadKinds DEF Kinds
<1>4. CASE w \in Handlers
  BY <1>1, <1>2, <1>3, <1>4, TurnFinish
<1>5. CASE w \notin Handlers
  BY <1>1, <1>2, <1>5, TurnGoto
<1>. QED  BY <1>4, <1>5

LEMMA FireQuote ==
    ASSUME FireInv, Inv', NEW w \in Threads, Quote(w)
    PROVE  FireInv'
<1>. DEFINE us == Registered(thread[w].timer)
            p == [thread[w] EXCEPT !.at = "poll"]
            q == [thread[w] EXCEPT !.at = "next", !.batch = us, !.left = us]
<1>1. /\ thread[w].at = "quote" /\ (Become(w, p) \/ Become(w, q))
      /\ UNCHANGED <<current, users, triggers, faults>>
  BY DEF Quote, bounds
<1>2. Inv /\ w[1] = "timer" /\ w \in Loops /\ faults \in Nat
  <2>1. Inv /\ w[1] = "timer" /\ faults \in Nat
    BY <1>1, KindAt, Alone DEF FireInv
  <2>. QED  BY <2>1, ThreadKinds DEF Threads, Kinds
<1>3. thread[w].timer = current /\ current # 0 /\ current \in Ids
  <2>1. thread[w].timer = current /\ thread[w].timer # 0
    BY <1>1, <1>2, Typed DEF FireInv, OneLoop, Sound
  <2>. QED  BY <1>2, <2>1, Typed
<1>4. us \subseteq Ids /\ \A i \in us : users[current][triggers[i].user] = i
  <2>1. ASSUME NEW u \in Users, users[current][u] # 0
        PROVE  users[current][u] \in Ids /\ triggers[users[current][u]].user = u
    BY <1>2, <1>3, <2>1, Typed DEF Inv, Registry
  <2>. QED  BY <1>3, <2>1 DEF Registered
<1>5. /\ p \in Thread /\ p.at = "poll" /\ p.timer = thread[w].timer /\ p.left = thread[w].left
      /\ q \in Thread /\ q.at = "next" /\ q.timer = thread[w].timer /\ q.left = us
  BY <1>2, <1>4, Typed, ZenonT(60) DEF Thread, Positions
<1>. HIDE DEF us
<1>. HIDE DEF p, q
<1>6. ASSUME NEW r \in {p, q}, NEW i \in 1 .. Len(triggers),
             May(r, i, triggers[i].user, current, users)
      PROVE  MayFire(w, i)
  BY <1>1, <1>3, <1>4, <1>5, <1>6 DEF May, MayFire
<1>7. ASSUME NEW r \in {p, q}, Become(w, r) PROVE FireInv'
  <2>1. Others(w) /\ thread'[w] = r /\ NobodyNew
    BY <1>1, <1>7, Alone
  <2>2. /\ r \in Thread /\ r.at \in {"poll", "next"} /\ r.timer = thread[w].timer
    BY <1>5
  <2>. QED  BY <1>1, <1>2, <1>6, <2>1, <2>2, TurnMoves DEF Working
<1>. QED  BY <1>1, <1>7

LEMMA FireExit ==
    ASSUME FireInv, Inv', NEW w \in Threads, Exit(w)
    PROVE  FireInv'
<1>1. /\ thread[w].at = "exit" /\ current' = 0 /\ Become(w, Rest)
      /\ UNCHANGED <<users, triggers, faults>>
  BY DEF Exit, bounds
<1>2. Inv /\ w[1] = "timer" /\ faults \in Nat
  BY <1>1, KindAt, Alone DEF FireInv
<1>3. Rest.at = "idle" /\ Rest.left = {} /\ Rest.batch = {}
  BY DEF Rest
<1>4. Others(w) /\ thread'[w] = Rest /\ NobodyNew /\ SameOwners /\ SameFired
  BY <1>1, Alone
<1>5. Turn(w, thread[w], current, users)'
  BY <1>2, <1>3, <1>4 DEF Turn, Working
<1>6. ASSUME NEW i \in 1 .. Len(triggers) PROVE Spends(w, Rest, i)
  <2>1. triggers[i] \in Trigger
    BY <1>2, Typed
  <2>2. triggers[i].fired \in Nat /\ triggers'[i].fired = triggers[i].fired
    BY <1>4, <2>1 DEF Trigger, SameFired
  <2>3. ~May(Rest, i, triggers[i].user, current', users')
    BY <1>1, <1>3 DEF May
  <2>4. One(May(Rest, i, triggers[i].user, current', users')) = 0 /\ One(MayFire(w, i)) \in Nat
    BY <2>3, OneRange DEF One
  <2>. QED  BY <1>1, <1>2, <2>2, <2>4 DEF Spends
<1>. QED  BY <1>1, <1>2, <1>3, <1>4, <1>5, <1>6, FireKept DEF Starting

LEMMA FireFireNext ==
    ASSUME FireInv, Inv', NEW w \in Threads, FireNext(w)
    PROVE  FireInv'
<1>. DEFINE r(id) == [thread[w] EXCEPT !.at = "first", !.trigger = id, !.left = @ \ {id},
                          !.spent = WholeShares(triggers[id].amount, cost[thread[w].timer])]
            p(id) == [thread[w] EXCEPT !.left = @ \ {id}]
<1>1. PICK id \in thread[w].left :
        /\ thread[w].at = "next" /\ UNCHANGED <<registry, triggers, faults>>
        /\ Become(w, r(id)) \/ Become(w, p(id))
  BY DEF FireNext, bounds
<1>2. Inv /\ w[1] \in {"SET_TRIGGER", "timer"} /\ faults \in Nat
      /\ Turn(w, thread[w], current, users)
  BY <1>1, KindAt, Alone DEF FireInv, Firing
<1>3. /\ r(id).at = "first" /\ r(id).trigger = id /\ r(id).left = thread[w].left \ {id}
      /\ r(id).timer = thread[w].timer /\ r(id).batch = thread[w].batch
      /\ p(id).at = "next" /\ p(id).left = thread[w].left \ {id}
      /\ p(id).timer = thread[w].timer /\ p(id).batch = thread[w].batch
  BY <1>1, <1>2, Typed DEF Thread
<1>. DEFINE x == r(id)
            y == p(id)
<1>. HIDE DEF x, y
<1>4. ASSUME NEW z \in {x, y}, Become(w, z) PROVE FireInv'
  <2>0. /\ z.left = thread[w].left \ {id} /\ z.timer = thread[w].timer /\ z.batch = thread[w].batch
        /\ (z.at = "first" /\ z.trigger = id) \/ z.at = "next"
    BY <1>3 DEF x, y
  <2>1. Others(w) /\ thread'[w] = z /\ NobodyNew
    BY <1>1, <1>4, Alone DEF registry
  <2>2. z \in Thread
    BY <2>1 DEF Inv, TypeOK
  <2>3. \A i \in 1 .. Len(triggers) : May(z, i, triggers[i].user, current, users) => MayFire(w, i)
    BY <1>1, <2>0 DEF May, MayFire
  <2>4. w[1] = "SET_TRIGGER" =>
          /\ \A i \in z.left \cup z.batch : triggers[i].user = w[2]
          /\ z.at \in {"compare"} \cup Working => triggers[z.trigger].user = w[2]
    BY <1>1, <1>2, <2>0 DEF Turn, Working
  <2>5. z.at \in Working => z.trigger \notin z.left
    BY <2>0 DEF Working
  <2>. QED  BY <1>1, <1>2, <2>0, <2>1, <2>2, <2>3, <2>4, <2>5, TurnMoves DEF registry
<1>. QED  BY <1>1, <1>4 DEF x, y

LEMMA FireFindFired ==
    ASSUME FireInv, Inv', NEW w \in Threads, FindFired(w)
    PROVE  FireInv'
<1>. DEFINE r == [thread[w] EXCEPT !.at = "drop", !.arg = current]
            p == [thread[w] EXCEPT !.at = "next"]
            u == triggers[thread[w].trigger].user
<1>1. /\ thread[w].at = "found" /\ UNCHANGED <<registry, triggers, faults>>
      /\ Become(w, r) \/ (Become(w, p) /\ ~Known(u))
  BY DEF FindFired, FiredUser, Goto, Become, bounds
<1>2. Inv /\ w[1] \in {"SET_TRIGGER", "timer"} /\ faults \in Nat
      /\ Turn(w, thread[w], current, users) /\ thread[w].trigger \in 1 .. Len(triggers)
  BY <1>1, KindAt, Alone, FiringThread DEF FireInv, Firing
<1>3. /\ r.at = "drop" /\ r.arg = current /\ r.trigger = thread[w].trigger
      /\ r.left = thread[w].left /\ r.timer = thread[w].timer /\ r.batch = thread[w].batch
      /\ p.at = "next" /\ p.trigger = thread[w].trigger
      /\ p.left = thread[w].left /\ p.timer = thread[w].timer /\ p.batch = thread[w].batch
  BY <1>2, Typed DEF Thread
<1>. HIDE DEF r, p
<1>4. ASSUME NEW z \in {r, p}, Become(w, z) PROVE Others(w) /\ thread'[w] = z /\ z \in Thread
  <2>1. Others(w) /\ thread'[w] = z
    BY <1>4, Alone
  <2>. QED  BY <2>1 DEF Inv, TypeOK
<1>5. NobodyNew
  BY <1>1, Alone DEF registry
<1>6. CASE Become(w, r)
  <2>1. \A i \in 1 .. Len(triggers) : May(r, i, triggers[i].user, current, users) => MayFire(w, i)
    BY <1>1, <1>3 DEF May, MayFire
  <2>. QED  BY <1>1, <1>2, <1>3, <1>4, <1>5, <1>6, <2>1, TurnMoves DEF Turn, Working, registry
<1>7. CASE Become(w, p) /\ ~Known(u)
  <2>1. ASSUME NEW i \in 1 .. Len(triggers), May(p, i, triggers[i].user, current, users)
        PROVE  MayFire(w, i)
    <3>1. i \in thread[w].left \/ (current # 0 /\ users[current][triggers[i].user] = i)
      BY <1>3, <2>1 DEF May
    <3>2. current # 0 /\ users[current][triggers[i].user] = i => thread[w].trigger # i
      BY <1>2, <1>7 DEF Known
    <3>. QED  BY <1>1, <3>1, <3>2 DEF May, MayFire
  <2>. QED  BY <1>1, <1>2, <1>3, <1>4, <1>5, <1>7, <2>1, TurnMoves DEF Turn, Working, registry
<1>. QED  BY <1>1, <1>6, <1>7

LEMMA FireDropFired ==
    ASSUME FireInv, Inv', NEW w \in Threads, DropFired(w)
    PROVE  FireInv'
<1>. DEFINE u == triggers[thread[w].trigger].user
<1>1. /\ thread[w].at = "drop" /\ UNCHANGED <<current, triggers, faults>>
      /\ users' = [users EXCEPT ![thread[w].arg][u] = 0] /\ Goto(w, "next")
  BY DEF DropFired, FiredUser, bounds
<1>2. Inv /\ w[1] \in {"SET_TRIGGER", "timer"} /\ faults \in Nat
      /\ Turn(w, thread[w], current, users) /\ thread[w].trigger \in 1 .. Len(triggers)
  BY <1>1, KindAt, Alone, FiringThread DEF FireInv, Firing
<1>3. PICK r \in Thread : Moves(w, r) /\ r.at = "next"
          /\ r.timer = thread[w].timer /\ r.trigger = thread[w].trigger
          /\ r.batch = thread[w].batch /\ r.left = thread[w].left
  BY <1>1, <1>2, GotoMoves, Typed DEF Positions
<1>4. NobodyNew
  BY <1>1, <1>2, Typed DEF NobodyNew
<1>5. Others(w) /\ thread'[w] = r /\ SameOwners /\ SameFired
  BY <1>1, <1>3, Alone DEF Others, Moves
<1>6. Turn(w, thread[w], current, users)'
  BY <1>1, <1>2, <1>3, <1>5 DEF Turn, Working
<1>7. ASSUME NEW i \in 1 .. Len(triggers) PROVE Spends(w, r, i)
  <2>1. triggers[i] \in Trigger
    BY <1>2, Typed
  <2>2. triggers[i].user \in Users /\ triggers[i].fired \in Nat
        /\ triggers'[i].fired = triggers[i].fired
    BY <1>5, <2>1 DEF Trigger, SameFired
  <2>3. current \in Ids \cup {0}
    BY <1>2, Typed
  <2>4. ASSUME May(r, i, triggers[i].user, current', users') PROVE MayFire(w, i)
    <3>1. i \in thread[w].left \/ (current # 0 /\ users'[current][triggers[i].user] = i)
      BY <1>1, <1>3, <2>4 DEF May
    <3>2. CASE current # 0 /\ users'[current][triggers[i].user] = i
      <4>1. users[current][triggers[i].user] = i
        BY <1>4, <2>2, <2>3, <3>2 DEF NobodyNew
      <4>2. thread[w].trigger # i
        <5>. SUFFICES ASSUME thread[w].trigger = i PROVE FALSE
          OBVIOUS
        <5>1. thread[w].arg = current
          BY <1>1, <1>2, <3>2, <4>1 DEF Turn
        <5>2. users'[current][u] = 0
          BY <1>1, <1>2, <2>2, <2>3, <3>2, <5>1, Typed
        <5>. QED  BY <3>2, <5>2
      <4>. QED  BY <1>1, <3>2, <4>1, <4>2 DEF MayFire, May
    <3>. QED  BY <3>1, <3>2 DEF MayFire, May
  <2>5. One(May(r, i, triggers[i].user, current', users')) <= One(MayFire(w, i))
        /\ One(May(r, i, triggers[i].user, current', users')) \in Nat /\ One(MayFire(w, i)) \in Nat
    BY <2>4, MayBoolean, OneGrows, OneRange DEF MayFire
  <2>. QED  BY <1>1, <1>2, <2>2, <2>5 DEF Spends
<1>8. w[1] = "timer" => thread[w].at # "idle" /\ r.at # "idle"
  BY <1>1, <1>3
<1>. QED  BY <1>1, <1>2, <1>3, <1>4, <1>5, <1>6, <1>7, <1>8, FireKept DEF Starting

(* What the second payment does to the triggers. *)
LEMMA SecondCounts ==
    ASSUME FireInv, NEW w \in Threads, PaySecond(w)
    PROVE  /\ Inv /\ thread[w].at = "second" /\ w[1] \in {"SET_TRIGGER", "timer"}
           /\ Turn(w, thread[w], current, users) /\ thread[w].trigger \in 1 .. Len(triggers)
           /\ UNCHANGED registry /\ NobodyNew /\ SameOwners
           /\ \A i \in 1 .. Len(triggers) :
                /\ triggers[i].fired \in Nat
                /\ triggers'[i].fired =
                     IF i = thread[w].trigger THEN triggers[i].fired + 1 ELSE triggers[i].fired
<1>. DEFINE i == thread[w].trigger
            t == [triggers[i] EXCEPT !.fired = @ + 1]
<1>1. /\ thread[w].at = "second" /\ UNCHANGED registry
      /\ triggers' = [triggers EXCEPT ![i] = t]
  BY DEF PaySecond
<1>2. Inv /\ w[1] \in {"SET_TRIGGER", "timer"} /\ i \in 1 .. Len(triggers)
      /\ Turn(w, thread[w], current, users)
  BY <1>1, FiringThread DEF FireInv, Firing
<1>3. triggers[i] \in Trigger /\ triggers \in Seq(Trigger)
  BY <1>2, Typed
<1>4. t.user = triggers[i].user /\ t.fired = triggers[i].fired + 1
  BY <1>3 DEF Trigger
<1>5. ASSUME NEW j \in 1 .. Len(triggers) PROVE triggers[j].fired \in Nat
  <2>1. triggers[j] \in Trigger
    BY <1>3
  <2>. QED  BY <2>1 DEF Trigger
<1>. HIDE DEF t
<1>6. SameOwners
  BY <1>1, <1>2, <1>4, MarkedOwners
<1>7. \A j \in 1 .. Len(triggers) : triggers'[j] = IF j = i THEN t ELSE triggers[j]
  BY <1>1, <1>3
<1>8. NobodyNew
  BY <1>1, Alone DEF registry
<1>. QED  BY <1>1, <1>2, <1>4, <1>5, <1>6, <1>7, <1>8

LEMMA FirePay ==
    ASSUME FireInv, Inv', NEW w \in Threads, Pay(w)
    PROVE  FireInv'
<1>0. PaySecond(w) /\ Goto(w, "found") /\ UNCHANGED <<faults>>
  BY DEF Pay, bounds
<1>1. /\ Inv /\ thread[w].at = "second" /\ w[1] \in {"SET_TRIGGER", "timer"}
      /\ Turn(w, thread[w], current, users) /\ thread[w].trigger \in 1 .. Len(triggers)
      /\ UNCHANGED <<current, users>> /\ NobodyNew /\ SameOwners /\ faults \in Nat
  BY <1>0, SecondCounts, Alone DEF registry
<1>2. PICK r \in Thread : Moves(w, r) /\ r.at = "found"
          /\ r.timer = thread[w].timer /\ r.trigger = thread[w].trigger
          /\ r.batch = thread[w].batch /\ r.left = thread[w].left
  BY <1>0, <1>1, GotoMoves, Typed DEF Positions
<1>3. Others(w) /\ thread'[w] = r
  BY <1>2 DEF Others, Moves
<1>4. r.left \subseteq 1 .. Len(triggers) /\ r.batch \subseteq 1 .. Len(triggers)
  BY <1>1, <1>2, Typed DEF Sound
<1>5. Turn(w, thread[w], current, users)'
  BY <1>1, <1>2, <1>3, <1>4 DEF Turn, Working, SameOwners
<1>6. ASSUME NEW i \in 1 .. Len(triggers) PROVE Spends(w, r, i)
  <2>1. /\ triggers[i].fired \in Nat
        /\ triggers'[i].fired =
             IF i = thread[w].trigger THEN triggers[i].fired + 1 ELSE triggers[i].fired
    BY <1>0, SecondCounts
  <2>2. CASE i = thread[w].trigger
    <3>1. triggers[i].user = w[2] \/ w[1] = "timer"
      BY <1>1, <2>2 DEF Turn, Working
    <3>2. Completer(w, i)
      <4>1. w[1] = "timer" \/ w = <<"SET_TRIGGER", w[2]>>
        BY <1>1, ThreadKinds
      <4>. QED  BY <1>1, <3>1, <4>1 DEF Completer
    <3>3. MayFire(w, i) /\ ~May(r, i, triggers[i].user, current', users')
      BY <1>1, <1>2, <2>2 DEF MayFire, May, Turn, Working
    <3>4. One(MayFire(w, i)) = 1 /\ One(May(r, i, triggers[i].user, current', users')) = 0
      BY <3>3 DEF One
    <3>. QED  BY <1>0, <1>1, <2>1, <2>2, <3>2, <3>4 DEF Spends
  <2>3. CASE i # thread[w].trigger
    <3>1. May(r, i, triggers[i].user, current', users') => MayFire(w, i)
      BY <1>1, <1>2, <2>3 DEF MayFire, May
    <3>2. One(May(r, i, triggers[i].user, current', users')) <= One(MayFire(w, i))
          /\ One(May(r, i, triggers[i].user, current', users')) \in Nat /\ One(MayFire(w, i)) \in Nat
      BY <3>1, MayBoolean, OneGrows, OneRange DEF MayFire
    <3>. QED  BY <1>0, <1>1, <2>1, <2>3, <3>2 DEF Spends
  <2>. QED  BY <2>2, <2>3
<1>7. w[1] = "timer" => thread[w].at # "idle" /\ r.at # "idle"
  BY <1>1, <1>2
<1>. QED  BY <1>1, <1>2, <1>3, <1>5, <1>6, <1>7, FireKept DEF Starting

-----------------------------------------------------------------------------
(* A fault: the batch is run again, and may complete everything once more. *)
LEMMA FireRestart ==
    ASSUME FireInv, Inv', NEW w \in Threads, Again(w),
           w[1] \in {"SET_TRIGGER", "timer"}, thread[w].at \in {"first", "second"},
           UNCHANGED registry, SameOwners,
           \A i \in 1 .. Len(triggers) :
             \/ triggers'[i].fired = triggers[i].fired
             \/ /\ triggers'[i].fired = triggers[i].fired + 1
                /\ thread[w].at = "second" /\ i = thread[w].trigger
    PROVE  FireInv'
<1>. DEFINE r == Restarted(w)
<1>1. /\ Inv /\ Turn(w, thread[w], current, users) /\ NobodyNew
      /\ faults' = faults + 1 /\ faults \in Nat /\ Become(w, r) /\ UNCHANGED <<current, users>>
  BY Alone DEF FireInv, Again, registry
<1>2. /\ r.at = "next" /\ r.timer = thread[w].timer
      /\ r.left = thread[w].batch /\ r.batch = thread[w].batch
  BY <1>1, Typed DEF Restarted, Thread
<1>. HIDE DEF r
<1>3. Others(w) /\ thread'[w] = r
  BY <1>1, Alone
<1>4. r.left \subseteq 1 .. Len(triggers) /\ r.batch \subseteq 1 .. Len(triggers)
  BY <1>1, <1>2, Typed DEF Sound
<1>5. Turn(w, thread[w], current, users)'
  BY <1>1, <1>2, <1>3, <1>4 DEF Turn, Working, SameOwners
<1>6. ASSUME NEW i \in 1 .. Len(triggers) PROVE Spends(w, r, i)
  <2>1. triggers[i] \in Trigger
    BY <1>1, Typed
  <2>2. triggers[i].fired \in Nat
    BY <2>1 DEF Trigger
  <2>3. One(May(r, i, triggers[i].user, current', users')) \in {0, 1} /\ One(MayFire(w, i)) \in {0, 1}
    BY OneRange
  <2>4. CASE triggers'[i].fired = triggers[i].fired
    BY <1>1, <2>2, <2>3, <2>4 DEF Spends
  <2>5. CASE /\ triggers'[i].fired = triggers[i].fired + 1
             /\ thread[w].at = "second" /\ i = thread[w].trigger
    <3>1. triggers[i].user = w[2] \/ w[1] = "timer"
      BY <1>1, <2>5 DEF Turn, Working
    <3>2. Completer(w, i)
      <4>1. w[1] = "timer" \/ w = <<"SET_TRIGGER", w[2]>>
        BY ThreadKinds
      <4>. QED  BY <3>1, <4>1 DEF Completer
    <3>3. One(MayFire(w, i)) = 1
      BY <2>5 DEF One, MayFire, May
    <3>. QED  BY <1>1, <2>2, <2>3, <2>5, <3>2, <3>3 DEF Spends
  <2>. QED  BY <2>4, <2>5
<1>7. w[1] = "timer" => thread[w].at # "idle" /\ r.at # "idle"
  BY <1>2
<1>. QED  BY <1>1, <1>2, <1>3, <1>5, <1>6, <1>7, FireKept DEF Starting

LEMMA FireFault ==
    ASSUME FireInv, Inv', NEW w \in Threads, Fault(w) \/ AnswerLost(w)
    PROVE  FireInv'
<1>1. Inv /\ Again(w) /\ faults \in Nat /\ faults' \in Nat /\ faults <= faults'
  BY Alone DEF FireInv, Fault, AnswerLost, Again
<1>2. ASSUME w[1] \in {"SET_AMOUNT", "CANCEL"}
      PROVE  Others(w) /\ thread'[w].at # "register"
  <2>. DEFINE r == Restarted(w)
  <2>1. r.at \in {"check", "return"}
    BY <1>1, <1>2, Typed DEF Restarted, Thread
  <2>2. Become(w, r)
    BY <1>1 DEF Again
  <2>. HIDE DEF r
  <2>3. Others(w) /\ thread'[w] = r
    BY <2>2, Alone
  <2>. QED  BY <2>1, <2>3
<1>3. CASE Fault(w)
  <2>1. /\ thread[w].at \in {"check", "hold", "return", "first", "second"}
        /\ UNCHANGED <<registry, triggers>>
    BY <1>3 DEF Fault
  <2>2. CASE thread[w].at \in {"check", "hold", "return"}
    <3>1. w[1] \in {"SET_AMOUNT", "CANCEL"}
      BY <1>1, <2>2, KindAt
    <3>. QED  BY <1>1, <1>2, <2>1, <3>1, AmountSteps
  <2>3. CASE thread[w].at \in {"first", "second"}
    <3>1. w[1] \in {"SET_TRIGGER", "timer"}
      BY <1>1, <2>3, KindAt DEF Firing
    <3>2. SameOwners
      BY <2>1, Alone
    <3>. QED  BY <1>1, <2>1, <2>3, <3>1, <3>2, FireRestart
  <2>. QED  BY <2>1, <2>2, <2>3
<1>4. CASE HoldAmount(w) \/ ReturnAmount(w)
  <2>1. w[1] \in {"SET_AMOUNT", "CANCEL"} /\ UNCHANGED registry
    BY <1>1, <1>4, HoldEffect, ReturnEffect
  <2>2. SameOwners /\ SameFired
    BY <1>4, AmountOwners
  <2>. QED  BY <1>1, <1>2, <2>1, <2>2, Alone, AmountKept DEF Starting, registry
<1>5. CASE PaySecond(w)
  BY <1>1, <1>5, SecondCounts, FireRestart
<1>. QED  BY <1>3, <1>4, <1>5 DEF AnswerLost
-----------------------------------------------------------------------------
(* The two steps that make something: a timer, a trigger. *)
LEMMA FireMakes ==
    ASSUME FireInv, Inv', NEW w \in Threads, NEW r \in Thread, w[1] = "SET_AMOUNT",
           r.at = "register", r.fresh, r.timer = born + 1,
           current = 0, current' = born + 1, Others(w), thread'[w] = r,
           UNCHANGED <<users, triggers, faults>>
    PROVE  FireInv'
<1>1. Inv /\ born \in Nat /\ born + 1 \in Ids /\ born + 1 # 0
  <2>1. Inv /\ born \in Nat /\ current' \in Ids \cup {0}
    BY Typed DEF FireInv, Inv, TypeOK
  <2>. QED  BY <2>1
<1>2. \A v \in Loops : v # w /\ v \in Threads /\ thread'[v] = thread[v]
                       /\ thread[v].at = "idle" /\ thread[v].left = {}
  BY <1>1, ThreadKinds, Constants DEF Others, FireInv, OneLoop
<1>3. ASSUME NEW v \in Threads \ {w} PROVE ~Starting(v) /\ ~Starting(v)'
  <2>1. thread'[v] = thread[v] /\ (thread[v].at = "register" => thread[v].timer # 0)
    BY <1>1, Typed DEF Others, Sound
  <2>2. ~Starting(v)
    BY <2>1 DEF Starting, FireInv, OneLoop
  <2>. QED  BY <2>1, <2>2 DEF Starting
<1>4. OneLoop'
  <2>1. <<"timer", born + 1>> \in Loops
    BY <1>1, ThreadKinds
  <2>. QED  BY <1>2, <1>3, <2>1 DEF OneLoop
<1>5. \A u \in Users : users[born + 1][u] = 0
  BY <1>1 DEF Inv, Registry
<1>6. ASSUME NEW v \in Threads \ {w} PROVE Turn(v, thread[v], current, users)'
  <2>. DEFINE k == thread[v]
  <2>1. k' = k /\ Turn(v, k, current, users) /\ Sound(v, k)
    BY <1>1, Typed DEF Others, FireInv
  <2>2. k.at = "drop" => k.trigger # 0 /\ triggers[k.trigger].user \in Users
    <3>1. k.at = "drop" => k.trigger \in 1 .. Len(triggers)
      BY <1>1, <2>1, Typed DEF Sound
    <3>2. k.at = "drop" => triggers[k.trigger] \in Trigger /\ k.trigger # 0
      BY <1>1, <3>1, Typed
    <3>. QED  BY <3>2 DEF Trigger
  <2>. HIDE DEF k
  <2>. QED  BY <1>5, <2>1, <2>2 DEF Turn, k
<1>7. Turn(w, thread[w], current, users)'
  BY DEF Turn, Working
<1>8. ASSUME NEW i \in 1 .. Len(triggers') PROVE Credit(i)'
  <2>. DEFINE u == triggers[i].user
              h == <<"SET_TRIGGER", u>>
              l == <<"timer", born + 1>>
  <2>1. i \in 1 .. Len(triggers) /\ Credit(i) /\ i # 0
    BY <1>1, Typed DEF FireInv
  <2>2. triggers[i] \in Trigger
    BY <1>1, <2>1, Typed
  <2>3. u \in Users /\ triggers[i].fired \in Nat /\ faults \in Nat
    BY <2>2, Alone DEF Trigger
  <2>4. h \in Threads \ {w} /\ l \in Loops
    BY <1>1, <2>3, ThreadKinds DEF Kinds
  <2>5. thread'[h] = thread[h]
    BY <2>4 DEF Others
  <2>6. MayFire(h, i)' => MayFire(h, i)
    BY <1>5, <2>1, <2>3, <2>5 DEF MayFire, May
  <2>7. ~May(thread'[l], i, u, born + 1, users)
    <3>1. thread'[l].at = "idle" /\ thread'[l].left = {}
      BY <1>2, <2>4
    <3>. QED  BY <1>5, <2>1, <2>3, <3>1 DEF May
  <2>8. One(MayFire(h, i))' <= One(MayFire(h, i)) /\ One(MayFire(h, i))' \in Nat
        /\ One(MayFire(h, i)) \in Nat
    BY <2>6 DEF One
  <2>9. One(current # 0 /\ MayFire(<<"timer", current>>, i))' = 0
        /\ One(current # 0 /\ MayFire(<<"timer", current>>, i)) \in Nat
    BY <2>7 DEF One, MayFire
  <2>. DEFINE a == One(MayFire(h, i))
              b == One(current # 0 /\ MayFire(<<"timer", current>>, i))
  <2>10. triggers[i].fired + a + b <= 2 + faults
    BY <2>1 DEF Credit
  <2>11. a' <= a /\ a' \in Nat /\ a \in Nat /\ b' = 0 /\ b \in Nat
    BY <2>8, <2>9
  <2>12. (triggers[i].fired + a + b <= 2 + faults)'
    <3>. HIDE DEF a, b
    <3>. QED  BY <2>3, <2>10, <2>11
  <2>. QED  BY <2>12 DEF Credit
<1>. QED  BY <1>4, <1>6, <1>7, <1>8 DEF FireInv

LEMMA FireEnter ==
    ASSUME FireInv, Inv', NEW w \in Threads, Enter(w)
    PROVE  FireInv'
<1>. DEFINE onward == IF w[1] = "SET_AMOUNT" THEN "register" ELSE "update"
            r == [thread[w] EXCEPT !.at = onward, !.timer = current, !.fresh = FALSE]
            m == [thread[w] EXCEPT !.at = onward, !.timer = born + 1, !.fresh = TRUE]
<1>1. thread[w].at = "enter" /\ UNCHANGED <<users, cost, triggers, faults>>
  BY DEF Enter, bounds
<1>2. Inv /\ w[1] \in {"SET_AMOUNT", "SET_TRIGGER"} /\ faults \in Nat
      /\ Turn(w, thread[w], current, users)
  BY <1>1, KindAt, Alone DEF FireInv
<1>3. CASE current # 0 /\ Become(w, r) /\ UNCHANGED <<current, born>>
  <2>1. /\ r.at = onward /\ r.timer = current /\ ~r.fresh /\ r.trigger = thread[w].trigger
        /\ r.left = thread[w].left /\ r.batch = thread[w].batch
    BY <1>2, Typed DEF Thread
  <2>. HIDE DEF r
  <2>2. Others(w) /\ thread'[w] = r /\ NobodyNew /\ SameOwners /\ SameFired
    BY <1>1, <1>3, Alone
  <2>3. r \in Thread
    BY <2>2 DEF Inv, TypeOK
  <2>4. CASE w[1] = "SET_AMOUNT"
    BY <1>1, <1>2, <1>3, <2>1, <2>2, <2>4, AmountKept DEF Starting
  <2>5. CASE w[1] = "SET_TRIGGER"
    <3>1. \A i \in 1 .. Len(triggers) : May(r, i, triggers[i].user, current, users) => MayFire(w, i)
      BY <1>1, <1>3, <2>1, <2>5 DEF May, MayFire
    <3>. QED  BY <1>1, <1>2, <1>3, <2>1, <2>2, <2>3, <2>5, <3>1, TurnMoves DEF Turn, Working
  <2>. QED  BY <1>2, <2>4, <2>5
<1>4. CASE /\ current = 0 /\ w[1] = "SET_AMOUNT" /\ current' = born + 1 /\ Become(w, m)
  <2>1. m.at = "register" /\ m.timer = born + 1 /\ m.fresh
    BY <1>2, <1>4, Typed DEF Thread
  <2>. HIDE DEF m
  <2>2. Others(w) /\ thread'[w] = m
    BY <1>4, Alone
  <2>3. m \in Thread
    BY <2>2 DEF Inv, TypeOK
  <2>. QED  BY <1>1, <1>4, <2>1, <2>2, <2>3, FireMakes
<1>5. CASE current = 0 /\ w[1] = "SET_TRIGGER" /\ Finish(w, FALSE) /\ UNCHANGED <<current, born>>
  BY <1>1, <1>5, TurnFinish DEF registry
<1>. QED  BY <1>3, <1>4, <1>5 DEF Enter

(* Thread v completes no more than before when another one registers. *)
LEMMA FireRegisters ==
    ASSUME FireInv, Inv', NEW w \in Threads, NEW l \in Threads, NEW r \in Thread, NEW q \in Thread,
           Registers(w, r, l, q)
    PROVE  FireInv'
<1>. DEFINE id == Len(triggers) + 1
<1>1. /\ Inv /\ w[1] = "SET_AMOUNT" /\ thread[w].at = "register" /\ w[2] \in Users
      /\ l[1] = "timer" /\ l # w /\ l = <<"timer", thread[w].timer>> /\ thread[w].timer \in Ids
      /\ UNCHANGED <<current, faults>> /\ Len(triggers) \in Nat /\ triggers \in Seq(Trigger)
      /\ thread \in [Threads -> Thread]
  <2>1. /\ Inv /\ w[1] = "SET_AMOUNT" /\ thread[w].at = "register"
        /\ l = <<"timer", thread[w].timer>> /\ UNCHANGED <<current, faults>>
    BY DEF Registers, FireInv, bounds
  <2>2. w[2] \in Users /\ l[1] = "timer" /\ thread[w].timer \in Ids
    BY <2>1, KindAt, Typed DEF Sound, Thread
  <2>. QED  BY <2>1, <2>2, Typed
<1>2. /\ thread'[w] = r /\ thread'[l] = q
      /\ \A v \in Threads \ {w, l} : thread'[v] = thread[v]
  BY <1>1 DEF Registers
<1>3. /\ r.at = "hold" /\ q.arg = thread[l].arg /\ q.trigger = thread[l].trigger
      /\ q.batch = thread[l].batch /\ q.left = thread[l].left
      /\ \/ thread[w].fresh /\ q.at = "poll" /\ q.timer = thread[w].timer
         \/ ~thread[w].fresh /\ q.at = thread[l].at /\ q.timer = thread[l].timer
  BY DEF Registers
<1>4. /\ Len(triggers') = id /\ triggers'[id].fired = 0 /\ triggers'[id].user = w[2]
      /\ \A i \in 1 .. Len(triggers) : triggers'[i] = triggers[i]
  <2>. DEFINE t == [user |-> w[2], amount |-> thread[w].arg, limit |-> 0,
                    held |-> 0, fired |-> 0, canceled |-> FALSE]
  <2>1. triggers' = Append(triggers, t) /\ t.fired = 0 /\ t.user = w[2]
    BY DEF Registers
  <2>2. triggers' \in Seq(Trigger)
    BY DEF Inv, TypeOK
  <2>. HIDE DEF t
  <2>. QED  BY <1>1, <2>1, <2>2
<1>5. ASSUME NEW c \in Ids, NEW u \in Users, NEW i \in 1 .. Len(triggers), users'[c][u] = i
      PROVE  users[c][u] = i
  <2>1. users' = [users EXCEPT ![thread[w].timer][w[2]] = id]
    BY DEF Registers
  <2>2. <<c, u>> # <<thread[w].timer, w[2]>>
    BY <1>1, <1>5, <2>1, Typed
  <2>. QED  BY <1>1, <1>5, <2>1, <2>2, Typed
<1>6. OneLoop'
  <2>0. OneLoop /\ current' = current
    BY <1>1 DEF FireInv
  <2>1. ASSUME NEW v \in Loops
        PROVE  /\ thread'[v].at # "idle" => v[2] = current /\ thread'[v].timer = current
               /\ thread'[v].at = "idle" => thread'[v].left = {}
    <3>1. v \in Threads /\ v # w
      BY <1>1, ThreadKinds
    <3>2. CASE v # l
      BY <1>2, <2>0, <3>1, <3>2 DEF OneLoop
    <3>3. CASE v = l
      <4>1. CASE thread[w].fresh
        <5>1. thread[w].timer = current
          BY <1>1, <2>0, <4>1 DEF OneLoop, Starting
        <5>. QED  BY <1>1, <1>2, <1>3, <3>3, <4>1, <5>1
      <4>2. CASE ~thread[w].fresh
        BY <1>2, <1>3, <2>0, <3>3, <4>2 DEF OneLoop
      <4>. QED  BY <4>1, <4>2
    <3>. QED  BY <3>2, <3>3
  <2>2. ASSUME NEW v \in Threads, Starting(v)'
        PROVE  /\ Starting(v) /\ v # w /\ v # l /\ thread'[v] = thread[v]
    BY <1>1, <1>2, <1>3, <2>2 DEF Starting
  <2>3. ASSUME NEW v \in Threads, Starting(v)'
        PROVE  /\ thread'[v].timer = current /\ thread'[<<"timer", current>>].at = "idle"
               /\ \A x \in Threads : Starting(x)' => x = v
    <3>1. Starting(v) /\ v # w /\ thread'[v] = thread[v]
      BY <2>2, <2>3
    <3>2. ~thread[w].fresh
      BY <1>1, <2>0, <3>1 DEF OneLoop, Starting
    <3>3. thread'[<<"timer", current>>].at = thread[<<"timer", current>>].at
      <4>1. current # 0
        BY <1>1, <2>0, <3>1, Typed DEF OneLoop, Starting, Sound
      <4>2. <<"timer", current>> \in Threads /\ <<"timer", current>> # w
        BY <1>1, <4>1, Typed, ThreadKinds
      <4>. QED  BY <1>2, <1>3, <3>2, <4>2
    <3>. QED  BY <2>0, <2>2, <3>1, <3>3 DEF OneLoop
  <2>. QED  BY <2>0, <2>1, <2>3 DEF OneLoop
(* As far as completing triggers goes, every thread stands where it stood. *)
<1>. DEFINE Still(v) ==
       /\ thread'[v].at = thread[v].at \/ thread'[v].at \in {"hold", "poll"}
       /\ thread'[v].trigger = thread[v].trigger \/ thread'[v].at \in {"hold", "poll"}
       /\ thread'[v].arg = thread[v].arg /\ thread'[v].left = thread[v].left
       /\ thread'[v].batch = thread[v].batch
       /\ thread'[v].timer = thread[v].timer \/ thread'[v].at = "poll"
<1>7. \A v \in Threads \ {w} : Still(v)
  BY <1>2, <1>3
<1>8. ASSUME NEW v \in Threads \ {w} PROVE Turn(v, thread[v], current, users)'
  <2>. DEFINE k == thread[v]
  <2>1. Still(v) /\ Turn(v, k, current, users) /\ Sound(v, k) /\ current \in Ids \cup {0}
    BY <1>1, <1>7, Typed DEF FireInv
  <2>2. k.at \in {"compare"} \cup Working => k.trigger \in 1 .. Len(triggers)
    BY <1>1, <2>1, Typed DEF Sound, Working
  <2>3. k.left \subseteq 1 .. Len(triggers) /\ k.batch \subseteq 1 .. Len(triggers)
    BY <2>1 DEF Sound
  <2>4. k'.at = "drop" => k' .trigger = k.trigger /\ triggers'[k.trigger].user \in Users
                          /\ triggers'[k.trigger] = triggers[k.trigger] /\ k.at = "drop"
    <3>1. k'.at = "drop" => k.at = "drop" /\ k'.trigger = k.trigger
      BY <2>1
    <3>2. k.at = "drop" => k.trigger \in 1 .. Len(triggers)
      BY <2>2 DEF Working
    <3>3. k.at = "drop" => triggers[k.trigger] \in Trigger
      BY <1>1, <3>2
    <3>. QED  BY <1>4, <3>1, <3>2, <3>3 DEF Trigger
  <2>5. ASSUME k'.at = "drop", current' # 0, users'[current'][triggers'[k'.trigger].user] = k'.trigger
        PROVE  k'.arg = current'
    <3>1. current \in Ids /\ current' = current /\ k.trigger \in 1 .. Len(triggers)
      BY <1>1, <2>1, <2>2, <2>4, <2>5 DEF Working
    <3>2. users[current][triggers[k.trigger].user] = k.trigger
      BY <1>5, <2>4, <2>5, <3>1
    <3>. QED  BY <2>1, <2>4, <2>5, <3>1, <3>2 DEF Turn
  <2>6. v[1] = "SET_TRIGGER" =>
          /\ \A i \in k'.left \cup k'.batch : triggers'[i].user = v[2]
          /\ k'.at \in {"compare"} \cup Working => triggers'[k'.trigger].user = v[2]
    BY <1>4, <2>1, <2>2, <2>3 DEF Turn, Working
  <2>7. k'.at \in Working => k'.trigger \notin k'.left
    BY <2>1 DEF Turn, Working
  <2>. HIDE DEF k
  <2>. QED  BY <2>5, <2>6, <2>7 DEF Turn, k
<1>9. Turn(w, thread[w], current, users)'
  BY <1>1, <1>2, <1>3 DEF Turn, Working
<1>10. ASSUME NEW i \in 1 .. Len(triggers), NEW v \in Threads \ {w}, current # 0 \/ v[1] = "SET_TRIGGER",
              MayFire(v, i)'
       PROVE  MayFire(v, i)
  <2>1. /\ Still(v) /\ current \in Ids \cup {0} /\ current' = current
        /\ triggers'[i].user = triggers[i].user
    BY <1>1, <1>4, <1>7, Typed
  <2>2. triggers[i] \in Trigger
    BY <1>1
  <2>3. triggers[i].user \in Users
    BY <2>2 DEF Trigger
  <2>4. May(thread'[v], i, triggers[i].user, current, users')
    BY <1>10, <2>1 DEF MayFire
  <2>5. CASE i \in thread'[v].left \/ (thread'[v].at \in {"compare", "first", "second"} /\ thread'[v].trigger = i)
    BY <2>1, <2>5 DEF MayFire, May
  <2>6. CASE /\ ~(thread'[v].at \in {"found", "drop"} /\ thread'[v].trigger = i)
             /\ current # 0 /\ users'[current][triggers[i].user] = i
    <3>1. users[current][triggers[i].user] = i
      BY <1>5, <2>1, <2>3, <2>6
    <3>2. ~(thread[v].at \in {"found", "drop"} /\ thread[v].trigger = i)
      BY <1>1, <1>2, <1>3, <1>6, <2>6 DEF FireInv, OneLoop, Starting
    <3>. QED  BY <2>6, <3>1, <3>2 DEF MayFire, May
  <2>7. CASE thread'[v].at = "update" /\ users'[thread'[v].timer][triggers[i].user] = i
    <3>1. thread[v].at = "update" /\ thread'[v].timer = thread[v].timer
      BY <2>1, <2>7
    <3>2. thread[v].timer \in Ids
      BY <1>1, <3>1, Typed DEF Sound, Thread
    <3>. QED  BY <1>5, <2>3, <2>7, <3>1, <3>2 DEF MayFire, May
  <2>. QED  BY <2>4, <2>5, <2>6, <2>7 DEF May
<1>11. ASSUME NEW i \in 1 .. Len(triggers') PROVE Credit(i)'
  <2>. DEFINE u == triggers'[i].user
  <2>0. triggers'[i] \in Trigger
    BY DEF Inv, TypeOK
  <2>1. u \in Users /\ faults \in Nat /\ faults' = faults
    BY <1>1, <2>0, Alone DEF Trigger
  <2>2. PICK h \in Threads \ {w} : h = <<"SET_TRIGGER", u>>
    BY <1>1, <2>1, ThreadKinds DEF Kinds
  <2>3. CASE i = id
    <3>1. triggers'[i].fired = 0
      BY <1>4, <2>3
    <3>. DEFINE a == One(MayFire(<<"SET_TRIGGER", triggers[i].user>>, i))
                b == One(current # 0 /\ MayFire(<<"timer", current>>, i))
    <3>2. a' \in {0, 1} /\ b' \in {0, 1}
      BY OneRange DEF One
    <3>3. (triggers[i].fired + a + b <= 2 + faults)'
      <4>. HIDE DEF a, b
      <4>1. PICK x \in {0, 1}, y \in {0, 1} : x = a' /\ y = b'
        BY <3>2
      <4>2. 0 + x + y <= 2 + faults
        BY <2>1
      <4>. QED  BY <2>1, <3>1, <4>1, <4>2
    <3>. QED  BY <3>3 DEF Credit
  <2>4. CASE i # id
    <3>1. i \in 1 .. Len(triggers) /\ triggers'[i] = triggers[i]
      BY <1>1, <1>4, <2>4
    <3>2. Credit(i) /\ triggers[i].fired \in Nat
      <4>1. triggers[i] \in Trigger
        BY <1>1, <3>1
      <4>. QED  BY <3>1, <4>1 DEF FireInv, Trigger
    <3>. DEFINE a == One(MayFire(<<"SET_TRIGGER", triggers[i].user>>, i))
                b == One(current # 0 /\ MayFire(<<"timer", current>>, i))
    <3>3. a' <= a /\ a \in Nat /\ a' \in Nat
      <4>1. MayFire(<<"SET_TRIGGER", triggers[i].user>>, i)'
              => MayFire(<<"SET_TRIGGER", triggers[i].user>>, i)
        <5>1. MayFire(h, i)' => MayFire(h, i)
          BY <1>10, <2>2, <3>1
        <5>. QED  BY <2>2, <3>1, <5>1 DEF MayFire
      <4>. QED  BY <4>1 DEF One
    <3>4. b' <= b /\ b \in Nat /\ b' \in Nat
      <4>1. (current # 0 /\ MayFire(<<"timer", current>>, i))'
              => current # 0 /\ MayFire(<<"timer", current>>, i)
        <5>. SUFFICES ASSUME current' # 0, MayFire(<<"timer", current>>, i)'
                      PROVE  current # 0 /\ MayFire(<<"timer", current>>, i)
          OBVIOUS
        <5>1. PICK l0 \in Threads \ {w} : l0 = <<"timer", current>> /\ current # 0
          BY <1>1, ThreadKinds, Typed
        <5>2. MayFire(l0, i)'
          BY <1>1, <5>1 DEF MayFire
        <5>3. MayFire(l0, i)
          BY <1>10, <3>1, <5>1, <5>2
        <5>. QED  BY <5>1, <5>3
      <4>. QED  BY <4>1 DEF One
    <3>5. triggers[i].fired + a + b <= 2 + faults
      BY <3>2 DEF Credit
    <3>6. (triggers[i].fired + a + b <= 2 + faults)'
      <4>1. (triggers[i].fired)' = triggers[i].fired
        BY <3>1
      <4>. HIDE DEF a, b
      <4>. QED  BY <2>1, <3>2, <3>3, <3>4, <3>5, <4>1
    <3>. QED  BY <3>6 DEF Credit
  <2>. QED  BY <2>3, <2>4
<1>. QED  BY <1>6, <1>8, <1>9, <1>11 DEF FireInv

LEMMA FireRegister ==
    ASSUME FireInv, Inv', NEW w \in Threads, Register(w)
    PROVE  FireInv'
<1>1. /\ thread[w].at = "register" /\ UNCHANGED <<accounts, current, born, cost, bounds>>
      /\ Inv /\ faults \in Nat /\ UNCHANGED faults
  BY Alone DEF Register, FireInv, bounds
<1>2. w[1] = "SET_AMOUNT" /\ thread[w].timer \in Ids
  BY <1>1, KindAt, Typed DEF Sound, Thread
<1>3. CASE Finish(w, FALSE) /\ UNCHANGED <<users, triggers>>
  <2>1. Others(w) /\ thread'[w].at # "register"
    BY <1>1, <1>3, Typed DEF Finish, Others, Thread
  <2>. QED  BY <1>1, <1>2, <1>3, <2>1, AmountSteps DEF registry
<1>4. ASSUME NEW r \in Thread, NEW l \in Threads, NEW q \in Thread, Registers(w, r, l, q)
      PROVE  FireInv'
  BY <1>4, FireRegisters
<1>. QED  BY <1>1, <1>3, <1>4, RegisterForms

-----------------------------------------------------------------------------
LEMMA InitFire ==
    ASSUME Init
    PROVE  FireInv
<1>1. Inv /\ current = 0 /\ Len(triggers) = 0
  BY InitInv DEF Init
<1>2. \A w \in Threads : thread[w] = Rest
  BY DEF Init
<1>3. Rest.at = "idle" /\ Rest.left = {} /\ Rest.batch = {}
  BY DEF Rest
<1>4. OneLoop
  BY <1>2, <1>3, ThreadKinds DEF OneLoop, Starting
<1>5. \A w \in Threads : Turn(w, thread[w], current, users)
  BY <1>2, <1>3 DEF Turn, Working
<1>. QED  BY <1>1, <1>4, <1>5 DEF FireInv

LEMMA FireCommand ==
    ASSUME FireInv, Inv', NEW u \in Users,
           ReceiveSetAmount(u) \/ ReceiveSetTrigger(u) \/ ReceiveCancel(u)
    PROVE  FireInv'
<1>1. CASE ReceiveSetAmount(u)
  <2>1. PICK a \in Amounts : Receive("SET_AMOUNT", u, a, "check")
    BY <1>1 DEF ReceiveSetAmount
  <2>. QED  BY <2>1, FireReceive, Constants DEF Kinds
<1>2. CASE ReceiveSetTrigger(u)
  <2>1. PICK n \in Limits : Receive("SET_TRIGGER", u, n, "enter")
    BY <1>2 DEF ReceiveSetTrigger
  <2>. QED  BY <2>1, FireReceive, Constants DEF Kinds
<1>3. CASE ReceiveCancel(u)
  BY <1>3, FireReceive, Constants DEF Kinds, ReceiveCancel
<1>. QED  BY <1>1, <1>2, <1>3

LEMMA FireProgress ==
    ASSUME FireInv, Inv', NEW w \in Threads, Progress(w)
    PROVE  FireInv'
<1>1. CASE HandlerStep(w)
  BY <1>1, FireCheck, FireEnter, FireRegister, FireAmount, FireUpdate, FireCompare, FireTake,
     FireReply DEF HandlerStep
<1>2. CASE LoopStep(w)
  BY <1>2, FireMove, FireQuote, FireExit DEF LoopStep
<1>3. CASE FireStep(w)
  BY <1>3, FireFireNext, FireFiredAll, FireMove, FirePay, FireFindFired, FireDropFired
     DEF FireStep
<1>. QED  BY <1>1, <1>2, <1>3 DEF Progress

LEMMA NextFire ==
    ASSUME FireInv, [Next]_vars
    PROVE  FireInv'
<1>0. Inv'
  BY NextInv DEF FireInv
<1>1. CASE UNCHANGED vars
  <2>. USE <1>1 DEF vars, FireInv
  <2>1. OneLoop'
    BY DEF OneLoop, Starting
  <2>2. \A w \in Threads : Turn(w, thread[w], current, users)'
    BY DEF Turn
  <2>3. \A i \in 1 .. Len(triggers') : Credit(i)'
    BY DEF Credit, MayFire
  <2>. QED  BY <1>0, <2>1, <2>2, <2>3
<1>2. CASE Next
  BY <1>0, <1>2, FireCommand, FireProgress, FireFault DEF Next
<1>. QED  BY <1>1, <1>2

(* Others may change what triggers hold from, and count more faults. *)
LEMMA FireAccounts ==
    ASSUME FireInv, source' \in [Users -> Int], faults' \in 0 .. MaxFaults, faults <= faults',
           UNCHANGED <<target, registry, triggers, thread, commands>>
    PROVE  FireInv'
<1>1. UNCHANGED <<current, users, triggers, thread>>
  BY DEF registry
<1>2. Inv'
  BY AccountsChange DEF FireInv
<1>3. OneLoop'
  BY <1>1 DEF FireInv, OneLoop, Starting
<1>4. \A w \in Threads : Turn(w, thread[w], current, users)'
  BY <1>1 DEF FireInv, Turn
<1>5. ASSUME NEW i \in 1 .. Len(triggers') PROVE Credit(i)'
  <2>1. Credit(i) /\ triggers[i].fired \in Nat
    <3>1. i \in 1 .. Len(triggers) /\ triggers[i] \in Trigger
      BY <1>1, <1>5 DEF FireInv, Inv, TypeOK
    <3>. QED  BY <3>1 DEF FireInv, Trigger
  <2>2. \A w \in Threads : MayFire(w, i)' = MayFire(w, i)
    BY <1>1 DEF MayFire
  <2>. DEFINE a == One(MayFire(<<"SET_TRIGGER", triggers[i].user>>, i))
              b == One(current # 0 /\ MayFire(<<"timer", current>>, i))
  <2>3. a' = a /\ b' = b
    BY <1>1 DEF MayFire
  <2>4. a \in Int /\ b \in Int /\ faults \in Int /\ faults' \in Int
    BY Constants DEF One, FireInv, Inv, TypeOK
  <2>5. Credit(i)' <=> triggers[i].fired + a' + b' <= 2 + faults'
    BY <1>1 DEF Credit
  <2>6. triggers[i].fired + a + b <= 2 + faults
    BY <2>1 DEF Credit
  <2>. HIDE DEF a, b
  <2>. QED  BY <2>1, <2>3, <2>4, <2>5, <2>6
<1>. QED  BY <1>2, <1>3, <1>4, <1>5 DEF FireInv

(***************************************************************************)
(* The invariant holds: the stock's timer has the only loop, and the       *)
(* completions of a trigger and those still to come stay within two and    *)
(* one for every fault.                                                    *)
(***************************************************************************)
THEOREM FiringInvariance == Spec => []FireInv
<1>1. Init => FireInv
  BY InitFire
<1>2. FireInv /\ [Next]_vars => FireInv'
  BY NextFire
<1>. QED  BY <1>1, <1>2, PTL DEF Spec

(***************************************************************************)
(* Nobody completes a trigger a third time, but for a batch that a failed  *)
(* callback runs again: at most the handler of SET_TRIGGER and the stock's *)
(* loop hold it at once, and whoever completes it first removes it before  *)
(* anybody looks for it again.                                             *)
(***************************************************************************)
THEOREM TwoCompletions == Spec => []CompletedByTwo
<1>1. ASSUME FireInv PROVE CompletedByTwo
  <2>. SUFFICES ASSUME NEW i \in DOMAIN triggers PROVE triggers[i].fired <= 2 + faults
    BY DEF CompletedByTwo
  <2>1. i \in 1 .. Len(triggers) /\ triggers[i] \in Trigger /\ faults \in Nat
    BY <1>1, Constants DEF FireInv, Inv, TypeOK
  <2>2. triggers[i].fired \in Nat
    BY <2>1 DEF Trigger
  <2>. DEFINE a == One(MayFire(<<"SET_TRIGGER", triggers[i].user>>, i))
              b == One(current # 0 /\ MayFire(<<"timer", current>>, i))
  <2>3. a \in Nat /\ b \in Nat
    BY OneRange
  <2>4. triggers[i].fired + a + b <= 2 + faults
    BY <1>1, <2>1 DEF FireInv, Credit
  <2>. HIDE DEF a, b
  <2>. QED  BY <2>1, <2>2, <2>3, <2>4
<1>. QED  BY <1>1, FiringInvariance, PTL
-----------------------------------------------------------------------------
(***************************************************************************)
(* Commands and polls one at a time.  Then one thread at most is at work,  *)
(* and what it has looked up is still so: the timer it found is the        *)
(* stock's, what it completes is registered there or already removed.      *)
(***************************************************************************)
Busy(w) == thread[w].at \notin {"idle", "poll"}
Only(w) == \A v \in Threads \ {w} : ~Busy(v)

Open(t) == t.held = 1 /\ ~t.canceled /\ t.fired = 0
Listed(i) == current # 0 /\ users[current][triggers[i].user] = i
Returning(w, i) == thread[w].at = "return" /\ thread[w].trigger = i

Fresh(i, c, us) == us[c][triggers[i].user] \in {0, i}

Current(w, k, c, us) ==
    /\ k.at \in {"register", "take", "update"} => c # 0 /\ k.timer = c
    /\ k.at = "hold" => c # 0 /\ us[c][w[2]] = k.trigger
    /\ k.at = "exit" => \A u \in Users : us[c][u] = 0
    /\ k.at \in {"compare"} \cup Working => c # 0 /\ Fresh(k.trigger, c, us)
    /\ k.at \in Firing => c # 0 /\ \A i \in k.batch \cup k.left : Fresh(i, c, us)
    /\ k.at \in {"found", "drop"} => triggers[k.trigger].fired > 0
    /\ k.at = "drop" => k.arg = c

SerialInv ==
    /\ FireInv
    /\ \A v, w \in Threads : Busy(v) /\ Busy(w) => v = w
    /\ \A w \in Threads : Current(w, thread[w], current, users)
    /\ \A i \in 1 .. Len(triggers) :
         Open(triggers[i]) => Listed(i) \/ \E w \in Threads : Returning(w, i)

LEMMA SerialKept ==
    ASSUME SerialInv, FireInv', NEW w \in Threads, Only(w)',
           Current(w, thread[w], current, users)',
           \A i \in 1 .. Len(triggers') : Open(triggers'[i]) => Listed(i)' \/ Returning(w, i)'
    PROVE  SerialInv'
<1>1. ASSUME NEW v \in Threads \ {w} PROVE Current(v, thread[v], current, users)'
  BY DEF Only, Busy, Current, Working, Firing
<1>2. \A v, x \in Threads : Busy(v)' /\ Busy(x)' => v = x
  BY DEF Only
<1>. QED  BY <1>1, <1>2 DEF SerialInv

(* What the thread at work may rely on. *)
LEMMA AtWork ==
    ASSUME SerialInv, NEW w \in Threads, Busy(w) \/ Quiet
    PROVE  /\ FireInv /\ Inv /\ OneLoop /\ Only(w)
           /\ Current(w, thread[w], current, users) /\ Turn(w, thread[w], current, users)
           /\ \A i \in 1 .. Len(triggers) : Open(triggers[i]) => Listed(i) \/ Returning(w, i)
           /\ faults \in Nat
<1>1. FireInv /\ Inv /\ OneLoop /\ faults \in Nat /\ Turn(w, thread[w], current, users)
      /\ Current(w, thread[w], current, users)
  BY Alone DEF SerialInv, FireInv
<1>2. Only(w)
  BY DEF SerialInv, Only, Busy, Quiet
<1>3. \A v \in Threads, i \in 1 .. Len(triggers) : Returning(v, i) => v = w
  BY <1>2 DEF Only, Busy, Returning
<1>. QED  BY <1>1, <1>2, <1>3 DEF SerialInv

LEMMA OnlyStays ==
    ASSUME NEW w \in Threads, Only(w), Others(w)
    PROVE  Only(w)'
BY DEF Only, Others, Busy

(***************************************************************************)
(* A step that registers and removes nobody and marks no trigger.          *)
(***************************************************************************)
LEMMA StillKept ==
    ASSUME SerialInv, FireInv', NEW w \in Threads, Busy(w) \/ Quiet, Others(w),
           UNCHANGED <<current, users, triggers>>,
           Current(w, thread'[w], current, users),
           thread[w].at = "return" =>
             thread'[w].at = "return" /\ thread'[w].trigger = thread[w].trigger
    PROVE  SerialInv'
<1>1. Only(w)'
  BY AtWork, OnlyStays
<1>2. Current(w, thread[w], current, users)'
  BY DEF Current, Fresh
<1>3. \A i \in 1 .. Len(triggers') : Open(triggers'[i]) => Listed(i)' \/ Returning(w, i)'
  BY AtWork DEF Listed, Returning
<1>. QED  BY <1>1, <1>2, <1>3, SerialKept

(* A thread that waits, or has done what its command asked for. *)
LEMMA RestKept ==
    ASSUME SerialInv, FireInv', NEW w \in Threads, Busy(w) \/ Quiet, Others(w),
           UNCHANGED <<current, users, triggers>>, thread[w].at # "return",
           thread'[w].at \in {"idle", "poll", "quote", "check", "enter", "find", "done"}
    PROVE  SerialInv'
BY StillKept DEF Current, Working, Firing
(* Where a thread stands that goes on, or ends. *)
LEMMA Onward ==
    ASSUME thread \in [Threads -> Thread], NEW w \in Threads
    PROVE  /\ \A p : Goto(w, p) => Others(w) /\ thread'[w].at = p
           /\ \A b : Finish(w, b) => Others(w) /\ thread'[w].at = "done"
<1>1. ASSUME NEW p, Goto(w, p) PROVE Others(w) /\ thread'[w].at = p
  BY <1>1 DEF Goto, Others, Thread
<1>2. ASSUME NEW b, Finish(w, b) PROVE Others(w) /\ thread'[w].at = "done"
  BY <1>2 DEF Finish, Others, Thread
<1>. QED  BY <1>1, <1>2

LEMMA SerialReceive ==
    ASSUME ~Overlap, SerialInv, FireInv', NEW kind \in Kinds, NEW u \in Users, NEW arg \in Nat,
           NEW position \in {"check", "enter", "find"}, Receive(kind, u, arg, position)
    PROVE  SerialInv'
<1>. DEFINE w == <<kind, u>>
            r == [Rest EXCEPT !.at = position, !.arg = arg]
<1>1. w \in Threads /\ r.at = position /\ FireInv
  BY ThreadKinds DEF SerialInv, Rest
<1>2. /\ Become(w, r) /\ thread[w].at = "idle" /\ UNCHANGED <<registry, triggers>> /\ Quiet
  BY DEF Receive, MayBegin
<1>. HIDE DEF r, w
<1>3. Others(w) /\ thread'[w] = r
  BY <1>1, <1>2, Alone
<1>. QED  BY <1>1, <1>2, <1>3, RestKept DEF registry

LEMMA SerialLocal ==
    ASSUME SerialInv, FireInv', NEW w \in Threads,
           Reply(w) \/ Check(w) \/ Unquoted(w) \/ FiredAll(w)
    PROVE  SerialInv'
<1>1. /\ thread[w].at \in {"done", "check", "quote", "next"}
      /\ UNCHANGED <<current, users, triggers>>
      /\ \/ Become(w, Rest) \/ \E p \in {"enter", "poll"} : Goto(w, p)
         \/ \E b \in BOOLEAN : Finish(w, b)
  BY DEF Reply, Check, Unquoted, FiredAll, registry
<1>2. FireInv /\ Busy(w) /\ Rest.at = "idle" /\ thread \in [Threads -> Thread]
  BY <1>1, Typed DEF SerialInv, FireInv, Busy, Rest
<1>3. Others(w) /\ thread'[w].at \in {"idle", "poll", "enter", "done"}
  BY <1>1, <1>2, Alone DEF Become, Goto, Finish, Thread
<1>. QED  BY <1>1, <1>2, <1>3, RestKept

LEMMA SerialEnter ==
    ASSUME SerialInv, FireInv', NEW w \in Threads, Enter(w)
    PROVE  SerialInv'
<1>. DEFINE onward == IF w[1] = "SET_AMOUNT" THEN "register" ELSE "update"
            r == [thread[w] EXCEPT !.at = onward, !.timer = current, !.fresh = FALSE]
            m == [thread[w] EXCEPT !.at = onward, !.timer = born + 1, !.fresh = TRUE]
<1>1. thread[w].at = "enter" /\ UNCHANGED <<users, triggers>> /\ Busy(w)
  BY DEF Enter, Busy
<1>2. FireInv /\ Inv /\ Only(w) /\ thread \in [Threads -> Thread]
      /\ \A i \in 1 .. Len(triggers) : Open(triggers[i]) => Listed(i)
  BY <1>1, AtWork, Typed DEF Returning
<1>3. CASE current # 0 /\ Become(w, r) /\ UNCHANGED current
  <2>1. r.at \in {"register", "update"} /\ r.timer = current
    BY <1>2, Typed DEF Thread
  <2>. HIDE DEF r
  <2>2. Others(w) /\ thread'[w] = r
    BY <1>2, <1>3, Alone
  <2>3. Current(w, r, current, users)
    BY <1>3, <2>1 DEF Current, Working, Firing
  <2>. QED  BY <1>1, <1>3, <2>2, <2>3, StillKept
<1>4. CASE current = 0 /\ w[1] = "SET_AMOUNT" /\ current' = born + 1 /\ Become(w, m)
  <2>1. m.at = "register" /\ m.timer = born + 1 /\ born \in Nat
    BY <1>2, <1>4, Typed DEF Thread
  <2>. HIDE DEF m
  <2>2. Others(w) /\ thread'[w] = m
    BY <1>2, <1>4, Alone
  <2>3. Current(w, thread[w], current, users)'
    BY <1>4, <2>1, <2>2 DEF Current, Working, Firing
  <2>4. \A i \in 1 .. Len(triggers') : ~Open(triggers'[i])
    BY <1>1, <1>2, <1>4 DEF Listed
  <2>5. Only(w)'
    BY <1>2, <2>2, OnlyStays
  <2>. QED  BY <2>3, <2>4, <2>5, SerialKept
<1>5. CASE Finish(w, FALSE) /\ UNCHANGED current
  <2>1. Others(w) /\ thread'[w].at = "done"
    BY <1>2, <1>5, Onward
  <2>. QED  BY <1>1, <1>5, <2>1, RestKept
<1>. QED  BY <1>3, <1>4, <1>5 DEF Enter

LEMMA SerialFind ==
    ASSUME SerialInv, FireInv', NEW w \in Threads, Find(w)
    PROVE  SerialInv'
<1>. DEFINE r == [thread[w] EXCEPT !.at = "take", !.timer = current]
<1>1. /\ thread[w].at = "find" /\ UNCHANGED <<current, users, triggers>> /\ Busy(w)
      /\ ((current # 0 /\ Become(w, r)) \/ Finish(w, FALSE))
  BY DEF Find, Busy, Known, registry
<1>2. FireInv /\ Inv /\ thread \in [Threads -> Thread]
  BY <1>1, AtWork, Typed
<1>3. r.at = "take" /\ r.timer = current
  BY <1>2, Typed DEF Thread
<1>. HIDE DEF r
<1>4. CASE current # 0 /\ Become(w, r)
  <2>1. Others(w) /\ thread'[w] = r
    BY <1>2, <1>4, Alone
  <2>2. Current(w, r, current, users)
    BY <1>3, <1>4 DEF Current, Working, Firing
  <2>. QED  BY <1>1, <2>1, <2>2, StillKept
<1>5. CASE Finish(w, FALSE)
  <2>1. Others(w) /\ thread'[w].at = "done"
    BY <1>2, <1>5, Onward
  <2>. QED  BY <1>1, <2>1, RestKept
<1>. QED  BY <1>1, <1>4, <1>5

LEMMA SerialCompare ==
    ASSUME SerialInv, FireInv', NEW w \in Threads, Compare(w)
    PROVE  SerialInv'
<1>. DEFINE r == [thread[w] EXCEPT !.at = "next", !.batch = {thread[w].trigger},
                                   !.left = {thread[w].trigger}]
<1>1. /\ thread[w].at = "compare" /\ UNCHANGED <<current, users, triggers>> /\ Busy(w)
      /\ (Become(w, r) \/ Finish(w, TRUE))
  BY DEF Compare, Busy, registry
<1>2. FireInv /\ Inv /\ Current(w, thread[w], current, users) /\ thread \in [Threads -> Thread]
  BY <1>1, AtWork, Typed
<1>3. r.at = "next" /\ r.batch = {thread[w].trigger} /\ r.left = {thread[w].trigger}
  BY <1>2, Typed DEF Thread
<1>. HIDE DEF r
<1>4. CASE Become(w, r)
  <2>1. Others(w) /\ thread'[w] = r
    BY <1>2, <1>4, Alone
  <2>2. Current(w, r, current, users)
    BY <1>1, <1>2, <1>3 DEF Current, Working, Firing
  <2>. QED  BY <1>1, <2>1, <2>2, StillKept
<1>5. CASE Finish(w, TRUE)
  <2>1. Others(w) /\ thread'[w].at = "done"
    BY <1>2, <1>5, Onward
  <2>. QED  BY <1>1, <2>1, RestKept
<1>. QED  BY <1>1, <1>4, <1>5

LEMMA SerialPoll ==
    ASSUME ~Overlap, SerialInv, FireInv', NEW w \in Threads, Poll(w)
    PROVE  SerialInv'
<1>1. /\ thread[w].at = "poll" /\ Quiet /\ UNCHANGED <<current, users, triggers>>
      /\ Goto(w, IF NoUsers(thread[w].timer) THEN "exit" ELSE "quote")
  BY DEF Poll, MayBegin, registry
<1>2. FireInv /\ Inv /\ OneLoop /\ thread \in [Threads -> Thread]
  BY <1>1, AtWork, Typed
<1>3. thread[w].timer = current
  BY <1>1, <1>2, KindAt, ThreadKinds DEF OneLoop, Threads, Kinds
<1>4. Others(w) /\ thread'[w].at = IF NoUsers(current) THEN "exit" ELSE "quote"
  BY <1>1, <1>2, <1>3, Onward
<1>5. Current(w, thread'[w], current, users)
  BY <1>4 DEF Current, Working, Firing, NoUsers
<1>. QED  BY <1>1, <1>4, <1>5, StillKept

LEMMA SerialQuote ==
    ASSUME SerialInv, FireInv', NEW w \in Threads, Quote(w)
    PROVE  SerialInv'
<1>. DEFINE us == Registered(thread[w].timer)
            p == [thread[w] EXCEPT !.at = "poll"]
            q == [thread[w] EXCEPT !.at = "next", !.batch = us, !.left = us]
<1>1. /\ thread[w].at = "quote" /\ (Become(w, p) \/ Become(w, q)) /\ Busy(w)
      /\ UNCHANGED <<current, users, triggers>>
  BY DEF Quote, Busy
<1>2. FireInv /\ Inv /\ OneLoop /\ thread[w] \in Thread
  BY <1>1, AtWork, Typed
<1>3. w \in Loops
  <2>1. w[1] = "timer"
    BY <1>1, <1>2, KindAt
  <2>. QED  BY <2>1, ThreadKinds DEF Threads, Kinds
<1>4. thread[w].timer = current /\ current \in Ids /\ current # 0
  <2>1. thread[w].timer = current /\ thread[w].timer # 0
    BY <1>1, <1>2, <1>3, Typed DEF OneLoop, Sound
  <2>. QED  BY <1>2, <2>1, Typed
<1>5. \A i \in us : Fresh(i, current, users)
  <2>1. ASSUME NEW u \in Users, users[current][u] # 0
        PROVE  triggers[users[current][u]].user = u
    BY <1>2, <1>4, <2>1 DEF Inv, Registry
  <2>. QED  BY <1>4, <2>1 DEF Registered, Fresh
<1>6. p.at = "poll" /\ q.at = "next" /\ q.left = us /\ q.batch = us
  BY <1>2 DEF Thread
<1>. HIDE DEF us
<1>. HIDE DEF p, q
<1>7. CASE Become(w, p)
  <2>1. Others(w) /\ thread'[w] = p
    BY <1>2, <1>7, Alone
  <2>. QED  BY <1>1, <1>6, <2>1, RestKept
<1>8. CASE Become(w, q)
  <2>1. Others(w) /\ thread'[w] = q
    BY <1>2, <1>8, Alone
  <2>2. Current(w, q, current, users)
    BY <1>4, <1>5, <1>6 DEF Current, Working, Firing
  <2>. QED  BY <1>1, <2>1, <2>2, StillKept
<1>. QED  BY <1>1, <1>7, <1>8

LEMMA SerialExit ==
    ASSUME SerialInv, FireInv', NEW w \in Threads, Exit(w)
    PROVE  SerialInv'
<1>1. /\ thread[w].at = "exit" /\ current' = 0 /\ Become(w, Rest) /\ Busy(w)
      /\ UNCHANGED <<users, triggers>> /\ Rest.at = "idle"
  BY DEF Exit, Busy, Rest
<1>2. /\ FireInv /\ Inv /\ Only(w) /\ Current(w, thread[w], current, users)
      /\ \A i \in 1 .. Len(triggers) : Open(triggers[i]) => Listed(i)
  BY <1>1, AtWork DEF Returning
<1>3. Others(w) /\ thread'[w] = Rest
  BY <1>1, <1>2, Alone
<1>4. ASSUME NEW i \in 1 .. Len(triggers) PROVE ~Listed(i)
  <2>1. triggers[i] \in Trigger /\ i # 0
    BY <1>2, Typed
  <2>2. triggers[i].user \in Users
    BY <2>1 DEF Trigger
  <2>. QED  BY <1>1, <1>2, <2>1, <2>2 DEF Current, Listed
<1>5. Only(w)' /\ Current(w, thread[w], current, users)'
  BY <1>1, <1>2, <1>3, OnlyStays DEF Current, Working, Firing
<1>. QED  BY <1>1, <1>2, <1>4, <1>5, SerialKept

LEMMA SerialFireNext ==
    ASSUME SerialInv, FireInv', NEW w \in Threads, FireNext(w)
    PROVE  SerialInv'
<1>. DEFINE r(id) == [thread[w] EXCEPT !.at = "first", !.trigger = id, !.left = @ \ {id},
                          !.spent = WholeShares(triggers[id].amount, cost[thread[w].timer])]
            p(id) == [thread[w] EXCEPT !.left = @ \ {id}]
<1>1. PICK id \in thread[w].left :
        /\ thread[w].at = "next" /\ UNCHANGED <<current, users, triggers>>
        /\ Become(w, r(id)) \/ Become(w, p(id))
  BY DEF FireNext, registry
<1>2. Busy(w) /\ FireInv /\ Current(w, thread[w], current, users) /\ thread[w] \in Thread
  BY <1>1, AtWork, Typed DEF Busy
<1>. DEFINE x == r(id)
            y == p(id)
<1>3. /\ x.at = "first" /\ x.trigger = id /\ x.left = thread[w].left \ {id}
      /\ x.batch = thread[w].batch
      /\ y.at = "next" /\ y.left = thread[w].left \ {id} /\ y.batch = thread[w].batch
  BY <1>1, <1>2 DEF Thread
<1>. HIDE DEF x, y
<1>4. ASSUME NEW z \in {x, y}, Become(w, z) PROVE SerialInv'
  <2>1. Others(w) /\ thread'[w] = z
    BY <1>2, <1>4, Alone
  <2>2. Current(w, z, current, users)
    BY <1>1, <1>2, <1>3 DEF Current, Working, Firing
  <2>. QED  BY <1>1, <1>2, <2>1, <2>2, StillKept
<1>. QED  BY <1>1, <1>4 DEF x, y

LEMMA SerialPayFirst ==
    ASSUME SerialInv, FireInv', NEW w \in Threads, PayFirst(w)
    PROVE  SerialInv'
<1>1. thread[w].at = "first" /\ UNCHANGED <<current, users, triggers>> /\ Goto(w, "second")
  BY DEF PayFirst, registry
<1>2. /\ Busy(w) /\ FireInv /\ Inv /\ Current(w, thread[w], current, users)
      /\ thread \in [Threads -> Thread]
  BY <1>1, AtWork, Typed DEF Busy
<1>3. PICK z \in Thread : Moves(w, z) /\ z.at = "second" /\ z.trigger = thread[w].trigger
          /\ z.batch = thread[w].batch /\ z.left = thread[w].left
  BY <1>1, <1>2, GotoMoves DEF Positions
<1>4. Others(w) /\ thread'[w] = z
  BY <1>3 DEF Moves, Others
<1>5. Current(w, z, current, users)
  BY <1>1, <1>2, <1>3 DEF Current, Working, Firing
<1>. QED  BY <1>1, <1>2, <1>4, <1>5, StillKept

LEMMA SerialFindFired ==
    ASSUME SerialInv, FireInv', NEW w \in Threads, FindFired(w)
    PROVE  SerialInv'
<1>. DEFINE r == [thread[w] EXCEPT !.at = "drop", !.arg = current]
            p == [thread[w] EXCEPT !.at = "next"]
<1>1. /\ thread[w].at = "found" /\ UNCHANGED <<current, users, triggers>>
      /\ Become(w, r) \/ Become(w, p)
  BY DEF FindFired, Goto, Become, registry
<1>2. Busy(w) /\ FireInv /\ Current(w, thread[w], current, users) /\ thread[w] \in Thread
  BY <1>1, AtWork, Typed DEF Busy
<1>3. /\ r.at = "drop" /\ r.arg = current /\ r.trigger = thread[w].trigger
      /\ r.left = thread[w].left /\ r.batch = thread[w].batch
      /\ p.at = "next" /\ p.left = thread[w].left /\ p.batch = thread[w].batch
  BY <1>2 DEF Thread
<1>. HIDE DEF r, p
<1>4. ASSUME NEW z \in {r, p}, Become(w, z) PROVE SerialInv'
  <2>1. Others(w) /\ thread'[w] = z
    BY <1>2, <1>4, Alone
  <2>2. Current(w, z, current, users)
    BY <1>1, <1>2, <1>3 DEF Current, Working, Firing
  <2>. QED  BY <1>1, <1>2, <2>1, <2>2, StillKept
<1>. QED  BY <1>1, <1>4

-----------------------------------------------------------------------------
(* Steps that mark a trigger: its owner and the registry stay. *)
LEMMA MarkKept ==
    ASSUME SerialInv, FireInv', NEW w \in Threads, Busy(w), Others(w),
           UNCHANGED <<current, users>>, SameOwners,
           Current(w, thread[w], current, users)',
           \A i \in 1 .. Len(triggers) :
             Open(triggers'[i]) =>
               \/ Listed(i)
               \/ thread'[w].at = "return" /\ thread'[w].trigger = i
               \/ Open(triggers[i]) /\ ~Returning(w, i)
    PROVE  SerialInv'
<1>1. Only(w)' /\ \A i \in 1 .. Len(triggers) : Open(triggers[i]) => Listed(i) \/ Returning(w, i)
  BY AtWork, OnlyStays
<1>2. \A i \in 1 .. Len(triggers) : Listed(i) => Listed(i)'
  BY DEF Listed, SameOwners
<1>3. \A i \in 1 .. Len(triggers') : Open(triggers'[i]) => Listed(i)' \/ Returning(w, i)'
  BY <1>1, <1>2 DEF SameOwners, Returning
<1>. QED  BY <1>1, <1>3, SerialKept

(* The marks that a trigger gets. *)
LEMMA HoldMarks ==
    ASSUME SerialInv, NEW w \in Threads, HoldAmount(w)
    PROVE  /\ thread[w].at = "hold" /\ Busy(w) /\ UNCHANGED <<current, users>> /\ SameOwners
           /\ \A i \in 1 .. Len(triggers) :
                Open(triggers'[i]) => Listed(i) \/ (Open(triggers[i]) /\ ~Returning(w, i))
<1>. DEFINE j == thread[w].trigger
<1>1. /\ FireInv /\ Inv /\ thread[w].at = "hold" /\ Busy(w) /\ UNCHANGED <<current, users>>
      /\ triggers' = [triggers EXCEPT ![j].held = @ + 1]
      /\ Current(w, thread[w], current, users)
  BY AtWork DEF HoldAmount, Busy, registry
<1>2. SameOwners /\ j \in 1 .. Len(triggers) /\ w[1] = "SET_AMOUNT"
  BY <1>1, AmountOwners, HoldEffect
<1>3. triggers[j].user = w[2]
  BY <1>1, <1>2, Typed DEF Own
<1>4. Listed(j)
  BY <1>1, <1>3 DEF Current, Listed
<1>5. \A i \in 1 .. Len(triggers) : i # j => triggers'[i] = triggers[i]
  BY <1>1, Typed
<1>6. \A i \in 1 .. Len(triggers) : ~Returning(w, i)
  BY <1>1 DEF Returning
<1>. QED  BY <1>1, <1>2, <1>4, <1>5, <1>6

LEMMA ReturnMarks ==
    ASSUME SerialInv, NEW w \in Threads, ReturnAmount(w)
    PROVE  /\ thread[w].at = "return" /\ Busy(w) /\ UNCHANGED <<current, users>> /\ SameOwners
           /\ \A i \in 1 .. Len(triggers) :
                Open(triggers'[i]) => Open(triggers[i]) /\ ~Returning(w, i)
<1>. DEFINE j == thread[w].trigger
<1>1. /\ FireInv /\ Inv /\ thread[w].at = "return" /\ Busy(w) /\ UNCHANGED <<current, users>>
      /\ triggers' = [triggers EXCEPT ![j].canceled = TRUE]
  BY AtWork DEF ReturnAmount, Busy, registry
<1>2. SameOwners /\ j \in 1 .. Len(triggers)
  BY <1>1, AmountOwners, Typed DEF Sound
<1>3. triggers[j] \in Trigger /\ triggers \in Seq(Trigger)
  BY <1>1, <1>2, Typed
<1>4. triggers'[j].canceled
  BY <1>1, <1>2, <1>3 DEF Trigger
<1>5. \A i \in 1 .. Len(triggers) : i # j => triggers'[i] = triggers[i]
  BY <1>1, <1>3
<1>. QED  BY <1>1, <1>2, <1>4, <1>5 DEF Open, Returning

LEMMA SerialAmount ==
    ASSUME SerialInv, FireInv', NEW w \in Threads, Hold(w) \/ Return(w)
    PROVE  SerialInv'
<1>1. (HoldAmount(w) \/ ReturnAmount(w)) /\ Finish(w, TRUE)
  BY DEF Hold, Return
<1>2. thread \in [Threads -> Thread]
  BY AtWork, Typed DEF SerialInv, FireInv
<1>3. Others(w) /\ thread'[w].at = "done"
  BY <1>1, <1>2, Onward
<1>4. Current(w, thread[w], current, users)'
  BY <1>3 DEF Current, Working, Firing
<1>. QED  BY <1>1, <1>3, <1>4, HoldMarks, ReturnMarks, MarkKept

LEMMA SerialUpdate ==
    ASSUME SerialInv, FireInv', NEW w \in Threads, Update(w)
    PROVE  SerialInv'
<1>. DEFINE id == users[thread[w].timer][w[2]]
            r == [thread[w] EXCEPT !.at = "compare", !.trigger = id]
            t == [triggers[id] EXCEPT !.limit = thread[w].arg]
<1>1. /\ thread[w].at = "update" /\ UNCHANGED <<current, users>> /\ Busy(w)
      /\ \/ Finish(w, FALSE) /\ UNCHANGED triggers
         \/ id # 0 /\ triggers' = [triggers EXCEPT ![id] = t] /\ Become(w, r)
  BY ZenonT(60) DEF Update, Accepts, registry, Busy
<1>2. /\ FireInv /\ Inv /\ Current(w, thread[w], current, users)
      /\ thread \in [Threads -> Thread] /\ thread[w] \in Thread
  BY <1>1, AtWork, Typed
<1>3. thread[w].timer = current /\ current \in Ids /\ w[2] \in Users
  BY <1>1, <1>2, KindAt, Typed DEF Current
<1>4. CASE id # 0 /\ triggers' = [triggers EXCEPT ![id] = t] /\ Become(w, r)
  <2>1. id \in 1 .. Len(triggers) /\ triggers[id].user = w[2]
    BY <1>2, <1>3, <1>4 DEF Inv, Registry
  <2>2. r.at = "compare" /\ r.trigger = id
    BY <1>2 DEF Thread
  <2>3. /\ t.user = triggers[id].user /\ t.held = triggers[id].held
        /\ t.canceled = triggers[id].canceled /\ t.fired = triggers[id].fired
    <3>1. triggers[id] \in Trigger
      BY <1>2, <2>1, Typed, SMTT(30)
    <3>. QED  BY <3>1 DEF Trigger
  <2>. HIDE DEF r, t
  <2>4. Others(w) /\ thread'[w] = r /\ SameOwners
    BY <1>2, <1>4, <2>1, <2>3, Alone, MarkedOwners
  <2>5. Current(w, thread[w], current, users)'
    BY <1>1, <1>3, <2>1, <2>2, <2>4, Constants, SMTT(30) DEF Current, Working, Firing, Fresh, SameOwners
  <2>6. \A i \in 1 .. Len(triggers) : Open(triggers'[i]) => Open(triggers[i]) /\ ~Returning(w, i)
    <3>1. triggers \in Seq(Trigger)
      BY <1>2, Typed
    <3>2. \A i \in 1 .. Len(triggers) : triggers'[i] = IF i = id THEN t ELSE triggers[i]
      BY <1>4, <3>1
    <3>. QED  BY <1>1, <2>3, <3>2 DEF Open, Returning
  <2>. QED  BY <1>1, <2>4, <2>5, <2>6, MarkKept
<1>5. CASE Finish(w, FALSE) /\ UNCHANGED triggers
  <2>1. Others(w) /\ thread'[w].at = "done"
    BY <1>2, <1>5, Onward
  <2>. QED  BY <1>1, <1>5, <2>1, RestKept
<1>. QED  BY <1>1, <1>4, <1>5, ZenonT(60)
(* A trigger that is completed holds nothing any more. *)
LEMMA SecondMarks ==
    ASSUME SerialInv, NEW w \in Threads, PaySecond(w)
    PROVE  \A i \in 1 .. Len(triggers) : Open(triggers'[i]) => Open(triggers[i])
<1>. DEFINE j == thread[w].trigger
<1>1. /\ FireInv /\ Inv /\ j \in 1 .. Len(triggers)
      /\ triggers' = [triggers EXCEPT ![j].fired = @ + 1]
  BY SecondCounts DEF SerialInv, PaySecond
<1>2. triggers \in Seq(Trigger)
  BY <1>1, Typed
<1>3. triggers'[j].fired # 0
  <2>1. triggers[j].fired \in Nat /\ triggers'[j].fired = triggers[j].fired + 1
    BY <1>1, SecondCounts
  <2>. QED  BY <2>1
<1>4. \A i \in 1 .. Len(triggers) : i # j => triggers'[i] = triggers[i]
  BY <1>1, <1>2
<1>. QED  BY <1>3, <1>4 DEF Open

LEMMA SerialPay ==
    ASSUME SerialInv, FireInv', NEW w \in Threads, Pay(w)
    PROVE  SerialInv'
<1>1. PaySecond(w) /\ Goto(w, "found")
  BY DEF Pay
<1>2. /\ FireInv /\ Inv /\ thread[w].at = "second" /\ Busy(w) /\ UNCHANGED <<current, users>>
      /\ SameOwners /\ Current(w, thread[w], current, users) /\ thread \in [Threads -> Thread]
      /\ thread[w].trigger \in 1 .. Len(triggers)
  BY <1>1, SecondCounts, AtWork, Typed DEF Busy, registry, SerialInv, PaySecond
<1>3. PICK z \in Thread : Moves(w, z) /\ z.at = "found" /\ z.trigger = thread[w].trigger
          /\ z.batch = thread[w].batch /\ z.left = thread[w].left
  BY <1>1, <1>2, GotoMoves DEF Positions
<1>4. Others(w) /\ thread'[w] = z
  BY <1>3 DEF Moves, Others
<1>5. triggers'[thread[w].trigger].fired > 0
  <2>1. triggers[thread[w].trigger].fired \in Nat
        /\ triggers'[thread[w].trigger].fired = triggers[thread[w].trigger].fired + 1
    BY <1>1, <1>2, SecondCounts DEF SerialInv
  <2>. QED  BY <2>1
<1>6. thread[w].left \subseteq 1 .. Len(triggers) /\ thread[w].batch \subseteq 1 .. Len(triggers)
  BY <1>2, Typed DEF Sound
<1>7. Current(w, thread[w], current, users)'
  BY <1>2, <1>3, <1>4, <1>5, <1>6 DEF Current, Working, Firing, Fresh, SameOwners
<1>8. \A i \in 1 .. Len(triggers) : Open(triggers'[i]) => Open(triggers[i]) /\ ~Returning(w, i)
  BY <1>1, <1>2, SecondMarks DEF Returning
<1>. QED  BY <1>2, <1>4, <1>7, <1>8, MarkKept

-----------------------------------------------------------------------------
(* Steps that change who is registered. *)
LEMMA SerialTake ==
    ASSUME SerialInv, FireInv', NEW w \in Threads, Take(w)
    PROVE  SerialInv'
<1>. DEFINE id == users[thread[w].timer][w[2]]
            r == [thread[w] EXCEPT !.at = "return", !.trigger = id, !.arg = triggers[id].amount]
<1>1. /\ thread[w].at = "take" /\ id # 0 /\ UNCHANGED <<current, triggers>> /\ Busy(w)
      /\ users' = [users EXCEPT ![thread[w].timer][w[2]] = 0] /\ Become(w, r)
  BY DEF Take, Busy
<1>2. /\ FireInv /\ Inv /\ Only(w) /\ Current(w, thread[w], current, users) /\ thread[w] \in Thread
      /\ \A i \in 1 .. Len(triggers) : Open(triggers[i]) => Listed(i)
  BY <1>1, AtWork, Typed DEF Returning
<1>3. thread[w].timer = current /\ current \in Ids /\ current # 0 /\ w[2] \in Users
  BY <1>1, <1>2, KindAt, Typed DEF Current
<1>4. r.at = "return" /\ r.trigger = id
  BY <1>2 DEF Thread
<1>. HIDE DEF r
<1>5. Others(w) /\ thread'[w] = r
  BY <1>1, <1>2, Alone
<1>6. Current(w, thread[w], current, users)'
  BY <1>4, <1>5 DEF Current, Working, Firing
<1>7. ASSUME NEW i \in 1 .. Len(triggers'), Open(triggers'[i]) PROVE Listed(i)' \/ Returning(w, i)'
  <2>1. triggers[i] \in Trigger /\ i \in 1 .. Len(triggers)
    BY <1>1, <1>2, Typed
  <2>2. Listed(i) /\ triggers[i].user \in Users
    BY <1>1, <1>2, <1>7, <2>1 DEF Trigger
  <2>3. CASE triggers[i].user = w[2]
    BY <1>3, <1>4, <1>5, <2>2, <2>3 DEF Listed, Returning
  <2>4. CASE triggers[i].user # w[2]
    <3>1. users'[current][triggers[i].user] = users[current][triggers[i].user]
      BY <1>1, <1>2, <1>3, <2>2, <2>4, Typed
    <3>. QED  BY <1>1, <2>2, <3>1 DEF Listed
  <2>. QED  BY <2>3, <2>4
<1>8. Only(w)'
  BY <1>2, <1>5, OnlyStays
<1>. QED  BY <1>6, <1>7, <1>8, SerialKept

LEMMA SerialDropFired ==
    ASSUME SerialInv, FireInv', NEW w \in Threads, DropFired(w)
    PROVE  SerialInv'
<1>. DEFINE u == triggers[thread[w].trigger].user
<1>1. /\ thread[w].at = "drop" /\ UNCHANGED <<current, triggers>> /\ Busy(w)
      /\ users' = [users EXCEPT ![thread[w].arg][u] = 0] /\ Goto(w, "next")
  BY DEF DropFired, FiredUser, Busy
<1>2. /\ FireInv /\ Inv /\ Only(w) /\ Current(w, thread[w], current, users)
      /\ thread \in [Threads -> Thread] /\ thread[w].trigger \in 1 .. Len(triggers)
      /\ \A i \in 1 .. Len(triggers) : Open(triggers[i]) => Listed(i)
  BY <1>1, AtWork, Typed, FiringThread DEF Returning, Firing
<1>3. /\ thread[w].arg = current /\ current \in Ids /\ current # 0
      /\ users[current][u] \in {0, thread[w].trigger} /\ triggers[thread[w].trigger].fired > 0
  BY <1>1, <1>2, Typed DEF Current, Working, Fresh
<1>4. \A v \in Users : users'[current][v] = IF v = u THEN 0 ELSE users[current][v]
  BY <1>1, <1>2, <1>3, Typed
<1>5. PICK z \in Thread : Moves(w, z) /\ z.at = "next"
          /\ z.batch = thread[w].batch /\ z.left = thread[w].left
  BY <1>1, <1>2, GotoMoves DEF Positions
<1>6. Others(w) /\ thread'[w] = z
  BY <1>5 DEF Moves, Others
<1>7. \A i \in 1 .. Len(triggers) : triggers[i].user \in Users
  <2>. SUFFICES ASSUME NEW i \in 1 .. Len(triggers) PROVE triggers[i].user \in Users
    OBVIOUS
  <2>1. triggers[i] \in Trigger
    BY <1>2, Typed
  <2>. QED  BY <2>1 DEF Trigger
<1>8. Current(w, thread[w], current, users)'
  <2>1. thread[w].batch \cup thread[w].left \subseteq 1 .. Len(triggers)
    BY <1>2, Typed DEF Sound
  <2>2. \A i \in thread[w].batch \cup thread[w].left : Fresh(i, current, users)'
    BY <1>1, <1>2, <1>4, <1>7, <2>1 DEF Current, Fresh, Firing
  <2>. QED  BY <1>1, <1>3, <1>5, <1>6, <2>2 DEF Current, Working, Firing
<1>9. ASSUME NEW i \in 1 .. Len(triggers'), Open(triggers'[i]) PROVE Listed(i)' \/ Returning(w, i)'
  <2>1. i \in 1 .. Len(triggers) /\ Listed(i) /\ triggers[i].fired = 0
    BY <1>1, <1>2, <1>9 DEF Open
  <2>2. i # thread[w].trigger
    BY <1>3, <2>1
  <2>3. triggers[i].user # u
    BY <1>3, <2>1, <2>2 DEF Listed
  <2>. QED  BY <1>1, <1>4, <1>7, <2>1, <2>3 DEF Listed
<1>10. Only(w)'
  BY <1>2, <1>6, OnlyStays
<1>. QED  BY <1>8, <1>9, <1>10, SerialKept

LEMMA SerialRegister ==
    ASSUME SerialInv, FireInv', NEW w \in Threads, Register(w)
    PROVE  SerialInv'
<1>. DEFINE id == Len(triggers) + 1
            t == [user |-> w[2], amount |-> thread[w].arg, limit |-> 0,
                  held |-> 0, fired |-> 0, canceled |-> FALSE]
            waiting == [thread EXCEPT ![w].at = "hold", ![w].trigger = id]
            started == [waiting EXCEPT ![<<"timer", thread[w].timer>>].at = "poll",
                                       ![<<"timer", thread[w].timer>>].timer = thread[w].timer]
<1>1. /\ thread[w].at = "register" /\ UNCHANGED <<current>> /\ Busy(w)
  BY DEF Register, Busy
<1>2. /\ FireInv /\ Inv /\ Only(w) /\ Current(w, thread[w], current, users)
      /\ thread \in [Threads -> Thread] /\ thread[w] \in Thread
      /\ triggers \in Seq(Trigger) /\ Len(triggers) \in Nat
      /\ \A i \in 1 .. Len(triggers) : Open(triggers[i]) => Listed(i)
  BY <1>1, AtWork, Typed DEF Returning
<1>3. /\ w[1] = "SET_AMOUNT" /\ w[2] \in Users
      /\ thread[w].timer = current /\ current \in Ids /\ current # 0
  BY <1>1, <1>2, KindAt, Typed DEF Current
<1>4. CASE Finish(w, FALSE) /\ UNCHANGED <<users, triggers>>
  <2>1. Others(w) /\ thread'[w].at = "done"
    BY <1>2, <1>4, Onward
  <2>. QED  BY <1>1, <1>4, <2>1, RestKept
<1>5. CASE /\ users[thread[w].timer][w[2]] = 0
           /\ users' = [users EXCEPT ![thread[w].timer][w[2]] = id]
           /\ triggers' = Append(triggers, t)
           /\ thread' = IF thread[w].fresh THEN started ELSE waiting
  <2>0. PICK l \in Threads : l = <<"timer", thread[w].timer>> /\ l # w /\ l = <<"timer", current>>
    BY <1>3, ThreadKinds
  <2>1. thread'[w].at = "hold" /\ thread'[w].trigger = id
    <3>1. thread'[w] = [thread[w] EXCEPT !.at = "hold", !.trigger = id]
      BY <1>2, <1>5, <2>0
    <3>. QED  BY <1>2, <3>1 DEF Thread
  <2>2. Only(w)'
    <3>1. thread[l] \in Thread
      BY <1>2
    <3>2. thread'[l] = thread[l] \/ thread'[l] = [thread[l] EXCEPT !.at = "poll", !.timer = thread[w].timer]
      BY <1>2, <1>5, <2>0
    <3>3. ~Busy(l)'
      BY <1>2, <2>0, <3>1, <3>2 DEF Only, Busy, Thread
    <3>4. \A v \in Threads \ {w, l} : thread'[v] = thread[v]
      BY <1>2, <1>5, <2>0
    <3>. QED  BY <1>2, <3>3, <3>4 DEF Only, Busy
  <2>3. \A u \in Users : users'[current][u] = IF u = w[2] THEN id ELSE users[current][u]
    BY <1>2, <1>3, <1>5, Typed
  <2>4. /\ Len(triggers') = id /\ triggers'[id] = t
        /\ \A i \in 1 .. Len(triggers) : triggers'[i] = triggers[i]
    <3>1. triggers' \in Seq(Trigger)
      BY DEF FireInv, Inv, TypeOK
    <3>. HIDE DEF t
    <3>. QED  BY <1>2, <1>5, <3>1
  <2>5. Current(w, thread[w], current, users)'
    BY <1>1, <1>3, <2>1, <2>3 DEF Current, Working, Firing
  <2>6. ASSUME NEW i \in 1 .. Len(triggers'), Open(triggers'[i])
        PROVE  Listed(i)' \/ Returning(w, i)'
    <3>1. i \in 1 .. Len(triggers)
      <4>1. t.held = 0
        OBVIOUS
      <4>. HIDE DEF t
      <4>. QED  BY <1>2, <2>4, <2>6, <4>1 DEF Open
    <3>2. triggers'[i] = triggers[i] /\ triggers[i] \in Trigger /\ i # 0
      BY <1>2, <2>4, <3>1
    <3>3. Listed(i) /\ triggers[i].user \in Users
      BY <1>2, <2>6, <3>1, <3>2 DEF Trigger
    <3>4. triggers[i].user # w[2]
      BY <1>3, <1>5, <3>2, <3>3 DEF Listed
    <3>. QED  BY <1>1, <2>3, <3>2, <3>3, <3>4 DEF Listed
  <2>. QED  BY <2>2, <2>5, <2>6, SerialKept
<1>. QED  BY <1>1, <1>4, <1>5 DEF Register

-----------------------------------------------------------------------------
LEMMA SerialAgain ==
    ASSUME SerialInv, FireInv', NEW w \in Threads, Again(w),
           thread[w].at \in {"check", "hold", "return", "first", "second"},
           UNCHANGED registry, SameOwners,
           \A i \in 1 .. Len(triggers) :
             Open(triggers'[i]) => Listed(i) \/ Open(triggers[i])
    PROVE  SerialInv'
<1>. DEFINE r == Restarted(w)
<1>1. Become(w, r) /\ Busy(w) /\ UNCHANGED <<current, users>>
  BY DEF Again, Busy, registry
<1>2. /\ FireInv /\ Inv /\ Current(w, thread[w], current, users) /\ thread[w] \in Thread
  BY <1>1, AtWork, Typed
<1>3. /\ thread[w].at \in {"check", "hold"} => r.at = "check"
      /\ thread[w].at = "return" => r.at = "return" /\ r.trigger = thread[w].trigger
      /\ thread[w].at \in {"first", "second"} =>
           r.at = "next" /\ r.left = thread[w].batch /\ r.batch = thread[w].batch
  BY <1>2, KindAt DEF Restarted, Thread, Firing
<1>. HIDE DEF r
<1>4. Others(w) /\ thread'[w] = r
  BY <1>1, <1>2, Alone
<1>5. thread[w].batch \subseteq 1 .. Len(triggers)
  BY <1>2, Typed DEF Sound
<1>6. Current(w, thread[w], current, users)'
  BY <1>1, <1>2, <1>3, <1>4, <1>5 DEF Current, Working, Firing, Fresh, SameOwners
<1>. QED  BY <1>1, <1>3, <1>4, <1>6, MarkKept DEF Returning

LEMMA SerialFault ==
    ASSUME SerialInv, FireInv', NEW w \in Threads, Fault(w) \/ AnswerLost(w)
    PROVE  SerialInv'
<1>1. Again(w) /\ FireInv
  BY DEF Fault, AnswerLost, SerialInv
<1>2. CASE Fault(w)
  BY <1>1, <1>2, Alone, SerialAgain DEF Fault
<1>3. CASE HoldAmount(w)
  BY <1>1, <1>3, HoldMarks, SerialAgain DEF HoldAmount
<1>4. CASE ReturnAmount(w)
  BY <1>1, <1>4, ReturnMarks, SerialAgain DEF ReturnAmount
<1>5. CASE PaySecond(w)
  BY <1>1, <1>5, SecondCounts, SecondMarks, SerialAgain
<1>. QED  BY <1>2, <1>3, <1>4, <1>5 DEF AnswerLost
-----------------------------------------------------------------------------
LEMMA InitSerial ==
    ASSUME Init
    PROVE  SerialInv
<1>1. FireInv /\ Len(triggers) = 0
  BY InitFire DEF Init
<1>2. Rest.at = "idle" /\ \A w \in Threads : thread[w] = Rest
  BY DEF Init, Rest
<1>3. \A w \in Threads : ~Busy(w) /\ Current(w, thread[w], current, users)
  BY <1>2 DEF Busy, Current, Working, Firing
<1>. QED  BY <1>1, <1>3 DEF SerialInv

LEMMA SerialCommand ==
    ASSUME ~Overlap, SerialInv, FireInv', NEW u \in Users,
           ReceiveSetAmount(u) \/ ReceiveSetTrigger(u) \/ ReceiveCancel(u)
    PROVE  SerialInv'
<1>1. CASE ReceiveSetAmount(u)
  <2>1. PICK a \in Amounts : Receive("SET_AMOUNT", u, a, "check")
    BY <1>1 DEF ReceiveSetAmount
  <2>. QED  BY <2>1, SerialReceive, Constants DEF Kinds
<1>2. CASE ReceiveSetTrigger(u)
  <2>1. PICK n \in Limits : Receive("SET_TRIGGER", u, n, "enter")
    BY <1>2 DEF ReceiveSetTrigger
  <2>. QED  BY <2>1, SerialReceive, Constants DEF Kinds
<1>3. CASE ReceiveCancel(u)
  BY <1>3, SerialReceive, Constants DEF Kinds, ReceiveCancel
<1>. QED  BY <1>1, <1>2, <1>3

LEMMA SerialProgress ==
    ASSUME ~Overlap, SerialInv, FireInv', NEW w \in Threads, Progress(w)
    PROVE  SerialInv'
<1>1. CASE HandlerStep(w)
  BY <1>1, SerialLocal, SerialEnter, SerialRegister, SerialAmount, SerialUpdate, SerialCompare,
     SerialFind, SerialTake DEF HandlerStep
<1>2. CASE LoopStep(w)
  BY <1>2, SerialLocal, SerialPoll, SerialQuote, SerialExit DEF LoopStep
<1>3. CASE FireStep(w)
  BY <1>3, SerialLocal, SerialFireNext, SerialPayFirst, SerialPay, SerialFindFired,
     SerialDropFired DEF FireStep
<1>. QED  BY <1>1, <1>2, <1>3 DEF Progress

LEMMA NextSerial ==
    ASSUME ~Overlap, SerialInv, [Next]_vars
    PROVE  SerialInv'
<1>0. FireInv'
  BY NextFire DEF SerialInv
<1>1. CASE UNCHANGED vars
  BY <1>0, <1>1 DEF vars, SerialInv, Busy, Current, Fresh, Open, Listed, Returning
<1>2. CASE Next
  BY <1>0, <1>2, SerialCommand, SerialProgress, SerialFault DEF Next
<1>. QED  BY <1>1, <1>2

(***************************************************************************)
(* While commands and polls come one at a time, whatever statement fails:  *)
(* at most one thread is at work and what it has looked up is still so.    *)
(***************************************************************************)
THEOREM SerialInvariance == ASSUME ~Overlap PROVE Spec => []SerialInv
<1>1. Init => SerialInv
  BY InitSerial
<1>2. SerialInv /\ [Next]_vars => SerialInv'
  BY NextSerial
<1>. QED  BY <1>1, <1>2, PTL DEF Spec

(***************************************************************************)
(* Then a trigger that holds an amount can always be found: between two    *)
(* commands it is registered with the stock's timer, where CANCEL returns  *)
(* the amount and the limit is watched.                                    *)
(***************************************************************************)
THEOREM HeldCanBeFound == ASSUME ~Overlap PROVE Spec => []HeldIsRegistered
<1>1. ASSUME SerialInv PROVE HeldIsRegistered
  <2>. SUFFICES ASSUME Quiet, NEW i \in DOMAIN triggers, Open(triggers[i])
                PROVE  current # 0 /\ users[current][triggers[i].user] = i
    BY DEF HeldIsRegistered, Open
  <2>1. i \in 1 .. Len(triggers)
    BY <1>1 DEF SerialInv, FireInv, Inv, TypeOK
  <2>2. \A w \in Threads : ~Returning(w, i)
    BY DEF Quiet, Returning
  <2>. QED  BY <1>1, <2>1, <2>2 DEF SerialInv, Listed
<1>. QED  BY <1>1, SerialInvariance, PTL
-----------------------------------------------------------------------------
(***************************************************************************)
(* No statement fails either.  Then a thread knows more: SET_AMOUNT that   *)
(* the account covers its amount, SET_TRIGGER and the loop that what they  *)
(* are about to complete is registered and at its limit, CANCEL that what  *)
(* it gives back is held and nobody's any more.  And what is registered    *)
(* holds its amount, but for the trigger that a thread has in hand.        *)
(***************************************************************************)
Ready(w) ==
    LET k == thread[w]
        t == triggers[k.trigger] IN
    /\ w[1] = "SET_AMOUNT" /\ k.at \in {"enter", "register", "hold"} => k.arg <= source[w[2]]
    /\ k.at = "hold" => t.amount = k.arg /\ t.limit = 0 /\ ~t.canceled /\ t.fired = 0
    /\ w[1] = "SET_TRIGGER" /\ k.at \in {"enter", "update"} => k.arg \in Limits
    /\ k.at = "return" =>
         Open(t) /\ t.amount = k.arg /\ t.user = w[2] /\ ~Listed(k.trigger)
    /\ k.at \in {"compare"} \cup Working => Listed(k.trigger)
    /\ k.at \in Firing => \A i \in k.left : Listed(i)
    /\ w[1] = "SET_TRIGGER" /\ k.at \in Firing =>
         \A i \in k.left : Reached(triggers[i].limit, cost[k.timer])
    /\ k.at \in {"first", "second"} =>
         /\ Reached(t.limit, cost[k.timer])
         /\ k.spent = WholeShares(t.amount, cost[k.timer])

InHand(w, i) == thread[w].trigger = i /\ thread[w].at \in {"hold", "found", "drop"}
Holding(w) == \A i \in 1 .. Len(triggers) : Listed(i) => Open(triggers[i]) \/ InHand(w, i)

BookInv ==
    /\ SerialInv
    /\ \A w \in Threads : Ready(w)
    /\ \A i \in 1 .. Len(triggers) :
         Listed(i) => Open(triggers[i]) \/ \E w \in Threads : InHand(w, i)

LEMMA BookAtWork ==
    ASSUME BookInv, NEW w \in Threads, Busy(w) \/ Quiet
    PROVE  /\ SerialInv /\ FireInv /\ Inv /\ Only(w) /\ Ready(w) /\ Holding(w)
           /\ Current(w, thread[w], current, users) /\ Turn(w, thread[w], current, users)
           /\ thread \in [Threads -> Thread] /\ thread[w] \in Thread
<1>1. SerialInv /\ FireInv /\ Inv /\ Only(w) /\ Ready(w)
      /\ Current(w, thread[w], current, users) /\ Turn(w, thread[w], current, users)
  BY AtWork DEF BookInv
<1>2. \A v \in Threads, i \in 1 .. Len(triggers) : InHand(v, i) => v = w
  BY <1>1 DEF Only, Busy, InHand
<1>3. Holding(w)
  BY <1>2 DEF BookInv, Holding
<1>. QED  BY <1>1, <1>3, Typed

LEMMA BookKept ==
    ASSUME BookInv, SerialInv', NEW w \in Threads, Busy(w) \/ Quiet, Others(w),
           Ready(w)', Holding(w)'
    PROVE  BookInv'
<1>1. Only(w)'
  BY BookAtWork, OnlyStays
<1>2. ASSUME NEW v \in Threads \ {w} PROVE Ready(v)'
  BY <1>1 DEF Only, Busy, Ready, Working, Firing
<1>. QED  BY <1>2 DEF BookInv, Holding

(* A step that registers, removes and marks nobody. *)
LEMMA BookStill ==
    ASSUME BookInv, SerialInv', NEW w \in Threads, Busy(w) \/ Quiet, Others(w), Ready(w)',
           UNCHANGED <<current, users, triggers>>,
           thread[w].at \in {"hold", "found", "drop"} =>
             thread'[w].at \in {"hold", "found", "drop"} /\ thread'[w].trigger = thread[w].trigger
    PROVE  BookInv'
<1>1. Holding(w)
  BY BookAtWork
<1>2. Holding(w)'
  BY <1>1 DEF Holding, Listed, InHand
<1>. QED  BY <1>2, BookKept

(* A thread that rests, or has nothing in hand yet. *)
LEMMA BookRest ==
    ASSUME BookInv, SerialInv', NEW w \in Threads, Busy(w) \/ Quiet, Others(w),
           UNCHANGED <<current, users, triggers>>, thread[w].at \notin {"hold", "found", "drop"},
           thread'[w].at \in {"idle", "poll", "quote", "check", "find", "take", "exit", "done"}
    PROVE  BookInv'
BY BookStill DEF Ready, Working, Firing

-----------------------------------------------------------------------------
(* Each action. *)
LEMMA BookReceive ==
    ASSUME ~Overlap, BookInv, SerialInv', NEW kind \in Kinds, NEW u \in Users, NEW arg \in Nat,
           NEW position \in {"check", "enter", "find"}, Receive(kind, u, arg, position),
           position = "enter" => kind = "SET_TRIGGER" /\ arg \in Limits
    PROVE  BookInv'
<1>. DEFINE w == <<kind, u>>
            r == [Rest EXCEPT !.at = position, !.arg = arg]
<1>1. w \in Threads /\ w[1] = kind /\ r.at = position /\ r.arg = arg /\ FireInv
  BY ThreadKinds DEF BookInv, SerialInv, Rest
<1>2. /\ Become(w, r) /\ thread[w].at = "idle" /\ UNCHANGED <<current, users, triggers>> /\ Quiet
  BY DEF Receive, MayBegin, registry
<1>. HIDE DEF r, w
<1>3. Others(w) /\ thread'[w] = r
  BY <1>1, <1>2, Alone
<1>4. Ready(w)'
  BY <1>1, <1>3 DEF Ready, Working, Firing
<1>. QED  BY <1>1, <1>2, <1>3, <1>4, BookStill

LEMMA BookLocal ==
    ASSUME ~Overlap, BookInv, SerialInv', NEW w \in Threads,
           Reply(w) \/ Unquoted(w) \/ FiredAll(w) \/ Poll(w) \/ Find(w)
    PROVE  BookInv'
<1>. DEFINE r == [thread[w] EXCEPT !.at = "take", !.timer = current]
<1>1. /\ (thread[w].at \in {"done", "quote", "next", "find"} \/ (thread[w].at = "poll" /\ Quiet))
      /\ UNCHANGED <<current, users, triggers>>
      /\ \/ Become(w, Rest) \/ Become(w, r) \/ \E p \in {"poll", "quote", "exit"} : Goto(w, p)
         \/ \E b \in BOOLEAN : Finish(w, b)
  BY DEF Reply, Find, Unquoted, FiredAll, Poll, MayBegin, registry
<1>2. Busy(w) \/ Quiet
  BY <1>1 DEF Busy
<1>3. FireInv /\ Rest.at = "idle" /\ thread \in [Threads -> Thread] /\ r.at = "take"
  BY <1>2, BookAtWork DEF Rest, Thread
<1>. HIDE DEF r
<1>4. Others(w) /\ thread'[w].at \in {"idle", "take", "poll", "quote", "exit", "done"}
  BY <1>1, <1>3, Alone, Onward
<1>. QED  BY <1>1, <1>2, <1>4, BookRest

LEMMA BookCheck ==
    ASSUME BookInv, SerialInv', NEW w \in Threads, Check(w)
    PROVE  BookInv'
<1>1. /\ thread[w].at = "check" /\ UNCHANGED <<source, current, users, triggers>> /\ Busy(w)
      /\ \/ thread[w].arg <= source[w[2]] /\ Goto(w, "enter")
         \/ Finish(w, FALSE)
  BY DEF Check, Busy, accounts, registry
<1>2. FireInv /\ Inv /\ thread \in [Threads -> Thread] /\ w[1] = "SET_AMOUNT"
  BY <1>1, BookAtWork, KindAt
<1>3. CASE thread[w].arg <= source[w[2]] /\ Goto(w, "enter")
  <2>1. PICK z \in Thread : Moves(w, z) /\ z.at = "enter" /\ z.arg = thread[w].arg
    BY <1>2, <1>3, GotoMoves DEF Positions
  <2>2. Others(w) /\ thread'[w] = z
    BY <2>1 DEF Moves, Others
  <2>3. Ready(w)'
    BY <1>1, <1>2, <1>3, <2>1, <2>2 DEF Ready, Working, Firing
  <2>. QED  BY <1>1, <2>2, <2>3, BookStill
<1>4. CASE Finish(w, FALSE)
  <2>1. Others(w) /\ thread'[w].at = "done"
    BY <1>2, <1>4, Onward
  <2>. QED  BY <1>1, <2>1, BookRest
<1>. QED  BY <1>1, <1>3, <1>4

LEMMA BookEnter ==
    ASSUME BookInv, SerialInv', NEW w \in Threads, Enter(w)
    PROVE  BookInv'
<1>. DEFINE onward == IF w[1] = "SET_AMOUNT" THEN "register" ELSE "update"
            r == [thread[w] EXCEPT !.at = onward, !.timer = current, !.fresh = FALSE]
            m == [thread[w] EXCEPT !.at = onward, !.timer = born + 1, !.fresh = TRUE]
<1>1. thread[w].at = "enter" /\ UNCHANGED <<source, users, triggers>> /\ Busy(w)
  BY DEF Enter, Busy, accounts
<1>2. /\ FireInv /\ Inv /\ Only(w) /\ Ready(w) /\ Holding(w)
      /\ thread \in [Threads -> Thread] /\ thread[w] \in Thread
      /\ w[1] \in {"SET_AMOUNT", "SET_TRIGGER"}
  BY <1>1, BookAtWork, KindAt
<1>3. /\ r.at = onward /\ r.arg = thread[w].arg
      /\ m.at = onward /\ m.arg = thread[w].arg
  BY <1>2 DEF Thread
<1>. HIDE DEF r, m
<1>4. ASSUME NEW z, thread'[w] = z, z.at = onward, z.arg = thread[w].arg PROVE Ready(w)'
  BY <1>1, <1>2, <1>4 DEF Ready, Working, Firing
<1>5. CASE current # 0 /\ Become(w, r) /\ UNCHANGED current
  <2>1. Others(w) /\ thread'[w] = r
    BY <1>2, <1>5, Alone
  <2>2. Ready(w)'
    BY <1>3, <1>4, <2>1
  <2>. QED  BY <1>1, <1>5, <2>1, <2>2, BookStill
<1>6. CASE current' = born + 1 /\ Become(w, m)
  <2>1. Others(w) /\ thread'[w] = m
    BY <1>2, <1>6, Alone
  <2>2. Ready(w)'
    BY <1>3, <1>4, <2>1
  <2>3. current' \in Ids /\ ~(current' <= born) /\ current' # 0
    <3>1. born \in Nat /\ current' \in Ids \cup {0}
      BY <1>2, Typed DEF SerialInv, FireInv, Inv, TypeOK
    <3>. QED  BY <1>6, <3>1
  <2>4. \A u \in Users : users[current'][u] = 0
    BY <1>2, <2>3 DEF Inv, Registry
  <2>5. Holding(w)'
    <3>. SUFFICES ASSUME NEW i \in 1 .. Len(triggers) PROVE ~Listed(i)'
      BY <1>1 DEF Holding
    <3>1. triggers[i] \in Trigger /\ i # 0
      BY <1>2, Typed
    <3>2. triggers[i].user \in Users
      BY <3>1 DEF Trigger
    <3>. QED  BY <1>1, <2>4, <3>1, <3>2 DEF Listed
  <2>. QED  BY <1>1, <2>1, <2>2, <2>5, BookKept
<1>7. CASE Finish(w, FALSE) /\ UNCHANGED current
  <2>1. Others(w) /\ thread'[w].at = "done"
    BY <1>2, <1>7, Onward
  <2>. QED  BY <1>1, <1>7, <2>1, BookRest
<1>. QED  BY <1>5, <1>6, <1>7 DEF Enter, r, m

LEMMA BookCompare ==
    ASSUME BookInv, SerialInv', NEW w \in Threads, Compare(w)
    PROVE  BookInv'
<1>. DEFINE r == [thread[w] EXCEPT !.at = "next", !.batch = {thread[w].trigger},
                                   !.left = {thread[w].trigger}]
<1>1. /\ thread[w].at = "compare" /\ UNCHANGED <<current, users, cost, triggers>> /\ Busy(w)
      /\ \/ Reached(triggers[thread[w].trigger].limit, cost[thread[w].timer]) /\ Become(w, r)
         \/ Finish(w, TRUE)
  BY DEF Compare, Busy, registry
<1>2. FireInv /\ Inv /\ Ready(w) /\ thread \in [Threads -> Thread] /\ thread[w] \in Thread
  BY <1>1, BookAtWork
<1>3. r.at = "next" /\ r.left = {thread[w].trigger} /\ r.timer = thread[w].timer
  BY <1>2 DEF Thread
<1>. HIDE DEF r
<1>4. CASE Reached(triggers[thread[w].trigger].limit, cost[thread[w].timer]) /\ Become(w, r)
  <2>1. Others(w) /\ thread'[w] = r
    BY <1>2, <1>4, Alone
  <2>2. Listed(thread[w].trigger) /\ \A i : Listed(i) => Listed(i)'
    BY <1>1, <1>2 DEF Ready, Listed
  <2>3. Ready(w)'
    BY <1>1, <1>2, <1>3, <1>4, <2>1, <2>2 DEF Ready, Working, Firing, Reached
  <2>. QED  BY <1>1, <2>1, <2>3, BookStill
<1>5. CASE Finish(w, TRUE)
  <2>1. Others(w) /\ thread'[w].at = "done"
    BY <1>2, <1>5, Onward
  <2>. QED  BY <1>1, <2>1, BookRest
<1>. QED  BY <1>1, <1>4, <1>5

LEMMA BookQuote ==
    ASSUME BookInv, SerialInv', NEW w \in Threads, Quote(w)
    PROVE  BookInv'
<1>. DEFINE us == Registered(thread[w].timer)
            p == [thread[w] EXCEPT !.at = "poll"]
            q == [thread[w] EXCEPT !.at = "next", !.batch = us, !.left = us]
<1>1. /\ thread[w].at = "quote" /\ (Become(w, p) \/ Become(w, q)) /\ Busy(w)
      /\ UNCHANGED <<current, users, triggers>>
  BY DEF Quote, Busy
<1>2. FireInv /\ Inv /\ OneLoop /\ thread[w] \in Thread /\ w[1] = "timer"
  BY <1>1, BookAtWork, KindAt DEF FireInv
<1>3. thread[w].timer = current /\ current \in Ids /\ current # 0
  <2>1. w \in Loops
    BY <1>2, ThreadKinds DEF Threads, Kinds
  <2>2. thread[w].timer = current /\ thread[w].timer # 0
    BY <1>1, <1>2, <2>1, Typed DEF OneLoop, Sound
  <2>. QED  BY <1>2, <2>2, Typed
<1>4. \A i \in us : Listed(i)'
  <2>1. ASSUME NEW u \in Users, users[current][u] # 0
        PROVE  triggers[users[current][u]].user = u
    BY <1>2, <1>3, <2>1 DEF Inv, Registry
  <2>. QED  BY <1>1, <1>3, <2>1 DEF Registered, Listed
<1>5. p.at = "poll" /\ q.at = "next" /\ q.left = us
  BY <1>2 DEF Thread
<1>. HIDE DEF us, p, q
<1>6. CASE Become(w, p)
  <2>1. Others(w) /\ thread'[w] = p
    BY <1>2, <1>6, Alone
  <2>. QED  BY <1>1, <1>5, <2>1, BookRest
<1>7. CASE Become(w, q)
  <2>1. Others(w) /\ thread'[w] = q
    BY <1>2, <1>7, Alone
  <2>2. Ready(w)'
    BY <1>2, <1>4, <1>5, <2>1 DEF Ready, Working, Firing
  <2>. QED  BY <1>1, <2>1, <2>2, BookStill
<1>. QED  BY <1>1, <1>6, <1>7

LEMMA BookExit ==
    ASSUME BookInv, SerialInv', NEW w \in Threads, Exit(w)
    PROVE  BookInv'
<1>1. /\ thread[w].at = "exit" /\ current' = 0 /\ Become(w, Rest) /\ Busy(w)
      /\ UNCHANGED <<users, triggers>> /\ Rest.at = "idle"
  BY DEF Exit, Busy, Rest
<1>2. Others(w) /\ thread'[w] = Rest
  BY <1>1, BookAtWork, Alone
<1>. QED  BY <1>1, <1>2, BookKept DEF Holding, Listed, Ready, Working, Firing
LEMMA BookFireNext ==
    ASSUME BookInv, SerialInv', NEW w \in Threads, FireNext(w)
    PROVE  BookInv'
<1>. DEFINE r(id) == [thread[w] EXCEPT !.at = "first", !.trigger = id, !.left = @ \ {id},
                          !.spent = WholeShares(triggers[id].amount, cost[thread[w].timer])]
            p(id) == [thread[w] EXCEPT !.left = @ \ {id}]
<1>1. PICK id \in thread[w].left :
        /\ thread[w].at = "next" /\ UNCHANGED <<current, users, cost, triggers>>
        /\ (Fires(w, id) /\ Become(w, r(id))) \/ (~Fires(w, id) /\ Become(w, p(id)))
  BY DEF FireNext, registry
<1>2. Busy(w) /\ FireInv /\ Ready(w) /\ thread[w] \in Thread
  BY <1>1, BookAtWork DEF Busy
<1>. DEFINE x == r(id)
            y == p(id)
<1>3. /\ x.at = "first" /\ x.trigger = id /\ x.left = thread[w].left \ {id}
      /\ x.timer = thread[w].timer
      /\ x.spent = WholeShares(triggers[id].amount, cost[thread[w].timer])
      /\ y.at = "next" /\ y.left = thread[w].left \ {id} /\ y.timer = thread[w].timer
  BY <1>1, <1>2 DEF Thread
<1>4. \A i \in thread[w].left : Listed(i)'
  BY <1>1, <1>2 DEF Ready, Firing, Listed
<1>5. w[1] = "SET_TRIGGER" =>
        \A i \in thread[w].left : Reached(triggers[i].limit, cost[thread[w].timer])
  BY <1>1, <1>2 DEF Ready, Firing
<1>6. w \in Handlers => w[1] = "SET_TRIGGER"
  BY <1>1, <1>2, KindAt, ThreadKinds DEF FireInv, Firing, Kinds
<1>. HIDE DEF x, y
<1>7. CASE Fires(w, id) /\ Become(w, x)
  <2>1. Others(w) /\ thread'[w] = x
    BY <1>2, <1>7, Alone
  <2>2. Reached(triggers[id].limit, cost[thread[w].timer])
    BY <1>5, <1>6, <1>7 DEF Fires
  <2>3. Ready(w)'
    BY <1>1, <1>3, <1>4, <1>5, <2>1, <2>2 DEF Ready, Working, Firing, Reached
  <2>. QED  BY <1>1, <1>2, <2>1, <2>3, BookStill
<1>8. CASE Become(w, y)
  <2>1. Others(w) /\ thread'[w] = y
    BY <1>2, <1>8, Alone
  <2>2. Ready(w)'
    BY <1>1, <1>3, <1>4, <1>5, <2>1 DEF Ready, Working, Firing, Reached
  <2>. QED  BY <1>1, <1>2, <2>1, <2>2, BookStill
<1>. QED  BY <1>1, <1>7, <1>8 DEF x, y

LEMMA BookPayFirst ==
    ASSUME BookInv, SerialInv', NEW w \in Threads, PayFirst(w)
    PROVE  BookInv'
<1>1. /\ thread[w].at = "first" /\ UNCHANGED <<current, users, cost, triggers>>
      /\ Goto(w, "second") /\ Busy(w)
  BY DEF PayFirst, registry, Busy
<1>2. FireInv /\ Inv /\ Ready(w) /\ thread \in [Threads -> Thread]
  BY <1>1, BookAtWork
<1>3. PICK z \in Thread : Moves(w, z) /\ z.at = "second" /\ z.trigger = thread[w].trigger
          /\ z.left = thread[w].left /\ z.timer = thread[w].timer /\ z.spent = thread[w].spent
  BY <1>1, <1>2, GotoMoves DEF Positions
<1>4. Others(w) /\ thread'[w] = z
  BY <1>3 DEF Moves, Others
<1>5. \A i : Listed(i) => Listed(i)'
  BY <1>1 DEF Listed
<1>6. Ready(w)'
  BY <1>1, <1>2, <1>3, <1>4, <1>5 DEF Ready, Working, Firing, Reached
<1>. QED  BY <1>1, <1>4, <1>6, BookStill

LEMMA BookFindFired ==
    ASSUME BookInv, SerialInv', NEW w \in Threads, FindFired(w)
    PROVE  BookInv'
<1>. DEFINE r == [thread[w] EXCEPT !.at = "drop", !.arg = current]
<1>1. /\ thread[w].at = "found" /\ UNCHANGED <<current, users, cost, triggers>> /\ Busy(w)
      /\ Known(FiredUser(w)) => Become(w, r)
  BY DEF FindFired, registry, Busy
<1>2. FireInv /\ Inv /\ Ready(w) /\ thread[w] \in Thread
  BY <1>1, BookAtWork
<1>3. Known(FiredUser(w))
  <2>1. Listed(thread[w].trigger) /\ thread[w].trigger \in 1 .. Len(triggers)
    BY <1>1, <1>2, FiringThread DEF Ready, Working, Firing
  <2>2. thread[w].trigger # 0
    BY <1>2, <2>1, Typed
  <2>. QED  BY <2>1, <2>2 DEF Listed, Known, FiredUser
<1>4. /\ r.at = "drop" /\ r.trigger = thread[w].trigger /\ r.left = thread[w].left
      /\ r.timer = thread[w].timer
  BY <1>2 DEF Thread
<1>. HIDE DEF r
<1>5. Others(w) /\ thread'[w] = r
  BY <1>1, <1>2, <1>3, Alone
<1>6. \A i : Listed(i) => Listed(i)'
  BY <1>1 DEF Listed
<1>7. Ready(w)'
  BY <1>1, <1>2, <1>4, <1>5, <1>6 DEF Ready, Working, Firing, Reached
<1>. QED  BY <1>1, <1>4, <1>5, <1>7, BookStill

(* Steps that change what is registered or what a trigger holds. *)
LEMMA BookRegister ==
    ASSUME BookInv, SerialInv', NEW w \in Threads, Register(w)
    PROVE  BookInv'
<1>. DEFINE id == Len(triggers) + 1
            t == [user |-> w[2], amount |-> thread[w].arg, limit |-> 0,
                  held |-> 0, fired |-> 0, canceled |-> FALSE]
            waiting == [thread EXCEPT ![w].at = "hold", ![w].trigger = id]
            started == [waiting EXCEPT ![<<"timer", thread[w].timer>>].at = "poll",
                                       ![<<"timer", thread[w].timer>>].timer = thread[w].timer]
<1>1. thread[w].at = "register" /\ UNCHANGED <<source, current>> /\ Busy(w)
  BY DEF Register, Busy, accounts
<1>2. /\ SerialInv /\ FireInv /\ Inv /\ Only(w) /\ Ready(w) /\ Holding(w)
      /\ Current(w, thread[w], current, users)
      /\ thread \in [Threads -> Thread] /\ thread[w] \in Thread
      /\ triggers \in Seq(Trigger) /\ Len(triggers) \in Nat
  BY <1>1, BookAtWork, Typed
<1>3. /\ w[1] = "SET_AMOUNT" /\ w[2] \in Users
      /\ thread[w].timer = current /\ current \in Ids /\ current # 0
  BY <1>1, <1>2, KindAt, Typed DEF Current
<1>4. CASE Finish(w, FALSE) /\ UNCHANGED <<users, triggers>>
  <2>1. Others(w) /\ thread'[w].at = "done"
    BY <1>2, <1>4, Onward
  <2>. QED  BY <1>1, <1>4, <2>1, BookRest
<1>5. CASE /\ users[thread[w].timer][w[2]] = 0
           /\ users' = [users EXCEPT ![thread[w].timer][w[2]] = id]
           /\ triggers' = Append(triggers, t)
           /\ thread' = IF thread[w].fresh THEN started ELSE waiting
  <2>0. PICK l \in Threads : l = <<"timer", thread[w].timer>> /\ l # w
    BY <1>3, ThreadKinds
  <2>1. thread'[w].at = "hold" /\ thread'[w].trigger = id /\ thread'[w].arg = thread[w].arg
    <3>1. thread'[w] = [thread[w] EXCEPT !.at = "hold", !.trigger = id]
      BY <1>2, <1>5, <2>0
    <3>. QED  BY <1>2, <3>1 DEF Thread
  <2>2. Busy(w)'
    BY <2>1 DEF Busy
  <2>3. \A u \in Users : users'[current][u] = IF u = w[2] THEN id ELSE users[current][u]
    BY <1>2, <1>3, <1>5, Typed
  <2>4. /\ Len(triggers') = id /\ triggers'[id] = t
        /\ \A i \in 1 .. Len(triggers) : triggers'[i] = triggers[i]
    <3>1. triggers' \in Seq(Trigger)
      BY DEF SerialInv, FireInv, Inv, TypeOK
    <3>. HIDE DEF t
    <3>. QED  BY <1>2, <1>5, <3>1
  <2>5. /\ t.amount = thread[w].arg /\ t.limit = 0 /\ t.fired = 0 /\ ~t.canceled
    OBVIOUS
  <2>. HIDE DEF t
  <2>6. Ready(w)'
    BY <1>1, <1>2, <1>3, <2>1, <2>4, <2>5 DEF Ready, Working, Firing
  <2>7. ASSUME NEW v \in Threads \ {w} PROVE Ready(v)'
    BY <2>2, <2>7 DEF SerialInv, Busy, Ready, Working, Firing
  <2>8. ASSUME NEW i \in 1 .. Len(triggers'), Listed(i)'
        PROVE  Open(triggers'[i]) \/ InHand(w, i)'
    <3>1. CASE i = id
      BY <2>1, <3>1 DEF InHand
    <3>2. CASE i # id
      <4>1. i \in 1 .. Len(triggers) /\ triggers'[i] = triggers[i] /\ triggers[i] \in Trigger
        BY <1>2, <2>4, <3>2
      <4>2. triggers[i].user \in Users
        BY <4>1 DEF Trigger
      <4>3. Listed(i)
        BY <1>1, <2>3, <2>8, <3>2, <4>1, <4>2 DEF Listed
      <4>4. Open(triggers[i])
        BY <1>1, <1>2, <4>1, <4>3 DEF Holding, InHand
      <4>. QED  BY <4>1, <4>4
    <3>. QED  BY <3>1, <3>2
  <2>. QED  BY <2>6, <2>7, <2>8 DEF BookInv
<1>. QED  BY <1>1, <1>4, <1>5 DEF Register

LEMMA BookHold ==
    ASSUME BookInv, SerialInv', NEW w \in Threads, Hold(w)
    PROVE  BookInv'
<1>. DEFINE j == thread[w].trigger
<1>1. /\ thread[w].at = "hold" /\ HoldAmount(w) /\ Finish(w, TRUE) /\ Busy(w)
      /\ triggers' = [triggers EXCEPT ![j].held = @ + 1] /\ UNCHANGED <<current, users>>
  BY DEF Hold, HoldAmount, registry, Busy
<1>2. /\ SerialInv /\ FireInv /\ Inv /\ Ready(w) /\ Holding(w) /\ thread \in [Threads -> Thread]
      /\ triggers \in Seq(Trigger) /\ j \in 1 .. Len(triggers) /\ w[1] = "SET_AMOUNT"
  BY <1>1, BookAtWork, HoldEffect, Typed
<1>3. Others(w) /\ thread'[w].at = "done"
  BY <1>1, <1>2, Onward
<1>4. triggers[j] \in Trigger /\ triggers[j].held = 0 /\ ~triggers[j].canceled /\ triggers[j].fired = 0
  BY <1>1, <1>2, Typed DEF Own, Ready
<1>5. SameOwners /\ \A i \in 1 .. Len(triggers) : i # j => triggers'[i] = triggers[i]
  BY <1>1, <1>2, HoldMarks
<1>6. Open(triggers'[j])
  <2>1. triggers'[j] = [triggers[j] EXCEPT !.held = triggers[j].held + 1]
    BY <1>1, <1>2
  <2>2. triggers'[j].held = 1 /\ triggers'[j].canceled = triggers[j].canceled
        /\ triggers'[j].fired = triggers[j].fired
    BY <1>4, <2>1 DEF Trigger
  <2>. QED  BY <1>4, <2>2 DEF Open
<1>7. Holding(w)'
  BY <1>1, <1>2, <1>5, <1>6, SMTT(30) DEF Holding, Listed, InHand, SameOwners
<1>8. Ready(w)'
  BY <1>3 DEF Ready, Working, Firing
<1>. QED  BY <1>1, <1>3, <1>7, <1>8, BookKept

LEMMA BookUpdate ==
    ASSUME BookInv, SerialInv', NEW w \in Threads, Update(w)
    PROVE  BookInv'
<1>. DEFINE id == users[thread[w].timer][w[2]]
            r == [thread[w] EXCEPT !.at = "compare", !.trigger = id]
            t == [triggers[id] EXCEPT !.limit = thread[w].arg]
<1>1. /\ thread[w].at = "update" /\ UNCHANGED <<current, users>> /\ Busy(w)
      /\ \/ Finish(w, FALSE) /\ UNCHANGED triggers
         \/ id # 0 /\ triggers' = [triggers EXCEPT ![id] = t] /\ Become(w, r)
  BY ZenonT(60) DEF Update, Accepts, registry, Busy
<1>2. /\ FireInv /\ Inv /\ Current(w, thread[w], current, users) /\ Holding(w)
      /\ thread \in [Threads -> Thread] /\ thread[w] \in Thread /\ triggers \in Seq(Trigger)
  BY <1>1, BookAtWork, Typed
<1>3. thread[w].timer = current /\ current \in Ids /\ current # 0 /\ w[2] \in Users
  BY <1>1, <1>2, KindAt, Typed DEF Current
<1>4. CASE id # 0 /\ triggers' = [triggers EXCEPT ![id] = t] /\ Become(w, r)
  <2>1. id \in 1 .. Len(triggers) /\ triggers[id].user = w[2]
    BY <1>2, <1>3, <1>4 DEF Inv, Registry
  <2>2. r.at = "compare" /\ r.trigger = id
    BY <1>2 DEF Thread
  <2>3. t.user = triggers[id].user /\ (Open(t) <=> Open(triggers[id]))
    <3>1. triggers[id] \in Trigger
      BY <1>2, <2>1
    <3>. QED  BY <3>1 DEF Trigger, Open
  <2>. HIDE DEF r, t
  <2>4. Others(w) /\ thread'[w] = r /\ SameOwners
    BY <1>2, <1>4, <2>1, <2>3, Alone, MarkedOwners
  <2>5. \A i \in 1 .. Len(triggers) : Listed(i)' <=> Listed(i)
    BY <1>1, <2>4 DEF Listed, SameOwners
  <2>6. \A i \in 1 .. Len(triggers) : Open(triggers[i]) => Open(triggers'[i])
    <3>1. \A i \in 1 .. Len(triggers) : triggers'[i] = IF i = id THEN t ELSE triggers[i]
      BY <1>2, <1>4
    <3>. QED  BY <2>3, <3>1
  <2>7. Holding(w)'
    BY <1>1, <1>2, <2>4, <2>5, <2>6 DEF Holding, InHand, SameOwners
  <2>8. Listed(id) /\ \A i \in 1 .. Len(triggers) : Listed(i) => Listed(i)'
    BY <1>3, <2>1, <2>5 DEF Listed
  <2>9. Ready(w)'
    BY <2>1, <2>2, <2>4, <2>8, ZenonT(60) DEF Ready, Working, Firing
  <2>. QED  BY <1>1, <2>4, <2>7, <2>9, BookKept
<1>5. CASE Finish(w, FALSE) /\ UNCHANGED triggers
  <2>1. Others(w) /\ thread'[w].at = "done"
    BY <1>2, <1>5, Onward
  <2>. QED  BY <1>1, <1>5, <2>1, BookRest
<1>. QED  BY <1>1, <1>4, <1>5, ZenonT(60)
LEMMA BookReturn ==
    ASSUME BookInv, SerialInv', NEW w \in Threads, Return(w)
    PROVE  BookInv'
<1>. DEFINE j == thread[w].trigger
<1>1. /\ thread[w].at = "return" /\ ReturnAmount(w) /\ Finish(w, TRUE) /\ Busy(w)
      /\ triggers' = [triggers EXCEPT ![j].canceled = TRUE] /\ UNCHANGED <<current, users>>
  BY DEF Return, ReturnAmount, registry, Busy
<1>2. /\ SerialInv /\ FireInv /\ Inv /\ Ready(w) /\ Holding(w) /\ thread \in [Threads -> Thread]
      /\ triggers \in Seq(Trigger) /\ j \in 1 .. Len(triggers)
  BY <1>1, BookAtWork, Typed DEF Sound
<1>3. Others(w) /\ thread'[w].at = "done"
  BY <1>1, <1>2, Onward
<1>4. SameOwners /\ \A i \in 1 .. Len(triggers) : i # j => triggers'[i] = triggers[i]
  BY <1>1, <1>2, ReturnMarks
<1>5. ~Listed(j)
  BY <1>1, <1>2 DEF Ready
<1>6. Holding(w)'
  BY <1>1, <1>2, <1>4, <1>5 DEF Holding, Listed, InHand, SameOwners
<1>7. Ready(w)'
  BY <1>3 DEF Ready, Working, Firing
<1>. QED  BY <1>1, <1>3, <1>6, <1>7, BookKept

LEMMA BookTake ==
    ASSUME BookInv, SerialInv', NEW w \in Threads, Take(w)
    PROVE  BookInv'
<1>. DEFINE id == users[thread[w].timer][w[2]]
            r == [thread[w] EXCEPT !.at = "return", !.trigger = id, !.arg = triggers[id].amount]
<1>1. /\ thread[w].at = "take" /\ id # 0 /\ UNCHANGED <<current, triggers>> /\ Busy(w)
      /\ users' = [users EXCEPT ![thread[w].timer][w[2]] = 0] /\ Become(w, r)
  BY DEF Take, Busy
<1>2. /\ FireInv /\ Inv /\ Current(w, thread[w], current, users) /\ thread[w] \in Thread
      /\ Holding(w)
  BY <1>1, BookAtWork
<1>3. /\ thread[w].timer = current /\ current \in Ids /\ current # 0 /\ w[2] \in Users
      /\ w[1] = "CANCEL"
  BY <1>1, <1>2, KindAt, Typed DEF Current
<1>4. id \in 1 .. Len(triggers) /\ triggers[id].user = w[2]
  BY <1>1, <1>2, <1>3 DEF Inv, Registry
<1>5. Open(triggers[id])
  BY <1>1, <1>2, <1>3, <1>4 DEF Holding, Listed, InHand
<1>6. r.at = "return" /\ r.trigger = id /\ r.arg = triggers[id].amount
  BY <1>2 DEF Thread
<1>. HIDE DEF r
<1>7. Others(w) /\ thread'[w] = r
  BY <1>1, <1>2, Alone
<1>8. \A u \in Users : users'[current][u] = IF u = w[2] THEN 0 ELSE users[current][u]
  BY <1>1, <1>2, <1>3, Typed
<1>9. Ready(w)'
  BY <1>1, <1>3, <1>4, <1>5, <1>6, <1>7, <1>8 DEF Ready, Working, Firing, Listed
<1>10. ASSUME NEW i \in 1 .. Len(triggers), Listed(i)' PROVE Open(triggers'[i])
  <2>1. triggers[i] \in Trigger /\ i # 0
    BY <1>2, Typed
  <2>2. triggers[i].user \in Users
    BY <2>1 DEF Trigger
  <2>3. Listed(i)
    BY <1>1, <1>3, <1>8, <1>10, <2>1, <2>2 DEF Listed
  <2>. QED  BY <1>1, <1>2, <2>3 DEF Holding, InHand
<1>11. Holding(w)'
  BY <1>1, <1>10 DEF Holding
<1>. QED  BY <1>1, <1>7, <1>9, <1>11, BookKept, ZenonT(60)

LEMMA BookPay ==
    ASSUME BookInv, SerialInv', NEW w \in Threads, Pay(w)
    PROVE  BookInv'
<1>. DEFINE j == thread[w].trigger
            t == [triggers[j] EXCEPT !.fired = @ + 1]
<1>1. /\ PaySecond(w) /\ Goto(w, "found") /\ thread[w].at = "second" /\ Busy(w)
      /\ UNCHANGED <<current, users, cost>> /\ triggers' = [triggers EXCEPT ![j] = t]
  BY DEF Pay, PaySecond, registry, Busy
<1>2. /\ SerialInv /\ FireInv /\ Inv /\ Ready(w) /\ Holding(w) /\ thread \in [Threads -> Thread]
      /\ triggers \in Seq(Trigger) /\ j \in 1 .. Len(triggers)
      /\ thread[w].left \subseteq 1 .. Len(triggers)
  BY <1>1, BookAtWork, FiringThread, Typed DEF Firing
<1>3. PICK z \in Thread : Moves(w, z) /\ z.at = "found" /\ z.trigger = j
          /\ z.left = thread[w].left /\ z.timer = thread[w].timer
  BY <1>1, <1>2, GotoMoves DEF Positions
<1>4. Others(w) /\ thread'[w] = z
  BY <1>3 DEF Moves, Others
<1>5. t.user = triggers[j].user /\ t.limit = triggers[j].limit
  <2>1. triggers[j] \in Trigger
    BY <1>2
  <2>. QED  BY <2>1 DEF Trigger
<1>. HIDE DEF t
<1>6. /\ Len(triggers') = Len(triggers)
      /\ \A i \in 1 .. Len(triggers) : triggers'[i] = IF i = j THEN t ELSE triggers[i]
  BY <1>1, <1>2
<1>7. \A i \in 1 .. Len(triggers) :
        /\ Listed(i)' <=> Listed(i)
        /\ triggers'[i].limit = triggers[i].limit
  BY <1>1, <1>5, <1>6 DEF Listed
<1>8. Ready(w)'
  BY <1>1, <1>2, <1>3, <1>4, <1>7 DEF Ready, Working, Firing, Reached
<1>9. Holding(w)'
  BY <1>1, <1>2, <1>3, <1>4, <1>6, <1>7 DEF Holding, InHand
<1>. QED  BY <1>1, <1>4, <1>8, <1>9, BookKept

LEMMA BookDropFired ==
    ASSUME BookInv, SerialInv', NEW w \in Threads, DropFired(w)
    PROVE  BookInv'
<1>. DEFINE j == thread[w].trigger
            u == triggers[j].user
<1>1. /\ thread[w].at = "drop" /\ UNCHANGED <<current, cost, triggers>> /\ Busy(w)
      /\ users' = [users EXCEPT ![thread[w].arg][u] = 0] /\ Goto(w, "next")
  BY DEF DropFired, FiredUser, Busy
<1>2. /\ FireInv /\ Inv /\ Current(w, thread[w], current, users) /\ Ready(w) /\ Holding(w)
      /\ Turn(w, thread[w], current, users) /\ thread \in [Threads -> Thread]
      /\ j \in 1 .. Len(triggers) /\ thread[w].left \subseteq 1 .. Len(triggers)
  BY <1>1, BookAtWork, FiringThread DEF Firing
<1>3. /\ thread[w].arg = current /\ current \in Ids /\ current # 0 /\ Listed(j)
      /\ j \notin thread[w].left
  BY <1>1, <1>2, Typed DEF Current, Working, Ready, Turn
<1>4. \A v \in Users : users'[current][v] = IF v = u THEN 0 ELSE users[current][v]
  BY <1>1, <1>2, <1>3, Typed
<1>5. PICK z \in Thread : Moves(w, z) /\ z.at = "next" /\ z.trigger = j
          /\ z.left = thread[w].left /\ z.timer = thread[w].timer
  BY <1>1, <1>2, GotoMoves DEF Positions
<1>6. Others(w) /\ thread'[w] = z
  BY <1>5 DEF Moves, Others
<1>7. \A i \in 1 .. Len(triggers) : triggers[i].user \in Users /\ i # 0
  <2>. SUFFICES ASSUME NEW i \in 1 .. Len(triggers) PROVE triggers[i].user \in Users /\ i # 0
    OBVIOUS
  <2>1. triggers[i] \in Trigger /\ i # 0
    BY <1>2, Typed
  <2>. QED  BY <2>1 DEF Trigger
<1>8. \A i \in 1 .. Len(triggers) :
        /\ Listed(i)' => Listed(i) /\ i # j
        /\ Listed(i) /\ i # j => Listed(i)'
  BY <1>1, <1>2, <1>3, <1>4, <1>7 DEF Listed
<1>9. \A i \in thread[w].left : Listed(i)'
  BY <1>1, <1>2, <1>3, <1>8 DEF Ready, Firing
<1>10. Ready(w)'
  BY <1>1, <1>2, <1>5, <1>6, <1>9 DEF Ready, Working, Firing, Reached
<1>11. Holding(w)'
  BY <1>1, <1>2, <1>8 DEF Holding, InHand
<1>. QED  BY <1>1, <1>6, <1>10, <1>11, BookKept

LEMMA InitBook ==
    ASSUME Init
    PROVE  BookInv
<1>1. SerialInv /\ Len(triggers) = 0
  BY InitSerial DEF Init
<1>2. Rest.at = "idle" /\ \A w \in Threads : thread[w] = Rest
  BY DEF Init, Rest
<1>3. \A w \in Threads : Ready(w)
  BY <1>2 DEF Ready, Working, Firing
<1>. QED  BY <1>1, <1>3 DEF BookInv

LEMMA NoFault ==
    ASSUME MaxFaults = 0, Inv, NEW w \in Threads
    PROVE  ~Fault(w) /\ ~AnswerLost(w)
<1>1. faults = 0
  BY DEF Inv, TypeOK
<1>. QED  BY <1>1 DEF Fault, AnswerLost, Again

LEMMA NextBook ==
    ASSUME ~Overlap, MaxFaults = 0, BookInv, [Next]_vars
    PROVE  BookInv'
<1>0. SerialInv' /\ Inv
  BY NextSerial DEF BookInv, SerialInv, FireInv
<1>1. CASE UNCHANGED vars
  BY <1>0, <1>1 DEF vars, BookInv, Ready, Open, Listed, InHand, Reached
<1>2. ASSUME NEW u \in Users, ReceiveSetAmount(u) \/ ReceiveSetTrigger(u) \/ ReceiveCancel(u)
      PROVE  BookInv'
  <2>1. CASE ReceiveSetAmount(u)
    <3>1. PICK a \in Amounts : Receive("SET_AMOUNT", u, a, "check")
      BY <2>1 DEF ReceiveSetAmount
    <3>. QED  BY <1>0, <3>1, BookReceive, Constants DEF Kinds
  <2>2. CASE ReceiveSetTrigger(u)
    <3>1. PICK n \in Limits : Receive("SET_TRIGGER", u, n, "enter")
      BY <2>2 DEF ReceiveSetTrigger
    <3>. QED  BY <1>0, <3>1, BookReceive, Constants DEF Kinds
  <2>3. CASE ReceiveCancel(u)
    BY <1>0, <2>3, BookReceive, Constants DEF Kinds, ReceiveCancel
  <2>. QED  BY <1>2, <2>1, <2>2, <2>3
<1>3. ASSUME NEW w \in Threads, HandlerStep(w) PROVE BookInv'
  BY <1>0, <1>3, BookCheck, BookEnter, BookRegister, BookHold, BookUpdate, BookCompare, BookLocal,
     BookTake, BookReturn DEF HandlerStep
<1>4. ASSUME NEW w \in Threads, LoopStep(w) PROVE BookInv'
  BY <1>0, <1>4, BookLocal, BookQuote, BookExit DEF LoopStep
<1>5. ASSUME NEW w \in Threads, FireStep(w) PROVE BookInv'
  BY <1>0, <1>5, BookFireNext, BookLocal, BookPayFirst, BookPay, BookFindFired, BookDropFired
     DEF FireStep
<1>. QED  BY <1>0, <1>1, <1>2, <1>3, <1>4, <1>5, NoFault DEF Next, Progress
-----------------------------------------------------------------------------
(***************************************************************************)
(* The refinement of TriggerBook.  While no thread stands between its two  *)
(* payments the accounts of the book are the accounts; while one does, the *)
(* first payment has not happened in the book.                             *)
(***************************************************************************)
Halfway(w) ==
    /\ Direction = "BUY" =>
         /\ BookSource = [source EXCEPT ![FiredUser(w)] = @ - Leftover(w)]
         /\ BookTarget = target
    /\ Direction = "SELL" =>
         /\ BookSource = source
         /\ BookTarget = [target EXCEPT ![FiredUser(w)] = @ - thread[w].spent]

BookLevel ==
    /\ (\A w \in Threads : thread[w].at # "second") => BookSource = source /\ BookTarget = target
    /\ \A w \in Threads : thread[w].at = "second" => Halfway(w)

LEMMA BookIsLevel ==
    ASSUME BookInv
    PROVE  BookLevel
<1>1. /\ Inv /\ source \in [Users -> Int] /\ target \in [Users -> Int]
      /\ Direction \in {"BUY", "SELL"}
  BY Constants DEF BookInv, SerialInv, FireInv, Inv, TypeOK
<1>2. ASSUME \A w \in Threads : thread[w].at # "second"
      PROVE  BookSource = source /\ BookTarget = target
  <2>1. \A u \in Users : HalfPaying(u) = {}
    BY <1>2 DEF HalfPaying
  <2>2. /\ BookSource = [u \in Users |-> source[u] - 0]
        /\ BookTarget = [u \in Users |-> target[u] - 0]
    BY <2>1 DEF BookSource, BookTarget
  <2>3. \A u \in Users : source[u] - 0 = source[u] /\ target[u] - 0 = target[u]
    BY <1>1
  <2>. QED  BY <1>1, <2>2, <2>3
<1>3. ASSUME NEW w \in Threads, thread[w].at = "second" PROVE Halfway(w)
  <2>1. Only(w) /\ thread[w] \in Thread
    BY <1>3, BookAtWork DEF Busy
  <2>2. \A u \in Users : HalfPaying(u) = IF u = FiredUser(w) THEN {w} ELSE {}
    BY <1>3, <2>1 DEF HalfPaying, Only, Busy
  <2>3. Payer(FiredUser(w)) = w
    <3>1. HalfPaying(FiredUser(w)) = {w}
      BY <1>3, <2>1 DEF HalfPaying, Only, Busy
    <3>. QED  BY <3>1 DEF Payer
  <2>4. /\ thread[w].trigger \in 1 .. Len(triggers)
    BY <1>1, <1>3, FiringThread DEF Firing
  <2>5. Leftover(w) \in Int /\ thread[w].spent \in Int /\ FiredUser(w) \in Users
    <3>1. triggers[thread[w].trigger] \in Trigger
      BY <1>1, <2>4, Typed
    <3>. QED  BY <2>1, <3>1 DEF Trigger, Thread, Leftover, FiredUser
  <2>6. CASE Direction = "BUY"
    <3>1. \A u \in Users : BookSource[u] = IF u = FiredUser(w) THEN source[u] - Leftover(w)
                                                             ELSE source[u]
      <4>1. ASSUME NEW u \in Users, u = FiredUser(w) PROVE BookSource[u] = source[u] - Leftover(w)
        <5>1. HalfPaying(u) # {} /\ Payer(u) = w
          BY <2>2, <2>3, <4>1
        <5>. QED  BY <2>6, <5>1 DEF BookSource
      <4>2. ASSUME NEW u \in Users, u # FiredUser(w) PROVE BookSource[u] = source[u]
        <5>1. HalfPaying(u) = {}
          BY <2>2, <4>2
        <5>. QED  BY <1>1, <5>1 DEF BookSource
      <4>. QED  BY <4>1, <4>2
    <3>2. \A u \in Users : BookTarget[u] = target[u]
      BY <1>1, <2>6 DEF BookTarget
    <3>3. /\ BookSource = [u \in Users |-> BookSource[u]]
          /\ BookTarget = [u \in Users |-> BookTarget[u]]
      BY DEF BookSource, BookTarget
    <3>. QED  BY <1>1, <2>6, <3>1, <3>2, <3>3 DEF Halfway
  <2>7. CASE Direction = "SELL"
    <3>1. \A u \in Users : BookTarget[u] = IF u = FiredUser(w) THEN target[u] - thread[w].spent
                                                             ELSE target[u]
      <4>1. ASSUME NEW u \in Users, u = FiredUser(w) PROVE BookTarget[u] = target[u] - thread[w].spent
        <5>1. HalfPaying(u) # {} /\ Payer(u) = w
          BY <2>2, <2>3, <4>1
        <5>. QED  BY <2>7, <5>1 DEF BookTarget
      <4>2. ASSUME NEW u \in Users, u # FiredUser(w) PROVE BookTarget[u] = target[u]
        <5>1. HalfPaying(u) = {}
          BY <2>2, <4>2
        <5>. QED  BY <1>1, <5>1 DEF BookTarget
      <4>. QED  BY <4>1, <4>2
    <3>2. \A u \in Users : BookSource[u] = source[u]
      BY <1>1, <2>7 DEF BookSource
    <3>3. /\ BookSource = [u \in Users |-> BookSource[u]]
          /\ BookTarget = [u \in Users |-> BookTarget[u]]
      BY DEF BookSource, BookTarget
    <3>. QED  BY <1>1, <2>7, <3>1, <3>2, <3>3 DEF Halfway
  <2>. QED  BY <1>1, <2>6, <2>7
<1>. QED  BY <1>2, <1>3 DEF BookLevel

(***************************************************************************)
(* What becomes of the book when one trigger is marked.                    *)
(***************************************************************************)
LEMMA SameBook ==
    ASSUME Inv, Len(triggers') >= Len(triggers), triggers' \in Seq(Trigger),
           \A i \in 1 .. Len(triggers) : triggers'[i] = triggers[i],
           \A i \in 1 .. Len(triggers') : i > Len(triggers) => ~Open(triggers'[i])
    PROVE  OpenTriggers' = OpenTriggers
<1>1. /\ DOMAIN triggers = 1 .. Len(triggers) /\ DOMAIN triggers' = 1 .. Len(triggers')
      /\ Len(triggers) \in Nat /\ Len(triggers') \in Nat
  BY DEF Inv, TypeOK
<1>2. \A i \in DOMAIN triggers' : Open(triggers'[i]) => i \in DOMAIN triggers
  BY <1>1
<1>3. DOMAIN triggers \subseteq DOMAIN triggers'
  BY <1>1
<1>. QED  BY <1>1, <1>2, <1>3 DEF OpenTriggers, Entry, Open

LEMMA OneEntry ==
    ASSUME Inv, Len(triggers') = Len(triggers), triggers' \in Seq(Trigger),
           NEW j \in 1 .. Len(triggers),
           \A i \in 1 .. Len(triggers) : i # j => triggers'[i] = triggers[i],
           NEW e, e = [id |-> j, user |-> triggers[j].user, amount |-> triggers[j].amount,
                       limit |-> triggers[j].limit],
           NEW f, f = [id |-> j, user |-> triggers'[j].user, amount |-> triggers'[j].amount,
                       limit |-> triggers'[j].limit]
    PROVE  /\ Open(triggers[j]) <=> e \in OpenTriggers
           /\ Open(triggers[j]) /\ ~Open(triggers'[j]) => OpenTriggers' = OpenTriggers \ {e}
           /\ ~Open(triggers[j]) /\ Open(triggers'[j]) =>
                OpenTriggers' = OpenTriggers \cup {f} /\ f \notin OpenTriggers
           /\ Open(triggers[j]) /\ Open(triggers'[j]) =>
                OpenTriggers' = (OpenTriggers \ {e}) \cup {f}
<1>1. /\ DOMAIN triggers = 1 .. Len(triggers) /\ DOMAIN triggers' = 1 .. Len(triggers)
  BY DEF Inv, TypeOK
<1>. DEFINE rest == {Entry(i) : i \in {k \in DOMAIN triggers : k # j /\ Open(triggers[k])}}
<1>2. e \notin rest /\ f \notin rest
  BY DEF Entry
<1>3. OpenTriggers = rest \cup IF Open(triggers[j]) THEN {e} ELSE {}
  BY <1>1 DEF OpenTriggers, Entry, Open
<1>4. OpenTriggers' = rest \cup IF Open(triggers'[j]) THEN {f} ELSE {}
  BY <1>1 DEF OpenTriggers, Entry, Open
<1>. HIDE DEF rest
<1>. QED  BY <1>2, <1>3, <1>4
-----------------------------------------------------------------------------
(* Steps that the book does not see. *)
LEMMA Unseen ==
    ASSUME BookInv, BookInv', BookLevel, BookLevel', NEW w \in Threads,
           Busy(w) \/ Quiet, Others(w), thread[w].at # "second", thread'[w].at # "second",
           UNCHANGED <<source, target, triggers>>
    PROVE  UNCHANGED B!vars
<1>1. Only(w) /\ Inv /\ triggers \in Seq(Trigger)
  BY BookAtWork, Typed
<1>2. Only(w)'
  BY <1>1, OnlyStays
<1>3. /\ \A v \in Threads : thread[v].at # "second"
      /\ \A v \in Threads : thread'[v].at # "second"
  BY <1>1, <1>2 DEF Only, Busy
<1>4. OpenTriggers' = OpenTriggers
  BY DEF OpenTriggers, Entry
<1>. QED  BY <1>3, <1>4 DEF BookLevel, B!vars

LEMMA UnseenHandler ==
    ASSUME BookInv, BookInv', BookLevel, BookLevel', NEW w \in Threads,
           Check(w) \/ Enter(w) \/ Compare(w) \/ Find(w) \/ Take(w) \/ Reply(w)
    PROVE  UNCHANGED B!vars
<1>1. /\ thread[w].at \in {"check", "enter", "compare", "find", "take", "done"}
      /\ UNCHANGED <<source, target, triggers>>
  BY DEF Check, Enter, Compare, Find, Take, Reply, accounts
<1>2. Busy(w) /\ FireInv /\ thread \in [Threads -> Thread] /\ thread[w] \in Thread
  BY <1>1, BookAtWork DEF Busy
<1>3. /\ thread'[w].at # "second" /\ Others(w)
  <2>1. \/ \E p \in {"enter"} : Goto(w, p)
        \/ \E b \in BOOLEAN : Finish(w, b)
        \/ \E r : Become(w, r) /\ r.at # "second"
    <3>1. CASE Check(w)
      BY <3>1 DEF Check
    <3>2. CASE Enter(w)
      <4>. DEFINE onward == IF w[1] = "SET_AMOUNT" THEN "register" ELSE "update"
                  r == [thread[w] EXCEPT !.at = onward, !.timer = current, !.fresh = FALSE]
                  m == [thread[w] EXCEPT !.at = onward, !.timer = born + 1, !.fresh = TRUE]
      <4>1. r.at # "second" /\ m.at # "second"
        BY <1>2, <3>2 DEF Thread
      <4>2. Become(w, r) \/ Become(w, m) \/ Finish(w, FALSE)
        BY <3>2 DEF Enter
      <4>. HIDE DEF r, m
      <4>. QED  BY <4>1, <4>2
    <3>3. CASE Compare(w)
      <4>. DEFINE r == [thread[w] EXCEPT !.at = "next", !.batch = {thread[w].trigger},
                                         !.left = {thread[w].trigger}]
      <4>1. r.at # "second"
        BY <1>2, <3>3 DEF Thread
      <4>2. Become(w, r) \/ Finish(w, TRUE)
        BY <3>3 DEF Compare
      <4>. HIDE DEF r
      <4>. QED  BY <4>1, <4>2
    <3>4. CASE Find(w)
      <4>. DEFINE r == [thread[w] EXCEPT !.at = "take", !.timer = current]
      <4>1. r.at # "second"
        BY <1>2, <3>4 DEF Thread
      <4>2. Become(w, r) \/ Finish(w, FALSE)
        BY <3>4 DEF Find
      <4>. HIDE DEF r
      <4>. QED  BY <4>1, <4>2
    <3>5. CASE Take(w)
      <4>. DEFINE id == users[thread[w].timer][w[2]]
                  r == [thread[w] EXCEPT !.at = "return", !.trigger = id, !.arg = triggers[id].amount]
      <4>1. r.at # "second"
        BY <1>2, <3>5 DEF Thread
      <4>2. Become(w, r)
        BY <3>5 DEF Take
      <4>. HIDE DEF r
      <4>. QED  BY <4>1, <4>2
    <3>6. CASE Reply(w)
      BY <3>6 DEF Reply, Rest
    <3>. QED  BY <3>1, <3>2, <3>3, <3>4, <3>5, <3>6
  <2>. QED  BY <1>2, <2>1, Onward, Alone
<1>. QED  BY <1>1, <1>2, <1>3, Unseen

LEMMA UnseenLoop ==
    ASSUME ~Overlap, BookInv, BookInv', BookLevel, BookLevel', NEW w \in Threads,
           Poll(w) \/ Quote(w) \/ Unquoted(w) \/ Exit(w)
    PROVE  UNCHANGED B!vars
<1>1. /\ thread[w].at \in {"quote", "exit"} \/ (thread[w].at = "poll" /\ Quiet)
      /\ UNCHANGED <<source, target, triggers>>
  BY DEF Poll, Quote, Unquoted, Exit, MayBegin, accounts
<1>2. /\ Busy(w) \/ Quiet
      /\ thread[w].at # "second"
  BY <1>1 DEF Busy
<1>3. FireInv /\ thread \in [Threads -> Thread] /\ thread[w] \in Thread
  BY <1>2, BookAtWork
<1>4. /\ thread'[w].at # "second" /\ Others(w)
  <2>1. \/ \E p \in {"poll", "exit", "quote"} : Goto(w, p)
        \/ \E r : Become(w, r) /\ r.at # "second"
    <3>1. CASE Poll(w)
      BY <3>1 DEF Poll
    <3>2. CASE Quote(w)
      <4>. DEFINE us == Registered(thread[w].timer)
                  p == [thread[w] EXCEPT !.at = "poll"]
                  q == [thread[w] EXCEPT !.at = "next", !.batch = us, !.left = us]
      <4>1. p.at # "second" /\ q.at # "second"
        BY <1>3 DEF Thread
      <4>2. Become(w, p) \/ Become(w, q)
        BY <3>2 DEF Quote
      <4>. HIDE DEF p, q
      <4>. QED  BY <4>1, <4>2
    <3>3. CASE Unquoted(w)
      BY <3>3 DEF Unquoted
    <3>4. CASE Exit(w)
      BY <3>4 DEF Exit, Rest
    <3>. QED  BY <3>1, <3>2, <3>3, <3>4
  <2>. QED  BY <1>3, <2>1, Onward, Alone
<1>. QED  BY <1>1, <1>2, <1>4, Unseen

LEMMA UnseenFire ==
    ASSUME BookInv, BookInv', BookLevel, BookLevel', NEW w \in Threads,
           FireNext(w) \/ FiredAll(w) \/ FindFired(w) \/ DropFired(w)
    PROVE  UNCHANGED B!vars
<1>1. /\ thread[w].at \in {"next", "found", "drop"}
      /\ UNCHANGED <<source, target, triggers>>
  BY DEF FireNext, FiredAll, FindFired, DropFired, accounts
<1>2. Busy(w) /\ FireInv /\ thread \in [Threads -> Thread] /\ thread[w] \in Thread
  BY <1>1, BookAtWork DEF Busy
<1>3. /\ thread'[w].at # "second" /\ Others(w)
  <2>1. \/ \E p \in {"next", "poll"} : Goto(w, p)
        \/ \E b \in BOOLEAN : Finish(w, b)
        \/ \E r : Become(w, r) /\ r.at # "second"
    <3>1. CASE FireNext(w)
      <4>. DEFINE r(id) == [thread[w] EXCEPT !.at = "first", !.trigger = id, !.left = @ \ {id},
                                !.spent = WholeShares(triggers[id].amount, cost[thread[w].timer])]
                  p(id) == [thread[w] EXCEPT !.left = @ \ {id}]
      <4>1. PICK id \in thread[w].left : Become(w, r(id)) \/ Become(w, p(id))
        BY <3>1 DEF FireNext
      <4>2. r(id).at # "second" /\ p(id).at # "second"
        BY <1>1, <1>2 DEF Thread
      <4>. HIDE DEF r, p
      <4>. QED  BY <4>1, <4>2, ZenonT(60)
    <3>2. CASE FiredAll(w)
      BY <3>2 DEF FiredAll
    <3>3. CASE FindFired(w)
      <4>. DEFINE r == [thread[w] EXCEPT !.at = "drop", !.arg = current]
      <4>1. r.at # "second"
        BY <1>2, <3>3 DEF Thread
      <4>2. Become(w, r) \/ Goto(w, "next")
        BY <3>3 DEF FindFired
      <4>. HIDE DEF r
      <4>. QED  BY <4>1, <4>2
    <3>4. CASE DropFired(w)
      BY <3>4 DEF DropFired
    <3>. QED  BY <3>1, <3>2, <3>3, <3>4
  <2>. QED  BY <1>2, <2>1, Onward, Alone
<1>. QED  BY <1>1, <1>2, <1>3, Unseen, ZenonT(60)

LEMMA UnseenReceive ==
    ASSUME ~Overlap, BookInv, BookInv', BookLevel, BookLevel', NEW u \in Users,
           ReceiveSetAmount(u) \/ ReceiveSetTrigger(u) \/ ReceiveCancel(u)
    PROVE  UNCHANGED B!vars
<1>1. PICK kind \in Kinds, arg \in Nat, position \in {"check", "enter", "find"} :
        Receive(kind, u, arg, position)
  <2>1. CASE ReceiveSetAmount(u)
    <3>1. PICK a \in Amounts : Receive("SET_AMOUNT", u, a, "check")
      BY <2>1 DEF ReceiveSetAmount
    <3>. QED  BY <3>1, Constants DEF Kinds
  <2>2. CASE ReceiveSetTrigger(u)
    <3>1. PICK n \in Limits : Receive("SET_TRIGGER", u, n, "enter")
      BY <2>2 DEF ReceiveSetTrigger
    <3>. QED  BY <3>1, Constants DEF Kinds
  <2>3. CASE ReceiveCancel(u)
    BY <2>3, Constants DEF Kinds, ReceiveCancel
  <2>. QED  BY <2>1, <2>2, <2>3
<1>. DEFINE w == <<kind, u>>
            r == [Rest EXCEPT !.at = position, !.arg = arg]
<1>2. w \in Threads /\ r.at = position /\ FireInv
  BY ThreadKinds DEF BookInv, SerialInv, Rest
<1>3. /\ Become(w, r) /\ thread[w].at = "idle" /\ UNCHANGED <<source, target, triggers>> /\ Quiet
  BY <1>1 DEF Receive, MayBegin, accounts
<1>. HIDE DEF r, w
<1>4. Others(w) /\ thread'[w] = r
  BY <1>2, <1>3, Alone
<1>. QED  BY <1>2, <1>3, <1>4, Unseen

(* Registering a trigger holds nothing yet. *)
LEMMA UnseenRegister ==
    ASSUME BookInv, BookInv', BookLevel, BookLevel', NEW w \in Threads, Register(w)
    PROVE  UNCHANGED B!vars
<1>. DEFINE id == Len(triggers) + 1
            t == [user |-> w[2], amount |-> thread[w].arg, limit |-> 0,
                  held |-> 0, fired |-> 0, canceled |-> FALSE]
            waiting == [thread EXCEPT ![w].at = "hold", ![w].trigger = id]
            started == [waiting EXCEPT ![<<"timer", thread[w].timer>>].at = "poll",
                                       ![<<"timer", thread[w].timer>>].timer = thread[w].timer]
<1>1. thread[w].at = "register" /\ UNCHANGED <<source, target>> /\ Busy(w)
  BY DEF Register, Busy, accounts
<1>2. /\ Inv /\ thread \in [Threads -> Thread] /\ Only(w)
      /\ triggers \in Seq(Trigger) /\ Len(triggers) \in Nat /\ triggers' \in Seq(Trigger)
  BY <1>1, BookAtWork, Typed DEF BookInv, SerialInv, FireInv, Inv, TypeOK
<1>3. CASE Finish(w, FALSE) /\ UNCHANGED triggers
  <2>1. Others(w) /\ thread'[w].at = "done"
    BY <1>2, <1>3, Onward
  <2>. QED  BY <1>1, <1>3, <2>1, Unseen
<1>4. CASE /\ triggers' = Append(triggers, t)
           /\ thread' = IF thread[w].fresh THEN started ELSE waiting
  <2>1. ASSUME NEW v \in Threads PROVE thread[v].at # "second" /\ thread'[v].at # "second"
    <3>1. thread[v].at # "second" /\ thread[v] \in Thread
      BY <1>1, <1>2 DEF Only, Busy
    <3>2. waiting[v].at # "second"
      <4>1. waiting[v].at = IF v = w THEN "hold" ELSE thread[v].at
        BY <1>2, <3>1 DEF Thread
      <4>. QED  BY <3>1, <4>1
    <3>3. started[v].at # "second"
      <4>1. <<"timer", thread[w].timer>> # w
        BY <1>1, <1>2, KindAt
      <4>2. v # <<"timer", thread[w].timer>> => started[v] = waiting[v]
        BY <1>2
      <4>3. v = <<"timer", thread[w].timer>> =>
              started[v] = [thread[v] EXCEPT !.at = "poll", !.timer = thread[w].timer]
        BY <1>2, <4>1
      <4>4. [thread[v] EXCEPT !.at = "poll", !.timer = thread[w].timer].at = "poll"
        BY <3>1 DEF Thread
      <4>. HIDE DEF waiting, started
      <4>. QED  BY <3>2, <4>2, <4>3, <4>4
    <3>. QED  BY <1>4, <3>1, <3>2, <3>3
  <2>2. t.held = 0
    OBVIOUS
  <2>. HIDE DEF t
  <2>3. /\ Len(triggers') = Len(triggers) + 1 /\ triggers'[Len(triggers')] = t
        /\ \A i \in 1 .. Len(triggers) : triggers'[i] = triggers[i]
    BY <1>2, <1>4
  <2>4. OpenTriggers' = OpenTriggers
    BY <1>2, <2>2, <2>3, SameBook DEF Open
  <2>. QED  BY <1>1, <2>1, <2>4 DEF BookLevel, B!vars
<1>. QED  BY <1>3, <1>4 DEF Register
-----------------------------------------------------------------------------
(* The steps of the book. *)
LEMMA Level ==
    ASSUME BookInv, BookInv', BookLevel, BookLevel', NEW w \in Threads, Busy(w), Others(w)
    PROVE  /\ thread[w].at # "second" => BookSource = source /\ BookTarget = target
           /\ thread'[w].at # "second" => BookSource' = source' /\ BookTarget' = target'
<1>1. Only(w)
  BY BookAtWork
<1>2. Only(w)'
  BY <1>1, OnlyStays
<1>. QED  BY <1>1, <1>2 DEF Only, Busy, BookLevel

(* The hold opens the trigger: nobody else's is open for this user. *)
LEMMA HoldOpens ==
    ASSUME BookInv, BookInv', BookLevel, BookLevel', NEW w \in Threads, Hold(w)
    PROVE  B!Next
<1>1. /\ thread[w].at = "hold" /\ HoldAmount(w) /\ Finish(w, TRUE) /\ Busy(w)
      /\ triggers' = [triggers EXCEPT ![thread[w].trigger].held = @ + 1]
      /\ source' = [source EXCEPT ![w[2]] = @ - thread[w].arg] /\ UNCHANGED target
  BY DEF Hold, HoldAmount, Busy
<1>2. /\ SerialInv /\ FireInv /\ Inv /\ Ready(w) /\ Current(w, thread[w], current, users)
      /\ thread \in [Threads -> Thread] /\ triggers \in Seq(Trigger) /\ triggers' \in Seq(Trigger)
      /\ w[1] = "SET_AMOUNT" /\ w[2] \in Users /\ source \in [Users -> Int]
      /\ \A i \in 1 .. Len(triggers) : Open(triggers[i]) => Listed(i) \/ Returning(w, i)
  BY <1>1, BookAtWork, AtWork, HoldEffect, KindAt, Typed
     DEF BookInv, SerialInv, FireInv, Inv, TypeOK
<1>3. PICK j \in 1 .. Len(triggers), a \in Amounts, u \in Users :
        j = thread[w].trigger /\ a = thread[w].arg /\ u = w[2]
  BY <1>1, <1>2, HoldEffect, Typed DEF Sound
<1>4. /\ triggers[j] \in Trigger /\ triggers[j].user = u /\ triggers[j].held = 0
      /\ triggers[j].amount = a /\ triggers[j].limit = 0
      /\ ~triggers[j].canceled /\ triggers[j].fired = 0 /\ a <= source[u] /\ a \in Nat /\ 0 < a
  <2>1. triggers[j] \in Trigger /\ a \in Nat /\ 0 < a
    BY <1>2, <1>3, Constants
  <2>2. triggers[j].user = u /\ triggers[j].held = 0
    BY <1>1, <1>2, <1>3, Typed DEF Own
  <2>3. /\ triggers[j].amount = a /\ triggers[j].limit = 0
        /\ ~triggers[j].canceled /\ triggers[j].fired = 0
    BY <1>1, <1>2, <1>3 DEF Ready
  <2>4. a <= source[u]
    BY <1>1, <1>2, <1>3 DEF Ready
  <2>. QED  BY <2>1, <2>2, <2>3, <2>4
<1>5. BookSource = source /\ BookTarget = target /\ BookSource' = source' /\ BookTarget' = target'
  BY <1>1, <1>2, Onward, Level
<1>6. /\ Len(triggers') = Len(triggers)
      /\ \A i \in 1 .. Len(triggers) : i # j => triggers'[i] = triggers[i]
      /\ triggers'[j] = [triggers[j] EXCEPT !.held = triggers[j].held + 1]
  BY <1>1, <1>2, <1>3
<1>7. /\ triggers'[j].user = u /\ triggers'[j].amount = a /\ triggers'[j].limit = 0
      /\ Open(triggers'[j]) /\ ~Open(triggers[j])
  BY <1>4, <1>6 DEF Trigger, Open
<1>. DEFINE e == [id |-> j, user |-> u, amount |-> a, limit |-> 0]
<1>8. OpenTriggers' = OpenTriggers \cup {e} /\ e \notin OpenTriggers
  BY <1>2, <1>4, <1>6, <1>7, OneEntry
<1>9. \A f \in OpenTriggers : f.user # u
  <2>. SUFFICES ASSUME NEW i \in DOMAIN triggers, Open(triggers[i]) PROVE triggers[i].user # u
    BY DEF OpenTriggers, Entry, Open
  <2>1. Listed(i) /\ i # j
    BY <1>1, <1>2, <1>7 DEF Returning
  <2>. QED  BY <1>1, <1>2, <1>3, <2>1 DEF Listed, Current
<1>10. e.limit = 0 /\ e.amount = a /\ e.user = u
  OBVIOUS
<1>. HIDE DEF e
<1>11. B!Open
  <2>1. e \in OpenTriggers' \ OpenTriggers
    BY <1>8
  <2>2. BookSource' = [BookSource EXCEPT ![e.user] = @ - e.amount] /\ e.amount <= BookSource[e.user]
    BY <1>1, <1>3, <1>4, <1>5, <1>10
  <2>3. UNCHANGED BookTarget /\ 0 < e.amount /\ \A f \in OpenTriggers : f.user # e.user
    BY <1>1, <1>4, <1>5, <1>9, <1>10, ZenonT(60)
  <2>. QED  BY <1>8, <1>10, <2>1, <2>2, <2>3 DEF B!Open
<1>. QED  BY <1>11 DEF B!Next

(* A new limit is SetLimit: whatever is registered holds its amount. *)
LEMMA UpdateSets ==
    ASSUME BookInv, BookInv', BookLevel, BookLevel', NEW w \in Threads, Update(w)
    PROVE  B!Next \/ UNCHANGED B!vars
<1>1. thread[w].at = "update" /\ Busy(w) /\ UNCHANGED <<source, target>>
  BY DEF Update, Busy, accounts
<1>2. /\ SerialInv /\ FireInv /\ Inv /\ Ready(w) /\ Holding(w)
      /\ Current(w, thread[w], current, users)
      /\ thread \in [Threads -> Thread] /\ thread[w] \in Thread
      /\ triggers \in Seq(Trigger) /\ triggers' \in Seq(Trigger)
      /\ w[1] = "SET_TRIGGER" /\ w[2] \in Users
  BY <1>1, BookAtWork, KindAt, Typed DEF BookInv, SerialInv, FireInv, Inv, TypeOK
<1>3. thread[w].timer = current /\ current \in Ids /\ current # 0
  BY <1>1, <1>2, Typed DEF Current
<1>4. CASE Finish(w, FALSE) /\ UNCHANGED triggers
  <2>1. Others(w) /\ thread'[w].at = "done"
    BY <1>2, <1>4, Onward
  <2>. QED  BY <1>1, <1>4, <2>1, Unseen
<1>. DEFINE id == users[thread[w].timer][w[2]]
            r == [thread[w] EXCEPT !.at = "compare", !.trigger = id]
<1>5. CASE /\ Accepts(id, thread[w].arg) /\ Become(w, r)
           /\ triggers' = [triggers EXCEPT ![id].limit = thread[w].arg]
  <2>1. PICK j \in 1 .. Len(triggers), n \in Limits : j = id /\ n = thread[w].arg
    BY <1>1, <1>2, <1>3, <1>5 DEF Accepts, Inv, Registry, Ready
  <2>2. triggers[j].user = w[2] /\ n <= triggers[j].amount
    BY <1>2, <1>3, <1>5, <2>1, Constants DEF Accepts, Inv, Registry
  <2>3. triggers[j] \in Trigger /\ Open(triggers[j])
    BY <1>1, <1>2, <1>3, <2>1, <2>2, SMTT(30) DEF Holding, InHand, Listed
  <2>4. r.at = "compare"
    BY <1>2 DEF Thread
  <2>. HIDE DEF r
  <2>5. BookSource = source /\ BookTarget = target /\ BookSource' = source' /\ BookTarget' = target'
    <3>1. Others(w) /\ thread'[w] = r
      BY <1>2, <1>5, Alone
    <3>. QED  BY <1>1, <2>4, <3>1, Level
  <2>6. /\ Len(triggers') = Len(triggers)
        /\ \A i \in 1 .. Len(triggers) : i # j => triggers'[i] = triggers[i]
        /\ triggers'[j] = [triggers[j] EXCEPT !.limit = n]
    BY <1>2, <1>5, <2>1
  <2>7. /\ triggers'[j].user = triggers[j].user /\ triggers'[j].amount = triggers[j].amount
        /\ triggers'[j].limit = n /\ Open(triggers'[j])
    BY <2>3, <2>6 DEF Trigger, Open
  <2>8. PICK e, f :
          /\ e = [id |-> j, user |-> triggers[j].user, amount |-> triggers[j].amount,
                  limit |-> triggers[j].limit]
          /\ f = [id |-> j, user |-> triggers[j].user, amount |-> triggers[j].amount,
                  limit |-> n]
    OBVIOUS
  <2>9. e \in OpenTriggers /\ OpenTriggers' = (OpenTriggers \ {e}) \cup {f}
    <3>1. f = [id |-> j, user |-> triggers'[j].user, amount |-> triggers'[j].amount,
               limit |-> triggers'[j].limit]
      BY <2>7, <2>8
    <3>2. e = [id |-> j, user |-> triggers[j].user, amount |-> triggers[j].amount,
               limit |-> triggers[j].limit]
      BY <2>8
    <3>3. /\ Open(triggers[j]) <=> e \in OpenTriggers
          /\ Open(triggers[j]) /\ Open(triggers'[j]) =>
               OpenTriggers' = (OpenTriggers \ {e}) \cup {f}
      <4>1. /\ Inv /\ Len(triggers') = Len(triggers) /\ triggers' \in Seq(Trigger)
            /\ \A i \in 1 .. Len(triggers) : i # j => triggers'[i] = triggers[i]
        BY <1>2, <2>6
      <4>. QED  BY <3>1, <3>2, <4>1, OneEntry
    <3>. QED  BY <2>3, <2>7, <3>3
  <2>10. f = [e EXCEPT !.limit = n] /\ n <= e.amount
    BY <2>2, <2>8
  <2>11. B!SetLimit(e)
    BY <1>1, <2>5, <2>9, <2>10 DEF B!SetLimit
  <2>. QED  BY <2>9, <2>11 DEF B!Next
<1>. QED  BY <1>4, <1>5, ZenonT(60) DEF Update

LEMMA ReturnCancels ==
    ASSUME BookInv, BookInv', BookLevel, BookLevel', NEW w \in Threads, Return(w)
    PROVE  B!Next
<1>1. /\ thread[w].at = "return" /\ ReturnAmount(w) /\ Finish(w, TRUE) /\ Busy(w)
      /\ triggers' = [triggers EXCEPT ![thread[w].trigger].canceled = TRUE]
      /\ source' = [source EXCEPT ![w[2]] = @ + thread[w].arg] /\ UNCHANGED target
  BY DEF Return, ReturnAmount, Busy
<1>2. /\ Inv /\ Ready(w) /\ thread \in [Threads -> Thread]
      /\ triggers \in Seq(Trigger) /\ triggers' \in Seq(Trigger)
  BY <1>1, BookAtWork, Typed DEF BookInv, SerialInv, FireInv, Inv, TypeOK
<1>3. PICK j \in 1 .. Len(triggers) : j = thread[w].trigger
  BY <1>1, <1>2, Typed DEF Sound
<1>4. /\ triggers[j] \in Trigger /\ Open(triggers[j])
      /\ triggers[j].amount = thread[w].arg /\ triggers[j].user = w[2]
  BY <1>1, <1>2, <1>3 DEF Ready
<1>5. BookSource = source /\ BookTarget = target /\ BookSource' = source' /\ BookTarget' = target'
  BY <1>1, <1>2, Onward, Level
<1>6. /\ Len(triggers') = Len(triggers)
      /\ \A i \in 1 .. Len(triggers) : i # j => triggers'[i] = triggers[i]
      /\ triggers'[j] = [triggers[j] EXCEPT !.canceled = TRUE]
  <2>. DEFINE t == [triggers[j] EXCEPT !.canceled = TRUE]
  <2>1. triggers' = [triggers EXCEPT ![j] = t]
    BY <1>1, <1>3
  <2>. HIDE DEF t
  <2>2. /\ Len(triggers') = Len(triggers) /\ triggers'[j] = t
        /\ \A i \in 1 .. Len(triggers) : i # j => triggers'[i] = triggers[i]
    BY <1>2, <2>1
  <2>. QED  BY <2>2 DEF t
<1>7. ~Open(triggers'[j])
  BY <1>4, <1>6 DEF Trigger, Open
<1>8. PICK e : e = [id |-> j, user |-> triggers[j].user, amount |-> triggers[j].amount,
                    limit |-> triggers[j].limit]
  OBVIOUS
<1>9. e \in OpenTriggers /\ OpenTriggers' = OpenTriggers \ {e}
  BY <1>2, <1>4, <1>6, <1>7, <1>8, OneEntry
<1>10. e.amount = thread[w].arg /\ e.user = w[2]
  BY <1>4, <1>8
<1>11. B!Cancel(e)
  BY <1>1, <1>5, <1>9, <1>10 DEF B!Cancel
<1>. QED  BY <1>9, <1>11 DEF B!Next

(* The first payment has not happened in the book. *)
LEMMA FirstUnseen ==
    ASSUME BookInv, BookInv', BookLevel, BookLevel', NEW w \in Threads, PayFirst(w)
    PROVE  UNCHANGED B!vars
<1>1. /\ thread[w].at = "first" /\ Goto(w, "second") /\ Busy(w) /\ UNCHANGED triggers
      /\ IF Direction = "BUY" THEN PayLeftover(w) ELSE PaySpent(w)
  BY DEF PayFirst, Busy
<1>2. /\ FireInv /\ Inv /\ thread \in [Threads -> Thread] /\ triggers \in Seq(Trigger)
      /\ source \in [Users -> Int] /\ target \in [Users -> Int]
  BY <1>1, BookAtWork, Typed
<1>3. PICK z \in Thread : Moves(w, z) /\ z.at = "second" /\ z.trigger = thread[w].trigger
          /\ z.spent = thread[w].spent
  BY <1>1, <1>2, GotoMoves DEF Positions
<1>4. PICK j \in 1 .. Len(triggers), s \in Nat : j = thread[w].trigger /\ s = thread[w].spent
  BY <1>1, <1>2, <1>3, FiringThread DEF Firing, Thread, Moves
<1>5. PICK u \in Users, rest \in Int : u = triggers[j].user /\ rest = triggers[j].amount - s
  <2>1. triggers[j] \in Trigger
    BY <1>2
  <2>. QED  BY <2>1 DEF Trigger
<1>6. BookSource = source /\ BookTarget = target
  <2>1. Only(w)
    BY <1>1, BookAtWork
  <2>. QED  BY <1>1, <2>1 DEF Only, Busy, BookLevel
<1>7. FiredUser(w)' = u /\ Leftover(w)' = rest /\ thread'[w].spent = s
  BY <1>1, <1>3, <1>4, <1>5 DEF FiredUser, Leftover, Moves
<1>8. Halfway(w)'
  BY <1>3 DEF BookLevel, Moves
<1>9. OpenTriggers' = OpenTriggers
  BY <1>1 DEF OpenTriggers, Entry
<1>10. CASE Direction = "BUY"
  <2>1. source' = [source EXCEPT ![u] = @ + rest] /\ UNCHANGED target
    BY <1>1, <1>4, <1>5, <1>10 DEF PayLeftover
  <2>2. BookSource' = [source' EXCEPT ![u] = @ - rest] /\ BookTarget' = target'
    BY <1>7, <1>8, <1>10 DEF Halfway
  <2>3. BookSource' = source
    BY <1>2, <2>1, <2>2
  <2>. QED  BY <1>6, <1>9, <2>1, <2>2, <2>3 DEF B!vars
<1>11. CASE Direction = "SELL"
  <2>1. target' = [target EXCEPT ![u] = @ + s] /\ UNCHANGED source
    BY <1>1, <1>4, <1>5, <1>11 DEF PaySpent
  <2>2. BookTarget' = [target' EXCEPT ![u] = @ - s] /\ BookSource' = source'
    BY <1>7, <1>8, <1>11 DEF Halfway
  <2>3. BookTarget' = target
    BY <1>2, <2>1, <2>2
  <2>. QED  BY <1>6, <1>9, <2>1, <2>2, <2>3 DEF B!vars
<1>. QED  BY <1>10, <1>11, Constants

(* Whole shares, and what is left over. *)
LEMMA Division ==
    ASSUME NEW a \in Nat, NEW p \in Nat \ {0}
    PROVE  a - WholeShares(a, p) = a % p /\ (a < p => WholeShares(a, p) = 0)
<1>1. a - (a \div p) * p = a % p
  OBVIOUS
<1>2. ASSUME a < p PROVE (a \div p) * p = 0
  <2>1. a \div p = 0
    BY <1>2
  <2>. QED  BY <2>1
<1>. QED  BY <1>1, <1>2 DEF WholeShares

(* With the second one the book has both. *)
LEMMA BothPaid ==
    ASSUME BookInv, BookInv', BookLevel, BookLevel', NEW w \in Threads, Pay(w),
           NEW u \in Users, NEW s \in Nat, NEW rest \in Int,
           u = FiredUser(w), s = thread[w].spent, rest = Leftover(w)
    PROVE  /\ BookSource' = [BookSource EXCEPT ![u] = @ + rest]
           /\ BookTarget' = [BookTarget EXCEPT ![u] = @ + s]
           /\ BookTarget \in [Users -> Int]
<1>1. /\ thread[w].at = "second" /\ Goto(w, "found") /\ Busy(w)
      /\ IF Direction = "BUY" THEN PaySpent(w) ELSE PayLeftover(w)
  BY DEF Pay, PaySecond, Busy
<1>2. /\ FireInv /\ Inv /\ thread \in [Threads -> Thread]
      /\ source \in [Users -> Int] /\ target \in [Users -> Int]
  BY <1>1, BookAtWork, Typed
<1>3. Halfway(w)
  BY <1>1 DEF BookLevel
<1>4. BookSource' = source' /\ BookTarget' = target'
  <2>1. Others(w) /\ thread'[w].at = "found"
    BY <1>1, <1>2, Onward
  <2>. QED  BY <1>1, <2>1, Level
<1>5. CASE Direction = "BUY"
  <2>1. target' = [target EXCEPT ![u] = @ + s] /\ UNCHANGED source
    BY <1>1, <1>5 DEF PaySpent, FiredUser
  <2>2. BookSource = [source EXCEPT ![u] = @ - rest] /\ BookTarget = target
    BY <1>3, <1>5 DEF Halfway
  <2>3. \A v \in Users : BookSource[v] = IF v = u THEN source[u] - rest ELSE source[v]
    BY <1>2, <2>2
  <2>4. BookSource \in [Users -> Int]
    BY <1>2, <2>2
  <2>5. \A v \in Users : source[v] = IF v = u THEN BookSource[u] + rest ELSE BookSource[v]
    BY <1>2, <2>3
  <2>6. source = [BookSource EXCEPT ![u] = @ + rest]
    BY <1>2, <2>4, <2>5
  <2>. QED  BY <1>2, <1>4, <2>1, <2>2, <2>4, <2>6
<1>6. CASE Direction = "SELL"
  <2>1. source' = [source EXCEPT ![u] = @ + rest] /\ UNCHANGED target
    BY <1>1, <1>6 DEF PayLeftover, FiredUser, Leftover
  <2>2. BookTarget = [target EXCEPT ![u] = @ - s] /\ BookSource = source
    BY <1>3, <1>6 DEF Halfway
  <2>3. \A v \in Users : BookTarget[v] = IF v = u THEN target[u] - s ELSE target[v]
    BY <1>2, <2>2
  <2>4. BookTarget \in [Users -> Int]
    BY <1>2, <2>2
  <2>5. \A v \in Users : target[v] = IF v = u THEN BookTarget[u] + s ELSE BookTarget[v]
    BY <1>2, <2>3
  <2>6. target = [BookTarget EXCEPT ![u] = @ + s]
    BY <1>2, <2>4, <2>5
  <2>. QED  BY <1>2, <1>4, <2>1, <2>2, <2>4, <2>6
<1>. QED  BY <1>5, <1>6, Constants

(***************************************************************************)
(* At a quoted price the trigger is completed; before the first quote (a   *)
(* sell) it buys nothing and gives everything back, which is a Cancel.     *)
(***************************************************************************)
LEMMA PayCompletes ==
    ASSUME BookInv, BookInv', BookLevel, BookLevel', NEW w \in Threads, Pay(w)
    PROVE  B!Next
<1>1. /\ thread[w].at = "second" /\ Busy(w) /\ PaySecond(w)
      /\ triggers' = [triggers EXCEPT ![thread[w].trigger].fired = @ + 1]
  BY DEF Pay, PaySecond, Busy
<1>2. /\ FireInv /\ Inv /\ Ready(w) /\ Holding(w) /\ thread[w] \in Thread
      /\ triggers \in Seq(Trigger) /\ triggers' \in Seq(Trigger)
      /\ thread[w].timer \in Ids /\ cost[thread[w].timer] \in Costs \cup {MaxInt}
  BY <1>1, BookAtWork, FiringThread, Typed DEF BookInv, SerialInv, FireInv, Inv, TypeOK, Firing
<1>3. PICK j \in 1 .. Len(triggers), s \in Nat, p \in Nat \ {0} :
        /\ j = thread[w].trigger /\ s = thread[w].spent /\ p = cost[thread[w].timer]
        /\ p \in Costs \/ p = MaxInt
  <2>1. triggers[thread[w].trigger].amount \in Amounts
    BY <1>1, <1>2, FiringThread DEF Firing, Inv, Registry
  <2>2. cost[thread[w].timer] \in Nat \ {0}
    BY <1>2, <2>1, Constants
  <2>. QED  BY <1>1, <1>2, <2>2, FiringThread DEF Firing, Thread
<1>4. triggers[j] \in Trigger /\ Open(triggers[j])
  BY <1>1, <1>2, <1>3 DEF Ready, Working, Holding, InHand
<1>5. PICK u \in Users, a \in Nat :
        u = triggers[j].user /\ a = triggers[j].amount /\ a < MaxInt
  BY <1>2, <1>4, Constants DEF Trigger, Inv, Registry
<1>6. s = WholeShares(a, p) /\ Reached(triggers[j].limit, p)
  BY <1>1, <1>2, <1>3, <1>5 DEF Ready
<1>7. PICK rest \in Int : rest = a - s
  OBVIOUS
<1>8. /\ BookSource' = [BookSource EXCEPT ![u] = @ + rest]
      /\ BookTarget' = [BookTarget EXCEPT ![u] = @ + s]
      /\ BookTarget \in [Users -> Int]
  BY <1>3, <1>5, <1>7, BothPaid, SMTT(30) DEF FiredUser, Leftover
<1>9. /\ Len(triggers') = Len(triggers)
      /\ \A i \in 1 .. Len(triggers) : i # j => triggers'[i] = triggers[i]
      /\ triggers'[j] = [triggers[j] EXCEPT !.fired = triggers[j].fired + 1]
  BY <1>1, <1>2, <1>3
<1>10. ~Open(triggers'[j])
  <2>1. triggers'[j].fired = triggers[j].fired + 1 /\ triggers[j].fired \in Nat
    BY <1>4, <1>9 DEF Trigger
  <2>. QED  BY <2>1 DEF Open
<1>11. PICK e : e = [id |-> j, user |-> triggers[j].user, amount |-> triggers[j].amount,
                     limit |-> triggers[j].limit]
  OBVIOUS
<1>12. e \in OpenTriggers /\ OpenTriggers' = OpenTriggers \ {e}
  BY <1>2, <1>4, <1>9, <1>10, <1>11, OneEntry
<1>13. e.user = u /\ e.amount = a /\ e.limit = triggers[j].limit /\ e.limit \in Nat
  BY <1>4, <1>5, <1>11 DEF Trigger
<1>14. CASE p \in Costs
  <2>1. B!Allows(e, p)
    BY <1>3, <1>6, <1>13 DEF Reached, B!Allows
  <2>2. rest = a % p /\ s = a - (a % p)
    <3>1. a - WholeShares(a, p) = a % p
      BY Division
    <3>2. WholeShares(a, p) \in Int
      BY <1>6
    <3>. QED  BY <1>6, <1>7, <3>1, <3>2
  <2>3. B!Complete(e)
    <3>1. e.amount % p = rest /\ e.amount - (e.amount % p) = s
      BY <1>13, <2>2
    <3>2. /\ BookSource' = [BookSource EXCEPT ![e.user] = @ + (e.amount % p)]
          /\ BookTarget' = [BookTarget EXCEPT ![e.user] = @ + (e.amount - (e.amount % p))]
      BY <1>8, <1>13, <3>1
    <3>. QED  BY <1>12, <1>14, <2>1, <3>2 DEF B!Complete
  <2>. QED  BY <1>12, <2>3 DEF B!Next
<1>15. CASE p = MaxInt
  <2>1. s = 0 /\ rest = a
    <3>1. WholeShares(a, p) = 0
      BY <1>5, <1>15, Division
    <3>. QED  BY <1>6, <1>7, <3>1
  <2>2. BookTarget' = BookTarget
    BY <1>8, <2>1
  <2>3. B!Cancel(e)
    BY <1>8, <1>12, <1>13, <2>1, <2>2 DEF B!Cancel
  <2>. QED  BY <1>12, <2>3 DEF B!Next
<1>. QED  BY <1>3, <1>14, <1>15
-----------------------------------------------------------------------------
LEMMA InitIsBook == ASSUME Init PROVE B!Init
<1>1. Len(triggers) = 0 /\ DOMAIN triggers = {}
  BY DEF Init
<1>2. OpenTriggers = {}
  BY <1>1 DEF OpenTriggers
<1>3. \A w \in Threads : thread[w].at # "second"
  BY DEF Init, Rest
<1>4. BookSource = source /\ BookTarget = target
  BY <1>3, InitBook, BookIsLevel DEF BookLevel
<1>. QED  BY <1>2, <1>4 DEF Init, B!Init

LEMMA NextIsBook ==
    ASSUME ~Overlap, MaxFaults = 0, BookInv, BookInv', BookLevel, BookLevel', [Next]_vars
    PROVE  [B!Next]_(B!vars)
<1>1. Inv
  BY DEF BookInv, SerialInv, FireInv
<1>2. CASE UNCHANGED vars
  <2>1. UNCHANGED <<source, target, triggers, thread>>
    BY <1>2 DEF vars
  <2>2. \A u \in Users : HalfPaying(u)' = HalfPaying(u) /\ Payer(u)' = Payer(u)
    BY <2>1 DEF HalfPaying, Payer, FiredUser
  <2>3. \A w : Leftover(w)' = Leftover(w)
    BY <2>1 DEF Leftover
  <2>4. UNCHANGED <<BookSource, BookTarget>>
    BY <2>1, <2>2, <2>3 DEF BookSource, BookTarget
  <2>5. UNCHANGED OpenTriggers
    BY <2>1 DEF OpenTriggers, Entry
  <2>. QED  BY <2>4, <2>5 DEF B!vars
<1>3. ASSUME NEW u \in Users, ReceiveSetAmount(u) \/ ReceiveSetTrigger(u) \/ ReceiveCancel(u)
      PROVE  UNCHANGED B!vars
  BY <1>3, UnseenReceive
<1>4. ASSUME NEW w \in Threads, HandlerStep(w) PROVE B!Next \/ UNCHANGED B!vars
  BY <1>4, UnseenHandler, UnseenRegister, HoldOpens, UpdateSets, ReturnCancels DEF HandlerStep
<1>5. ASSUME NEW w \in Threads, LoopStep(w) PROVE UNCHANGED B!vars
  BY <1>5, UnseenLoop DEF LoopStep
<1>6. ASSUME NEW w \in Threads, FireStep(w) PROVE B!Next \/ UNCHANGED B!vars
  BY <1>6, UnseenFire, FirstUnseen, PayCompletes DEF FireStep
<1>. QED  BY <1>1, <1>2, <1>3, <1>4, <1>5, <1>6, NoFault DEF Next, Progress

(***************************************************************************)
(* While commands and polls come one at a time and no statement fails, the *)
(* services keep the promises of TriggerBook: the amount of an open        *)
(* trigger stays out of the account until CANCEL returns it or the trigger *)
(* is completed at a price that its limit allows, and then nobody returns  *)
(* or completes it again, whatever the users, amounts, limits and prices.  *)
(***************************************************************************)
THEOREM TriggersAreBook == ASSUME ~Overlap, MaxFaults = 0 PROVE Spec => ImplementsTriggerBook
<1>1. Init => BookInv /\ B!Init
  BY InitBook, InitIsBook
<1>2. BookInv /\ [Next]_vars => BookInv'
  BY NextBook
<1>3. BookInv => BookLevel
  BY BookIsLevel
<1>4. BookInv /\ BookInv' /\ BookLevel /\ BookLevel' /\ [Next]_vars => [B!Next]_(B!vars)
  BY NextIsBook
<1>. QED  BY <1>1, <1>2, <1>3, <1>4, PTL DEF Spec, ImplementsTriggerBook, B!Spec
-----------------------------------------------------------------------------
(***************************************************************************)
(* What the users' triggers keep of their accounts.  A trigger keeps its   *)
(* amount once for each time that it was held, and no longer for each time *)
(* that it was completed or canceled; between the two statements of a      *)
(* completion the first of its two parts is in the account already.        *)
(***************************************************************************)
Keeps(t) == (t.held - t.fired - IF t.canceled THEN 1 ELSE 0) * t.amount
KeptOf(u) == [i \in DOMAIN triggers |-> IF triggers[i].user = u THEN Keeps(triggers[i]) ELSE 0]
InTrust(u) == SumFunctionOnSet(KeptOf(u), DOMAIN triggers)

FirstPart(k) == IF Direction = "BUY" THEN triggers[k.trigger].amount - k.spent ELSE k.spent
HalfOf(u) == [w \in Threads |->
    IF thread[w].at = "second" /\ triggers[thread[w].trigger].user = u
      THEN FirstPart(thread[w]) ELSE 0]
HalfPaid(u) == SumFunctionOnSet(HalfOf(u), Threads)

Holdings(u) == source[u] + target[u] + (InTrust(u) - HalfPaid(u))

(***************************************************************************)
(* Why a step without faults conserves them: whoever cancels a trigger has *)
(* taken it off the only timer that had it, nobody else has it to cancel,  *)
(* and what is returned, or held, is its amount.  A trigger that holds     *)
(* nothing is still to be held.                                            *)
(***************************************************************************)
Returns(u, k) ==
    k.at = "return" =>
      /\ triggers[k.trigger].user = u /\ ~triggers[k.trigger].canceled
      /\ k.arg = triggers[k.trigger].amount
      /\ \A t \in Ids : users[t][u] # k.trigger

Holds(k) == k.at = "hold" => k.arg = triggers[k.trigger].amount

Unheld(i) == \E u \in Users :
    thread[<<"SET_AMOUNT", u>>].at = "hold" /\ thread[<<"SET_AMOUNT", u>>].trigger = i

Calm ==
    /\ \A u \in Users : Returns(u, thread[<<"CANCEL", u>>]) /\ Holds(thread[<<"SET_AMOUNT", u>>])
    /\ \A t \in Ids, u \in Users : users[t][u] # 0 =>
         /\ ~triggers[users[t][u]].canceled
         /\ \A s \in Ids : users[s][u] = users[t][u] => s = t
    /\ \A i \in 1 .. Len(triggers) : triggers[i].held = 0 => Unheld(i)

(* A step that pays nobody, and marks no trigger held, completed or canceled. *)
SameMark(i) ==
    /\ triggers'[i].user = triggers[i].user /\ triggers'[i].amount = triggers[i].amount
    /\ triggers'[i].held = triggers[i].held /\ triggers'[i].fired = triggers[i].fired
    /\ triggers'[i].canceled = triggers[i].canceled

Unpaid ==
    /\ UNCHANGED <<source, target>>
    /\ Len(triggers) <= Len(triggers')
    /\ \A i \in 1 .. Len(triggers) : SameMark(i)
    /\ \A i \in 1 .. Len(triggers') : i > Len(triggers) =>
         triggers'[i].held = 0 /\ triggers'[i].fired = 0 /\ ~triggers'[i].canceled
    /\ \A v \in Threads : thread'[v] = thread[v] \/ (thread[v].at # "second" /\ thread'[v].at # "second")

(* The terms of the sums are integers, over finite sets. *)
SumsTyped(u) ==
    /\ DOMAIN triggers = 1 .. Len(triggers) /\ IsFiniteSet(DOMAIN triggers)
    /\ IsFiniteSet(Threads)
    /\ \A i \in DOMAIN triggers : KeptOf(u)[i] \in Int
    /\ \A w \in Threads : HalfOf(u)[w] \in Int
    /\ InTrust(u) \in Int /\ HalfPaid(u) \in Int /\ source[u] \in Int /\ target[u] \in Int

LEMMA FiniteThreads == ASSUME IsFiniteSet(Users) PROVE IsFiniteSet(Threads)
<1>1. IsFiniteSet(Kinds)
  <2>1. IsFiniteSet({"SET_AMOUNT"} \cup {"SET_TRIGGER"})
    BY FS_Singleton, FS_Union
  <2>2. IsFiniteSet(({"SET_AMOUNT"} \cup {"SET_TRIGGER"}) \cup {"CANCEL"})
    BY <2>1, FS_Singleton, FS_Union
  <2>3. Kinds = ({"SET_AMOUNT"} \cup {"SET_TRIGGER"}) \cup {"CANCEL"}
    BY DEF Kinds
  <2>. QED  BY <2>2, <2>3
<1>2. IsFiniteSet({"timer"})
  BY FS_Singleton
<1>3. IsFiniteSet(Ids)
  BY FS_Interval, Constants
<1>. QED  BY <1>1, <1>2, <1>3, FS_Product, FS_Union DEF Threads, Handlers, Loops

LEMMA TriggerTyped ==
    ASSUME Inv, NEW i \in 1 .. Len(triggers)
    PROVE  /\ triggers[i] \in Trigger /\ Keeps(triggers[i]) \in Int
           /\ triggers[i].user \in Users /\ triggers[i].amount \in Nat
           /\ triggers[i].held \in Nat /\ triggers[i].fired \in Nat
           /\ triggers[i].canceled \in BOOLEAN
<1>1. triggers[i] \in Trigger
  BY DEF Inv, TypeOK
<1>2. /\ triggers[i].user \in Users /\ triggers[i].amount \in Nat
      /\ triggers[i].held \in Nat /\ triggers[i].fired \in Nat /\ triggers[i].canceled \in BOOLEAN
  BY <1>1 DEF Trigger
<1>3. PICK n \in Int : n = triggers[i].held - triggers[i].fired - IF triggers[i].canceled THEN 1 ELSE 0
  BY <1>2
<1>4. n * triggers[i].amount \in Int
  BY <1>2
<1>. QED  BY <1>1, <1>2, <1>3, <1>4 DEF Keeps

LEMMA SumsAreTyped == Inv /\ IsFiniteSet(Users) => \A u \in Users : SumsTyped(u)
<1>. SUFFICES ASSUME Inv, IsFiniteSet(Users), NEW u \in Users PROVE SumsTyped(u)
  OBVIOUS
<1>1. /\ DOMAIN triggers = 1 .. Len(triggers) /\ Len(triggers) \in Nat
      /\ source[u] \in Int /\ target[u] \in Int
  BY DEF Inv, TypeOK
<1>2. IsFiniteSet(DOMAIN triggers) /\ IsFiniteSet(Threads)
  BY <1>1, FS_Interval, FiniteThreads
<1>3. \A i \in DOMAIN triggers : KeptOf(u)[i] \in Int
  BY <1>1, TriggerTyped DEF KeptOf
<1>4. \A w \in Threads : HalfOf(u)[w] \in Int
  <2>. SUFFICES ASSUME NEW w \in Threads PROVE HalfOf(u)[w] \in Int
    OBVIOUS
  <2>1. CASE thread[w].at = "second"
    <3>1. thread[w].trigger \in 1 .. Len(triggers) /\ thread[w].spent \in Nat
      BY <2>1, FiringThread, Typed DEF Firing, Thread
    <3>2. triggers[thread[w].trigger].amount \in Nat
      BY <3>1, TriggerTyped
    <3>. QED  BY <3>1, <3>2 DEF HalfOf, FirstPart
  <2>2. CASE thread[w].at # "second"
    BY <2>2 DEF HalfOf
  <2>. QED  BY <2>1, <2>2
<1>5. InTrust(u) \in Int
  BY <1>2, <1>3, SumSplit DEF InTrust
<1>6. HalfPaid(u) \in Int
  BY <1>2, <1>4, SumSplit DEF HalfPaid
<1>. QED  BY <1>1, <1>2, <1>3, <1>4, <1>5, <1>6 DEF SumsTyped

LEMMA NextSumsTyped == (Inv /\ IsFiniteSet(Users) => \A u \in Users : SumsTyped(u))'
BY SumsAreTyped, PTL

LEMMA UnpaidLevel ==
    ASSUME IsFiniteSet(Users), Inv, Inv', Unpaid, NEW u \in Users
    PROVE  Holdings(u)' = Holdings(u)
<1>1. SumsTyped(u) /\ SumsTyped(u)'
  BY SumsAreTyped, NextSumsTyped
<1>. DEFINE f == KeptOf(u)
            g == KeptOf(u)'
            D == DOMAIN triggers
            E == DOMAIN triggers'
<1>2. /\ IsFiniteSet(D) /\ IsFiniteSet(E) /\ D \subseteq E
      /\ \A i \in D : f[i] \in Int /\ g[i] = f[i]
      /\ \A i \in E : g[i] \in Int
      /\ \A i \in E \ D : g[i] = 0
  <2>1. D = 1 .. Len(triggers) /\ E = 1 .. Len(triggers') /\ Len(triggers) \in Nat /\ Len(triggers') \in Nat
    BY <1>1 DEF SumsTyped, Inv, TypeOK
  <2>2. D \subseteq E
    BY <2>1 DEF Unpaid
  <2>3. \A i \in D : g[i] = f[i]
    BY <2>1, <2>2 DEF Unpaid, SameMark, KeptOf, Keeps
  <2>4. ASSUME NEW i \in E \ D PROVE g[i] = 0
    <3>1. /\ triggers'[i].held = 0 /\ triggers'[i].fired = 0 /\ ~triggers'[i].canceled
      BY <2>1, <2>4 DEF Unpaid
    <3>2. triggers'[i].amount \in Nat
      <4>1. \A j \in 1 .. Len(triggers') : triggers'[j].amount \in Amounts
        BY DEF Inv, Registry
      <4>. QED  BY <2>1, <2>4, <4>1, Constants
    <3>3. Keeps(triggers'[i]) = 0
      BY <3>1, <3>2 DEF Keeps
    <3>. QED  BY <2>4, <3>3 DEF KeptOf
  <2>. QED  BY <1>1, <2>2, <2>3, <2>4 DEF SumsTyped
<1>3. InTrust(u)' = InTrust(u)
  <2>1. InTrust(u) = SumFunctionOnSet(f, D) /\ InTrust(u)' = SumFunctionOnSet(g, E)
    BY DEF InTrust
  <2>. HIDE DEF f, g, D, E
  <2>2. SumFunctionOnSet(g, E) = SumFunctionOnSet(g, D)
    BY <1>2, SumSupport
  <2>3. SumFunctionOnSet(f, D) = SumFunctionOnSet(g, D)
    BY <1>2, SumSame
  <2>. QED  BY <2>1, <2>2, <2>3
<1>4. HalfPaid(u)' = HalfPaid(u)
  <2>. DEFINE h == HalfOf(u)
              k == HalfOf(u)'
  <2>1. \A w \in Threads : h[w] = k[w]
    <3>. SUFFICES ASSUME NEW w \in Threads PROVE h[w] = k[w]
      OBVIOUS
    <3>1. CASE thread[w].at = "second"
      <4>1. thread'[w] = thread[w]
        BY <3>1 DEF Unpaid
      <4>2. thread[w].trigger \in 1 .. Len(triggers)
        BY <3>1, FiringThread DEF Firing
      <4>3. SameMark(thread[w].trigger)
        BY <4>2 DEF Unpaid
      <4>. QED  BY <4>1, <4>3 DEF HalfOf, FirstPart, SameMark
    <3>2. CASE thread[w].at # "second"
      BY <3>2 DEF Unpaid, HalfOf
    <3>. QED  BY <3>1, <3>2
  <2>2. HalfPaid(u) = SumFunctionOnSet(h, Threads) /\ HalfPaid(u)' = SumFunctionOnSet(k, Threads)
    BY DEF HalfPaid
  <2>3. IsFiniteSet(Threads)
    BY FiniteThreads
  <2>. HIDE DEF h, k
  <2>. QED  BY <2>1, <2>2, <2>3, SumSame
<1>5. source'[u] = source[u] /\ target'[u] = target[u]
  BY DEF Unpaid
<1>. QED  BY <1>3, <1>4, <1>5 DEF Holdings
-----------------------------------------------------------------------------
(* The owners and the amounts of triggers never change. *)
SameOwned ==
    /\ Len(triggers') = Len(triggers)
    /\ \A i \in 1 .. Len(triggers) :
         triggers'[i].user = triggers[i].user /\ triggers'[i].amount = triggers[i].amount

(* A step that marks trigger j only. *)
LEMMA TrustChanges ==
    ASSUME IsFiniteSet(Users), Inv, Inv', SameOwned, NEW j \in 1 .. Len(triggers),
           \A i \in 1 .. Len(triggers) : i # j => SameMark(i), NEW u \in Users
    PROVE  /\ u # triggers[j].user => InTrust(u)' = InTrust(u)
           /\ u = triggers[j].user =>
                InTrust(u)' = InTrust(u) + (Keeps(triggers'[j]) - Keeps(triggers[j]))
<1>. DEFINE f == KeptOf(u)
            g == KeptOf(u)'
            D == DOMAIN triggers
<1>1. SumsTyped(u) /\ SumsTyped(u)'
  BY SumsAreTyped, NextSumsTyped
<1>2. /\ D = 1 .. Len(triggers) /\ DOMAIN triggers' = D /\ IsFiniteSet(D) /\ j \in D
      /\ \A i \in D : f[i] \in Int /\ g[i] \in Int
  BY <1>1 DEF SumsTyped, SameOwned
<1>3. \A i \in D \ {j} : g[i] = f[i]
  BY <1>2 DEF SameMark, KeptOf, Keeps
<1>4. /\ f[j] = IF triggers[j].user = u THEN Keeps(triggers[j]) ELSE 0
      /\ g[j] = IF triggers[j].user = u THEN Keeps(triggers'[j]) ELSE 0
  BY <1>2 DEF KeptOf, SameOwned
<1>5. InTrust(u) = SumFunctionOnSet(f, D) /\ InTrust(u)' = SumFunctionOnSet(g, D)
  BY <1>2 DEF InTrust
<1>. HIDE DEF f, g, D
<1>6. SumFunctionOnSet(g, D) = SumFunctionOnSet(f, D) + (g[j] - f[j])
  BY <1>2, <1>3, SumChange
<1>7. InTrust(u) \in Int
  BY <1>1 DEF SumsTyped
<1>8. CASE u = triggers[j].user
  BY <1>4, <1>5, <1>6, <1>8
<1>9. CASE u # triggers[j].user
  BY <1>4, <1>5, <1>6, <1>7, <1>9
<1>. QED  BY <1>8, <1>9

(* A step of thread w. *)
LEMMA HalfChanges ==
    ASSUME IsFiniteSet(Users), Inv, Inv', SameOwned, NEW w \in Threads, Others(w), NEW u \in Users
    PROVE  HalfPaid(u)' = HalfPaid(u) + (HalfOf(u)'[w] - HalfOf(u)[w])
<1>. DEFINE f == HalfOf(u)
            g == HalfOf(u)'
<1>1. SumsTyped(u) /\ SumsTyped(u)'
  BY SumsAreTyped, NextSumsTyped
<1>2. /\ IsFiniteSet(Threads) /\ \A v \in Threads : f[v] \in Int /\ g[v] \in Int
  BY <1>1 DEF SumsTyped
<1>3. ASSUME NEW v \in Threads \ {w} PROVE g[v] = f[v]
  <2>1. thread'[v] = thread[v]
    BY DEF Others
  <2>2. CASE thread[v].at = "second"
    <3>1. thread[v].trigger \in 1 .. Len(triggers)
      BY <2>2, FiringThread DEF Firing
    <3>. QED  BY <2>1, <3>1 DEF HalfOf, FirstPart, SameOwned
  <2>3. CASE thread[v].at # "second"
    BY <2>1, <2>3 DEF HalfOf
  <2>. QED  BY <2>2, <2>3
<1>4. HalfPaid(u) = SumFunctionOnSet(f, Threads) /\ HalfPaid(u)' = SumFunctionOnSet(g, Threads)
  BY DEF HalfPaid
<1>. HIDE DEF f, g
<1>5. SumFunctionOnSet(g, Threads) = SumFunctionOnSet(f, Threads) + (g[w] - f[w])
  BY <1>2, <1>3, SumChange
<1>. QED  BY <1>4, <1>5 DEF f, g

LEMMA KeepsOnce ==
    ASSUME NEW s \in Trigger, NEW t \in Trigger, t.amount = s.amount
    PROVE  /\ /\ t.held = s.held + 1 /\ t.fired = s.fired /\ t.canceled = s.canceled
              => Keeps(t) - Keeps(s) = s.amount
           /\ /\ t.held = s.held /\ t.fired = s.fired + 1 /\ t.canceled = s.canceled
              => Keeps(t) - Keeps(s) = - s.amount
           /\ /\ t.held = s.held /\ t.fired = s.fired /\ t.canceled /\ ~s.canceled
              => Keeps(t) - Keeps(s) = - s.amount
<1>1. /\ s.amount \in Nat /\ s.held \in Nat /\ s.fired \in Nat /\ s.canceled \in BOOLEAN
      /\ t.amount \in Nat /\ t.held \in Nat /\ t.fired \in Nat /\ t.canceled \in BOOLEAN
  BY DEF Trigger
<1>2. PICK m \in Int : m = s.held - s.fired - IF s.canceled THEN 1 ELSE 0
  BY <1>1
<1>3. PICK n \in Int : n = t.held - t.fired - IF t.canceled THEN 1 ELSE 0
  BY <1>1
<1>4. PICK a \in Nat : a = s.amount
  BY <1>1
<1>5. Keeps(s) = m * a /\ Keeps(t) = n * a
  BY <1>2, <1>3, <1>4 DEF Keeps
<1>6. (m + 1) * a - m * a = a /\ (m - 1) * a - m * a = - a
  OBVIOUS
<1>7. ASSUME t.held = s.held + 1, t.fired = s.fired, t.canceled = s.canceled PROVE n = m + 1
  BY <1>1, <1>2, <1>3, <1>7
<1>8. ASSUME t.held = s.held, t.fired = s.fired + 1, t.canceled = s.canceled PROVE n = m - 1
  BY <1>1, <1>2, <1>3, <1>8
<1>9. ASSUME t.held = s.held, t.fired = s.fired, t.canceled, ~s.canceled PROVE n = m - 1
  BY <1>1, <1>2, <1>3, <1>9
<1>. QED  BY <1>4, <1>5, <1>6, <1>7, <1>8, <1>9
-----------------------------------------------------------------------------
HoldingsStay == \A u \in Users : Holdings(u)' = Holdings(u)

(* Each change of one user's balance meets one of what his triggers keep. *)
LEMMA Settles ==
    ASSUME NEW u, SumsTyped(u), SumsTyped(u)',
           (source'[u] - source[u]) + (target'[u] - target[u]) + (InTrust(u)' - InTrust(u))
             = HalfPaid(u)' - HalfPaid(u)
    PROVE  Holdings(u)' = Holdings(u)
<1>1. PICK a \in Int, b \in Int, c \in Int, d \in Int :
        a = source[u] /\ b = target[u] /\ c = InTrust(u) /\ d = HalfPaid(u)
  BY DEF SumsTyped
<1>2. PICK a1 \in Int, b1 \in Int, c1 \in Int, d1 \in Int :
        a1 = source'[u] /\ b1 = target'[u] /\ c1 = InTrust(u)' /\ d1 = HalfPaid(u)'
  BY DEF SumsTyped
<1>3. a1 + b1 + (c1 - d1) = a + b + (c - d)
  BY <1>1, <1>2
<1>. QED  BY <1>1, <1>2, <1>3 DEF Holdings

(* The statement that holds the amount, or returns it. *)
LEMMA HoldLevel ==
    ASSUME IsFiniteSet(Users), Inv, Inv', Calm, NEW w \in Threads, Hold(w)
    PROVE  HoldingsStay
<1>. DEFINE j == thread[w].trigger
            s == triggers[j]
            t == [s EXCEPT !.held = @ + 1]
<1>1. /\ thread[w].at = "hold" /\ w[1] = "SET_AMOUNT" /\ j \in 1 .. Len(triggers)
      /\ w = <<"SET_AMOUNT", w[2]>> /\ w[2] \in Users /\ SameTriggers(w)
      /\ HoldAmount(w) /\ Finish(w, TRUE)
  BY HoldEffect, ThreadKinds DEF Hold
<1>2. /\ s \in Trigger /\ s.user = w[2] /\ thread[w].arg = s.amount
  BY <1>1, Typed, TriggerTyped DEF Calm, Holds, Own
<1>3. /\ source' = [source EXCEPT ![w[2]] = @ - thread[w].arg] /\ target' = target
      /\ triggers' = [triggers EXCEPT ![j] = t]
  BY <1>1 DEF HoldAmount
<1>4. /\ t \in Trigger /\ t.amount = s.amount /\ t.held = s.held + 1 /\ t.fired = s.fired
      /\ t.canceled = s.canceled
  BY <1>2 DEF Trigger
<1>. HIDE DEF t
<1>5. triggers'[j] = t /\ \A i \in 1 .. Len(triggers) : i # j => triggers'[i] = triggers[i]
  BY <1>1, <1>3, Typed
<1>6. SameOwned /\ \A i \in 1 .. Len(triggers) : i # j => SameMark(i)
  BY <1>1, <1>5 DEF SameTriggers, SameOwned, SameMark
<1>7. Keeps(t) - Keeps(s) = s.amount
  BY <1>2, <1>4, KeepsOnce
<1>8. Others(w) /\ thread'[w].at = "done"
  BY <1>1, Moved
<1>. SUFFICES ASSUME NEW u \in Users PROVE Holdings(u)' = Holdings(u)
  BY DEF HoldingsStay
<1>9. /\ source[u] \in Int /\ target[u] \in Int /\ source'[u] \in Int /\ target'[u] \in Int
      /\ InTrust(u) \in Int /\ InTrust(u)' \in Int /\ HalfPaid(u) \in Int /\ HalfPaid(u)' \in Int
  <2>1. SumsTyped(u) /\ SumsTyped(u)'
    BY SumsAreTyped, NextSumsTyped
  <2>. QED  BY <2>1 DEF SumsTyped
<1>10. HalfPaid(u)' = HalfPaid(u)
  <2>1. HalfOf(u)'[w] = 0 /\ HalfOf(u)[w] = 0
    BY <1>1, <1>8 DEF HalfOf
  <2>2. HalfPaid(u)' = HalfPaid(u) + (HalfOf(u)'[w] - HalfOf(u)[w])
    BY <1>6, <1>8, HalfChanges
  <2>. QED  BY <1>9, <2>1, <2>2
<1>11. /\ source'[u] - source[u] = IF u = w[2] THEN - s.amount ELSE 0
       /\ InTrust(u)' - InTrust(u) = IF u = w[2] THEN s.amount ELSE 0
  <2>1. s.amount \in Nat
    BY <1>2 DEF Trigger
  <2>2. CASE u = w[2]
    <3>1. source'[u] = source[u] - s.amount
      BY <1>2, <1>3, <2>2, Typed
    <3>2. InTrust(u)' = InTrust(u) + s.amount
      BY <1>1, <1>2, <1>5, <1>6, <1>7, <2>2, TrustChanges
    <3>. HIDE DEF s
    <3>. QED  BY <1>9, <2>1, <2>2, <3>1, <3>2
  <2>3. CASE u # w[2]
    <3>1. source'[u] = source[u]
      BY <1>3, <2>3, Typed
    <3>2. InTrust(u)' = InTrust(u)
      BY <1>1, <1>2, <1>6, <2>3, TrustChanges
    <3>. QED  BY <1>9, <2>3, <3>1, <3>2
  <2>. QED  BY <2>2, <2>3
<1>12. s.amount \in Nat
  BY <1>2 DEF Trigger
<1>. HIDE DEF s
<1>13. (source'[u] - source[u]) + (target'[u] - target[u]) + (InTrust(u)' - InTrust(u))
          = HalfPaid(u)' - HalfPaid(u)
  BY <1>3, <1>9, <1>10, <1>11, <1>12
<1>. QED  BY <1>13, Settles, SumsAreTyped, NextSumsTyped

LEMMA ReturnLevel ==
    ASSUME IsFiniteSet(Users), Inv, Inv', Calm, NEW w \in Threads, Return(w)
    PROVE  HoldingsStay
<1>. DEFINE j == thread[w].trigger
            s == triggers[j]
            t == [s EXCEPT !.canceled = TRUE]
<1>1. /\ thread[w].at = "return" /\ w[1] = "CANCEL" /\ j \in 1 .. Len(triggers)
      /\ w = <<"CANCEL", w[2]>> /\ w[2] \in Users /\ SameTriggers(w)
      /\ ReturnAmount(w) /\ Finish(w, TRUE)
  <2>1. /\ ReturnAmount(w) /\ Finish(w, TRUE) /\ thread[w].at = "return" /\ w[1] = "CANCEL"
        /\ w \in Handlers /\ SameTriggers(w)
    BY ReturnEffect DEF Return
  <2>2. w = <<"CANCEL", w[2]>> /\ w[2] \in Users
    BY <2>1, ThreadKinds
  <2>3. j \in 1 .. Len(triggers)
    BY <2>1, Typed DEF Sound
  <2>. QED  BY <2>1, <2>2, <2>3
<1>2. /\ s \in Trigger /\ s.user = w[2] /\ ~s.canceled /\ thread[w].arg = s.amount
  <2>1. Returns(w[2], thread[w])
    BY <1>1 DEF Calm
  <2>. QED  BY <1>1, <2>1, TriggerTyped DEF Returns
<1>3. /\ source' = [source EXCEPT ![w[2]] = @ + thread[w].arg] /\ target' = target
      /\ triggers' = [triggers EXCEPT ![j] = t]
  BY <1>1 DEF ReturnAmount
<1>4. /\ t \in Trigger /\ t.amount = s.amount /\ t.held = s.held /\ t.fired = s.fired
      /\ t.canceled
  BY <1>2 DEF Trigger
<1>. HIDE DEF t
<1>5. triggers'[j] = t /\ \A i \in 1 .. Len(triggers) : i # j => triggers'[i] = triggers[i]
  BY <1>1, <1>3, Typed
<1>6. SameOwned /\ \A i \in 1 .. Len(triggers) : i # j => SameMark(i)
  BY <1>1, <1>5 DEF SameTriggers, SameOwned, SameMark
<1>7. Keeps(t) - Keeps(s) = - s.amount
  BY <1>2, <1>4, KeepsOnce
<1>8. Others(w) /\ thread'[w].at = "done"
  BY <1>1, Moved
<1>. SUFFICES ASSUME NEW u \in Users PROVE Holdings(u)' = Holdings(u)
  BY DEF HoldingsStay
<1>9. /\ source[u] \in Int /\ target[u] \in Int /\ source'[u] \in Int /\ target'[u] \in Int
      /\ InTrust(u) \in Int /\ InTrust(u)' \in Int /\ HalfPaid(u) \in Int /\ HalfPaid(u)' \in Int
  <2>1. SumsTyped(u) /\ SumsTyped(u)'
    BY SumsAreTyped, NextSumsTyped
  <2>. QED  BY <2>1 DEF SumsTyped
<1>10. HalfPaid(u)' = HalfPaid(u)
  <2>1. HalfOf(u)'[w] = 0 /\ HalfOf(u)[w] = 0
    BY <1>1, <1>8 DEF HalfOf
  <2>2. HalfPaid(u)' = HalfPaid(u) + (HalfOf(u)'[w] - HalfOf(u)[w])
    BY <1>6, <1>8, HalfChanges
  <2>. QED  BY <1>9, <2>1, <2>2
<1>11. /\ source'[u] - source[u] = IF u = w[2] THEN s.amount ELSE 0
       /\ InTrust(u)' - InTrust(u) = IF u = w[2] THEN - s.amount ELSE 0
  <2>1. s.amount \in Nat
    BY <1>2 DEF Trigger
  <2>2. CASE u = w[2]
    <3>1. source'[u] = source[u] + s.amount
      BY <1>2, <1>3, <2>2, Typed
    <3>2. InTrust(u)' = InTrust(u) + (- s.amount)
      BY <1>1, <1>2, <1>5, <1>6, <1>7, <2>2, TrustChanges
    <3>. HIDE DEF s
    <3>. QED  BY <1>9, <2>1, <2>2, <3>1, <3>2
  <2>3. CASE u # w[2]
    <3>1. source'[u] = source[u]
      BY <1>3, <2>3, Typed
    <3>2. InTrust(u)' = InTrust(u)
      BY <1>1, <1>2, <1>6, <2>3, TrustChanges
    <3>. QED  BY <1>9, <2>3, <3>1, <3>2
  <2>. QED  BY <2>2, <2>3
<1>12. s.amount \in Nat
  BY <1>2 DEF Trigger
<1>. HIDE DEF s
<1>13. (source'[u] - source[u]) + (target'[u] - target[u]) + (InTrust(u)' - InTrust(u))
          = HalfPaid(u)' - HalfPaid(u)
  BY <1>3, <1>9, <1>10, <1>11, <1>12
<1>. QED  BY <1>13, Settles, SumsAreTyped, NextSumsTyped

(* What the two statements of a completion pay its user. *)
LEMMA PaysUser ==
    ASSUME Inv, NEW w \in Threads, thread[w].at \in {"first", "second"}, NEW u \in Users,
           NEW t, t = triggers[thread[w].trigger], NEW n, n = thread[w].spent
    PROVE  /\ t.amount \in Nat /\ n \in Nat
           /\ PayLeftover(w) =>
                /\ target'[u] = target[u]
                /\ source'[u] = source[u] + IF u = t.user THEN t.amount - n ELSE 0
           /\ PaySpent(w) =>
                /\ source'[u] = source[u]
                /\ target'[u] = target[u] + IF u = t.user THEN n ELSE 0
<1>1. thread[w].trigger \in 1 .. Len(triggers) /\ n \in Nat
  BY FiringThread, Typed DEF Firing, Thread
<1>2. t.amount \in Nat /\ t.user \in Users
  BY <1>1, TriggerTyped
<1>3. source \in [Users -> Int] /\ target \in [Users -> Int]
  BY Typed
<1>4. ASSUME PayLeftover(w)
      PROVE  /\ target'[u] = target[u]
             /\ source'[u] = source[u] + IF u = t.user THEN t.amount - n ELSE 0
  <2>1. source' = [source EXCEPT ![t.user] = @ + (t.amount - n)] /\ target' = target
    BY <1>4 DEF PayLeftover
  <2>. QED  BY <1>1, <1>2, <1>3, <2>1
<1>5. ASSUME PaySpent(w)
      PROVE  /\ source'[u] = source[u]
             /\ target'[u] = target[u] + IF u = t.user THEN n ELSE 0
  <2>1. target' = [target EXCEPT ![t.user] = @ + n] /\ source' = source
    BY <1>5 DEF PaySpent
  <2>. QED  BY <1>1, <1>2, <1>3, <2>1
<1>. QED  BY <1>1, <1>2, <1>4, <1>5
(* Between the two statements the first part is paid. *)
LEMMA FirstLevel ==
    ASSUME IsFiniteSet(Users), Inv, Inv', NEW w \in Threads, PayFirst(w)
    PROVE  HoldingsStay
<1>. SUFFICES ASSUME NEW u \in Users PROVE Holdings(u)' = Holdings(u)
  BY DEF HoldingsStay
<1>1. PICK t : t = triggers[thread[w].trigger]
  OBVIOUS
<1>2. PICK n : n = thread[w].spent
  OBVIOUS
<1>3. /\ thread[w].at = "first" /\ UNCHANGED triggers /\ Goto(w, "second")
      /\ IF Direction = "BUY" THEN PayLeftover(w) ELSE PaySpent(w)
  BY DEF PayFirst
<1>4. /\ Others(w) /\ thread'[w].at = "second" /\ thread'[w].trigger = thread[w].trigger
      /\ thread'[w].spent = n
  BY <1>2, <1>3, Moved
<1>5. PICK m : m = IF Direction = "BUY" THEN t.amount - n ELSE n
  OBVIOUS
<1>6. HalfPaid(u)' = HalfPaid(u) + IF u = t.user THEN m ELSE 0
  <2>1. SameOwned
    BY <1>3 DEF SameOwned
  <2>2. HalfPaid(u)' = HalfPaid(u) + (HalfOf(u)'[w] - HalfOf(u)[w])
    BY <1>4, <2>1, HalfChanges
  <2>3. HalfOf(u)[w] = 0
    BY <1>3 DEF HalfOf
  <2>4. HalfOf(u)'[w] = IF u = t.user THEN m ELSE 0
    BY <1>1, <1>3, <1>4, <1>5 DEF HalfOf, FirstPart
  <2>5. HalfOf(u)'[w] \in Int
    <3>1. SumsTyped(u)'
      BY NextSumsTyped
    <3>. QED  BY <3>1 DEF SumsTyped
  <2>. QED  BY <2>2, <2>3, <2>4, <2>5
<1>7. InTrust(u)' = InTrust(u)
  BY <1>3 DEF InTrust, KeptOf
<1>8. /\ t.amount \in Nat /\ n \in Nat
      /\ PayLeftover(w) => /\ target'[u] = target[u]
                           /\ source'[u] = source[u] + IF u = t.user THEN t.amount - n ELSE 0
      /\ PaySpent(w) => /\ source'[u] = source[u]
                        /\ target'[u] = target[u] + IF u = t.user THEN n ELSE 0
  BY <1>1, <1>2, <1>3, PaysUser
<1>9. /\ source[u] \in Int /\ target[u] \in Int /\ InTrust(u) \in Int /\ HalfPaid(u) \in Int
  <2>1. SumsTyped(u)
    BY SumsAreTyped
  <2>. QED  BY <2>1 DEF SumsTyped
<1>10. (source'[u] - source[u]) + (target'[u] - target[u]) + (InTrust(u)' - InTrust(u))
          = HalfPaid(u)' - HalfPaid(u)
  <2>1. CASE Direction = "BUY"
    BY <1>3, <1>5, <1>6, <1>7, <1>8, <1>9, <2>1
  <2>2. CASE Direction # "BUY"
    BY <1>3, <1>5, <1>6, <1>7, <1>8, <1>9, <2>2
  <2>. QED  BY <2>1, <2>2
<1>. QED  BY <1>10, Settles, SumsAreTyped, NextSumsTyped

(* The second statement pays the rest, and the trigger keeps nothing of it. *)
LEMMA SecondLevel ==
    ASSUME IsFiniteSet(Users), Inv, Inv', NEW w \in Threads, Pay(w)
    PROVE  HoldingsStay
<1>. DEFINE j == thread[w].trigger
            s == triggers[j]
            t == [s EXCEPT !.fired = @ + 1]
<1>1. /\ thread[w].at = "second" /\ PaySecond(w) /\ Goto(w, "found") /\ SameTriggers(w)
      /\ triggers' = [triggers EXCEPT ![j] = t]
      /\ IF Direction = "BUY" THEN PaySpent(w) ELSE PayLeftover(w)
  BY SecondEffect DEF Pay, PaySecond
<1>2. j \in 1 .. Len(triggers) /\ s \in Trigger
  BY <1>1, FiringThread, TriggerTyped DEF Firing
<1>3. /\ t \in Trigger /\ t.amount = s.amount /\ t.held = s.held /\ t.fired = s.fired + 1
      /\ t.canceled = s.canceled
  <2>1. s.fired + 1 \in Nat
    BY <1>2 DEF Trigger
  <2>. QED  BY <1>2, <2>1 DEF Trigger
<1>. HIDE DEF t
<1>4. triggers'[j] = t /\ \A i \in 1 .. Len(triggers) : i # j => triggers'[i] = triggers[i]
  BY <1>1, <1>2, Typed
<1>5. SameOwned /\ \A i \in 1 .. Len(triggers) : i # j => SameMark(i)
  BY <1>1, <1>4 DEF SameTriggers, SameOwned, SameMark
<1>6. Keeps(t) - Keeps(s) = - s.amount
  BY <1>2, <1>3, KeepsOnce
<1>7. Others(w) /\ thread'[w].at = "found"
  BY <1>1, Moved
<1>. SUFFICES ASSUME NEW u \in Users PROVE Holdings(u)' = Holdings(u)
  BY DEF HoldingsStay
<1>8. PICK n : n = thread[w].spent
  OBVIOUS
<1>9. PICK x : x = s
  OBVIOUS
<1>10. PICK m : m = IF Direction = "BUY" THEN x.amount - n ELSE n
  OBVIOUS
<1>11. /\ source[u] \in Int /\ target[u] \in Int /\ InTrust(u) \in Int /\ HalfPaid(u) \in Int
  <2>1. SumsTyped(u)
    BY SumsAreTyped
  <2>. QED  BY <2>1 DEF SumsTyped
<1>12. /\ x.amount \in Nat /\ n \in Nat
       /\ PayLeftover(w) => /\ target'[u] = target[u]
                            /\ source'[u] = source[u] + IF u = x.user THEN x.amount - n ELSE 0
       /\ PaySpent(w) => /\ source'[u] = source[u]
                         /\ target'[u] = target[u] + IF u = x.user THEN n ELSE 0
  BY <1>1, <1>8, <1>9, PaysUser
<1>13. HalfPaid(u)' = HalfPaid(u) - IF u = x.user THEN m ELSE 0
  <2>1. HalfPaid(u)' = HalfPaid(u) + (HalfOf(u)'[w] - HalfOf(u)[w])
    BY <1>5, <1>7, HalfChanges
  <2>2. HalfOf(u)'[w] = 0
    BY <1>7 DEF HalfOf
  <2>3. HalfOf(u)[w] = IF u = x.user THEN m ELSE 0
    BY <1>1, <1>8, <1>9, <1>10 DEF HalfOf, FirstPart
  <2>4. m \in Int
    BY <1>10, <1>12
  <2>. QED  BY <1>11, <2>1, <2>2, <2>3, <2>4
<1>14. InTrust(u)' = InTrust(u) - IF u = x.user THEN x.amount ELSE 0
  <2>1. CASE u = x.user
    <3>1. InTrust(u)' = InTrust(u) + (- x.amount)
      BY <1>2, <1>4, <1>5, <1>6, <1>9, <2>1, TrustChanges
    <3>. QED  BY <1>11, <1>12, <2>1, <3>1
  <2>2. CASE u # x.user
    <3>1. InTrust(u)' = InTrust(u)
      BY <1>2, <1>5, <1>9, <2>2, TrustChanges
    <3>. QED  BY <1>11, <2>2, <3>1
  <2>. QED  BY <2>1, <2>2
<1>. HIDE DEF s, j
<1>15. (source'[u] - source[u]) + (target'[u] - target[u]) + (InTrust(u)' - InTrust(u))
          = HalfPaid(u)' - HalfPaid(u)
  <2>1. CASE Direction = "BUY"
    BY <1>1, <1>10, <1>11, <1>12, <1>13, <1>14, <2>1
  <2>2. CASE Direction # "BUY"
    BY <1>1, <1>10, <1>11, <1>12, <1>13, <1>14, <2>2
  <2>. QED  BY <2>1, <2>2
<1>. QED  BY <1>15, Settles, SumsAreTyped, NextSumsTyped
-----------------------------------------------------------------------------
(* A step that moves thread w, and may take users off a timer or set a limit. *)
Plain(w) ==
    /\ UNCHANGED <<source, target>>
    /\ Len(triggers') = Len(triggers) /\ \A i \in 1 .. Len(triggers) : SameMark(i)
    /\ NobodyNew /\ Others(w)
    /\ {thread[w].at, thread'[w].at} \cap {"hold", "return", "second"} = {}

LEMMA PlainUnpaid ==
    ASSUME Inv, NEW w \in Threads, Plain(w)
    PROVE  Unpaid
<1>1. Len(triggers) \in Nat
  BY Typed
<1>2. \A v \in Threads : thread'[v] = thread[v] \/ (thread[v].at # "second" /\ thread'[v].at # "second")
  BY DEF Plain, Others
<1>. QED  BY <1>1, <1>2 DEF Unpaid, Plain

LEMMA UnchangedMarks ==
    ASSUME Inv
    PROVE  /\ UNCHANGED triggers => Len(triggers') = Len(triggers) /\ \A i \in 1 .. Len(triggers) : SameMark(i)
           /\ UNCHANGED users => NobodyNew
BY DEF Inv, TypeOK, SameMark, NobodyNew

LEMMA PlainHandler ==
    ASSUME Inv, NEW w \in Threads,
           Check(w) \/ Enter(w) \/ Update(w) \/ Compare(w) \/ Find(w) \/ Reply(w)
    PROVE  Plain(w)
<1>1. UNCHANGED <<source, target, users>>
  BY DEF Check, Enter, Update, Compare, Find, Reply, accounts, registry
<1>2. Len(triggers') = Len(triggers) /\ \A i \in 1 .. Len(triggers) : SameMark(i)
  <2>1. CASE UNCHANGED triggers
    BY <2>1, UnchangedMarks
  <2>2. CASE Update(w)
    <3>1. PICK id, n : UNCHANGED triggers \/ triggers' = [triggers EXCEPT ![id].limit = n]
      BY <2>2 DEF Update
    <3>2. triggers \in Seq(Trigger) /\ Len(triggers') = Len(triggers)
      BY <3>1, Typed
    <3>3. ASSUME NEW i \in 1 .. Len(triggers) PROVE SameMark(i)
      <4>1. triggers[i] \in Trigger
        BY Typed
      <4>2. triggers'[i] = triggers[i] \/ triggers'[i] = [triggers[i] EXCEPT !.limit = n]
        BY <3>1, <3>2, <4>1
      <4>. QED  BY <4>1, <4>2 DEF Trigger, SameMark
    <3>. QED  BY <3>2, <3>3
  <2>. QED  BY <2>1, <2>2 DEF Check, Enter, Compare, Find, Reply
<1>3. Others(w) /\ {thread[w].at, thread'[w].at} \cap {"hold", "return", "second"} = {}
  <2>. DEFINE k == thread[w]
  <2>0. k \in Thread
    BY Typed
  <2>1. CASE Check(w)
    <3>1. k.at = "check" /\ (Goto(w, "enter") \/ Finish(w, FALSE))
      BY <2>1 DEF Check
    <3>2. CASE Goto(w, "enter")
      BY <3>1, <3>2, Moved
    <3>3. CASE Finish(w, FALSE)
      BY <3>1, <3>3, Moved
    <3>. QED  BY <3>1, <3>2, <3>3
  <2>2. CASE Enter(w)
    <3>. DEFINE onward == IF w[1] = "SET_AMOUNT" THEN "register" ELSE "update"
                r == [k EXCEPT !.at = onward, !.timer = current, !.fresh = FALSE]
                m == [k EXCEPT !.at = onward, !.timer = born + 1, !.fresh = TRUE]
    <3>1. k.at = "enter" /\ (Become(w, r) \/ Become(w, m) \/ Finish(w, FALSE))
      BY <2>2 DEF Enter
    <3>2. r.at \in {"register", "update"} /\ m.at \in {"register", "update"}
      BY <2>0 DEF Thread
    <3>. HIDE DEF r, m, onward
    <3>. QED  BY <3>1, <3>2, Moved
  <2>3. CASE Update(w)
    <3>. DEFINE r(id) == [k EXCEPT !.at = "compare", !.trigger = id]
    <3>1. PICK id : k.at = "update" /\ (Become(w, r(id)) \/ Finish(w, FALSE))
      BY <2>3 DEF Update
    <3>2. r(id).at = "compare"
      BY <2>0 DEF Thread
    <3>. HIDE DEF r
    <3>. QED  BY <3>1, <3>2, Moved
  <2>4. CASE Compare(w)
    <3>. DEFINE r == [k EXCEPT !.at = "next", !.batch = {k.trigger}, !.left = {k.trigger}]
    <3>1. k.at = "compare" /\ (Become(w, r) \/ Finish(w, TRUE))
      BY <2>4 DEF Compare
    <3>2. r.at = "next"
      BY <2>0 DEF Thread
    <3>. HIDE DEF r
    <3>. QED  BY <3>1, <3>2, Moved
  <2>5. CASE Find(w)
    <3>. DEFINE r == [k EXCEPT !.at = "take", !.timer = current]
    <3>1. k.at = "find" /\ (Become(w, r) \/ Finish(w, FALSE))
      BY <2>5 DEF Find
    <3>2. r.at = "take"
      BY <2>0 DEF Thread
    <3>. HIDE DEF r
    <3>. QED  BY <3>1, <3>2, Moved
  <2>6. CASE Reply(w)
    <3>1. k.at = "done" /\ Become(w, Rest) /\ Rest.at = "idle"
      BY <2>6 DEF Reply, Rest
    <3>. QED  BY <3>1, Moved
  <2>. QED  BY <2>1, <2>2, <2>3, <2>4, <2>5, <2>6
<1>. QED  BY <1>1, <1>2, <1>3, UnchangedMarks, ZenonT(60) DEF Plain

LEMMA PlainLoop ==
    ASSUME Inv, NEW w \in Threads,
           \/ Poll(w) \/ Quote(w) \/ Unquoted(w) \/ Exit(w)
           \/ FireNext(w) \/ FiredAll(w) \/ FindFired(w) \/ DropFired(w)
    PROVE  Plain(w)
<1>1. UNCHANGED <<source, target, triggers>>
  BY DEF Poll, Quote, Unquoted, Exit, FireNext, FiredAll, FindFired, DropFired, accounts
<1>2. NobodyNew
  <2>1. CASE UNCHANGED users
    BY <2>1, UnchangedMarks
  <2>2. CASE DropFired(w)
    <3>1. PICK n, v : users' = [users EXCEPT ![n][v] = 0]
      BY <2>2 DEF DropFired
    <3>2. users \in [Ids -> [Users -> Ids \cup {0}]]
      BY Typed
    <3>. QED  BY <3>1, <3>2 DEF NobodyNew
  <2>. QED  BY <2>1, <2>2 DEF Poll, Quote, Unquoted, Exit, FireNext, FiredAll, FindFired, registry
<1>3. Others(w) /\ {thread[w].at, thread'[w].at} \cap {"hold", "return", "second"} = {}
  <2>. DEFINE k == thread[w]
  <2>0. k \in Thread
    BY Typed
  <2>1. CASE Quote(w)
    <3>. DEFINE r(b) == [k EXCEPT !.at = "next", !.batch = b, !.left = b]
                p == [k EXCEPT !.at = "poll"]
    <3>1. PICK b : k.at = "quote" /\ (Become(w, r(b)) \/ Become(w, p))
      BY <2>1 DEF Quote
    <3>2. r(b).at = "next" /\ p.at = "poll"
      BY <2>0 DEF Thread
    <3>. HIDE DEF r, p
    <3>. QED  BY <3>1, <3>2, Moved
  <2>2. CASE FindFired(w)
    <3>. DEFINE r == [k EXCEPT !.at = "drop", !.arg = current]
    <3>1. k.at = "found" /\ (Become(w, r) \/ Goto(w, "next"))
      BY <2>2 DEF FindFired
    <3>2. r.at = "drop"
      BY <2>0 DEF Thread
    <3>. HIDE DEF r
    <3>. QED  BY <3>1, <3>2, Moved
  <2>3. CASE Poll(w) \/ Unquoted(w) \/ DropFired(w)
    <3>1. k.at \in {"poll", "quote", "drop"} /\ \E p \in {"exit", "quote", "poll", "next"} : Goto(w, p)
      BY <2>3 DEF Poll, Unquoted, DropFired
    <3>. QED  BY <3>1, Moved
  <2>4. CASE Exit(w)
    <3>1. k.at = "exit" /\ Become(w, Rest) /\ Rest.at = "idle"
      BY <2>4 DEF Exit, Rest
    <3>. QED  BY <3>1, Moved
  <2>5. CASE FiredAll(w)
    <3>1. k.at = "next" /\ (Goto(w, "poll") \/ Finish(w, TRUE))
      BY <2>5 DEF FiredAll
    <3>2. CASE Goto(w, "poll")
      BY <3>1, <3>2, Moved
    <3>3. CASE Finish(w, TRUE)
      BY <3>1, <3>3, Moved
    <3>. QED  BY <3>1, <3>2, <3>3
  <2>6. CASE FireNext(w)
    <3>. DEFINE r(id, n) == [k EXCEPT !.at = "first", !.trigger = id, !.left = @ \ {id}, !.spent = n]
                p(id) == [k EXCEPT !.left = @ \ {id}]
    <3>1. PICK id, n : k.at = "next" /\ (Become(w, r(id, n)) \/ Become(w, p(id)))
      BY <2>6 DEF FireNext
    <3>2. r(id, n).at = "first" /\ p(id).at = k.at
      BY <2>0 DEF Thread
    <3>. HIDE DEF r, p
    <3>. QED  BY <3>1, <3>2, Moved
  <2>. QED  BY <2>1, <2>2, <2>3, <2>4, <2>5, <2>6
<1>. QED  BY <1>1, <1>2, <1>3, UnchangedMarks, ZenonT(60) DEF Plain

LEMMA PlainReceive ==
    ASSUME Inv, NEW u \in Users, ReceiveSetAmount(u) \/ ReceiveSetTrigger(u) \/ ReceiveCancel(u)
    PROVE  \E w \in Threads : Plain(w)
<1>1. PICK kind \in Kinds, arg \in Nat, position \in {"check", "enter", "find"} :
        Receive(kind, u, arg, position)
  <2>1. CASE ReceiveSetAmount(u)
    <3>1. PICK a \in Amounts : Receive("SET_AMOUNT", u, a, "check")
      BY <2>1 DEF ReceiveSetAmount
    <3>. QED  BY <3>1, Constants DEF Kinds
  <2>2. CASE ReceiveSetTrigger(u)
    <3>1. PICK n \in Limits : Receive("SET_TRIGGER", u, n, "enter")
      BY <2>2 DEF ReceiveSetTrigger
    <3>. QED  BY <3>1, Constants DEF Kinds
  <2>3. CASE ReceiveCancel(u)
    <3>1. Receive("CANCEL", u, 0, "find")
      BY <2>3 DEF ReceiveCancel
    <3>. QED  BY <3>1, Constants DEF Kinds
  <2>. QED  BY <2>1, <2>2, <2>3
<1>. DEFINE w == <<kind, u>>
            r == [Rest EXCEPT !.at = position, !.arg = arg]
<1>2. /\ Become(w, r) /\ UNCHANGED <<source, target, triggers, users>> /\ w \in Threads
      /\ r.at = position /\ thread[w].at = "idle"
  BY <1>1, ThreadKinds DEF Receive, accounts, registry, Rest
<1>. HIDE DEF w, r
<1>3. Others(w) /\ thread'[w].at = position
  BY <1>2, Moved
<1>4. Plain(w)
  BY <1>2, <1>3, UnchangedMarks DEF Plain
<1>. QED  BY <1>2, <1>4
-----------------------------------------------------------------------------
(* What a step of thread w must satisfy to keep Calm, if it makes no trigger. *)
CalmFrame(w) ==
    /\ SameOwned /\ NobodyNew /\ Others(w) /\ thread'[w].at # "hold"
    /\ \A i \in 1 .. Len(triggers) :
         /\ triggers'[i].held = 0 =>
              triggers[i].held = 0 /\ ~(thread[w].at = "hold" /\ thread[w].trigger = i)
         /\ triggers'[i].canceled =>
              \/ triggers[i].canceled
              \/ w[1] = "CANCEL" /\ thread[w].at = "return" /\ i = thread[w].trigger
    /\ \A u \in Users : w = <<"CANCEL", u>> => Returns(u, thread[w])'

LEMMA CalmKept ==
    ASSUME Inv, Calm, NEW w \in Threads, CalmFrame(w)
    PROVE  Calm'
<1>0. \A u \in Users : <<"CANCEL", u>> \in Threads /\ <<"SET_AMOUNT", u>> \in Threads
  BY ThreadKinds DEF Kinds
<1>1. ASSUME NEW i \in 1 .. Len(triggers), w[1] = "CANCEL", thread[w].at = "return",
             i = thread[w].trigger
      PROVE  /\ \E u \in Users : w = <<"CANCEL", u>> /\ triggers[i].user = u
             /\ \A t \in Ids, v \in Users : users[t][v] # i
  <2>1. PICK u \in Users : w = <<"CANCEL", u>>
    BY <1>1, ThreadKinds
  <2>2. triggers[i].user = u /\ \A t \in Ids : users[t][u] # i
    BY <1>1, <2>1 DEF Calm, Returns
  <2>3. \A t \in Ids, v \in Users : users[t][v] = i => triggers[i].user = v
    BY <1>1 DEF Inv, Registry
  <2>. QED  BY <2>1, <2>2, <2>3
<1>2. ASSUME NEW u \in Users PROVE Returns(u, thread[<<"CANCEL", u>>])'
  <2>. DEFINE v == <<"CANCEL", u>>
              j == thread[v].trigger
  <2>1. CASE v = w
    BY <2>1 DEF CalmFrame
  <2>2. CASE v # w /\ thread[v].at = "return"
    <3>1. thread'[v] = thread[v] /\ Returns(u, thread[v]) /\ j \in 1 .. Len(triggers)
      <4>1. v \in Threads
        BY <1>0
      <4>2. j \in 1 .. Len(triggers)
        <5>1. Sound(v, thread[v]) /\ Len(triggers) \in Nat
          BY <4>1, Typed
        <5>. QED  BY <2>2, <5>1 DEF Sound
      <4>3. thread'[v] = thread[v]
        BY <2>2, <4>1 DEF CalmFrame, Others
      <4>. QED  BY <4>2, <4>3 DEF Calm
    <3>2. triggers'[j].user = u /\ triggers'[j].amount = thread[v].arg
      BY <2>2, <3>1 DEF CalmFrame, SameOwned, Returns
    <3>3. ~triggers'[j].canceled
      <4>1. ~triggers[j].canceled /\ triggers[j].user = u
        BY <2>2, <3>1 DEF Returns
      <4>. QED  BY <1>1, <2>2, <3>1, <4>1 DEF CalmFrame
    <3>4. \A t \in Ids : users'[t][u] # j
      <4>1. \A t \in Ids : users[t][u] # j
        BY <2>2, <3>1 DEF Returns
      <4>2. j # 0
        BY <3>1
      <4>. QED  BY <4>1, <4>2 DEF CalmFrame, NobodyNew
    <3>. QED  BY <3>1, <3>2, <3>3, <3>4 DEF Returns
  <2>3. CASE v # w /\ thread[v].at # "return"
    <3>1. thread'[v] = thread[v]
      BY <1>0, <2>3 DEF CalmFrame, Others
    <3>. QED  BY <2>3, <3>1 DEF Returns
  <2>. QED  BY <2>1, <2>2, <2>3
<1>3. ASSUME NEW u \in Users PROVE Holds(thread[<<"SET_AMOUNT", u>>])'
  <2>. DEFINE v == <<"SET_AMOUNT", u>>
              j == thread[v].trigger
  <2>1. CASE v = w \/ thread[v].at # "hold"
    BY <1>0, <2>1 DEF CalmFrame, Others, Holds
  <2>2. CASE v # w /\ thread[v].at = "hold"
    <3>1. thread'[v] = thread[v] /\ Holds(thread[v]) /\ j \in 1 .. Len(triggers)
      <4>1. v \in Threads
        BY <1>0
      <4>2. j \in 1 .. Len(triggers)
        <5>1. Sound(v, thread[v]) /\ Len(triggers) \in Nat
          BY <4>1, Typed
        <5>. QED  BY <2>2, <5>1 DEF Sound
      <4>3. thread'[v] = thread[v]
        BY <2>2, <4>1 DEF CalmFrame, Others
      <4>. QED  BY <4>2, <4>3 DEF Calm
    <3>2. triggers'[j].amount = thread[v].arg
      BY <2>2, <3>1 DEF CalmFrame, SameOwned, Holds
    <3>. QED  BY <3>1, <3>2 DEF Holds
  <2>. QED  BY <2>1, <2>2
<1>4. ASSUME NEW t \in Ids, NEW u \in Users, users'[t][u] # 0
      PROVE  /\ ~triggers'[users'[t][u]].canceled
             /\ \A s \in Ids : users'[s][u] = users'[t][u] => s = t
  <2>1. users'[t][u] = users[t][u] /\ users[t][u] \in 1 .. Len(triggers)
    BY <1>4 DEF CalmFrame, NobodyNew, Inv, Registry
  <2>2. ~triggers[users[t][u]].canceled /\ \A s \in Ids : users[s][u] = users[t][u] => s = t
    BY <1>4, <2>1 DEF Calm
  <2>3. ~triggers'[users[t][u]].canceled
    BY <1>1, <2>1, <2>2 DEF CalmFrame
  <2>4. \A s \in Ids : users'[s][u] = users'[t][u] => users[s][u] = users[t][u]
    BY <1>4, <2>1 DEF CalmFrame, NobodyNew
  <2>. QED  BY <2>1, <2>2, <2>3, <2>4
<1>5. ASSUME NEW i \in 1 .. Len(triggers'), triggers'[i].held = 0 PROVE Unheld(i)'
  <2>1. /\ i \in 1 .. Len(triggers) /\ triggers[i].held = 0
        /\ ~(thread[w].at = "hold" /\ thread[w].trigger = i)
    BY <1>5 DEF CalmFrame, SameOwned
  <2>2. PICK u \in Users :
          thread[<<"SET_AMOUNT", u>>].at = "hold" /\ thread[<<"SET_AMOUNT", u>>].trigger = i
    BY <2>1 DEF Calm, Unheld
  <2>3. thread'[<<"SET_AMOUNT", u>>] = thread[<<"SET_AMOUNT", u>>]
    BY <1>0, <2>1, <2>2 DEF CalmFrame, Others
  <2>. QED  BY <2>2, <2>3 DEF Unheld
<1>. QED  BY <1>2, <1>3, <1>4, <1>5 DEF Calm
LEMMA PlainCalm ==
    ASSUME Inv, Calm, NEW w \in Threads, Plain(w)
    PROVE  Calm'
<1>1. thread[w].at # "hold" /\ thread'[w].at \notin {"hold", "return"}
  BY DEF Plain
<1>2. SameOwned /\ \A i \in 1 .. Len(triggers) :
         triggers'[i].held = triggers[i].held /\ triggers'[i].canceled = triggers[i].canceled
  BY DEF Plain, SameMark, SameOwned
<1>3. \A u \in Users : Returns(u, thread[w])'
  BY <1>1 DEF Returns
<1>4. CalmFrame(w)
  BY <1>1, <1>2, <1>3 DEF CalmFrame, Plain
<1>. QED  BY <1>4, CalmKept

(* The two statements of a completion. *)
LEMMA PayCalm ==
    ASSUME Inv, Calm, NEW w \in Threads, PayFirst(w) \/ Pay(w)
    PROVE  Calm'
<1>1. UNCHANGED users /\ thread[w].at \in {"first", "second"}
      /\ (Goto(w, "second") \/ Goto(w, "found"))
  BY DEF PayFirst, Pay, PaySecond, registry
<1>2. Others(w) /\ thread'[w].at \in {"second", "found"}
  <2>1. CASE Goto(w, "second")
    BY <2>1, Moved
  <2>2. CASE Goto(w, "found")
    BY <2>2, Moved
  <2>. QED  BY <1>1, <2>1, <2>2
<1>3. SameOwned /\ \A i \in 1 .. Len(triggers) :
         triggers'[i].held = triggers[i].held /\ triggers'[i].canceled = triggers[i].canceled
  <2>1. CASE UNCHANGED triggers
    BY <2>1 DEF SameOwned
  <2>2. CASE Pay(w)
    <3>1. triggers' = [triggers EXCEPT ![thread[w].trigger].fired = @ + 1] /\ SameTriggers(w)
          /\ thread[w].at = "second"
      BY <2>2, SecondEffect DEF Pay, PaySecond
    <3>2. ASSUME NEW i \in 1 .. Len(triggers) PROVE triggers'[i].canceled = triggers[i].canceled
      <4>1. triggers \in Seq(Trigger) /\ triggers[i] \in Trigger
        BY Typed
      <4>2. \/ triggers'[i] = triggers[i]
            \/ triggers'[i] = [triggers[i] EXCEPT !.fired = @ + 1]
        BY <3>1, <4>1
      <4>. QED  BY <4>1, <4>2 DEF Trigger
    <3>. QED  BY <3>1, <3>2 DEF SameTriggers, SameOwned
  <2>. QED  BY <2>1, <2>2 DEF PayFirst
<1>4. \A u \in Users : Returns(u, thread[w])'
  BY <1>2 DEF Returns
<1>5. CalmFrame(w)
  BY <1>1, <1>2, <1>3, <1>4, UnchangedMarks DEF CalmFrame
<1>. QED  BY <1>5, CalmKept

LEMMA HoldCalm ==
    ASSUME Inv, Calm, NEW w \in Threads, Hold(w)
    PROVE  Calm'
<1>. DEFINE j == thread[w].trigger
            t == [triggers[j] EXCEPT !.held = @ + 1]
<1>1. /\ thread[w].at = "hold" /\ w[1] = "SET_AMOUNT" /\ j \in 1 .. Len(triggers)
      /\ SameTriggers(w) /\ triggers'[j].held = 1 /\ UNCHANGED users
      /\ HoldAmount(w) /\ Finish(w, TRUE)
  BY HoldEffect DEF Hold, registry
<1>2. Others(w) /\ thread'[w].at = "done"
  BY <1>1, Moved
<1>3. triggers' = [triggers EXCEPT ![j] = t] /\ triggers \in Seq(Trigger)
  BY <1>1, Typed DEF HoldAmount
<1>4. ASSUME NEW i \in 1 .. Len(triggers)
      PROVE  /\ triggers'[i].canceled = triggers[i].canceled
             /\ triggers'[i].held = 0 => triggers[i].held = 0 /\ i # j
  <2>1. triggers[j] \in Trigger
    BY <1>1, TriggerTyped
  <2>2. t.canceled = triggers[j].canceled
    BY <2>1 DEF Trigger
  <2>. HIDE DEF t
  <2>3. CASE i = j
    BY <1>1, <1>3, <2>2, <2>3
  <2>4. CASE i # j
    <3>1. triggers'[i] = triggers[i]
      BY <1>1, <1>3, <2>4
    <3>. QED  BY <2>4, <3>1
  <2>. QED  BY <2>3, <2>4
<1>5. \A u \in Users : Returns(u, thread[w])'
  BY <1>2 DEF Returns
<1>6. SameOwned
  BY <1>1 DEF SameTriggers, SameOwned
<1>7. CalmFrame(w)
  BY <1>1, <1>2, <1>4, <1>5, <1>6, UnchangedMarks DEF CalmFrame
<1>. QED  BY <1>7, CalmKept

LEMMA ReturnCalm ==
    ASSUME Inv, Calm, NEW w \in Threads, Return(w)
    PROVE  Calm'
<1>. DEFINE j == thread[w].trigger
            t == [triggers[j] EXCEPT !.canceled = TRUE]
<1>1. /\ thread[w].at = "return" /\ w[1] = "CANCEL" /\ SameTriggers(w) /\ UNCHANGED users
      /\ ReturnAmount(w) /\ Finish(w, TRUE)
  BY ReturnEffect DEF Return, registry
<1>2. Others(w) /\ thread'[w].at = "done"
  BY <1>1, Moved
<1>3. triggers' = [triggers EXCEPT ![j] = t] /\ triggers \in Seq(Trigger)
  BY <1>1, Typed DEF ReturnAmount
<1>. HIDE DEF t
<1>4. ASSUME NEW i \in 1 .. Len(triggers)
      PROVE  /\ triggers'[i].held = triggers[i].held
             /\ triggers'[i].canceled => triggers[i].canceled \/ i = j
  <2>1. triggers'[i].held = triggers[i].held
    BY <1>1 DEF SameTriggers
  <2>2. i # j => triggers'[i] = triggers[i]
    BY <1>3
  <2>. QED  BY <2>1, <2>2
<1>5. \A u \in Users : Returns(u, thread[w])'
  BY <1>2 DEF Returns
<1>6. SameOwned
  BY <1>1 DEF SameTriggers, SameOwned
<1>7. CalmFrame(w)
  BY <1>1, <1>2, <1>4, <1>5, <1>6, UnchangedMarks DEF CalmFrame
<1>. QED  BY <1>7, CalmKept

(* CANCEL takes the trigger off the only timer that has it. *)
LEMMA TakeCalm ==
    ASSUME Inv, Calm, NEW w \in Threads, Take(w)
    PROVE  Calm' /\ Unpaid
<1>. DEFINE n == thread[w].timer
            u == w[2]
            id == users[n][u]
            r == [thread[w] EXCEPT !.at = "return", !.trigger = id, !.arg = triggers[id].amount]
<1>1. /\ thread[w].at = "take" /\ UNCHANGED <<accounts, triggers>>
      /\ id # 0 /\ users' = [users EXCEPT ![n][u] = 0] /\ Become(w, r)
  BY DEF Take
<1>2. w[1] = "CANCEL" /\ u \in Users /\ w = <<"CANCEL", u>>
  BY <1>1, Typed, ThreadKinds DEF Placed, Firing, Kinds, Threads
<1>3. n \in Ids /\ users \in [Ids -> [Users -> Ids \cup {0}]]
  BY <1>1, Typed DEF Sound, Thread
<1>4. id \in 1 .. Len(triggers) /\ triggers[id].user = u
  BY <1>1, <1>2, <1>3 DEF Inv, Registry
<1>5. r.at = "return" /\ r.trigger = id /\ r.arg = triggers[id].amount
  BY Typed DEF Thread
<1>. HIDE DEF r
<1>6. Others(w) /\ thread'[w] = r
  BY <1>1, Moved
<1>7. ~triggers[id].canceled /\ \A t \in Ids : users'[t][u] # id
  <2>1. ~triggers[id].canceled /\ \A t \in Ids : users[t][u] = id => t = n
    BY <1>1, <1>2, <1>3 DEF Calm
  <2>2. users'[n][u] = 0
    BY <1>1, <1>2, <1>3
  <2>3. \A t \in Ids : t # n => users'[t][u] = users[t][u]
    BY <1>1, <1>2, <1>3
  <2>. QED  BY <1>1, <2>1, <2>2, <2>3
<1>8. NobodyNew
  BY <1>1, <1>2, <1>3 DEF NobodyNew
<1>9. \A v \in Users : w = <<"CANCEL", v>> => Returns(v, thread[w])'
  <2>. HIDE DEF id
  <2>1. Returns(u, thread[w])'
    BY <1>1, <1>4, <1>5, <1>6, <1>7 DEF Returns
  <2>. QED  BY <1>2, <2>1
<1>10. SameOwned /\ \A i \in 1 .. Len(triggers) :
         triggers'[i].held = triggers[i].held /\ triggers'[i].canceled = triggers[i].canceled
  BY <1>1 DEF SameOwned
<1>11. CalmFrame(w)
  <2>1. thread'[w].at # "hold" /\ thread[w].at # "hold"
    BY <1>1, <1>5, <1>6
  <2>. QED  BY <1>6, <1>8, <1>9, <1>10, <2>1 DEF CalmFrame
<1>12. Unpaid
  <2>1. \A v \in Threads : thread'[v] = thread[v] \/ (thread[v].at # "second" /\ thread'[v].at # "second")
    BY <1>1, <1>5, <1>6 DEF Others
  <2>2. Len(triggers') = Len(triggers) /\ Len(triggers) \in Nat
        /\ \A i \in 1 .. Len(triggers) : SameMark(i)
    BY <1>1, Typed, UnchangedMarks
  <2>. QED  BY <1>1, <2>1, <2>2 DEF Unpaid, accounts
<1>. QED  BY <1>11, <1>12, CalmKept
(* SET_AMOUNT registers a trigger that holds nothing yet. *)
LEMMA RegisterCalm ==
    ASSUME FireInv, Calm, NEW w \in Threads, Register(w)
    PROVE  Calm' /\ Unpaid
<1>. Inv /\ OneLoop
  BY DEF FireInv
<1>1. /\ thread[w].at = "register" /\ w \in Handlers /\ w[1] = "SET_AMOUNT"
      /\ UNCHANGED <<source, target>> /\ w = <<"SET_AMOUNT", w[2]>> /\ w[2] \in Users
  BY RegisterForms, ThreadKinds DEF accounts
<1>2. CASE Finish(w, FALSE) /\ UNCHANGED <<users, triggers>>
  <2>1. Others(w) /\ thread'[w].at = "done"
    BY <1>2, Moved
  <2>2. Plain(w)
    BY <1>1, <1>2, <2>1, UnchangedMarks DEF Plain
  <2>. QED  BY <2>2, PlainCalm, PlainUnpaid
<1>3. CASE \E r \in Thread, l \in Threads, q \in Thread : Registers(w, r, l, q)
  <2>1. PICK r \in Thread, l \in Threads, q \in Thread : Registers(w, r, l, q)
    BY <1>3
  <2>. DEFINE u == w[2]
              n == thread[w].timer
              id == Len(triggers) + 1
              t == [user |-> u, amount |-> thread[w].arg, limit |-> 0,
                    held |-> 0, fired |-> 0, canceled |-> FALSE]
  <2>2. /\ r.at = "hold" /\ r.trigger = id /\ r.arg = thread[w].arg
        /\ l = <<"timer", n>> /\ ((thread[w].fresh /\ q.at = "poll") \/ q = thread[l])
        /\ thread' = [thread EXCEPT ![w] = r, ![l] = q]
        /\ users' = [users EXCEPT ![n][u] = id] /\ triggers' = Append(triggers, t)
    BY <2>1 DEF Registers
  <2>3. l \notin Handlers /\ l # w /\ n \in Ids
    BY <1>1, <2>2, ThreadKinds, Typed DEF Handlers, Kinds, Sound, Thread
  <2>4. /\ thread'[w] = r /\ thread'[l] = q
        /\ \A v \in Threads \ {w, l} : thread'[v] = thread[v]
        /\ \A v \in Handlers \ {w} : thread'[v] = thread[v]
    <3>1. thread \in [Threads -> Thread]
      BY Typed
    <3>2. thread'[w] = r /\ thread'[l] = q /\ \A v \in Threads \ {w, l} : thread'[v] = thread[v]
      BY <2>2, <2>3, <3>1
    <3>. QED  BY <2>3, <3>2, ThreadKinds
  <2>5. /\ Len(triggers') = id /\ triggers'[id] = t /\ Len(triggers) \in Nat
        /\ \A i \in 1 .. Len(triggers) : triggers'[i] = triggers[i]
    <3>1. triggers \in Seq(Trigger) /\ Len(triggers) \in Nat
      BY Typed
    <3>. HIDE DEF t
    <3>. QED  BY <2>2, <3>1
  <2>6. /\ users \in [Ids -> [Users -> Ids \cup {0}]]
        /\ \A s \in Ids, v \in Users : users[s][v] # 0 =>
             users[s][v] \in 1 .. Len(triggers) /\ triggers[users[s][v]].user = v
    BY Typed DEF Inv, Registry
  <2>7. /\ users'[n][u] = id
        /\ \A s \in Ids, v \in Users : s # n \/ v # u => users'[s][v] = users[s][v]
    BY <1>1, <2>2, <2>3, <2>6
  <2>8. \A s \in Ids, v \in Users : users[s][v] # id
    BY <2>5, <2>6
  <2>. HIDE DEF id, n
  <2>9. ASSUME NEW v \in Users PROVE Returns(v, thread[<<"CANCEL", v>>])'
    <3>1. thread'[<<"CANCEL", v>>] = thread[<<"CANCEL", v>>] /\ <<"CANCEL", v>> \in Threads
      BY <1>1, <2>4, ThreadKinds DEF Kinds
    <3>2. CASE thread[<<"CANCEL", v>>].at = "return"
      <4>. DEFINE j == thread[<<"CANCEL", v>>].trigger
      <4>1. Returns(v, thread[<<"CANCEL", v>>]) /\ j \in 1 .. Len(triggers)
        <5>1. Sound(<<"CANCEL", v>>, thread[<<"CANCEL", v>>])
          BY <3>1, Typed
        <5>2. j \in 1 .. Len(triggers)
          BY <2>5, <3>2, <5>1 DEF Sound
        <5>. QED  BY <5>2 DEF Calm
      <4>2. triggers'[j] = triggers[j] /\ j # id
        BY <2>5, <4>1 DEF id
      <4>3. \A s \in Ids : users'[s][v] # j
        BY <2>7, <3>2, <4>1, <4>2 DEF Returns
      <4>. QED  BY <3>1, <3>2, <4>1, <4>2, <4>3 DEF Returns
    <3>3. CASE thread[<<"CANCEL", v>>].at # "return"
      BY <3>1, <3>3 DEF Returns
    <3>. QED  BY <3>2, <3>3
  <2>10. ASSUME NEW v \in Users PROVE Holds(thread[<<"SET_AMOUNT", v>>])'
    <3>1. CASE v = u
      <4>1. thread'[<<"SET_AMOUNT", v>>] = r
        BY <1>1, <2>4, <3>1
      <4>2. triggers'[r.trigger].amount = r.arg
        BY <2>2, <2>5
      <4>. QED  BY <4>1, <4>2 DEF Holds
    <3>2. CASE v # u
      <4>1. /\ thread'[<<"SET_AMOUNT", v>>] = thread[<<"SET_AMOUNT", v>>]
            /\ <<"SET_AMOUNT", v>> \in Threads
        BY <1>1, <2>4, <3>2, ThreadKinds DEF Kinds
      <4>2. /\ Holds(thread[<<"SET_AMOUNT", v>>])
            /\ Sound(<<"SET_AMOUNT", v>>, thread[<<"SET_AMOUNT", v>>])
        BY <4>1, Typed DEF Calm
      <4>3. CASE thread[<<"SET_AMOUNT", v>>].at = "hold"
        <5>1. thread[<<"SET_AMOUNT", v>>].trigger \in 1 .. Len(triggers)
          BY <2>5, <4>2, <4>3 DEF Sound
        <5>. QED  BY <2>5, <4>1, <4>2, <5>1 DEF Holds
      <4>4. CASE thread[<<"SET_AMOUNT", v>>].at # "hold"
        BY <4>1, <4>4 DEF Holds
      <4>. QED  BY <4>3, <4>4
    <3>. QED  BY <3>1, <3>2
  <2>11. ASSUME NEW s \in Ids, NEW v \in Users, users'[s][v] # 0
         PROVE  /\ ~triggers'[users'[s][v]].canceled
                /\ \A x \in Ids : users'[x][v] = users'[s][v] => x = s
    <3>1. CASE s = n /\ v = u
      <4>1. users'[s][v] = id /\ ~triggers'[id].canceled
        BY <2>5, <2>7, <3>1
      <4>2. \A x \in Ids : x # s => users'[x][v] # id
        BY <2>7, <2>8, <3>1
      <4>. QED  BY <4>1, <4>2
    <3>2. CASE s # n \/ v # u
      <4>1. users'[s][v] = users[s][v] /\ users[s][v] \in 1 .. Len(triggers) /\ users[s][v] # id
        BY <2>6, <2>7, <2>8, <2>11, <3>2
      <4>2. ~triggers[users[s][v]].canceled /\ \A x \in Ids : users[x][v] = users[s][v] => x = s
        BY <2>11, <4>1 DEF Calm
      <4>3. \A x \in Ids : users'[x][v] = users[s][v] => users[x][v] = users[s][v]
        BY <2>7, <4>1
      <4>. QED  BY <2>5, <4>1, <4>2, <4>3
    <3>. QED  BY <3>1, <3>2
  <2>12. ASSUME NEW i \in 1 .. Len(triggers'), triggers'[i].held = 0 PROVE Unheld(i)'
    <3>1. CASE i = id
      BY <1>1, <2>2, <2>4, <3>1 DEF Unheld
    <3>2. CASE i # id
      <4>1. i \in 1 .. Len(triggers) /\ triggers[i].held = 0
        BY <2>5, <2>12, <3>2 DEF id
      <4>2. PICK v \in Users :
              thread[<<"SET_AMOUNT", v>>].at = "hold" /\ thread[<<"SET_AMOUNT", v>>].trigger = i
        BY <4>1 DEF Calm, Unheld
      <4>3. thread'[<<"SET_AMOUNT", v>>] = thread[<<"SET_AMOUNT", v>>]
        BY <1>1, <2>4, <4>2, ThreadKinds DEF Kinds
      <4>. QED  BY <4>2, <4>3 DEF Unheld
    <3>. QED  BY <3>1, <3>2
  <2>13. Calm'
    BY <2>9, <2>10, <2>11, <2>12 DEF Calm
  <2>14. Unpaid
    <3>1. Len(triggers) <= Len(triggers')
      BY <2>5 DEF id
    <3>2. \A i \in 1 .. Len(triggers') : i > Len(triggers) => i = id
      BY <2>5 DEF id
    <3>3. \A v \in Threads : thread'[v] = thread[v] \/ (thread[v].at # "second" /\ thread'[v].at # "second")
      <4>1. q = thread[l] \/ (thread[l].at = "idle" /\ q.at = "poll")
        BY <1>1, <2>2 DEF OneLoop, Starting, n
      <4>. QED  BY <1>1, <2>2, <2>4, <4>1
    <3>4. \A i \in 1 .. Len(triggers) : SameMark(i)
      BY <2>5 DEF SameMark
    <3>. QED  BY <1>1, <2>5, <3>1, <3>2, <3>3, <3>4 DEF Unpaid
  <2>. QED  BY <2>13, <2>14
<1>. QED  BY <1>2, <1>3, RegisterForms
(* Every step that is not a fault keeps what is in the accounts and in trust. *)
LEMMA NextHoldings ==
    ASSUME IsFiniteSet(Users), FireInv, Calm, Next, faults' = faults
    PROVE  Calm' /\ HoldingsStay
<1>. Inv /\ Inv'
  <2>1. FireInv'
    BY NextFire
  <2>. QED  BY <2>1 DEF FireInv
<1>1. ASSUME Unpaid PROVE HoldingsStay
  BY <1>1, UnpaidLevel DEF HoldingsStay
<1>2. ASSUME NEW w \in Threads, Plain(w) PROVE Calm' /\ HoldingsStay
  BY <1>1, <1>2, PlainUnpaid, PlainCalm
<1>3. ASSUME NEW u \in Users, ReceiveSetAmount(u) \/ ReceiveSetTrigger(u) \/ ReceiveCancel(u)
      PROVE  Calm' /\ HoldingsStay
  BY <1>2, <1>3, PlainReceive
<1>4. ASSUME NEW w \in Threads, Fault(w) \/ AnswerLost(w) PROVE FALSE
  <2>1. faults' = faults + 1 /\ faults \in Nat
    BY <1>4, Typed DEF Fault, AnswerLost, Again
  <2>. QED  BY <2>1
<1>5. ASSUME NEW w \in Threads, Progress(w) PROVE Calm' /\ HoldingsStay
  <2>1. CASE \/ Check(w) \/ Enter(w) \/ Update(w) \/ Compare(w) \/ Find(w) \/ Reply(w)
             \/ Poll(w) \/ Quote(w) \/ Unquoted(w) \/ Exit(w)
             \/ FireNext(w) \/ FiredAll(w) \/ FindFired(w) \/ DropFired(w)
    BY <1>2, <2>1, PlainHandler, PlainLoop
  <2>2. CASE Register(w)
    BY <1>1, <2>2, RegisterCalm
  <2>3. CASE Take(w)
    BY <1>1, <2>3, TakeCalm
  <2>4. CASE Hold(w)
    BY <2>4, HoldLevel, HoldCalm
  <2>5. CASE Return(w)
    BY <2>5, ReturnLevel, ReturnCalm
  <2>6. CASE PayFirst(w)
    BY <2>6, FirstLevel, PayCalm
  <2>7. CASE Pay(w)
    BY <2>7, SecondLevel, PayCalm
  <2>. QED  BY <1>5, <2>1, <2>2, <2>3, <2>4, <2>5, <2>6, <2>7
            DEF Progress, HandlerStep, LoopStep, FireStep
<1>. QED  BY <1>3, <1>4, <1>5 DEF Next

LEMMA FaultsOnly ==
    ASSUME Inv, Next
    PROVE  faults \in Nat /\ faults <= faults'
<1>1. faults \in Nat
  BY DEF Inv, TypeOK
<1>2. ASSUME NEW u \in Users, ReceiveSetAmount(u) \/ ReceiveSetTrigger(u) \/ ReceiveCancel(u)
      PROVE  faults' = faults
  BY <1>2 DEF ReceiveSetAmount, ReceiveSetTrigger, ReceiveCancel, Receive
<1>3. ASSUME NEW w \in Threads, Fault(w) \/ AnswerLost(w) PROVE faults' = faults + 1
  BY <1>3 DEF Fault, AnswerLost, Again
<1>4. ASSUME NEW w \in Threads, Progress(w) PROVE faults' = faults \/ faults' = faults + 1
  <2>1. CASE HandlerStep(w)
    BY <2>1 DEF HandlerStep, Check, Enter, Register, Hold, Update, Compare, Find, Take, Return,
       Reply, bounds
  <2>2. CASE LoopStep(w)
    BY <2>2, ZenonT(60) DEF LoopStep, Poll, Quote, Unquoted, Exit, bounds
  <2>3. CASE FireStep(w)
    BY <2>3 DEF FireStep, FireNext, FiredAll, PayFirst, Pay, FindFired, DropFired, bounds
  <2>. QED  BY <1>4, <2>1, <2>2, <2>3, ZenonT(60) DEF Progress
<1>. QED  BY <1>1, <1>2, <1>3, <1>4 DEF Next

LEMMA InitCalm ==
    ASSUME IsFiniteSet(Users), Init
    PROVE  Calm /\ \A u \in Users : Holdings(u) = Funds
<1>1. /\ \A w \in Threads : thread[w].at = "idle"
      /\ triggers = <<>> /\ \A t \in Ids, u \in Users : users[t][u] = 0
  BY DEF Init, Rest
<1>2. \A u \in Users : <<"CANCEL", u>> \in Threads /\ <<"SET_AMOUNT", u>> \in Threads
  BY ThreadKinds DEF Kinds
<1>3. Calm
  BY <1>1, <1>2 DEF Calm, Returns, Holds
<1>4. ASSUME NEW u \in Users PROVE Holdings(u) = Funds
  <2>1. InTrust(u) = 0
    <3>1. DOMAIN triggers = {}
      BY <1>1
    <3>. QED  BY <3>1, SumEmpty DEF InTrust
  <2>2. HalfPaid(u) = 0
    <3>. DEFINE f == HalfOf(u)
    <3>1. \A w \in Threads : f[w] = 0
      BY <1>1 DEF HalfOf
    <3>2. IsFiniteSet(Threads)
      BY FiniteThreads
    <3>. HIDE DEF f
    <3>3. SumFunctionOnSet(f, Threads) = SumFunctionOnSet(f, {})
      BY <3>1, <3>2, SumSupport
    <3>. QED  BY <3>3, SumEmpty DEF HalfPaid, f
  <2>3. source[u] = Funds /\ target[u] = 0 /\ Funds \in Nat
    BY Constants DEF Init
  <2>. QED  BY <2>1, <2>2, <2>3 DEF Holdings
<1>. QED  BY <1>3, <1>4

(***************************************************************************)
(* While nothing fails, what a user's accounts hold and what his triggers  *)
(* keep of them is what he had at first, however commands, cancellations   *)
(* and polls overlap and however often a trigger is completed: a step that *)
(* pays, holds or returns changes both alike.                              *)
(***************************************************************************)
HoldingsConserved == faults = 0 => Calm /\ \A u \in Users : Holdings(u) = Funds

THEOREM NothingLost == IsFiniteSet(Users) => (Spec => []HoldingsConserved)
<1>. SUFFICES ASSUME IsFiniteSet(Users) PROVE Spec => []HoldingsConserved
  OBVIOUS
<1>1. Init => FireInv /\ HoldingsConserved
  BY InitFire, InitCalm DEF HoldingsConserved
<1>2. FireInv /\ HoldingsConserved /\ [Next]_vars => (FireInv /\ HoldingsConserved)'
  <2>. SUFFICES ASSUME FireInv, HoldingsConserved, [Next]_vars
                PROVE  (FireInv /\ HoldingsConserved)'
    OBVIOUS
  <2>1. CASE Next
    <3>1. FireInv'
      BY <2>1, NextFire
    <3>2. ASSUME faults' = 0
          PROVE  (Calm /\ \A u \in Users : Holdings(u) = Funds)'
      <4>1. faults = 0
        <5>1. faults \in Nat /\ faults <= faults'
          BY <2>1, FaultsOnly DEF FireInv
        <5>. QED  BY <3>2, <5>1
      <4>2. Calm /\ \A u \in Users : Holdings(u) = Funds
        BY <4>1 DEF HoldingsConserved
      <4>3. Calm' /\ HoldingsStay
        BY <2>1, <3>2, <4>1, <4>2, NextHoldings
      <4>. QED  BY <4>2, <4>3 DEF HoldingsStay
    <3>. QED  BY <3>1, <3>2 DEF HoldingsConserved
  <2>2. CASE UNCHANGED vars
    <3>1. FireInv'
      BY <2>2, NextFire
    <3>2. Calm => Calm'
      <4>1. UNCHANGED <<users, triggers, thread>>
        BY <2>2 DEF vars
      <4>2. \A u \in Users : Returns(u, thread[<<"CANCEL", u>>])' = Returns(u, thread[<<"CANCEL", u>>])
        BY <4>1 DEF Returns
      <4>3. \A u \in Users : Holds(thread[<<"SET_AMOUNT", u>>])' = Holds(thread[<<"SET_AMOUNT", u>>])
        BY <4>1 DEF Holds
      <4>4. \A i \in 1 .. Len(triggers) : Unheld(i)' = Unheld(i)
        BY <4>1 DEF Unheld
      <4>. QED  BY <4>1, <4>2, <4>3, <4>4 DEF Calm
    <3>3. \A u \in Users : Holdings(u)' = Holdings(u)
      BY <2>2 DEF vars, Holdings, InTrust, KeptOf, HalfPaid, HalfOf, FirstPart
    <3>4. UNCHANGED faults
      BY <2>2 DEF vars
    <3>. QED  BY <3>1, <3>2, <3>3, <3>4 DEF HoldingsConserved
  <2>. QED  BY <2>1, <2>2
<1>. QED  BY <1>1, <1>2, PTL DEF Spec
=============================================================================
