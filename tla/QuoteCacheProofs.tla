-------------------------- MODULE QuoteCacheProofs --------------------------
(***************************************************************************)
(* Theorems about QuoteCache, and about Polling, the loop that asks it:    *)
(* for every number of connections, calls and failures, every validity,    *)
(* every pair of delays and every run of the clock.                        *)
(***************************************************************************)
EXTENDS Polling, TLAPS

(* The semaphore is free or somebody is inside, alone. *)
Locked ==
    /\ OneFetch
    /\ \A c \in Callers : Inside(c) => permits = 0

LockInv == TypeOK /\ Locked

-----------------------------------------------------------------------------
(* A call that goes to position p with quote q; no other call is touched. *)
Moved(c, p, q) ==
    /\ call' \in [Callers -> Call]
    /\ call'[c].at = p /\ call'[c].quote = q /\ call'[c].since = call[c].since
    /\ \A d \in Callers \ {c} : call'[d] = call[d]

(* Take moves a call as it says. *)
LEMMA TakeMoves ==
    ASSUME call \in [Callers -> Call], NEW c \in Callers, NEW p \in Positions,
           NEW q \in Quotes \cup {NoQuote}, Take(c, q, p)
    PROVE  Moved(c, p, q)
<1>. DEFINE r == [call[c] EXCEPT !.at = p, !.quote = q]
<1>1. r \in Call /\ r.at = p /\ r.quote = q /\ r.since = call[c].since
  BY DEF Call
<1>2. call' = [call EXCEPT ![c] = r]
  BY DEF Take
<1>. HIDE DEF r
<1>. QED  BY <1>1, <1>2 DEF Moved

(* Goto moves a call and keeps its quote. *)
LEMMA GotoMoves ==
    ASSUME call \in [Callers -> Call], NEW c \in Callers, NEW p \in Positions, Goto(c, p)
    PROVE  Moved(c, p, call[c].quote)
<1>. DEFINE r == [call[c] EXCEPT !.at = p]
<1>1. r \in Call /\ r.at = p /\ r.quote = call[c].quote /\ r.since = call[c].since
  BY DEF Call
<1>2. call' = [call EXCEPT ![c] = r]
  BY DEF Goto
<1>. HIDE DEF r
<1>. QED  BY <1>1, <1>2 DEF Moved

(* A fetched quote is a quote. *)
LEMMA FetchedQuote ==
    ASSUME now \in Nat, NEW cost \in Costs
    PROVE  [cost |-> cost, time |-> now] \in Quotes
BY DEF Quotes

(***************************************************************************)
(* What each step does, in terms of Moved.                                 *)
(***************************************************************************)
LEMMA Steps ==
    ASSUME TypeOK, NEW c \in Callers
    PROVE  /\ Lookup(c) =>
                IF Valid(cache) THEN Moved(c, "done", cache) ELSE Moved(c, "wait", call[c].quote)
           /\ Acquire(c) => Moved(c, "check", call[c].quote)
           /\ Recheck(c) =>
                IF Valid(cache) THEN Moved(c, "release", cache)
                ELSE Moved(c, "fetch", call[c].quote)
           /\ Fetched(c) => \E cost \in Costs : Moved(c, "store", [cost |-> cost, time |-> now])
           /\ FetchFails(c) => Moved(c, "release", call[c].quote)
           /\ Store(c) => Moved(c, "release", call[c].quote)
           /\ Release(c) => Moved(c, "done", call[c].quote)
           /\ Reply(c) => Moved(c, "idle", NoQuote)
<1>. USE DEF TypeOK
<1>1. {"idle", "wait", "check", "fetch", "store", "release", "done"} \subseteq Positions
  BY DEF Positions
<1>2. ASSUME Fetched(c)
      PROVE  \E cost \in Costs : Moved(c, "store", [cost |-> cost, time |-> now])
  BY <1>1, <1>2, TakeMoves, FetchedQuote DEF Fetched
<1>3. ASSUME Lookup(c)
      PROVE  IF Valid(cache) THEN Moved(c, "done", cache) ELSE Moved(c, "wait", call[c].quote)
  BY <1>1, <1>3, TakeMoves, GotoMoves DEF Lookup
<1>4. Acquire(c) => Moved(c, "check", call[c].quote)
  BY <1>1, GotoMoves DEF Acquire
<1>5. ASSUME Recheck(c)
      PROVE  IF Valid(cache) THEN Moved(c, "release", cache)
             ELSE Moved(c, "fetch", call[c].quote)
  BY <1>1, <1>5, TakeMoves, GotoMoves DEF Recheck
<1>6. FetchFails(c) \/ Store(c) => Moved(c, "release", call[c].quote)
  BY <1>1, GotoMoves DEF FetchFails, Store
<1>7. Release(c) => Moved(c, "done", call[c].quote)
  BY <1>1, GotoMoves DEF Release
<1>8. Reply(c) => Moved(c, "idle", NoQuote)
  BY <1>1, TakeMoves DEF Reply
<1>. QED  BY <1>2, <1>3, <1>4, <1>5, <1>6, <1>7, <1>8

-----------------------------------------------------------------------------
LEMMA Initially == Init => LockInv
<1>. SUFFICES ASSUME Init PROVE LockInv
  OBVIOUS
<1>1. TypeOK
  BY DEF Init, TypeOK, Call, Positions
<1>2. Locked
  BY DEF Init, Locked, OneFetch, Inside
<1>. QED  BY <1>1, <1>2 DEF LockInv

LEMMA LockStep == LockInv /\ [Next]_vars => LockInv'
<1>. SUFFICES ASSUME LockInv, [Next]_vars PROVE LockInv'
  OBVIOUS
<1>. USE DEF LockInv, TypeOK, Locked, OneFetch, Inside
<1>1. ASSUME NEW c \in Callers, Receive(c) PROVE LockInv'
  BY <1>1 DEF Receive, Call, Positions
<1>2. ASSUME NEW c \in Callers, Lookup(c) PROVE LockInv'
  BY <1>2, Steps DEF Lookup, Moved, bounds
<1>3. ASSUME NEW c \in Callers, Acquire(c) PROVE LockInv'
  BY <1>3, Steps DEF Acquire, Moved, bounds
<1>4. ASSUME NEW c \in Callers, Recheck(c) PROVE LockInv'
  <2>1. /\ call[c].at = "check"
        /\ \E p \in {"release", "fetch"} : \E q : Moved(c, p, q)
        /\ UNCHANGED <<now, cache, permits, received, faults>>
    BY <1>4, Steps DEF Recheck, bounds
  <2>. QED  BY <2>1 DEF Moved
<1>5. ASSUME NEW c \in Callers, Fetched(c) PROVE LockInv'
  <2>1. /\ call[c].at = "fetch"
        /\ \E q : Moved(c, "store", q)
        /\ UNCHANGED <<now, cache, permits, received, faults>>
    BY <1>5, Steps DEF Fetched, bounds
  <2>. QED  BY <2>1 DEF Moved
<1>6. ASSUME NEW c \in Callers, FetchFails(c) PROVE LockInv'
  BY <1>6, Steps DEF FetchFails, Moved
<1>7. ASSUME NEW c \in Callers, Store(c) PROVE LockInv'
  BY <1>7, Steps DEF Store, Moved, Call, bounds
<1>8. ASSUME NEW c \in Callers, Release(c) PROVE LockInv'
  BY <1>8, Steps DEF Release, Moved, bounds
<1>9. ASSUME NEW c \in Callers, Reply(c) PROVE LockInv'
  BY <1>9, Steps DEF Reply, Moved, bounds
<1>10. CASE Tick
  BY <1>10 DEF Tick, bounds
<1>11. CASE UNCHANGED vars
  BY <1>11 DEF vars
<1>. QED
  BY <1>1, <1>2, <1>3, <1>4, <1>5, <1>6, <1>7, <1>8, <1>9, <1>10, <1>11 DEF Next, Progress

LEMMA LockInvariant == Spec => []LockInv
<1>. QED  BY Initially, LockStep, PTL DEF Spec

(***************************************************************************)
(* Every variable keeps its type; in particular the semaphore is never     *)
(* released by a call that did not take it.                                *)
(***************************************************************************)
THEOREM TypeCorrect == Spec => []TypeOK
<1>1. LockInv => TypeOK
  BY DEF LockInv
<1>. QED  BY <1>1, LockInvariant, PTL

(***************************************************************************)
(* At most one call per stock is past the semaphore: the quote server has  *)
(* at most one request for a stock.                                        *)
(***************************************************************************)
THEOREM OneFetchAtATime == Spec => []OneFetch
<1>1. LockInv => OneFetch
  BY DEF LockInv, Locked
<1>. QED  BY <1>1, LockInvariant, PTL

-----------------------------------------------------------------------------
(* No quote is younger than the clock, and no call asked in the future. *)
CacheAged == cache # NoQuote => cache \in Quotes /\ cache.time <= now

(* A call has no quote before it fetched or found one; a fetched quote is at *)
(* least as young as the call; a settled quote had not expired for the call. *)
CallAged(c) ==
    LET k == call[c] IN
    /\ k.since <= now
    /\ k.at \notin {"store", "release", "done"} => k.quote = NoQuote
    /\ k.at = "store" => k.quote \in Quotes /\ k.since <= k.quote.time /\ k.quote.time <= now
    /\ k.at \in {"release", "done"} /\ k.quote # NoQuote =>
         k.quote \in Quotes /\ k.since - k.quote.time < Validity

(* Who fetches found the entry expired, and will store a quote that is newer *)
(* by a whole validity.                                                      *)
Expired(c) ==
    cache # NoQuote =>
      /\ call[c].at = "fetch" => now - cache.time >= Validity
      /\ call[c].at = "store" => call[c].quote.time - cache.time >= Validity

Aged == CacheAged /\ \A c \in Callers : CallAged(c) /\ Expired(c)
AgeInv == LockInv /\ Aged

LEMMA AgedInitially == Init => Aged
BY DEF Init, Aged, CacheAged, CallAged, Expired

(* A step that touches neither clock nor cache keeps what is known of the *)
(* calls it does not move.                                                *)
LEMMA OthersAged ==
    ASSUME Aged, NEW c \in Callers, NEW p, NEW q, Moved(c, p, q), UNCHANGED <<now, cache>>,
           (CallAged(c) /\ Expired(c))'
    PROVE  Aged'
BY DEF Aged, CacheAged, CallAged, Expired, Moved

LEMMA AgedStep == AgeInv /\ [Next]_vars => Aged'
<1>. SUFFICES ASSUME AgeInv, [Next]_vars PROVE Aged'
  OBVIOUS
<1>0. TypeOK /\ Locked /\ Aged
  BY DEF AgeInv, LockInv
<1>00. now \in Nat /\ Validity \in Nat /\ \A q \in Quotes : q.time \in Nat
  BY <1>0, ValidityAssumption DEF TypeOK, Quotes
<1>1. ASSUME NEW c \in Callers, Receive(c) PROVE Aged'
  <2>1. call[c].at = "idle" /\ UNCHANGED <<now, cache>>
    BY <1>1 DEF Receive
  <2>2. /\ call'[c] = [at |-> "lookup", quote |-> NoQuote, since |-> now]
        /\ \A d \in Callers \ {c} : call'[d] = call[d]
    BY <1>0, <1>1 DEF Receive, TypeOK
  <2>. QED  BY <1>0, <1>00, <2>1, <2>2 DEF Aged, CacheAged, CallAged, Expired
<1>2. ASSUME NEW c \in Callers, Lookup(c) PROVE Aged'
  <2>1. call[c].at = "lookup" /\ UNCHANGED <<now, cache>> /\ call[c].since \in Nat
    BY <1>0, <1>2 DEF Lookup, TypeOK, Call
  <2>2. CASE Valid(cache)
    <3>1. Moved(c, "done", cache)
      BY <1>0, <1>2, <2>2, Steps
    <3>2. (CallAged(c) /\ Expired(c))'
      BY <1>0, <1>00, <2>1, <2>2, <3>1 DEF Aged, CacheAged, CallAged, Expired, Moved, Valid
    <3>. QED  BY <1>0, <2>1, <3>1, <3>2, OthersAged
  <2>3. CASE ~Valid(cache)
    <3>1. Moved(c, "wait", call[c].quote)
      BY <1>0, <1>2, <2>3, Steps
    <3>2. (CallAged(c) /\ Expired(c))'
      BY <1>0, <2>1, <3>1 DEF Aged, CallAged, Expired, Moved
    <3>. QED  BY <1>0, <2>1, <3>1, <3>2, OthersAged
  <2>. QED  BY <2>2, <2>3
<1>3. ASSUME NEW c \in Callers, Acquire(c) PROVE Aged'
  <2>1. call[c].at = "wait" /\ UNCHANGED <<now, cache>> /\ Moved(c, "check", call[c].quote)
    BY <1>0, <1>3, Steps DEF Acquire
  <2>2. (CallAged(c) /\ Expired(c))'
    BY <1>0, <2>1 DEF Aged, CallAged, Expired, Moved
  <2>. QED  BY <1>0, <2>1, <2>2, OthersAged
<1>4. ASSUME NEW c \in Callers, Recheck(c) PROVE Aged'
  <2>1. call[c].at = "check" /\ UNCHANGED <<now, cache>> /\ call[c].since \in Nat
    BY <1>0, <1>4 DEF Recheck, TypeOK, Call
  <2>2. CASE Valid(cache)
    <3>1. Moved(c, "release", cache)
      BY <1>0, <1>4, <2>2, Steps
    <3>2. (CallAged(c) /\ Expired(c))'
      BY <1>0, <1>00, <2>1, <2>2, <3>1 DEF Aged, CacheAged, CallAged, Expired, Moved, Valid
    <3>. QED  BY <1>0, <2>1, <3>1, <3>2, OthersAged
  <2>3. CASE ~Valid(cache)
    <3>1. Moved(c, "fetch", call[c].quote)
      BY <1>0, <1>4, <2>3, Steps
    <3>2. (CallAged(c) /\ Expired(c))'
      BY <1>0, <1>00, <2>1, <2>3, <3>1 DEF Aged, CacheAged, CallAged, Expired, Moved, Valid
    <3>. QED  BY <1>0, <2>1, <3>1, <3>2, OthersAged
  <2>. QED  BY <2>2, <2>3
<1>5. ASSUME NEW c \in Callers, Fetched(c) PROVE Aged'
  <2>1. PICK cost \in Costs : Moved(c, "store", [cost |-> cost, time |-> now])
    BY <1>0, <1>5, Steps
  <2>2. call[c].at = "fetch" /\ UNCHANGED <<now, cache>>
    BY <1>5 DEF Fetched
  <2>3. [cost |-> cost, time |-> now] \in Quotes
    BY <1>00, FetchedQuote
  <2>4. (CallAged(c) /\ Expired(c))'
    BY <1>0, <1>00, <2>1, <2>2, <2>3 DEF Aged, CacheAged, CallAged, Expired, Moved
  <2>. QED  BY <1>0, <2>1, <2>2, <2>4, OthersAged
<1>6. ASSUME NEW c \in Callers, FetchFails(c) PROVE Aged'
  <2>1. call[c].at = "fetch" /\ UNCHANGED <<now, cache>> /\ Moved(c, "release", call[c].quote)
    BY <1>0, <1>6, Steps DEF FetchFails
  <2>2. (CallAged(c) /\ Expired(c))'
    BY <1>0, <2>1 DEF Aged, CallAged, Expired, Moved
  <2>. QED  BY <1>0, <2>1, <2>2, OthersAged
<1>7. ASSUME NEW c \in Callers, Store(c) PROVE Aged'
  <2>1. call[c].at = "store" /\ cache' = call[c].quote /\ now' = now
    BY <1>7 DEF Store
  <2>2. Moved(c, "release", call[c].quote)
    BY <1>0, <1>7, Steps
  <2>3. call[c].quote \in Quotes /\ call[c].since \in Nat
    BY <1>0, <2>1 DEF Aged, CallAged, TypeOK, Call
  <2>4. CacheAged'
    BY <1>0, <2>1, <2>3 DEF Aged, CacheAged, CallAged
  <2>5. (CallAged(c) /\ Expired(c))'
    BY <1>0, <1>00, <2>1, <2>2, <2>3, ValidityAssumption DEF Aged, CallAged, Expired, Moved
  <2>6. ASSUME NEW d \in Callers \ {c} PROVE (CallAged(d) /\ Expired(d))'
    <3>1. call'[d] = call[d] /\ call[d].at \notin {"fetch", "store"}
      BY <1>0, <2>1, <2>2 DEF Moved, Locked, OneFetch, Inside
    <3>. QED  BY <1>0, <2>1, <3>1 DEF Aged, CallAged, Expired
  <2>. QED  BY <2>4, <2>5, <2>6 DEF Aged
<1>8. ASSUME NEW c \in Callers, Release(c) PROVE Aged'
  <2>1. call[c].at = "release" /\ UNCHANGED <<now, cache>> /\ Moved(c, "done", call[c].quote)
    BY <1>0, <1>8, Steps DEF Release
  <2>2. (CallAged(c) /\ Expired(c))'
    BY <1>0, <2>1 DEF Aged, CallAged, Expired, Moved
  <2>. QED  BY <1>0, <2>1, <2>2, OthersAged
<1>9. ASSUME NEW c \in Callers, Reply(c) PROVE Aged'
  <2>1. UNCHANGED <<now, cache>> /\ Moved(c, "idle", NoQuote)
    BY <1>0, <1>9, Steps DEF Reply
  <2>2. (CallAged(c) /\ Expired(c))'
    BY <1>0, <2>1 DEF Aged, CallAged, Expired, Moved
  <2>. QED  BY <1>0, <2>1, <2>2, OthersAged
<1>10. CASE Tick
  <2>1. now' = now + 1 /\ UNCHANGED <<cache, call>>
    BY <1>10 DEF Tick
  <2>2. \A c \in Callers : call[c].since \in Nat
    BY <1>0 DEF TypeOK, Call
  <2>. QED  BY <1>0, <1>00, <2>1, <2>2 DEF Aged, CacheAged, CallAged, Expired
<1>11. CASE UNCHANGED vars
  BY <1>0, <1>11 DEF vars, Aged, CacheAged, CallAged, Expired
<1>. QED
  BY <1>1, <1>2, <1>3, <1>4, <1>5, <1>6, <1>7, <1>8, <1>9, <1>10, <1>11 DEF Next, Progress

LEMMA AgeInvariant == Spec => []AgeInv
<1>1. Init => AgeInv
  BY Initially, AgedInitially DEF AgeInv
<1>2. AgeInv /\ [Next]_vars => AgeInv'
  BY LockStep, AgedStep DEF AgeInv
<1>. QED  BY <1>1, <1>2, PTL DEF Spec

(***************************************************************************)
(* No call is answered a price that had expired before it asked.           *)
(***************************************************************************)
THEOREM FreshAnswers == Spec => []FreshAnswer
<1>1. AgeInv => FreshAnswer
  BY DEF AgeInv, Aged, CallAged, FreshAnswer
<1>. QED  BY <1>1, AgeInvariant, PTL

-----------------------------------------------------------------------------
(* What QuoteBoard sees of a call. *)
BoardCalls == [c \in Callers |-> BoardCall(call[c])]

Settles(c, q) ==
    /\ BoardCalls[c].at = "asked"
    /\ BoardCalls' = [BoardCalls EXCEPT ![c] = [at |-> "answered", quote |-> q]]

(* A moved call changes QuoteBoard's view of itself alone. *)
LEMMA ViewMoves ==
    ASSUME NEW c \in Callers, NEW p, NEW q, Moved(c, p, q)
    PROVE  BoardCalls' = [BoardCalls EXCEPT ![c] = BoardCall(call'[c])]
<1>1. \A d \in Callers \ {c} : BoardCall(call'[d]) = BoardCall(call[d])
  BY DEF Moved
<1>. QED  BY <1>1 DEF BoardCalls

(* A call that has not settled, and settles. *)
LEMMA ViewSettles ==
    ASSUME NEW c \in Callers, NEW p \in {"release", "done"}, NEW q, Moved(c, p, q),
           call[c].at \in {"lookup", "wait", "check", "fetch", "store"}
    PROVE  Settles(c, q)
<1>1. BoardCall(call'[c]) = [at |-> "answered", quote |-> q]
  BY DEF Moved, BoardCall
<1>2. BoardCalls[c].at = "asked"
  BY DEF BoardCalls, BoardCall
<1>. QED  BY <1>1, <1>2, ViewMoves DEF Settles

(* A call that moves between positions that QuoteBoard does not tell apart. *)
LEMMA ViewStays ==
    ASSUME NEW c \in Callers, NEW p, NEW q, Moved(c, p, q),
           BoardCall(call'[c]) = BoardCall(call[c])
    PROVE  BoardCalls' = BoardCalls
<1>1. \A d \in Callers : BoardCall(call'[d]) = BoardCall(call[d])
  BY DEF Moved
<1>. QED  BY <1>1 DEF BoardCalls

LEMMA BoardInit == Init => Board!Init
BY DEF Init, Board!Init, NoQuote, Board!NoQuote, BoardCall

LEMMA BoardStep == AgeInv /\ [Next]_vars => [Board!Next]_(Board!vars)
<1>. SUFFICES ASSUME AgeInv, [Next]_vars PROVE [Board!Next]_(Board!vars)
  OBVIOUS
<1>0. TypeOK /\ Locked /\ Aged
  BY DEF AgeInv, LockInv
<1>a. Board!NoQuote = NoQuote /\ \A q : Board!Valid(q) <=> Valid(q)
  BY DEF Board!NoQuote, NoQuote, Board!Valid, Valid
<1>b. ASSUME BoardCalls' = BoardCalls, UNCHANGED <<now, cache>>
      PROVE  UNCHANGED Board!vars
  BY <1>b DEF Board!vars, BoardCalls
<1>c. ASSUME NEW c \in Callers, NEW q, Settles(c, q)
      PROVE  Board!Settle(c, q)
  BY <1>c DEF Settles, Board!Settle, BoardCalls
<1>1. ASSUME NEW c \in Callers, Receive(c) PROVE Board!Ask(c)
  <2>1. /\ call[c].at = "idle" /\ UNCHANGED <<now, cache>>
        /\ call' = [call EXCEPT ![c] = [at |-> "lookup", quote |-> NoQuote, since |-> now]]
    BY <1>1 DEF Receive
  <2>2. BoardCall(call[c]) = [at |-> "idle", quote |-> NoQuote]
    BY <2>1 DEF BoardCall
  <2>3. BoardCall(call'[c]) = [at |-> "asked", quote |-> NoQuote]
    BY <1>0, <2>1 DEF BoardCall, TypeOK
  <2>4. BoardCalls' = [BoardCalls EXCEPT ![c] = [at |-> "asked", quote |-> NoQuote]]
    BY <1>0, <2>1, <2>3 DEF BoardCalls, TypeOK
  <2>. QED  BY <1>a, <2>1, <2>2, <2>4 DEF Board!Ask, BoardCalls
<1>2. ASSUME NEW c \in Callers, Lookup(c) \/ Recheck(c)
      PROVE  Board!Read(c) \/ UNCHANGED Board!vars
  <2>1. call[c].at \in {"lookup", "check"} /\ UNCHANGED <<now, cache>>
    BY <1>2 DEF Lookup, Recheck
  <2>2. CASE Valid(cache)
    <3>1. \E p \in {"release", "done"} : Moved(c, p, cache)
      BY <1>0, <1>2, <2>2, Steps
    <3>2. Settles(c, cache)
      BY <2>1, <3>1, ViewSettles
    <3>. QED  BY <1>a, <1>c, <2>1, <2>2, <3>2 DEF Board!Read
  <2>3. CASE ~Valid(cache)
    <3>1. \E p \in {"wait", "fetch"} : Moved(c, p, call[c].quote)
      BY <1>0, <1>2, <2>3, Steps
    <3>2. BoardCall(call'[c]) = BoardCall(call[c])
      BY <2>1, <3>1 DEF Moved, BoardCall
    <3>. QED  BY <1>b, <2>1, <3>1, <3>2, ViewStays
  <2>. QED  BY <2>2, <2>3
<1>3. ASSUME NEW c \in Callers, Acquire(c) PROVE UNCHANGED Board!vars
  <2>1. call[c].at = "wait" /\ UNCHANGED <<now, cache>> /\ Moved(c, "check", call[c].quote)
    BY <1>0, <1>3, Steps DEF Acquire
  <2>2. BoardCall(call'[c]) = BoardCall(call[c])
    BY <2>1 DEF Moved, BoardCall
  <2>. QED  BY <1>b, <2>1, <2>2, ViewStays
<1>4. ASSUME NEW c \in Callers, Fetched(c) PROVE UNCHANGED Board!vars
  <2>1. call[c].at = "fetch" /\ UNCHANGED <<now, cache>> /\ \E q : Moved(c, "store", q)
    BY <1>0, <1>4, Steps DEF Fetched
  <2>2. BoardCall(call'[c]) = BoardCall(call[c])
    BY <2>1 DEF Moved, BoardCall
  <2>. QED  BY <1>b, <2>1, <2>2, ViewStays
<1>5. ASSUME NEW c \in Callers, FetchFails(c) PROVE Board!Fail(c)
  <2>1. /\ call[c].at = "fetch" /\ UNCHANGED <<now, cache>> /\ call[c].quote = NoQuote
        /\ Moved(c, "release", call[c].quote)
    BY <1>0, <1>5, Steps DEF FetchFails, Aged, CallAged
  <2>2. Settles(c, NoQuote)
    BY <2>1, ViewSettles
  <2>. QED  BY <1>a, <1>c, <2>1, <2>2 DEF Board!Fail
<1>6. ASSUME NEW c \in Callers, Store(c) PROVE Board!Buy(c)
  <2>1. call[c].at = "store" /\ cache' = call[c].quote /\ now' = now
    BY <1>6 DEF Store
  <2>2. Moved(c, "release", call[c].quote)
    BY <1>0, <1>6, Steps
  <2>3. Settles(c, call[c].quote)
    BY <2>1, <2>2, ViewSettles
  <2>4. PICK cost \in Costs, time \in Nat : call[c].quote = [cost |-> cost, time |-> time]
    BY <1>0, <2>1 DEF Aged, CallAged, Quotes
  <2>5. time \in 0 .. now /\ (cache # NoQuote => time - cache.time >= Validity)
    BY <1>0, <2>1, <2>4 DEF Aged, CallAged, Expired, TypeOK
  <2>. QED  BY <1>a, <1>c, <2>1, <2>3, <2>4, <2>5 DEF Board!Buy
<1>7. ASSUME NEW c \in Callers, Release(c) PROVE UNCHANGED Board!vars
  <2>1. call[c].at = "release" /\ UNCHANGED <<now, cache>> /\ Moved(c, "done", call[c].quote)
    BY <1>0, <1>7, Steps DEF Release
  <2>2. BoardCall(call'[c]) = BoardCall(call[c])
    BY <2>1 DEF Moved, BoardCall
  <2>. QED  BY <1>b, <2>1, <2>2, ViewStays
<1>8. ASSUME NEW c \in Callers, Reply(c) PROVE Board!Reply(c)
  <2>1. call[c].at = "done" /\ UNCHANGED <<now, cache>> /\ Moved(c, "idle", NoQuote)
    BY <1>0, <1>8, Steps DEF Reply
  <2>2. BoardCall(call'[c]) = [at |-> "idle", quote |-> NoQuote]
    BY <2>1 DEF Moved, BoardCall
  <2>3. BoardCall(call[c]).at = "answered"
    BY <2>1 DEF BoardCall
  <2>4. BoardCalls' = [BoardCalls EXCEPT ![c] = [at |-> "idle", quote |-> NoQuote]]
    BY <2>1, <2>2, ViewMoves
  <2>. QED  BY <1>a, <2>1, <2>3, <2>4 DEF Board!Reply, BoardCalls
<1>9. ASSUME Tick PROVE Board!Tick
  BY <1>9 DEF Tick, Board!Tick
<1>10. ASSUME UNCHANGED vars PROVE UNCHANGED Board!vars
  BY <1>10 DEF vars, Board!vars
<1>. QED
  BY <1>1, <1>2, <1>3, <1>4, <1>5, <1>6, <1>7, <1>8, <1>9, <1>10
     DEF Next, Progress, Board!Next

(***************************************************************************)
(* The cache implements QuoteBoard: whatever the calls' order and failures *)
(* each is answered the quote that stood while it was valid, and a quote   *)
(* is bought only after the one before it expired.                         *)
(***************************************************************************)
THEOREM CacheIsBoard == Spec => ImplementsQuoteBoard
<1>. QED  BY BoardInit, BoardStep, AgeInvariant, PTL DEF Spec, ImplementsQuoteBoard, Board!Spec
-----------------------------------------------------------------------------
(* What the loop knows of the time: its call is as old as its poll, and an *)
(* answer had not expired when the poll began.                             *)
Timed ==
    /\ loop.asked <= now
    /\ loop.at = "waiting" => call[Poller].since = loop.asked
    /\ loop.at \in {"answered", "forever"} =>
         loop.quote \in Quotes /\ loop.asked - loop.quote.time < Validity
    /\ loop.at = "forever" => loop.until - loop.quote.time = Validity + 1

(* The loop asks again when its last quote has expired, not before. *)
Spent ==
    loop.quote # NoQuote =>
      /\ loop.at = "ask" => now - loop.quote.time >= Validity
      /\ loop.at = "waiting" => loop.asked - loop.quote.time >= Validity
      /\ loop.at = "asleep" => loop.until - loop.quote.time >= Validity

LoopInv == loop \in Loop /\ Timed /\ Spent /\ EveryPollLearns
PollInv == AgeInv /\ LoopInv

-----------------------------------------------------------------------------
(* A step of the polling system is one of the quote service, or a failed   *)
(* connection, which touches nothing that the service's invariant is about.*)
LEMMA ServiceStep ==
    ASSUME AgeInv, [PollNext]_pollVars
    PROVE  [Next]_vars \/ (UNCHANGED <<now, cache, permits, call, received>> /\ faults' = faults + 1)
<1>0. Poller \in Callers
  BY PollerAssumption
<1>1. LoopStep => [Next]_vars \/ AskFails
  BY <1>0 DEF LoopStep, Ask, Answer, Delay, Wake, Next, Progress
<1>2. ASSUME NEW c \in Callers, Serve(c) \/ Command(c) PROVE Next
  BY <1>2 DEF Serve, Command, Next, Progress
<1>3. AskFails => UNCHANGED <<now, cache, permits, call, received>> /\ faults' = faults + 1
  BY DEF AskFails
<1>4. UNCHANGED pollVars => UNCHANGED vars
  BY DEF pollVars
<1>. QED  BY <1>1, <1>2, <1>3, <1>4 DEF PollNext, Next

LEMMA ServiceKeeps == AgeInv /\ [PollNext]_pollVars => AgeInv'
<1>. SUFFICES ASSUME AgeInv, [PollNext]_pollVars PROVE AgeInv'
  OBVIOUS
<1>1. CASE [Next]_vars
  BY <1>1, LockStep, AgedStep DEF AgeInv
<1>2. CASE UNCHANGED <<now, cache, permits, call, received>> /\ faults' = faults + 1
  <2>1. LockInv'
    BY <1>2 DEF AgeInv, LockInv, TypeOK, Locked, OneFetch, Inside
  <2>2. Aged'
    BY <1>2 DEF AgeInv, Aged, CacheAged, CallAged, Expired
  <2>. QED  BY <2>1, <2>2 DEF AgeInv
<1>. QED  BY <1>1, <1>2, ServiceStep

-----------------------------------------------------------------------------
LEMMA LoopInitially == PollInit => LoopInv
<1>. SUFFICES ASSUME PollInit PROVE LoopInv
  OBVIOUS
<1>1. loop = [at |-> "ask", quote |-> NoQuote, last |-> NoQuote, asked |-> 0, until |-> 0]
      /\ now = 0
  BY DEF PollInit, Init
<1>2. loop \in Loop
  BY <1>1 DEF Loop
<1>. QED  BY <1>1, <1>2 DEF LoopInv, Timed, Spent, EveryPollLearns

(* While the service serves and others command, neither the loop's poll nor *)
(* the time its call began changes.                                         *)
LEMMA OthersKeepPoll ==
    ASSUME TypeOK, NEW c \in Callers, Serve(c) \/ Command(c)
    PROVE  now' = now /\ call'[Poller].since = call[Poller].since
<1>0. Poller \in Callers
  BY PollerAssumption
<1>1. ASSUME Serve(c)
      PROVE  now' = now /\ \E p, q : Moved(c, p, q)
  <2>1. now' = now
    BY <1>1 DEF Serve, Lookup, Acquire, Recheck, Fetched, FetchFails, Store, Release
  <2>2. \E p, q : Moved(c, p, q)
    BY <1>1, Steps DEF Serve
  <2>. QED  BY <2>1, <2>2
<1>2. ASSUME Command(c)
      PROVE  now' = now /\ call'[Poller] = call[Poller]
  BY <1>0, <1>2 DEF Command, Receive, Reply, Take, TypeOK
<1>3. ASSUME NEW p, NEW q, Moved(c, p, q)
      PROVE  call'[Poller].since = call[Poller].since
  BY <1>0, <1>3 DEF Moved
<1>. QED  BY <1>1, <1>2, <1>3

LEMMA LoopStays == PollInv /\ [PollNext]_pollVars => LoopInv'
<1>. SUFFICES ASSUME PollInv, [PollNext]_pollVars PROVE LoopInv'
  OBVIOUS
<1>0. TypeOK /\ Aged /\ loop \in Loop /\ Timed /\ Spent /\ EveryPollLearns
  BY DEF PollInv, AgeInv, LockInv, LoopInv
<1>n. /\ now \in Nat /\ Validity \in Nat /\ Short \in Nat /\ Backoff \in Nat
      /\ loop.asked \in Nat /\ loop.until \in Nat /\ Poller \in Callers
      /\ \A q \in Quotes : q.time \in Nat
      /\ NoQuote.time = 0
      /\ loop.quote \in Quotes \cup {NoQuote} /\ loop.last \in Quotes \cup {NoQuote}
  BY <1>0, ValidityAssumption, DelaysAssumption, PollerAssumption
     DEF TypeOK, Quotes, NoQuote, Loop
<1>t. loop.quote.time \in Nat /\ loop.last.time \in Nat
  BY <1>n
<1>s. ASSUME NEW delay \in Nat, Sleep(delay), now' = now,
             loop.quote # NoQuote => now + delay - loop.quote.time >= Validity
      PROVE  LoopInv'
  <2>1. /\ loop' = [loop EXCEPT !.at = "asleep", !.until = now + delay]
        /\ now + delay \in Nat
    BY <1>n, <1>s DEF Sleep
  <2>2. loop' \in Loop
    BY <1>0, <2>1 DEF Loop
  <2>3. /\ loop'.at = "asleep" /\ loop'.until = now + delay /\ loop'.asked = loop.asked
        /\ loop'.quote = loop.quote /\ loop'.last = loop.last
    BY <1>0, <2>1 DEF Loop
  <2>4. Timed'
    BY <1>0, <1>s, <2>3 DEF Timed
  <2>5. Spent'
    BY <1>n, <1>t, <1>s, <2>3 DEF Spent
  <2>6. EveryPollLearns'
    BY <1>0, <2>3 DEF EveryPollLearns
  <2>. QED  BY <2>2, <2>4, <2>5, <2>6 DEF LoopInv
<1>1. CASE Ask
  <2>1. /\ loop.at = "ask" /\ loop' = [loop EXCEPT !.at = "waiting", !.asked = now]
        /\ now' = now
        /\ call' = [call EXCEPT ![Poller] = [at |-> "lookup", quote |-> NoQuote, since |-> now]]
    BY <1>1 DEF Ask, Receive
  <2>2. loop' \in Loop /\ call'[Poller].since = now
    BY <1>0, <1>n, <2>1 DEF Loop, TypeOK
  <2>3. /\ loop'.at = "waiting" /\ loop'.asked = now
        /\ loop'.quote = loop.quote /\ loop'.last = loop.last
    BY <1>0, <2>1 DEF Loop
  <2>. QED  BY <1>0, <1>n, <2>1, <2>2, <2>3 DEF LoopInv, Timed, Spent, EveryPollLearns
<1>2. CASE AskFails
  <2>1. loop.at = "ask" /\ Sleep(Short) /\ now' = now
    BY <1>2 DEF AskFails
  <2>. QED  BY <1>0, <1>n, <1>t, <1>s, <2>1 DEF Spent
<1>3. CASE Answer
  <2>. DEFINE q == call[Poller].quote
  <2>1. loop.at = "waiting" /\ call[Poller].at = "done" /\ now' = now
    BY <1>3 DEF Answer, Reply
  <2>2. CASE q = NoQuote
    <3>1. Sleep(Backoff)
      BY <1>3, <2>2 DEF Answer
    <3>. QED  BY <1>0, <1>n, <1>t, <1>s, <2>1, <3>1 DEF Spent, Timed
  <2>3. CASE q # NoQuote
    <3>1. loop' = [loop EXCEPT !.at = "answered", !.quote = q, !.last = loop.quote]
      BY <1>3, <2>3 DEF Answer
    <3>2. q \in Quotes /\ loop.asked - q.time < Validity
      BY <1>0, <1>n, <2>1, <2>3 DEF Aged, CallAged, Timed
    <3>3. loop' \in Loop
      BY <1>0, <1>n, <3>1, <3>2 DEF Loop
    <3>4. /\ loop'.at = "answered" /\ loop'.asked = loop.asked
          /\ loop'.quote = q /\ loop'.last = loop.quote
      BY <1>0, <3>1 DEF Loop
    <3>5. loop.quote # NoQuote => q.time > loop.quote.time
      BY <1>0, <1>n, <1>t, <2>1, <3>2 DEF Spent
    <3>. HIDE DEF q
    <3>. QED  BY <1>0, <2>1, <3>2, <3>3, <3>4, <3>5 DEF LoopInv, Timed, Spent, EveryPollLearns
  <2>. QED  BY <2>2, <2>3
<1>4. CASE Delay
  <2>1. loop.at = "answered" /\ now' = now /\ loop.quote \in Quotes
        /\ loop.asked - loop.quote.time < Validity
    BY <1>0, <1>4 DEF Delay, vars, Timed
  <2>2. Interval \in Int /\ Interval = Validity - (now - loop.quote.time)
    BY <1>n, <1>t DEF Interval
  <2>3. CASE Interval >= 0
    <3>1. Sleep(Interval)
      BY <1>4, <2>3, <2>2 DEF Delay
    <3>. QED  BY <1>n, <1>t, <1>s, <2>1, <2>2, <2>3, <3>1
  <2>4. CASE Interval < -1
    <3>1. Sleep(Backoff)
      BY <1>4, <2>4, <2>2 DEF Delay
    <3>. QED  BY <1>n, <1>t, <1>s, <2>1, <2>2, <2>4, <3>1
  <2>5. CASE Interval = -1
    <3>1. loop' = [loop EXCEPT !.at = "forever", !.until = now]
      BY <1>4, <2>5 DEF Delay
    <3>2. loop' \in Loop
      BY <1>0, <1>n, <3>1 DEF Loop
    <3>3. /\ loop'.at = "forever" /\ loop'.until = now /\ loop'.asked = loop.asked
          /\ loop'.quote = loop.quote /\ loop'.last = loop.last
      BY <1>0, <3>1 DEF Loop
    <3>4. now - loop.quote.time = Validity + 1
      BY <1>n, <1>t, <2>2, <2>5
    <3>. QED  BY <1>0, <2>1, <3>2, <3>3, <3>4 DEF LoopInv, Timed, Spent, EveryPollLearns
  <2>. QED  BY <2>2, <2>3, <2>4, <2>5
<1>5. CASE Wake
  <2>1. /\ loop.at = "asleep" /\ loop.until <= now /\ now' = now
        /\ loop' = [loop EXCEPT !.at = "ask", !.asked = 0, !.until = 0]
    BY <1>5 DEF Wake, vars
  <2>2. loop' \in Loop
    BY <1>0, <2>1 DEF Loop
  <2>3. /\ loop'.at = "ask" /\ loop'.asked = 0
        /\ loop'.quote = loop.quote /\ loop'.last = loop.last
    BY <1>0, <2>1 DEF Loop
  <2>. QED  BY <1>0, <1>n, <1>t, <2>1, <2>2, <2>3 DEF LoopInv, Timed, Spent, EveryPollLearns
<1>6. CASE Tick /\ UNCHANGED loop
  <2>1. now' = now + 1 /\ call' = call /\ loop' = loop
    BY <1>6 DEF Tick
  <2>. QED  BY <1>0, <1>n, <1>t, <2>1 DEF LoopInv, Timed, Spent, EveryPollLearns
<1>7. ASSUME NEW c \in Callers, Serve(c) \/ Command(c), UNCHANGED loop PROVE LoopInv'
  <2>1. now' = now /\ call'[Poller].since = call[Poller].since /\ loop' = loop
    BY <1>0, <1>7, OthersKeepPoll
  <2>. QED  BY <1>0, <2>1 DEF LoopInv, Timed, Spent, EveryPollLearns
<1>8. CASE UNCHANGED pollVars
  BY <1>0, <1>8 DEF pollVars, vars, LoopInv, Timed, Spent, EveryPollLearns
<1>. QED  BY <1>1, <1>2, <1>3, <1>4, <1>5, <1>6, <1>7, <1>8 DEF PollNext, LoopStep

LEMMA PollInvariant == PollSpec => []PollInv
<1>1. PollInit => PollInv
  BY Initially, AgedInitially, LoopInitially DEF PollInit, PollInv, AgeInv
<1>2. PollInv /\ [PollNext]_pollVars => PollInv'
  BY ServiceKeeps, LoopStays DEF PollInv
<1>. QED  BY <1>1, <1>2, PTL DEF PollSpec

-----------------------------------------------------------------------------
(***************************************************************************)
(* Every poll of a timer's loop brings a newer quote than the last one,    *)
(* whatever the delays and whoever else asks: the delay that Start         *)
(* computes and the validity that QuoteService compares agree.             *)
(***************************************************************************)
THEOREM PollsLearn == PollSpec => []EveryPollLearns
<1>1. PollInv => EveryPollLearns
  BY DEF PollInv, LoopInv
<1>. QED  BY <1>1, PollInvariant, PTL

(***************************************************************************)
(* A loop that sleeps for ever had an answer two milliseconds or more on   *)
(* its way: Task.Delay(-1) is out of reach of a fast quote service.        *)
(***************************************************************************)
THEOREM OnlySlowAnswersStop == PollSpec => []StopsOnlyWhenLate
<1>1. PollInv => StopsOnlyWhenLate
  <2>. SUFFICES ASSUME PollInv, loop.at = "forever" PROVE loop.until >= loop.asked + 2
    BY DEF StopsOnlyWhenLate
  <2>1. loop.asked \in Nat /\ loop.until \in Nat /\ Validity \in Nat
    BY ValidityAssumption DEF PollInv, LoopInv, Loop
  <2>2. loop.quote.time \in Nat
    BY DEF PollInv, LoopInv, Timed, Quotes
  <2>. QED  BY <2>1, <2>2 DEF PollInv, LoopInv, Timed
<1>. QED  BY <1>1, PollInvariant, PTL

(***************************************************************************)
(* With the polling loop among its clients the cache still implements      *)
(* QuoteBoard.                                                             *)
(***************************************************************************)
THEOREM PolledCacheIsBoard == PollSpec => ImplementsQuoteBoard
<1>1. PollInv /\ [PollNext]_pollVars => [Board!Next]_(Board!vars)
  <2>. SUFFICES ASSUME PollInv, [PollNext]_pollVars PROVE [Board!Next]_(Board!vars)
    OBVIOUS
  <2>1. CASE [Next]_vars
    BY <2>1, BoardStep DEF PollInv
  <2>2. CASE UNCHANGED <<now, cache, permits, call, received>> /\ faults' = faults + 1
    BY <2>2 DEF Board!vars
  <2>. QED  BY <2>1, <2>2, ServiceStep DEF PollInv
<1>2. PollInit => Board!Init
  BY BoardInit DEF PollInit
<1>. QED  BY <1>1, <1>2, PollInvariant, PTL DEF PollSpec, ImplementsQuoteBoard, Board!Spec
=============================================================================
