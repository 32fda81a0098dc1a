----------------------------- MODULE QuoteCache -----------------------------
(***************************************************************************)
(* QuoteService and its QuoteCache, for one stock: the cache keeps one     *)
(* entry and one semaphore per stock, and calls for different stocks do    *)
(* not touch each other.  A caller is a connection to the service, which   *)
(* serves one message at a time.  A call looks the quote up, and without a *)
(* valid one takes the semaphore, looks again, fetches and stores; it      *)
(* waits (await) at the semaphore and for the quote server, and any other  *)
(* call may run between two steps.                                         *)
(***************************************************************************)
EXTENDS Integers

CONSTANTS
    Callers,   \* connections to the service
    Costs,     \* prices in cents that the quote server may answer
    Validity,  \* how long a quote is valid: 60000 ms in the code
    MaxTime,   \* bound: the clock
    MaxCalls,  \* bound: calls received
    MaxFaults  \* bound: requests to the quote server that fail

ASSUME CostsAssumption == Costs \subseteq Nat \ {0}
ASSUME ValidityAssumption == Validity \in Nat \ {0}
ASSUME BoundAssumption == MaxTime \in Nat /\ MaxCalls \in Nat /\ MaxFaults \in Nat

VARIABLES
    now,       \* Unix.TimeStamp
    cache,     \* _cache: the entry of the stock, or NoQuote
    permits,   \* _locks: the semaphore of the stock
    call,      \* call[c]: the call that c waits for
    received,  \* calls received so far
    faults     \* requests that failed so far

vars == <<now, cache, permits, call, received, faults>>
bounds == <<received, faults>>

Quotes == [cost : Costs, time : Nat]
NoQuote == [cost |-> 0, time |-> 0]

Positions == {"idle", "lookup", "wait", "check", "fetch", "store", "release", "done"}
Call == [at : Positions, quote : Quotes \cup {NoQuote}, since : Nat]   \* since: history

Init ==
    /\ now = 0
    /\ cache = NoQuote
    /\ permits = 1
    /\ call = [c \in Callers |-> [at |-> "idle", quote |-> NoQuote, since |-> 0]]
    /\ received = 0
    /\ faults = 0

-----------------------------------------------------------------------------
(* TryGetValue finds an entry and validate accepts it. *)
Valid(q) == q # NoQuote /\ now - q.time < Validity

Goto(c, position) == call' = [call EXCEPT ![c].at = position]
Take(c, q, position) == call' = [call EXCEPT ![c].at = position, ![c].quote = q]

Receive(c) ==
    /\ call[c].at = "idle"
    /\ received < MaxCalls
    /\ received' = received + 1
    /\ call' = [call EXCEPT ![c] = [at |-> "lookup", quote |-> NoQuote, since |-> now]]
    /\ UNCHANGED <<now, cache, permits, faults>>

(* Mutant of Lookup: an entry is used however old it is. *)
LookupAny(c) ==
    /\ call[c].at = "lookup"
    /\ IF cache # NoQuote THEN Take(c, cache, "done") ELSE Goto(c, "wait")
    /\ UNCHANGED <<now, cache, permits, bounds>>

(* Mutant of Lookup: a call without a valid entry does not take the semaphore. *)
LookupUnlocked(c) ==
    /\ call[c].at = "lookup"
    /\ IF Valid(cache) THEN Take(c, cache, "done") ELSE Goto(c, "check")
    /\ UNCHANGED <<now, cache, permits, bounds>>

(* GetOrCreate. *)
Lookup(c) ==
    /\ call[c].at = "lookup"
    /\ IF Valid(cache) THEN Take(c, cache, "done") ELSE Goto(c, "wait")
    /\ UNCHANGED <<now, cache, permits, bounds>>

(* Mutant of Acquire: the semaphore lets everyone in. *)
AcquireFreely(c) ==
    /\ call[c].at = "wait"
    /\ permits > 0
    /\ Goto(c, "check")
    /\ UNCHANGED <<now, cache, permits, bounds>>

(* WaitAsync returns. *)
Acquire(c) ==
    /\ call[c].at = "wait"
    /\ permits > 0
    /\ permits' = permits - 1
    /\ Goto(c, "check")
    /\ UNCHANGED <<now, cache, bounds>>

(* Mutant of Recheck: no double check under the semaphore. *)
RecheckNothing(c) ==
    /\ call[c].at = "check"
    /\ Goto(c, "fetch")
    /\ UNCHANGED <<now, cache, permits, bounds>>

(* The double check: another call may have stored a quote meanwhile. *)
Recheck(c) ==
    /\ call[c].at = "check"
    /\ IF Valid(cache) THEN Take(c, cache, "release") ELSE Goto(c, "fetch")
    /\ UNCHANGED <<now, cache, permits, bounds>>

(* GetQuote: the answer of the quote server is stamped with the time it came. *)
Fetched(c) == \E cost \in Costs :
    /\ call[c].at = "fetch"
    /\ Take(c, [cost |-> cost, time |-> now], "store")
    /\ UNCHANGED <<now, cache, permits, bounds>>

(* Mutant of FetchFails: the exception leaves the semaphore taken. *)
FetchFailsLocked(c) ==
    /\ call[c].at = "fetch"
    /\ faults < MaxFaults
    /\ faults' = faults + 1
    /\ Goto(c, "done")
    /\ UNCHANGED <<now, cache, permits, received>>

(* GetQuote throws; the call will be answered "Error getting quote". *)
FetchFails(c) ==
    /\ call[c].at = "fetch"
    /\ faults < MaxFaults
    /\ faults' = faults + 1
    /\ Goto(c, "release")
    /\ UNCHANGED <<now, cache, permits, received>>

(* Mutant of Store: the semaphore is released here and in finally. *)
StoreReleased(c) ==
    /\ call[c].at = "store"
    /\ cache' = call[c].quote
    /\ permits' = permits + 1
    /\ Goto(c, "release")
    /\ UNCHANGED <<now, bounds>>

(* The new quote becomes the entry of the stock. *)
Store(c) ==
    /\ call[c].at = "store"
    /\ cache' = call[c].quote
    /\ Goto(c, "release")
    /\ UNCHANGED <<now, permits, bounds>>

(* finally *)
Release(c) ==
    /\ call[c].at = "release"
    /\ permits' = permits + 1
    /\ Goto(c, "done")
    /\ UNCHANGED <<now, cache, bounds>>

(* The service answers the quote, or an error. *)
Reply(c) ==
    /\ call[c].at = "done"
    /\ Take(c, NoQuote, "idle")
    /\ UNCHANGED <<now, cache, permits, bounds>>

Tick ==
    /\ now < MaxTime
    /\ now' = now + 1
    /\ UNCHANGED <<cache, permits, call, bounds>>

-----------------------------------------------------------------------------
Progress(c) ==
    \/ Lookup(c) \/ Acquire(c) \/ Recheck(c) \/ Fetched(c) \/ FetchFails(c)
    \/ Store(c) \/ Release(c) \/ Reply(c)

Next == Tick \/ \E c \in Callers : Receive(c) \/ Progress(c)

Spec == Init /\ [][Next]_vars

(* A call that can go on does so; the quote server answers or fails. *)
FairSpec == Spec /\ \A c \in Callers : WF_vars(Progress(c))

-----------------------------------------------------------------------------
TypeOK ==
    /\ now \in Nat
    /\ cache \in Quotes \cup {NoQuote}
    /\ permits \in {0, 1}
    /\ call \in [Callers -> Call]
    /\ received \in Nat /\ faults \in Nat

(***************************************************************************)
(* At most one call is between the double check and the release, so at     *)
(* most one request for this stock is on its way to the quote server.      *)
(***************************************************************************)
Inside(c) == call[c].at \in {"check", "fetch", "store", "release"}
OneFetch == \A c, d \in Callers : Inside(c) /\ Inside(d) => c = d

(***************************************************************************)
(* No call is answered a price that had already expired when it asked,     *)
(* however long it waited for the semaphore or for the quote server.       *)
(***************************************************************************)
FreshAnswer ==
    \A c \in Callers :
      call[c].at = "done" /\ call[c].quote # NoQuote =>
        call[c].since - call[c].quote.time < Validity

(* Every call is answered, also those that waited for a fetch that failed. *)
EveryCallAnswered == \A c \in Callers : call[c].at # "idle" ~> call[c].at = "idle"

(***************************************************************************)
(* The refinement: a call is settled once it has the quote it will answer. *)
(***************************************************************************)
BoardCall(k) ==
    CASE k.at = "idle" -> [at |-> "idle", quote |-> NoQuote]
      [] k.at \in {"lookup", "wait", "check", "fetch", "store"} ->
           [at |-> "asked", quote |-> NoQuote]
      [] k.at \in {"release", "done"} -> [at |-> "answered", quote |-> k.quote]

Board == INSTANCE QuoteBoard WITH
           board <- cache, calls <- [c \in Callers |-> BoardCall(call[c])]

(***************************************************************************)
(* The cache keeps the promises of QuoteBoard: calls are answered with the *)
(* standing quote while it is valid, and no quote is bought while it is.   *)
(***************************************************************************)
ImplementsQuoteBoard == Board!Spec
=============================================================================
