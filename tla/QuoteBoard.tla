----------------------------- MODULE QuoteBoard -----------------------------
(***************************************************************************)
(* What the quote service promises of one stock: one quote stands at a     *)
(* time, a call is answered with the standing quote while it is valid, and *)
(* a new quote is bought only when the standing one has expired.           *)
(***************************************************************************)
EXTENDS Naturals

CONSTANTS
    Callers,
    Costs,
    Validity   \* how long a quote is valid

VARIABLES
    now,
    board,   \* the standing quote
    calls    \* the calls in progress, with the quote they will be answered

vars == <<now, board, calls>>

NoQuote == [cost |-> 0, time |-> 0]
Valid(q) == q # NoQuote /\ now - q.time < Validity

Init ==
    /\ now = 0
    /\ board = NoQuote
    /\ calls = [c \in Callers |-> [at |-> "idle", quote |-> NoQuote]]

Ask(c) ==
    /\ calls[c].at = "idle"
    /\ calls' = [calls EXCEPT ![c] = [at |-> "asked", quote |-> NoQuote]]
    /\ UNCHANGED <<now, board>>

Settle(c, q) ==
    /\ calls[c].at = "asked"
    /\ calls' = [calls EXCEPT ![c] = [at |-> "answered", quote |-> q]]

Read(c) ==
    /\ Valid(board)
    /\ Settle(c, board)
    /\ UNCHANGED <<now, board>>

Buy(c) == \E cost \in Costs, time \in 0 .. now :
    /\ board # NoQuote => time - board.time >= Validity
    /\ board' = [cost |-> cost, time |-> time]
    /\ Settle(c, board')
    /\ UNCHANGED now

Fail(c) == Settle(c, NoQuote) /\ UNCHANGED <<now, board>>

Reply(c) ==
    /\ calls[c].at = "answered"
    /\ calls' = [calls EXCEPT ![c] = [at |-> "idle", quote |-> NoQuote]]
    /\ UNCHANGED <<now, board>>

Tick ==
    /\ now' = now + 1
    /\ UNCHANGED <<board, calls>>

Next ==
    \/ \E c \in Callers : Ask(c) \/ Read(c) \/ Buy(c) \/ Fail(c) \/ Reply(c)
    \/ Tick

Spec == Init /\ [][Next]_vars
=============================================================================
