---------------------------- MODULE TriggerBook ----------------------------
(***************************************************************************)
(* What the triggers of a stock promise their users, every promise in one  *)
(* step: an open trigger holds its amount until it is canceled, which      *)
(* gives the amount back, or completed at a price that its limit allows,   *)
(* which pays whole shares and gives back the rest; never both.            *)
(* Triggers is shown to implement it in TriggersBook.                      *)
(***************************************************************************)
EXTENDS Integers

CONSTANTS Users, Direction, Funds, Limits, Costs

VARIABLES source, target, book

vars == <<source, target, book>>

Init ==
    /\ source = [u \in Users |-> Funds]
    /\ target = [u \in Users |-> 0]
    /\ book = {}

(* One trigger of a user is open at a time, and the account covers it. *)
Open == \E t \in book' \ book :
    /\ t.limit = 0
    /\ 0 < t.amount /\ t.amount <= source[t.user]
    /\ \A t2 \in book : t2.user # t.user
    /\ book' = book \cup {t}
    /\ source' = [source EXCEPT ![t.user] = @ - t.amount]
    /\ UNCHANGED target

SetLimit(t) == \E limit \in Limits :
    /\ limit <= t.amount
    /\ book' = (book \ {t}) \cup {[t EXCEPT !.limit = limit]}
    /\ UNCHANGED <<source, target>>

Cancel(t) ==
    /\ book' = book \ {t}
    /\ source' = [source EXCEPT ![t.user] = @ + t.amount]
    /\ UNCHANGED target

Allows(t, price) ==
    /\ t.limit > 0
    /\ Direction = "BUY" => price <= t.limit
    /\ Direction = "SELL" => price >= t.limit

Complete(t) == \E price \in {p \in Costs : Allows(t, p)} :
    LET rest == t.amount % price IN
    /\ book' = book \ {t}
    /\ source' = [source EXCEPT ![t.user] = @ + rest]
    /\ target' = [target EXCEPT ![t.user] = @ + (t.amount - rest)]

Next == Open \/ \E t \in book : SetLimit(t) \/ Cancel(t) \/ Complete(t)

Spec == Init /\ [][Next]_vars
=============================================================================
