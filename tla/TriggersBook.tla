---------------------------- MODULE TriggersBook ----------------------------
(***************************************************************************)
(* The refinement from Triggers to TriggerBook: an amount that was held,   *)
(* and neither returned nor paid out, is an open trigger; between the two  *)
(* statements of buy_trigger or sell_trigger the first one has not         *)
(* happened yet.                                                           *)
(***************************************************************************)
EXTENDS Triggers

Entry(i) == [id |-> i, user |-> triggers[i].user, amount |-> triggers[i].amount,
             limit |-> triggers[i].limit]
OpenTriggers ==
    {Entry(i) : i \in {j \in DOMAIN triggers :
                 triggers[j].held = 1 /\ ~triggers[j].canceled /\ triggers[j].fired = 0}}

(* The thread that has run the first of the two statements for user u, if any:  *)
(* while commands and polls come one at a time there is one at most.            *)
HalfPaying(u) == {w \in Threads : thread[w].at = "second" /\ FiredUser(w) = u}
Payer(u) == CHOOSE w \in HalfPaying(u) : TRUE
Leftover(w) == triggers[thread[w].trigger].amount - thread[w].spent

BookSource == [u \in Users |->
    source[u] - IF Direction = "BUY" /\ HalfPaying(u) # {} THEN Leftover(Payer(u)) ELSE 0]
BookTarget == [u \in Users |->
    target[u] - IF Direction = "SELL" /\ HalfPaying(u) # {} THEN thread[Payer(u)].spent ELSE 0]

B == INSTANCE TriggerBook WITH source <- BookSource, target <- BookTarget,
                               book <- OpenTriggers

(***************************************************************************)
(* When commands and polls do not run at the same time, and no statement   *)
(* fails, the services keep every promise of TriggerBook.                  *)
(***************************************************************************)
ImplementsTriggerBook == B!Spec
=============================================================================
