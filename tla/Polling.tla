------------------------------ MODULE Polling ------------------------------
(***************************************************************************)
(* The loop of a trigger timer, Start in BuyTriggerTimer and               *)
(* SellTriggerTimer, as a client of QuoteService: it asks for the quote of *)
(* its stock, sleeps for as long as the answer is still valid, and asks    *)
(* again.  Which triggers it fires is in Triggers; here it is when it      *)
(* asks.  The other callers are the BUY, SELL and QUOTE commands.          *)
(***************************************************************************)
EXTENDS QuoteCache

CONSTANTS
    Poller,   \* the caller that the loop's connection is
    Short,    \* the delay after a failed connection: 500 ms
    Backoff   \* the delay after an exception: 5000 ms

ASSUME PollerAssumption == Poller \in Callers
ASSUME DelaysAssumption == Short \in Nat /\ Backoff \in Nat

VARIABLE loop   \* asked: when the last poll began; quote: its answer; last: the one before
pollVars == <<vars, loop>>

(* "forever" is a Task.Delay(-1). *)
Loop == [at : {"ask", "waiting", "answered", "asleep", "forever"},
         quote : Quotes \cup {NoQuote}, last : Quotes \cup {NoQuote},
         asked : Nat, until : Nat]

PollInit ==
    /\ Init
    /\ loop = [at |-> "ask", quote |-> NoQuote, last |-> NoQuote, asked |-> 0, until |-> 0]

-----------------------------------------------------------------------------
Sleep(delay) == loop' = [loop EXCEPT !.at = "asleep", !.until = now + delay]

(* GetStock sends the command. *)
Ask ==
    /\ loop.at = "ask"
    /\ Receive(Poller)
    /\ loop' = [loop EXCEPT !.at = "waiting", !.asked = now]

(* There is no connection: GetStock catches the exception and returns null. *)
AskFails ==
    /\ loop.at = "ask"
    /\ faults < MaxFaults
    /\ faults' = faults + 1
    /\ Sleep(Short)
    /\ UNCHANGED <<now, cache, permits, call, received>>

(* The answer is on its way; "Error getting quote" is not a number and throws. *)
Answer ==
    /\ loop.at = "waiting"
    /\ Reply(Poller)
    /\ LET q == call[Poller].quote
       IN  IF q = NoQuote
           THEN Sleep(Backoff)
           ELSE loop' = [loop EXCEPT !.at = "answered", !.quote = q, !.last = loop.quote]

(* Mutant of Interval: the loop asks again one tick too early. *)
IntervalShort == Validity - 1 - (now - loop.quote.time)

(* interval = (int)(60000 - (Unix.TimeStamp - time)) *)
Interval == Validity - (now - loop.quote.time)

(* Task.Delay(interval) takes -1 for ever and throws for anything below. *)
Delay ==
    /\ loop.at = "answered"
    /\ \/ Interval >= 0 /\ Sleep(Interval)
       \/ Interval = -1 /\ loop' = [loop EXCEPT !.at = "forever", !.until = now]
       \/ Interval < -1 /\ Sleep(Backoff)
    /\ UNCHANGED vars

Wake ==
    /\ loop.at = "asleep"
    /\ loop.until <= now
    /\ loop' = [loop EXCEPT !.at = "ask", !.asked = 0, !.until = 0]
    /\ UNCHANGED vars

-----------------------------------------------------------------------------
Serve(c) ==
    \/ Lookup(c) \/ Acquire(c) \/ Recheck(c) \/ Fetched(c) \/ FetchFails(c)
    \/ Store(c) \/ Release(c)

Command(c) == c # Poller /\ (Receive(c) \/ Reply(c))
LoopStep == AskFails \/ Ask \/ Answer \/ Delay \/ Wake

PollNext ==
    \/ Tick /\ UNCHANGED loop
    \/ \E c \in Callers : (Serve(c) \/ Command(c)) /\ UNCHANGED loop
    \/ LoopStep

(* As in FairSpec; the loop goes on when its delay is over. *)
PollSpec ==
    /\ PollInit
    /\ [][PollNext]_pollVars
    /\ WF_pollVars(LoopStep)
    /\ \A c \in Callers :
         WF_pollVars((Serve(c) \/ (c # Poller /\ Reply(c))) /\ UNCHANGED loop)

-----------------------------------------------------------------------------
(***************************************************************************)
(* Every poll brings a newer quote than the one before: the delay of Start *)
(* ends when QuoteService, by its own comparison, no longer answers the    *)
(* old quote.  A loop that woke a moment too early would fire no trigger   *)
(* for another minute.                                                     *)
(***************************************************************************)
EveryPollLearns ==
    loop.quote # NoQuote /\ loop.last # NoQuote => loop.quote.time > loop.last.time

(***************************************************************************)
(* The loop sleeps for ever only after a slow answer.  QuoteService        *)
(* answers no quote that had expired when it was asked, so an interval of  *)
(* -1 takes an answer that was two milliseconds or more on its way.        *)
(***************************************************************************)
StopsOnlyWhenLate == loop.at = "forever" => loop.until >= loop.asked + 2

=============================================================================
