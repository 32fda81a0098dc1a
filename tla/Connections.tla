---------------------------- MODULE Connections ----------------------------
(***************************************************************************)
(* One user's commands to one service: TransactionHandler.GetServiceResult *)
(* in the web server, the user's ConnectedServices with its entry for the  *)
(* service, the ServiceConnections, and BaseService.ProcessClient, one     *)
(* loop per connection, on the other side.  The user may have any number   *)
(* of commands in flight: a browser does not wait, and a driver that has   *)
(* waited too long goes on while the handler of its command still reads.   *)
(* Connections break and the service crashes at any moment; an old         *)
(* connection may still be served while a command is sent again over a new *)
(* one.  Some commands the service never answers.                          *)
(***************************************************************************)
EXTENDS Integers, FiniteSets, Sequences

CONSTANTS
    Requests,    \* the user's commands to the service
    Silent,      \* those of them to which DataReceived has no answer
    Alone,       \* bound: commands sent only while no other runs
    Conns,       \* bound: ServiceConnections in use at once
    MaxTries,    \* bound: turns of GetServiceResult's loop that fit its ten seconds
    MaxFaults    \* bound: connections that break and crashes of the service

ASSUME RequestsAssumption == Silent \subseteq Requests /\ Alone \subseteq Requests
ASSUME BoundsAssumption == MaxFaults \in Nat /\ MaxTries \in Nat \ {0}

None == "none"
Waiting == "waiting"
Unavailable == "unavailable"
ASSUME NamesAssumption == None \notin Conns /\ {Waiting, Unavailable} \cap Requests = {}

VARIABLES
    handler,  \* handler[r]: GetServiceResult for command r
    reply,    \* reply[r]: the command whose answer r got, Unavailable, or Waiting
    entry,    \* ConnectedServices.connections[service]
    conn,     \* conn[c]: the ServiceConnections
    up,       \* the service runs
    runs,     \* runs[r]: how often the service has carried r out
    faults,   \* faults so far
    broken,   \* history: broken[r], how often a connection ended under r
    calm,     \* history: calm[r], r has met no fault, no other command, no time-out
    mixed     \* history: mixed[r], r read where two commands read at once

service == <<up, runs, faults>>
history == <<broken, calm, mixed>>
vars == <<handler, reply, entry, conn, service, history>>

Attempts == 3

Positions == {"idle", "lookup", "remove", "add", "connect", "backoff",
              "send", "reading", "pause", "done"}

(* tries counts the turns of the loop; i counts the attempts of              *)
(* GetServiceConnectionAsync, and found tells that its variable conn is not  *)
(* null; using is the connection that r works with.                          *)
Handler == [at : Positions, tries : 0 .. MaxTries - 1, i : 0 .. Attempts - 1,
            found : BOOLEAN, using : Conns \cup {None}]
Fresh == [at |-> "idle", tries |-> 0, i |-> 0, found |-> FALSE, using |-> None]

(***************************************************************************)
(* "new": made, and ConnectAsync has not ended; "failed": it ended with an *)
(* error; "open"; "lost": broken, and the web server has not noticed;      *)
(* "dead": it has.  disposed: Dispose has canceled its token.  mixed: two  *)
(* calls have read from its MessagePackStreamReader at once.               *)
(***************************************************************************)
Conn == [state : {"unused", "new", "failed", "open", "lost", "dead"},
         toServer : Seq(Requests), toClient : Seq(Requests),
         disposed : BOOLEAN, mixed : BOOLEAN]
Unused == [state |-> "unused", toServer |-> <<>>, toClient |-> <<>>,
           disposed |-> FALSE, mixed |-> FALSE]

Init ==
    /\ handler = [r \in Requests |-> Fresh]
    /\ reply = [r \in Requests |-> Waiting]
    /\ entry = None
    /\ conn = [c \in Conns |-> Unused]
    /\ up = TRUE
    /\ runs = [r \in Requests |-> 0]
    /\ faults = 0
    /\ broken = [r \in Requests |-> 0]
    /\ calm = [r \in Requests |-> FALSE]
    /\ mixed = [r \in Requests |-> FALSE]

-----------------------------------------------------------------------------
Goto(r, position) == handler' = [handler EXCEPT ![r].at = position]

(* The handler has no use for its connection any more. *)
Release(r, position) ==
    handler' = [handler EXCEPT ![r].at = position, ![r].using = None]

(* A turn of the loop is over, without a result; GetServiceResult returns. *)
Retry(r) == handler' = [handler EXCEPT ![r] = [Fresh EXCEPT !.at = "pause", !.tries = handler[r].tries]]
Return(r) == handler' = [handler EXCEPT ![r] = [Fresh EXCEPT !.at = "done"]]

Refuse(r) ==
    /\ Return(r)
    /\ reply' = [reply EXCEPT ![r] = Unavailable]

(* ServiceConnection.Connected: only an error or an end of stream that the *)
(* web server has met makes it FALSE.                                      *)
Connected(c) == c # None /\ conn[c].state \in {"open", "lost"}

(* Nothing refers to a connection any more. *)
Unreferenced(c) ==
    /\ entry # c
    /\ \A r \in Requests : handler[r].using # c
    /\ conn[c].toServer = <<>>

(* The handlers that have not returned. *)
Running == {r \in Requests : handler[r].at \notin {"idle", "done"}}

(* HandleTransaction, for a command that is valid. *)
Issue(r) ==
    /\ handler[r].at = "idle"
    /\ r \in Alone => Running = {}
    /\ Running \cap Alone = {}
    /\ Goto(r, "lookup")
    /\ calm' = [q \in Requests |-> IF q = r THEN up /\ Running = {}
                                   ELSE calm[q] /\ q \notin Running]
    /\ UNCHANGED <<reply, entry, conn, service, broken, mixed>>

(* Task.Delay(500), then while (!cts.IsCancellationRequested): the ten   *)
(* seconds are over after MaxTries turns, or sooner when a turn was slow. *)
Pause(r) ==
    /\ handler[r].at = "pause"
    /\ \/ /\ handler[r].tries + 1 < MaxTries
          /\ handler' = [handler EXCEPT ![r].at = "lookup", ![r].tries = @ + 1]
          /\ UNCHANGED <<reply, calm>>
       \/ /\ Refuse(r)
          /\ calm' = [calm EXCEPT ![r] = @ /\ handler[r].tries + 1 = MaxTries]
    /\ UNCHANGED <<entry, conn, service, broken, mixed>>

(* Mutant of Lookup: the entry is returned without a look at Connected. *)
LookupAny(r) ==
    /\ handler[r].at = "lookup"
    /\ handler' = [handler EXCEPT ![r].found = entry # None, ![r].using = entry,
                                  ![r].i = 0, ![r].at = IF entry = None THEN "add" ELSE "send"]
    /\ UNCHANGED <<reply, entry, conn, service, history>>

(* connections.TryGetValue, and what is found is used if it is connected. *)
Lookup(r) ==
    /\ handler[r].at = "lookup"
    /\ handler' = [handler EXCEPT ![r].found = entry # None, ![r].using = entry,
                                  ![r].i = 0, ![r].at = IF Connected(entry) THEN "send"
                                              ELSE IF entry = None THEN "add"
                                              ELSE "remove"]
    /\ UNCHANGED <<reply, entry, conn, service, history>>

(* The dead connection is disposed; the entry that goes may be another by now. *)
Remove(r) ==
    /\ handler[r].at = "remove"
    /\ conn' = [conn EXCEPT ![handler[r].using].disposed = TRUE]
    /\ entry' = None
    /\ Release(r, "add")
    /\ UNCHANGED <<reply, service, history>>

(***************************************************************************)
(* connections.Add throws when there is an entry again, and the            *)
(* constructor when Dns.GetHostAddresses does not find a service that is   *)
(* down: the exception ends GetServiceResult.                              *)
(***************************************************************************)
AddThrows(r) ==
    /\ handler[r].at = "add"
    /\ ~up \/ entry # None
    /\ Refuse(r)
    /\ UNCHANGED <<entry, conn, service, history>>

(* connections.Add(new ServiceConnection), and ConnectAsync starts. *)
Add(r) ==
    /\ handler[r].at = "add"
    /\ entry = None
    /\ LET free == {c \in Conns : conn[c].state = "unused" \/ Unreferenced(c)}
           new == CHOOSE c \in free : TRUE
       IN  /\ free # {}
           /\ conn' = [conn EXCEPT ![new] = [Unused EXCEPT !.state = "new"]]
           /\ entry' = new
           /\ handler' = [handler EXCEPT ![r].using = new, ![r].at = "connect"]
    /\ UNCHANGED <<reply, service, history>>

(***************************************************************************)
(* ConnectAsync returns.  On success connections[service] is looked up     *)
(* once more: another command may have removed the entry, which throws, or *)
(* replaced it.                                                            *)
(***************************************************************************)
Connect(r) ==
    /\ handler[r].at = "connect"
    /\ up
    /\ conn' = [conn EXCEPT ![handler[r].using].state = "open"]
    /\ IF entry = None
       THEN Refuse(r)
       ELSE /\ handler' = [handler EXCEPT ![r].using = entry, ![r].at = "send"]
            /\ UNCHANGED reply
    /\ UNCHANGED <<entry, service, history>>

ConnectFails(r) ==
    /\ handler[r].at = "connect"
    /\ ~up
    /\ conn' = [conn EXCEPT ![handler[r].using].state = "failed"]
    /\ Release(r, "backoff")
    /\ UNCHANGED <<reply, entry, service, history>>

(* Mutant of Backoff: nothing ends the attempts. *)
BackoffForever(r) ==
    /\ handler[r].at = "backoff"
    /\ entry' = None
    /\ handler' = [handler EXCEPT ![r].at = "add", ![r].i = @ + 1]
    /\ UNCHANGED <<reply, conn, service, history>>

(* Task.Delay, then conn.Dispose(): conn is null unless the look-up found an *)
(* entry, and the exception ends GetServiceResult with the failed connection *)
(* still in the dictionary.                                                  *)
Backoff(r) ==
    /\ handler[r].at = "backoff"
    /\ IF handler[r].found
       THEN /\ entry' = None
            /\ IF handler[r].i + 1 < Attempts
               THEN handler' = [handler EXCEPT ![r].at = "add", ![r].i = @ + 1]
               ELSE Retry(r)
            /\ UNCHANGED reply
       ELSE Refuse(r) /\ UNCHANGED entry
    /\ UNCHANGED <<conn, service, history>>

-----------------------------------------------------------------------------
Reading(c) == {r \in Requests : handler[r].at = "reading" /\ handler[r].using = c}

(***************************************************************************)
(* SendAsync up to the read.  A connection that is disposed or not made    *)
(* yet has no stream; on a broken one the write throws, or the read meets  *)
(* the end at once.                                                        *)
(***************************************************************************)
Send(r) ==
    /\ handler[r].at = "send"
    /\ LET c == handler[r].using
           mix == conn[c].mixed \/ Reading(c) # {}
       IN  IF conn[c].state = "open" /\ ~conn[c].disposed
           THEN /\ conn' = [conn EXCEPT ![c].toServer = Append(@, r), ![c].mixed = mix]
                /\ mixed' = [q \in Requests |-> mixed[q] \/ (mix /\ q \in Reading(c) \cup {r})]
                /\ Goto(r, "reading")
           ELSE /\ conn' = [conn EXCEPT ![c].state = IF @ = "lost" THEN "dead" ELSE @]
                /\ Retry(r)
                /\ UNCHANGED mixed
    /\ UNCHANGED <<reply, entry, service, broken, calm>>

(* Mutant of Read: the loop goes on although there is a result. *)
ReadAndGoOn(r) ==
    /\ handler[r].at = "reading"
    /\ LET c == handler[r].using
       IN  /\ conn[c].toClient # <<>>
           /\ reply' = [reply EXCEPT ![r] = Head(conn[c].toClient)]
           /\ conn' = [conn EXCEPT ![c].toClient = Tail(@)]
           /\ Retry(r)
    /\ UNCHANGED <<entry, service, history>>

Read(r) ==
    /\ handler[r].at = "reading"
    /\ LET c == handler[r].using
       IN  /\ conn[c].toClient # <<>>
           /\ reply' = [reply EXCEPT ![r] = Head(conn[c].toClient)]
           /\ conn' = [conn EXCEPT ![c].toClient = Tail(@)]
           /\ Return(r)
    /\ UNCHANGED <<entry, service, history>>

(***************************************************************************)
(* Two reads on one MessagePackStreamReader fill the same buffer: what     *)
(* arrives is not only taken by either of them, it may also be garbage,    *)
(* which throws, or look like a part of something longer.                  *)
(***************************************************************************)
ReadMixed(r) ==
    /\ handler[r].at = "reading"
    /\ LET c == handler[r].using
       IN  /\ conn[c].mixed /\ conn[c].toClient # <<>>
           /\ conn' = [conn EXCEPT ![c].toClient = Tail(@)]
    /\ Retry(r) \/ UNCHANGED handler
    /\ UNCHANGED <<reply, entry, service, history>>

(* Mutant of ReadEnd: a read that gives up and leaves the connection in use. *)
ReadGivesUp(r) ==
    /\ handler[r].at = "reading"
    /\ conn[handler[r].using].toClient = <<>>
    /\ Retry(r)
    /\ UNCHANGED <<reply, entry, conn, service, history>>

(* Mutant of ReadEnd: HasValue is not looked at and the read is repeated. *)
ReadAgain(r) ==
    /\ handler[r].at = "reading"
    /\ conn[handler[r].using].state = "lost"
    /\ UNCHANGED vars

(* The end of the stream, an error, or another command has disposed the connection. *)
ReadEnd(r) ==
    /\ handler[r].at = "reading"
    /\ LET c == handler[r].using
       IN  /\ \/ conn[c].state \in {"lost", "dead"} /\ conn[c].toClient = <<>>
              \/ conn[c].disposed
           /\ conn' = [conn EXCEPT ![c].state = "dead"]
    /\ broken' = [broken EXCEPT ![r] = @ + 1]
    /\ Retry(r)
    /\ UNCHANGED <<reply, entry, service, calm, mixed>>

-----------------------------------------------------------------------------
(***************************************************************************)
(* ProcessClient: the next command of a connection is carried out and      *)
(* answered, unless its answer is empty or DataReceived throws; over a     *)
(* broken connection the answer does not arrive.                           *)
(***************************************************************************)
Serve(c) ==
    /\ conn[c].toServer # <<>>
    /\ LET r == Head(conn[c].toServer)
       IN  /\ runs' = [runs EXCEPT ![r] = @ + 1]
           /\ conn' = [conn EXCEPT ![c].toServer = Tail(@),
                                   ![c].toClient = IF conn[c].state = "open" /\ r \notin Silent
                                                   THEN Append(@, r) ELSE @]
    /\ UNCHANGED <<handler, reply, entry, up, faults, history>>

Disturb ==
    /\ faults < MaxFaults
    /\ faults' = faults + 1
    /\ calm' = [r \in Requests |-> calm[r] /\ r \notin Running]
    /\ UNCHANGED <<handler, reply, entry, runs, broken, mixed>>

Kept(queue, keep) == IF keep THEN queue ELSE <<>>

(* What is on its way arrives before the end, or is lost with it. *)
Break(c) ==
    /\ conn[c].state = "open"
    /\ \E in, out \in BOOLEAN :
          conn' = [conn EXCEPT ![c].state = "lost", ![c].toServer = Kept(@, in),
                               ![c].toClient = Kept(@, out)]
    /\ Disturb
    /\ UNCHANGED up

Crash ==
    /\ up
    /\ up' = FALSE
    /\ \E out \in BOOLEAN :
          conn' = [c \in Conns |->
                     [conn[c] EXCEPT !.state = IF @ = "open" THEN "lost" ELSE @,
                                     !.toServer = <<>>, !.toClient = Kept(@, out)]]
    /\ Disturb

Restart ==
    /\ ~up
    /\ up' = TRUE
    /\ UNCHANGED <<handler, reply, entry, conn, runs, faults, history>>

-----------------------------------------------------------------------------
Proceed(r) ==
    \/ Lookup(r)
    \/ Remove(r)
    \/ AddThrows(r)
    \/ Add(r)
    \/ Connect(r)
    \/ ConnectFails(r)
    \/ Backoff(r)
    \/ Send(r)
    \/ Read(r)
    \/ ReadMixed(r)
    \/ ReadEnd(r)
    \/ Pause(r)

Next ==
    \/ \E r \in Requests : Issue(r) \/ Proceed(r)
    \/ \E c \in Conns : Serve(c) \/ Break(c)
    \/ Crash
    \/ Restart

Spec == Init /\ [][Next]_vars

(* A handler's awaits complete, a service reads what has arrived, and the   *)
(* swarm starts a service that has ended again.                             *)
FairSpec ==
    /\ Spec
    /\ \A r \in Requests : WF_vars(Proceed(r))
    /\ \A c \in Conns : WF_vars(Serve(c))
    /\ WF_vars(Restart)

-----------------------------------------------------------------------------
(* The state is of its type: no fourth attempt to connect is made. *)
TypeOK ==
    /\ handler \in [Requests -> Handler]
    /\ reply \in [Requests -> Requests \cup {Waiting, Unavailable}]
    /\ entry \in Conns \cup {None}
    /\ conn \in [Conns -> Conn]
    /\ up \in BOOLEAN
    /\ runs \in [Requests -> Nat]
    /\ faults \in 0 .. MaxFaults
    /\ broken \in [Requests -> Nat]
    /\ calm \in [Requests -> BOOLEAN]
    /\ mixed \in [Requests -> BOOLEAN]

(***************************************************************************)
(* A user gets the answer to his own command, and it has been carried out, *)
(* although his commands dispose, remove and replace the connections that  *)
(* the others are about to use: only two reads on one connection mix their *)
(* answers up, and no answer to an earlier command or an earlier sending   *)
(* is left where GetServiceResult reads the next one.                      *)
(***************************************************************************)
OwnAnswer ==
    \A r \in Requests :
       reply[r] \in Requests /\ ~mixed[r] => reply[r] = r /\ runs[r] > 0

(***************************************************************************)
(* GetServiceResult sends a command again only after the connection that   *)
(* carried it has ended: the service carries it out at most once more than *)
(* connections ended under it, unless its answers were mixed up.           *)
(***************************************************************************)
RepeatsExplained ==
    \A r \in Requests : ~mixed[r] => runs[r] <= 1 + broken[r]

(***************************************************************************)
(* What earlier faults, and earlier commands that raced each other, have   *)
(* left (a stale connection, a failed or a disposed one in the dictionary) *)
(* never costs a later command more than a second sending: it is answered  *)
(* and not refused, and is carried out exactly once.                       *)
(***************************************************************************)
ExactlyOnceWhenCalm ==
    \A r \in Requests :
       handler[r].at = "done" /\ calm[r] /\ ~mixed[r] => reply[r] = r /\ runs[r] = 1

(* What may keep a handler for ever: no answer, or one that was mixed up. *)
Stuck(r) == handler[r].at = "reading" /\ (r \in Silent \/ mixed[r])

(* Every command is answered or refused, whatever breaks on the way, unless *)
(* the service has no answer to it or it shares its connection.             *)
EveryRequestEnds ==
    \A r \in Requests : handler[r].at = "lookup" ~> handler[r].at = "done" \/ Stuck(r)
=============================================================================
