----------------------------- MODULE AuditTrail -----------------------------
(***************************************************************************)
(* The AuditWriter of one process and its connections to the audit server. *)
(* WriteRecord is called by any thread and never waits: a record is        *)
(* written to the current TcpClient, or pushed on a stack while there is   *)
(* none that is connected.  The loop KeepConnected makes the clients and   *)
(* sends what is on the stack as one batch.  On the other side one         *)
(* AuditClient reads each connection, and DUMPLOG is a record among the    *)
(* others.  Connections break, and a writable one may be full.             *)
(*                                                                         *)
(* Processes share nothing but the server's log, to which they only add,   *)
(* so one is modelled.                                                     *)
(***************************************************************************)
EXTENDS Integers, SequencesExt

CONSTANTS
    Records,   \* the records the process writes
    Dumplogs,  \* those that are DUMPLOG commands
    Segment,   \* a batch of more records than this is two writes of the stream
    Buffer,    \* messages on their way that fill a connection
    Conns,     \* bound: connections in use at once
    MaxFaults  \* bound: connections that break and attempts to connect that fail

ASSUME RecordAssumption == Dumplogs \subseteq Records
ASSUME SizeAssumption == Segment \in Nat \ {0} /\ Buffer \in Nat \ {0} /\ MaxFaults \in Nat

VARIABLES
    at,       \* at[r]: WriteRecord(r)
    logs,     \* the stack of records that wait, the newest push first
    client,   \* the current TcpClient
    loop,     \* KeepConnected, and the size of the array it has made
    conn,     \* conn[c]: the connections
    scan,     \* scan[c]: the items AuditClient.Process has added and now scans
    log,      \* AuditServer.Log: how often it holds each record
    dumped,   \* dumped[d]: the records in the file of DUMPLOG d
    faults,   \* faults so far
    lost,     \* history: records that a connection took and did not deliver
    due       \* history: due[d], what was sent with or ahead of DUMPLOG d

writer == <<at, logs, client, loop>>
server == <<scan, log, dumped>>
vars == <<writer, conn, server, faults, lost, due>>

-----------------------------------------------------------------------------
NoClient == "null"

(***************************************************************************)
(* "free": not in use; "connecting"; "open"; "lost": broken, but no write  *)
(* of the process has met it yet; "closed": the process has closed it.     *)
(***************************************************************************)
States == {"free", "connecting", "open", "lost", "closed"}
Parts == {"whole", "first", "last"}
Message == [items : Seq(Records), part : Parts]
Conn == [state : States, sending : Seq(Message), stream : Seq(Message)]
Free == [state |-> "free", sending |-> <<>>, stream |-> <<>>]

Init ==
    /\ at = [r \in Records |-> "unborn"]
    /\ logs = <<>>
    /\ client = NoClient
    /\ loop = [at |-> "check", size |-> 0]
    /\ conn = [c \in Conns |-> Free]
    /\ scan = [c \in Conns |-> <<>>]
    /\ log = [r \in Records |-> 0]
    /\ dumped = [d \in Dumplogs |-> {}]
    /\ faults = 0
    /\ lost = {}
    /\ due = [d \in Dumplogs |-> {}]

(* GetStream throws on a client that is not connected, or no longer. *)
Usable(c) == c # NoClient /\ conn[c].state \in {"open", "lost"}

(* The position of the second part of the message that the stream begins with. *)
EndOf(stream) ==
    {i \in DOMAIN stream : stream[i].part = "last" /\ stream[i].items = stream[1].items}

(* A write would block; a reader that waits for the rest of a message makes room. *)
Full(c) ==
    LET stream == conn[c].stream
    IN  Len(stream) >= Buffer /\ (stream[1].part = "first" => EndOf(stream) # {})

(* client.Connected, and Poll finds that a write would not block. *)
Connected == Usable(client) /\ ~Full(client)

-----------------------------------------------------------------------------
(* What a sequence of messages carries in full. *)
Carried(messages) ==
    UNION {ToSet(messages[i].items) : i \in {j \in DOMAIN messages : messages[j].part # "first"}}

(* logs.PushRange: the last item of the array ends on top. *)
PushRange(items) == logs' = Reverse(items) \o logs

(* client.Close(), client.Dispose(): whichever client is the current one by now. *)
Closed(cs, c) == IF c = NoClient THEN cs ELSE [cs EXCEPT ![c].state = "closed"]

(***************************************************************************)
(* WriteToServer up to its first await, with the stack that is left: the   *)
(* message joins the socket's queue of sends, or GetStream throws, and the *)
(* records go to the stack and the client is closed.                       *)
(***************************************************************************)
WriteToServer(items, rest) ==
    IF Usable(client)
    THEN LET ahead == conn[client].stream \o conn[client].sending
         IN  /\ conn' = [conn EXCEPT ![client].sending = Append(@,
                           [items |-> items,
                            part |-> IF Len(items) > Segment THEN "first" ELSE "whole"])]
             /\ due' = [d \in Dumplogs |->
                          IF d \in ToSet(items) THEN ToSet(items) \cup Carried(ahead) ELSE due[d]]
             /\ logs' = rest
    ELSE /\ logs' = Reverse(items) \o rest
         /\ conn' = Closed(conn, client)
         /\ UNCHANGED due

(* Mutant of WriteRecord: the record is pushed as well as written. *)
WriteAndPush(r) ==
    /\ at[r] = "unborn"
    /\ at' = [at EXCEPT ![r] = IF Connected THEN "connected" ELSE "written"]
    /\ logs' = <<r>> \o logs
    /\ UNCHANGED <<client, loop, conn, server, faults, lost, due>>

(* WriteRecord(r): Connected is looked at first ... *)
WriteRecord(r) ==
    /\ at[r] = "unborn"
    /\ IF Connected
       THEN at' = [at EXCEPT ![r] = "connected"] /\ UNCHANGED logs
       ELSE at' = [at EXCEPT ![r] = "written"] /\ logs' = <<r>> \o logs
    /\ UNCHANGED <<client, loop, conn, server, faults, lost, due>>

(* ... and the client that is written to may be another by then. *)
WriteDirect(r) ==
    /\ at[r] = "connected"
    /\ at' = [at EXCEPT ![r] = "written"]
    /\ WriteToServer(<<r>>, logs)
    /\ UNCHANGED <<client, loop, server, faults, lost>>

-----------------------------------------------------------------------------
(* Mutant of Check: a client that was made once is never made again. *)
CheckNull ==
    /\ loop.at = "check"
    /\ IF client # NoClient
       THEN loop' = [loop EXCEPT !.at = "count"] /\ UNCHANGED <<client, conn>>
       ELSE LET new == CHOOSE c \in Conns : conn[c].state = "free"
            IN  /\ conn' = [conn EXCEPT ![new].state = "connecting"]
                /\ client' = new
                /\ loop' = [loop EXCEPT !.at = "connect"]
    /\ UNCHANGED <<at, logs, server, faults, lost, due>>

(* KeepConnected: is the connection healthy?  If not, a new TcpClient; the *)
(* old one is not closed.                                                  *)
Check ==
    /\ loop.at = "check"
    /\ IF Connected
       THEN loop' = [loop EXCEPT !.at = "count"] /\ UNCHANGED <<client, conn>>
       ELSE LET unused == {c \in Conns : conn[c].state = "free"}
                new == CHOOSE c \in unused : TRUE
            IN  /\ unused # {}
                /\ conn' = [conn EXCEPT ![new].state = "connecting"]
                /\ client' = new
                /\ loop' = [loop EXCEPT !.at = "connect"]
    /\ UNCHANGED <<at, logs, server, faults, lost, due>>

(* ConnectAsync; a client that was closed meanwhile throws. *)
Connect ==
    /\ loop.at = "connect"
    /\ loop' = [loop EXCEPT !.at = "check"]
    /\ conn' = IF conn[client].state = "connecting"
               THEN [conn EXCEPT ![client].state = "open"] ELSE conn
    /\ UNCHANGED <<at, logs, client, server, faults, lost, due>>

ConnectFails ==
    /\ loop.at = "connect"
    /\ faults < MaxFaults
    /\ faults' = faults + 1
    /\ loop' = [loop EXCEPT !.at = "check"]
    /\ conn' = [conn EXCEPT ![client].state = "closed"]
    /\ UNCHANGED <<at, logs, client, server, lost, due>>

(* logs.Any(), then new object[logs.Count]; with nothing to send the loop waits. *)
Count ==
    /\ loop.at = "count"
    /\ loop' = IF logs = <<>> THEN [at |-> "check", size |-> 0]
               ELSE [at |-> "pop", size |-> Len(logs)]
    /\ UNCHANGED <<at, logs, client, conn, server, faults, lost, due>>

(* Mutant of PopAndWrite: the array is one longer, and its last slot is null. *)
PopOneShort ==
    /\ loop.at = "pop"
    /\ loop' = [at |-> "check", size |-> 0]
    /\ WriteToServer(Append(SubSeq(logs, 1, loop.size), NoClient),
                     SubSeq(logs, loop.size + 1, Len(logs)))
    /\ UNCHANGED <<at, client, server, faults, lost>>

(* TryPopRange of as many as were counted, from the top; then 30 seconds. *)
PopAndWrite ==
    /\ loop.at = "pop"
    /\ loop' = [at |-> "check", size |-> 0]
    /\ WriteToServer(SubSeq(logs, 1, loop.size), SubSeq(logs, loop.size + 1, Len(logs)))
    /\ UNCHANGED <<at, client, server, faults, lost>>

-----------------------------------------------------------------------------
(***************************************************************************)
(* The oldest send of a socket completes.  SerializeAsync then sends the   *)
(* second part of a message, behind what has joined the queue meanwhile.   *)
(***************************************************************************)
Transmit(c) ==
    /\ conn[c].sending # <<>>
    /\ LET m == Head(conn[c].sending)
           more == IF m.part = "first" THEN <<[m EXCEPT !.part = "last"]>> ELSE <<>>
       IN  \/ /\ conn[c].state = "open"
              /\ ~Full(c)
              /\ conn' = [conn EXCEPT ![c].sending = Tail(@) \o more,
                                      ![c].stream = Append(@, m)]
              /\ UNCHANGED lost
           \/ /\ conn[c].state = "lost"    \* taken, and gone
              /\ conn' = [conn EXCEPT ![c].sending = Tail(@) \o more]
              /\ lost' = lost \cup Carried(<<m>>)
    /\ UNCHANGED <<writer, server, faults, due>>

(* A send fails: the records go back to the stack and the client is closed. *)
WriteFails(c) ==
    /\ conn[c].sending # <<>>
    /\ conn[c].state \in {"lost", "closed"}
    /\ PushRange(Head(conn[c].sending).items)
    /\ conn' = Closed([conn EXCEPT ![c].sending = Tail(@)], client)
    /\ UNCHANGED <<at, client, loop, server, faults, lost, due>>

-----------------------------------------------------------------------------
(***************************************************************************)
(* AuditClient.Process reads a message and adds its items to the log.      *)
(* Parts of two messages that are mixed up, or one whose end never comes,  *)
(* are not deserialized: nothing of them reaches the log.                  *)
(***************************************************************************)
Process(c) ==
    /\ scan[c] = <<>>
    /\ conn[c].stream # <<>>
    /\ LET stream == conn[c].stream
           m == stream[1]
           AddBulkRecords(last) ==
               /\ log' = [r \in Records |-> log[r] + IF r \in ToSet(m.items) THEN 1 ELSE 0]
               /\ scan' = [scan EXCEPT ![c] = m.items]
               /\ conn' = [conn EXCEPT ![c].stream = SubSeq(@, last + 1, Len(@))]
               /\ UNCHANGED lost
           Garbage(last) ==
               /\ lost' = lost \cup Carried(SubSeq(stream, 1, last))
               /\ conn' = [conn EXCEPT ![c].stream = SubSeq(@, last + 1, Len(@))]
               /\ UNCHANGED <<log, scan>>
       IN  \/ m.part = "whole" /\ AddBulkRecords(1)
           \/ /\ m.part # "whole"
              /\ \/ \E i \in EndOf(stream) : IF i = 2 THEN AddBulkRecords(2) ELSE Garbage(i)
                 \/ EndOf(stream) = {} /\ conn[c].state # "open" /\ Garbage(Len(stream))
    /\ UNCHANGED <<writer, dumped, faults, due>>

InLog == {r \in Records : log[r] > 0}

(* Mutant of Scan: the log is dumped before the items are added to it. *)
ScanFirst(c) ==
    /\ scan[c] # <<>>
    /\ dumped' = [d \in Dumplogs |-> IF d \in ToSet(scan[c]) THEN InLog \ ToSet(scan[c]) ELSE dumped[d]]
    /\ scan' = [scan EXCEPT ![c] = <<>>]
    /\ UNCHANGED <<writer, conn, log, faults, lost, due>>

(* The scan of the items, from the last: DumpLog writes all the log for each DUMPLOG. *)
Scan(c) ==
    /\ scan[c] # <<>>
    /\ dumped' = [d \in Dumplogs |-> IF d \in ToSet(scan[c]) THEN InLog ELSE dumped[d]]
    /\ scan' = [scan EXCEPT ![c] = <<>>]
    /\ UNCHANGED <<writer, conn, log, faults, lost, due>>

(* What is left of a stream that ends: nobody reads it. *)
Ended(c, kept) ==
    /\ conn' = [conn EXCEPT ![c].state = IF @ = "open" THEN "lost" ELSE @, ![c].stream = kept]
    /\ lost' = lost \cup (Carried(conn[c].stream) \ Carried(kept))

(***************************************************************************)
(* File.Create throws an IOException, which Process takes for the end of   *)
(* its connection: it closes the connection.                               *)
(***************************************************************************)
DumpFails(c) ==
    /\ \E i \in DOMAIN scan[c] :
         /\ scan[c][i] \in Dumplogs
         /\ dumped' = [d \in Dumplogs |->
                         IF \E j \in DOMAIN scan[c] : j > i /\ scan[c][j] = d THEN InLog ELSE dumped[d]]
    /\ scan' = [scan EXCEPT ![c] = <<>>]
    /\ Ended(c, <<>>)
    /\ UNCHANGED <<writer, log, faults, due>>

(* The connection breaks: the messages that are on their way arrive up to some point. *)
Break(c) ==
    /\ conn[c].state = "open"
    /\ faults < MaxFaults
    /\ faults' = faults + 1
    /\ \E n \in 0 .. Len(conn[c].stream) : Ended(c, SubSeq(conn[c].stream, 1, n))
    /\ UNCHANGED <<writer, server, due>>

(* Nothing is left of a connection, no send and no message, and it is not the *)
(* client: the collector takes it, and the name may be used again.            *)
Forget(c) ==
    /\ conn[c].state \in {"open", "lost", "closed"}
    /\ c # client /\ conn[c].sending = <<>> /\ scan[c] = <<>> /\ conn[c].stream = <<>>
    /\ conn' = [conn EXCEPT ![c] = Free]
    /\ UNCHANGED <<writer, server, faults, lost, due>>

-----------------------------------------------------------------------------
KeepConnected == Check \/ Connect \/ Count \/ PopAndWrite

Next ==
    \/ \E r \in Records : WriteRecord(r) \/ WriteDirect(r)
    \/ KeepConnected
    \/ ConnectFails
    \/ \E c \in Conns :
         \/ Transmit(c) \/ WriteFails(c)
         \/ Process(c) \/ Scan(c) \/ DumpFails(c)
         \/ Break(c) \/ Forget(c)

Spec == Init /\ [][Next]_vars

FairSpec ==
    /\ Spec
    /\ \A r \in Records : WF_vars(WriteDirect(r))
    /\ WF_vars(KeepConnected)
    /\ \A c \in Conns :
         /\ WF_vars(Transmit(c) \/ WriteFails(c))
         /\ WF_vars(Process(c))
         /\ WF_vars(Scan(c) \/ DumpFails(c))
         /\ WF_vars(Forget(c))

-----------------------------------------------------------------------------
(* The state is of its type: an array that is sent has no empty slot. *)
TypeOK ==
    /\ at \in [Records -> {"unborn", "connected", "written"}]
    /\ logs \in Seq(Records)
    /\ client \in Conns \cup {NoClient}
    /\ loop \in [at : {"check", "connect", "count", "pop"}, size : Nat]
    /\ conn \in [Conns -> Conn]
    /\ scan \in [Conns -> Seq(Records)]
    /\ log \in [Records -> Nat]
    /\ dumped \in [Dumplogs -> SUBSET Records]
    /\ faults \in 0 .. MaxFaults
    /\ lost \subseteq Records
    /\ due \in [Dumplogs -> SUBSET Records]

Sends(r, c) == {i \in DOMAIN conn[c].sending : r \in ToSet(conn[c].sending[i].items)}
Arriving(r, c) == {i \in DOMAIN conn[c].stream :
    conn[c].stream[i].part # "first" /\ r \in ToSet(conn[c].stream[i].items)}

(* The places of a record that is neither in the log nor lost. *)
Places(r) ==
    {<<"logs", NoClient, i>> : i \in {j \in DOMAIN logs : logs[j] = r}} \cup
    UNION {{<<"sending", c, i>> : i \in Sends(r, c)} \cup {<<"stream", c, i>> : i \in Arriving(r, c)} :
           c \in Conns}

(***************************************************************************)
(* Between the stack, the sends, the connections and the log no record     *)
(* disappears and none is doubled: what WriteRecord was given is in one    *)
(* place, or a connection took it and did not deliver it.  So the log      *)
(* never holds a record twice, although failed writes are repeated and a   *)
(* write that fails on an old client closes the new one.                   *)
(***************************************************************************)
RecordsKept ==
    \A r \in Records : at[r] = "written" =>
        Cardinality(Places(r)) + log[r] + Cardinality({r} \cap lost) = 1

(***************************************************************************)
(* The file of a DUMPLOG holds what was sent ahead of it on its connection *)
(* and, when it was sent in a batch, all of that batch, which the stack    *)
(* has reversed; the rest of the stack it need not hold.                   *)
(***************************************************************************)
DumpHoldsEarlier ==
    \A d \in Dumplogs : dumped[d] # {} => due[d] \ lost \subseteq dumped[d]

(* The write of an old client fails, and the client that is closed is a later one. *)
ClosesAnother == \E c \in Conns \ {client} : WriteFails(c)

(***************************************************************************)
(* Every record reaches the log or goes down with a connection: none stays *)
(* on the stack or in a send, whatever breaks, fills up or is closed,      *)
(* unless failing writes of old clients close new clients for ever.        *)
(***************************************************************************)
EveryRecordArrives ==
    <>[][~ClosesAnother]_vars =>
        \A r \in Records : at[r] # "unborn" ~> log[r] > 0 \/ r \in lost
=============================================================================
