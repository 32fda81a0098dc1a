------------------------- MODULE ConnectionsProofs -------------------------
(***************************************************************************)
(* Theorems about Connections, for any number of commands in flight, of    *)
(* connections, of turns of the ten-second loop, and of breaks and crashes.*)
(***************************************************************************)
EXTENDS Connections, FiniteSetTheorems, TLAPS

(***************************************************************************)
(* Nothing that a handler or the dictionary refers to is free.  Only the   *)
(* handler that has made a connection connects it, and the dictionary      *)
(* never holds one that was disposed.                                      *)
(***************************************************************************)
Holding == {"remove", "connect", "send", "reading"}

Refers(h) ==
    /\ h.at \in Holding => h.using # None
    /\ h.using # None => conn[h.using].state # "unused"
    /\ h.at = "connect" => conn[h.using].state = "new"
    /\ h.at = "reading" => conn[h.using].state \in {"open", "lost", "dead"}

References ==
    /\ entry # None => conn[entry].state # "unused" /\ ~conn[entry].disposed
    /\ \A r \in Requests : Refers(handler[r])
    /\ \A r, q \in Requests :
         /\ handler[r].at = "connect" /\ handler[q].at = "connect"
         /\ handler[r].using = handler[q].using
         => r = q

(***************************************************************************)
(* What is on its way over a connection k that the handlers in readers are *)
(* reading.  Unless two have read from it, it carries at most the command  *)
(* of its one reader, or the answer to it; what nobody reads any more is   *)
(* left only on a dead connection, where nobody will.                      *)
(***************************************************************************)
Empty(k) == k.toServer = <<>> /\ k.toClient = <<>>
Carries(k, r) ==
    \/ k.toServer = <<r>> /\ k.toClient = <<>>
    \/ k.toServer = <<>> /\ k.toClient = <<r>>

Tidy(k, readers) ==
    /\ k.state \in {"unused", "new", "failed"} => Empty(k) /\ ~k.mixed
    /\ ~k.mixed =>
         /\ Empty(k) \/ \E r \in Requests : Carries(k, r)
         /\ \A r \in readers : Empty(k) \/ Carries(k, r)
         /\ \A r, q \in readers : r = q
         /\ readers = {} => Empty(k) \/ k.state = "dead"

(* Whoever has to do with a connection that two have read from knows it. *)
Marked(k, readers) ==
    k.mixed => /\ \A r \in readers : mixed[r]
               /\ \A j \in DOMAIN k.toServer : mixed[k.toServer[j]]

Answers(k) == \A j \in DOMAIN k.toClient : runs[k.toClient[j]] > 0

Orderly(k, readers) == Tidy(k, readers) /\ Marked(k, readers) /\ Answers(k)

(***************************************************************************)
(* How often r was carried out, and the connections on which it still will *)
(* be: each but one of these sendings ended with its connection.           *)
(***************************************************************************)
Pending(r) == {c \in Conns : conn[c].toServer # <<>> /\ Head(conn[c].toServer) = r}

Accounted(r) ==
    ~mixed[r] =>
      /\ IsFiniteSet(Pending(r))
      /\ runs[r] + Cardinality(Pending(r))
           <= broken[r] + IF handler[r].at \in {"reading", "done"} THEN 1 ELSE 0

Inv ==
    /\ TypeOK
    /\ References
    /\ \A c \in Conns : Orderly(conn[c], Reading(c))
    /\ \A r \in Requests : Accounted(r)
    /\ OwnAnswer

(***************************************************************************)
(* A command that has met nothing: it is alone with the connections, its   *)
(* first turn can fail only by the write to a stale one, which is dead     *)
(* then, and its second turn makes a connection of its own.                *)
(***************************************************************************)
Stale == entry # None /\ conn[entry].state = "lost"

Path(h) ==
    /\ h.tries \in {0, 1}
    /\ h.tries = 1 => ~Stale
    /\ h.at \in {"connect", "send"} => entry = h.using
    /\ h.at = "send" => conn[entry].state \in {"open", "lost"}
    /\ h.at = "add" => entry = None
    /\ h.at = "pause" => ~Stale /\ h.tries = 0
    /\ h.at = "reading" => conn[h.using].state = "open" /\ ~conn[h.using].disposed
    /\ h.at # "backoff"

Calmed(r) ==
    /\ handler[r].at = "idle" => broken[r] = 0 /\ handler[r].tries = 0
    /\ calm[r] /\ ~mixed[r] =>
         /\ broken[r] = 0
         /\ r \in Running => up /\ (\A q \in Running : q = r) /\ Path(handler[r])
         /\ handler[r].at = "done" => reply[r] = r

CalmInv == Inv /\ \A r \in Requests : Calmed(r)

-----------------------------------------------------------------------------
(* The handler of r becomes h; the others stay. *)
Moves(r, h) ==
    /\ h \in Handler
    /\ handler' \in [Requests -> Handler]
    /\ handler'[r] = h
    /\ \A q \in Requests \ {r} : handler'[q] = handler[q]

(* Connection c becomes k; the others stay. *)
Changes(c, k) ==
    /\ k \in Conn
    /\ conn' \in [Conns -> Conn]
    /\ conn'[c] = k
    /\ \A d \in Conns \ {c} : conn'[d] = conn[d]

LEMMA HandlerMoves ==
    ASSUME handler \in [Requests -> Handler], NEW r \in Requests, NEW h \in Handler,
           handler' = [handler EXCEPT ![r] = h]
    PROVE  Moves(r, h)
BY DEF Moves

LEMMA ConnChanges ==
    ASSUME conn \in [Conns -> Conn], NEW c \in Conns, NEW k \in Conn,
           conn' = [conn EXCEPT ![c] = k]
    PROVE  Changes(c, k)
BY DEF Changes

(* The handlers with fields that the actions set. *)
LEMMA AtMoves ==
    ASSUME handler \in [Requests -> Handler], NEW r \in Requests, NEW p \in Positions,
           Goto(r, p)
    PROVE  \E h : Moves(r, h) /\ h.at = p /\ h.using = handler[r].using /\ h.tries = handler[r].tries
                  /\ h.i = handler[r].i /\ h.found = handler[r].found
<1>. DEFINE h == [handler[r] EXCEPT !.at = p]
<1>1. /\ h \in Handler /\ h.at = p /\ h.using = handler[r].using /\ h.tries = handler[r].tries
      /\ h.i = handler[r].i /\ h.found = handler[r].found
  BY DEF Handler
<1>2. handler' = [handler EXCEPT ![r] = h]
  BY DEF Goto
<1>. HIDE DEF h
<1>. QED  BY <1>1, <1>2, HandlerMoves

(* Add and Connect: the handler goes on with connection c. *)
Takes(r, c, position) ==
    handler' = [handler EXCEPT ![r].using = c, ![r].at = position]

LEMMA UseMoves ==
    ASSUME handler \in [Requests -> Handler], NEW r \in Requests, NEW p \in Positions,
           NEW c \in Conns \cup {None},
           Takes(r, c, p)
    PROVE  \E h : Moves(r, h) /\ h.at = p /\ h.using = c /\ h.tries = handler[r].tries
                  /\ h.i = handler[r].i /\ h.found = handler[r].found
<1>. DEFINE h == [handler[r] EXCEPT !.using = c, !.at = p]
<1>1. /\ h \in Handler /\ h.at = p /\ h.using = c /\ h.tries = handler[r].tries
      /\ h.i = handler[r].i /\ h.found = handler[r].found
  BY DEF Handler
<1>2. handler' = [handler EXCEPT ![r] = h]
  BY DEF Takes
<1>. HIDE DEF h
<1>. QED  BY <1>1, <1>2, HandlerMoves

LEMMA ReleaseMoves ==
    ASSUME handler \in [Requests -> Handler], NEW r \in Requests, NEW p \in Positions,
           Release(r, p)
    PROVE  \E h : Moves(r, h) /\ h.at = p /\ h.using = None /\ h.tries = handler[r].tries
                  /\ h.i = handler[r].i /\ h.found = handler[r].found
<1>. DEFINE h == [handler[r] EXCEPT !.at = p, !.using = None]
<1>1. /\ h \in Handler /\ h.at = p /\ h.using = None /\ h.tries = handler[r].tries
      /\ h.i = handler[r].i /\ h.found = handler[r].found
  BY DEF Handler
<1>2. handler' = [handler EXCEPT ![r] = h]
  BY DEF Release
<1>. HIDE DEF h
<1>. QED  BY <1>1, <1>2, HandlerMoves

LEMMA FreshHandler ==
    /\ Fresh \in Handler
    /\ Fresh.using = None /\ Fresh.tries = 0
<1>1. 0 \in 0 .. MaxTries - 1 /\ 0 \in 0 .. Attempts - 1
  BY BoundsAssumption DEF Attempts
<1>. QED  BY <1>1 DEF Handler, Fresh, Positions

LEMMA RetryMoves ==
    ASSUME handler \in [Requests -> Handler], NEW r \in Requests, Retry(r)
    PROVE  \E h : Moves(r, h) /\ h.at = "pause" /\ h.using = None /\ h.tries = handler[r].tries
<1>. DEFINE h == [Fresh EXCEPT !.at = "pause", !.tries = handler[r].tries]
<1>1. h \in Handler /\ h.at = "pause" /\ h.using = None /\ h.tries = handler[r].tries
  BY FreshHandler DEF Handler, Positions
<1>2. handler' = [handler EXCEPT ![r] = h]
  BY DEF Retry
<1>. HIDE DEF h
<1>. QED  BY <1>1, <1>2, HandlerMoves

LEMMA ReturnMoves ==
    ASSUME handler \in [Requests -> Handler], NEW r \in Requests, Return(r)
    PROVE  \E h : Moves(r, h) /\ h.at = "done" /\ h.using = None /\ h.tries = 0
<1>. DEFINE h == [Fresh EXCEPT !.at = "done"]
<1>1. h \in Handler /\ h.at = "done" /\ h.using = None /\ h.tries = 0
  BY FreshHandler DEF Handler, Positions
<1>2. handler' = [handler EXCEPT ![r] = h]
  BY DEF Return
<1>. HIDE DEF h
<1>. QED  BY <1>1, <1>2, HandlerMoves
-----------------------------------------------------------------------------
(* What an invariant state says of one handler and one connection. *)
LEMMA Typed ==
    ASSUME TypeOK
    PROVE  /\ \A r \in Requests :
                /\ handler[r] \in Handler
                /\ handler[r].at \in Positions /\ handler[r].using \in Conns \cup {None}
                /\ handler[r].tries \in 0 .. MaxTries - 1 /\ handler[r].i \in 0 .. Attempts - 1
                /\ handler[r].found \in BOOLEAN
                /\ runs[r] \in Nat /\ broken[r] \in Nat /\ mixed[r] \in BOOLEAN
           /\ \A c \in Conns :
                /\ conn[c] \in Conn
                /\ conn[c].toServer \in Seq(Requests) /\ conn[c].toClient \in Seq(Requests)
                /\ conn[c].mixed \in BOOLEAN /\ conn[c].disposed \in BOOLEAN
BY DEF TypeOK, Handler, Conn

(***************************************************************************)
(* A handler that neither reads nor returns after it has read changes      *)
(* nothing about who reads and what is outstanding.                        *)
(***************************************************************************)
LEMMA Apart ==
    ASSUME Inv, NEW r \in Requests, NEW h, Moves(r, h),
           handler[r].at \notin {"reading", "done"}, h.at # "reading",
           \A c \in Conns : conn'[c].toServer = conn[c].toServer /\ Orderly(conn'[c], Reading(c)),
           UNCHANGED <<mixed, runs, broken>>
    PROVE  /\ (\A c \in Conns : Orderly(conn[c], Reading(c)))'
           /\ (\A q \in Requests : Accounted(q))'
<1>1. \A c \in Conns : Reading(c)' = Reading(c)
  BY DEF Reading, Moves
<1>2. ASSUME NEW c \in Conns PROVE Orderly(conn[c], Reading(c))'
  <2>1. Orderly(conn'[c], Reading(c))
    OBVIOUS
  <2>. QED  BY <1>1, <2>1 DEF Orderly, Tidy, Marked, Answers, Empty, Carries
<1>3. \A q \in Requests : Pending(q)' = Pending(q)
  BY DEF Pending
<1>4. ASSUME NEW q \in Requests PROVE Accounted(q)'
  <2>1. /\ runs[q] \in Nat /\ broken[q] \in Nat
        /\ mixed'[q] = mixed[q] /\ runs'[q] = runs[q] /\ broken'[q] = broken[q]
    BY Typed DEF Inv
  <2>2. SUFFICES ASSUME ~mixed[q]
                 PROVE  /\ IsFiniteSet(Pending(q)')
                        /\ runs[q] + Cardinality(Pending(q)')
                             <= broken[q] + IF handler'[q].at \in {"reading", "done"} THEN 1 ELSE 0
    BY <2>1 DEF Accounted
  <2>3. /\ IsFiniteSet(Pending(q))
        /\ runs[q] + Cardinality(Pending(q))
             <= broken[q] + IF handler[q].at \in {"reading", "done"} THEN 1 ELSE 0
    BY <2>2 DEF Inv, Accounted
  <2>4. handler'[q].at = handler[q].at \/ handler[q].at \notin {"reading", "done"}
    BY DEF Moves
  <2>5. PICK n \in Nat : n = Cardinality(Pending(q))
    BY <2>3, FS_CardinalityType
  <2>. QED  BY <1>3, <2>1, <2>3, <2>4, <2>5
<1>. QED  BY <1>2, <1>4

(***************************************************************************)
(* The references stay right in every step but the making of a connection: *)
(* a handler comes to nothing but its own connection and the dictionary's. *)
(***************************************************************************)
Established == {"open", "lost", "dead"}

LEMMA Referred ==
    ASSUME Inv,
           \A c \in Conns : \/ conn'[c].state = conn[c].state
                            \/ conn[c].state \in Established /\ conn'[c].state \in Established
                            \/ /\ conn[c].state = "new" /\ conn'[c].state # "unused"
                               /\ \A q \in Requests : handler'[q].at = "connect" => handler'[q].using # c,
           \/ entry' = None
           \/ entry' = entry /\ \A c \in Conns : conn'[c].disposed = conn[c].disposed,
           \A q \in Requests :
              \/ handler'[q] = handler[q]
              \/ /\ handler'[q].at # "connect"
                 /\ handler'[q].at \in Holding => handler'[q].using # None
                 /\ handler'[q].using # None =>
                      handler'[q].using = handler[q].using \/ handler'[q].using = entry
                 /\ handler'[q].at = "reading" => conn'[handler'[q].using].state \in Established
    PROVE  References'
<1>1. entry \in Conns \cup {None} /\ \A q \in Requests : handler[q].using \in Conns \cup {None}
  BY Typed DEF Inv, TypeOK
<1>2. (entry # None => conn[entry].state # "unused" /\ ~conn[entry].disposed)'
  <2>. SUFFICES ASSUME entry' # None
                PROVE  conn'[entry'].state # "unused" /\ ~conn'[entry'].disposed
    OBVIOUS
  <2>. QED  BY <1>1 DEF Inv, References, Established
<1>3. ASSUME NEW q \in Requests PROVE Refers(handler[q])'
  <2>1. Refers(handler[q])
    BY DEF Inv, References
  <2>2. CASE handler'[q] = handler[q]
    BY <1>1, <2>1, <2>2 DEF Refers, Established, Holding
  <2>3. CASE handler'[q] # handler[q]
    BY <1>1, <2>1, <2>3 DEF Refers, Established, Inv, References
  <2>. QED  BY <2>2, <2>3
<1>4. ASSUME NEW p \in Requests, NEW q \in Requests,
             handler'[p].at = "connect", handler'[q].at = "connect", handler'[p].using = handler'[q].using
      PROVE  p = q
  <2>1. handler'[p] = handler[p] /\ handler'[q] = handler[q]
    BY <1>4
  <2>. QED  BY <1>4, <2>1 DEF Inv, References
<1>. QED  BY <1>2, <1>3, <1>4 DEF References

(* The same for a step of one handler that leaves the connections alone. *)
LEMMA Steps ==
    ASSUME Inv, NEW r \in Requests, NEW h, Moves(r, h),
           handler[r].at \notin {"reading", "done"}, h.at \notin {"reading", "connect"},
           h.at \in Holding => h.using # None,
           h.using # None => h.using = handler[r].using \/ h.using = entry,
           entry' = entry \/ entry' = None,
           UNCHANGED <<conn, mixed, runs, broken>>
    PROVE  /\ References'
           /\ (\A c \in Conns : Orderly(conn[c], Reading(c)))'
           /\ (\A q \in Requests : Accounted(q))'
<1>1. \A q \in Requests : q # r => handler'[q] = handler[q]
  BY DEF Moves
<1>2. handler'[r] = h
  BY DEF Moves
<1>3. References'
  BY <1>1, <1>2, Referred
<1>4. \A c \in Conns : Orderly(conn'[c], Reading(c))
  BY DEF Inv
<1>. QED  BY <1>3, <1>4, Apart
LEMMA Refused ==
    ASSUME Inv, NEW r \in Requests,
           UNCHANGED reply \/ reply' = [reply EXCEPT ![r] = Unavailable],
           UNCHANGED <<mixed, runs>>
    PROVE  OwnAnswer' /\ (reply \in [Requests -> Requests \cup {Waiting, Unavailable}])'
<1>1. reply \in [Requests -> Requests \cup {Waiting, Unavailable}] /\ OwnAnswer
  BY DEF Inv, TypeOK
<1>2. \A q \in Requests : reply'[q] = reply[q] \/ reply'[q] = Unavailable
  BY <1>1
<1>3. Unavailable \notin Requests
  BY NamesAssumption
<1>4. OwnAnswer'
  BY <1>1, <1>2, <1>3 DEF OwnAnswer
<1>. QED  BY <1>1, <1>4

LEMMA StepIssue == ASSUME Inv, NEW r \in Requests, Issue(r) PROVE Inv'
<1>. USE DEF service, history
<1>1. TypeOK
  BY DEF Inv
<1>2. PICK h : Moves(r, h) /\ h.at = "lookup" /\ h.using = handler[r].using
  <2>1. "lookup" \in Positions
    BY DEF Positions
  <2>2. handler \in [Requests -> Handler]
    BY <1>1 DEF TypeOK
  <2>3. Goto(r, "lookup")
    BY DEF Issue
  <2>. QED  BY <2>1, <2>2, <2>3, AtMoves
<1>3. /\ References'
      /\ (\A c \in Conns : Orderly(conn[c], Reading(c)))'
      /\ (\A q \in Requests : Accounted(q))'
  BY <1>2, Steps DEF Issue, Holding
<1>4. calm' \in [Requests -> BOOLEAN]
  BY <1>1 DEF Issue, TypeOK
<1>5. TypeOK'
  BY <1>1, <1>2, <1>4 DEF Issue, TypeOK, Moves
<1>6. OwnAnswer'
  BY Refused DEF Issue
<1>. QED  BY <1>3, <1>5, <1>6 DEF Inv

LEMMA StepPause == ASSUME Inv, NEW r \in Requests, Pause(r) PROVE Inv'
<1>. USE DEF service, history
<1>1. TypeOK
  BY DEF Inv
<1>2. PICK h : Moves(r, h) /\ h.at \in {"lookup", "done"} /\ (h.using # None => h.using = handler[r].using)
  <2>1. CASE Refuse(r)
    BY <1>1, <2>1, ReturnMoves DEF Refuse, TypeOK
  <2>2. CASE ~Refuse(r)
    <3>. DEFINE h == [handler[r] EXCEPT !.at = "lookup", !.tries = @ + 1]
    <3>1. handler' = [handler EXCEPT ![r] = h] /\ handler[r].tries + 1 < MaxTries
      BY <2>2 DEF Pause
    <3>2. handler[r].tries + 1 \in 0 .. MaxTries - 1
      BY <1>1, <3>1, Typed, BoundsAssumption
    <3>3. h \in Handler /\ h.at = "lookup" /\ h.using = handler[r].using
      BY <1>1, <3>2, Typed DEF Handler, Positions
    <3>. HIDE DEF h
    <3>. QED  BY <1>1, <3>1, <3>3, HandlerMoves DEF TypeOK
  <2>. QED  BY <2>1, <2>2
<1>3. /\ References'
      /\ (\A c \in Conns : Orderly(conn[c], Reading(c)))'
      /\ (\A q \in Requests : Accounted(q))'
  BY <1>2, Steps DEF Pause, Holding
<1>4. calm' \in [Requests -> BOOLEAN]
  BY <1>1 DEF Pause, TypeOK
<1>5. OwnAnswer' /\ (reply \in [Requests -> Requests \cup {Waiting, Unavailable}])'
  BY Refused DEF Pause, Refuse
<1>6. TypeOK'
  BY <1>1, <1>2, <1>4, <1>5 DEF Pause, TypeOK, Moves
<1>. QED  BY <1>3, <1>5, <1>6 DEF Inv

LEMMA LookupMoves ==
    ASSUME TypeOK, NEW r \in Requests, Lookup(r)
    PROVE  \E h : /\ Moves(r, h) /\ h.using = entry /\ h.tries = handler[r].tries
                  /\ Connected(entry) => h.at = "send"
                  /\ ~Connected(entry) /\ entry = None => h.at = "add"
                  /\ ~Connected(entry) /\ entry # None => h.at = "remove"
<1>. DEFINE p == IF Connected(entry) THEN "send" ELSE IF entry = None THEN "add" ELSE "remove"
            b == entry # None
            h == [handler[r] EXCEPT !.found = b, !.using = entry, !.i = 0, !.at = p]
<1>1. p \in Positions /\ b \in BOOLEAN /\ 0 \in 0 .. Attempts - 1 /\ entry \in Conns \cup {None}
  BY DEF Positions, Attempts, TypeOK
<1>2. /\ Connected(entry) => p = "send"
      /\ ~Connected(entry) /\ entry = None => p = "add"
      /\ ~Connected(entry) /\ entry # None => p = "remove"
  OBVIOUS
<1>3. handler' = [handler EXCEPT ![r] = h]
  BY DEF Lookup
<1>. HIDE DEF p, b
<1>4. h \in Handler /\ h.using = entry /\ h.tries = handler[r].tries /\ h.at = p
  BY <1>1, Typed DEF Handler
<1>. HIDE DEF h
<1>5. Moves(r, h)
  BY <1>3, <1>4, HandlerMoves DEF TypeOK
<1>. QED  BY <1>2, <1>4, <1>5

LEMMA StepLookup == ASSUME Inv, NEW r \in Requests, Lookup(r) PROVE Inv'
<1>. USE DEF service, history
<1>1. TypeOK
  BY DEF Inv
<1>2. PICK h : /\ Moves(r, h) /\ h.using = entry
               /\ Connected(entry) => h.at = "send"
               /\ ~Connected(entry) /\ entry = None => h.at = "add"
               /\ ~Connected(entry) /\ entry # None => h.at = "remove"
  BY <1>1, LookupMoves
<1>3. h.at \in {"send", "add", "remove"} /\ (h.at \in Holding => h.using # None)
  BY <1>2 DEF Holding, Connected
<1>4. /\ References'
      /\ (\A c \in Conns : Orderly(conn[c], Reading(c)))'
      /\ (\A q \in Requests : Accounted(q))'
  BY <1>2, <1>3, Steps DEF Lookup
<1>5. TypeOK'
  BY <1>1, <1>2 DEF Lookup, TypeOK, Moves
<1>6. OwnAnswer'
  BY Refused DEF Lookup
<1>. QED  BY <1>4, <1>5, <1>6 DEF Inv

LEMMA StepAddThrows == ASSUME Inv, NEW r \in Requests, AddThrows(r) PROVE Inv'
<1>. USE DEF service, history
<1>1. TypeOK
  BY DEF Inv
<1>2. PICK h : Moves(r, h) /\ h.at = "done" /\ h.using = None
  BY <1>1, ReturnMoves DEF AddThrows, Refuse, TypeOK
<1>3. /\ References'
      /\ (\A c \in Conns : Orderly(conn[c], Reading(c)))'
      /\ (\A q \in Requests : Accounted(q))'
  BY <1>2, Steps DEF AddThrows, Holding
<1>4. OwnAnswer' /\ (reply \in [Requests -> Requests \cup {Waiting, Unavailable}])'
  BY Refused DEF AddThrows, Refuse
<1>5. TypeOK'
  BY <1>1, <1>2, <1>4 DEF AddThrows, TypeOK, Moves
<1>. QED  BY <1>3, <1>4, <1>5 DEF Inv

LEMMA StepBackoff == ASSUME Inv, NEW r \in Requests, Backoff(r) PROVE Inv'
<1>. USE DEF service, history
<1>1. TypeOK
  BY DEF Inv
<1>2. PICK h : /\ Moves(r, h) /\ h.at \in {"add", "pause", "done"}
               /\ h.using # None => h.using = handler[r].using
  <2>1. CASE Refuse(r)
    BY <1>1, <2>1, ReturnMoves DEF Refuse, TypeOK
  <2>2. CASE Retry(r)
    BY <1>1, <2>2, RetryMoves DEF TypeOK
  <2>3. CASE ~Refuse(r) /\ ~Retry(r)
    <3>. DEFINE h == [handler[r] EXCEPT !.at = "add", !.i = @ + 1]
    <3>1. handler' = [handler EXCEPT ![r] = h] /\ handler[r].i + 1 < Attempts
      BY <2>3 DEF Backoff
    <3>2. handler[r].i + 1 \in 0 .. Attempts - 1
      BY <1>1, <3>1, Typed DEF Attempts
    <3>3. h \in Handler /\ h.at = "add" /\ h.using = handler[r].using
      BY <1>1, <3>2, Typed DEF Handler, Positions
    <3>. HIDE DEF h
    <3>. QED  BY <1>1, <3>1, <3>3, HandlerMoves DEF TypeOK
  <2>. QED  BY <2>1, <2>2, <2>3
<1>3. entry' \in {entry, None}
  BY DEF Backoff
<1>4. /\ References'
      /\ (\A c \in Conns : Orderly(conn[c], Reading(c)))'
      /\ (\A q \in Requests : Accounted(q))'
  BY <1>2, <1>3, Steps DEF Backoff, Holding
<1>5. OwnAnswer' /\ (reply \in [Requests -> Requests \cup {Waiting, Unavailable}])'
  BY Refused DEF Backoff, Refuse
<1>6. TypeOK'
  BY <1>1, <1>2, <1>3, <1>5 DEF Backoff, TypeOK, Moves
<1>. QED  BY <1>4, <1>5, <1>6 DEF Inv
(***************************************************************************)
(* Connections with fields that the actions set.                           *)
(***************************************************************************)
Becomes(c, s) == conn' = [conn EXCEPT ![c].state = s]

LEMMA StateChanges ==
    ASSUME conn \in [Conns -> Conn], NEW c \in Conns,
           NEW s \in {"unused", "new", "failed", "open", "lost", "dead"},
           Becomes(c, s)
    PROVE  \E k : /\ Changes(c, k) /\ k.state = s
                  /\ k.toServer = conn[c].toServer /\ k.toClient = conn[c].toClient
                  /\ k.disposed = conn[c].disposed /\ k.mixed = conn[c].mixed
<1>. DEFINE k == [conn[c] EXCEPT !.state = s]
<1>1. /\ k \in Conn /\ k.state = s
      /\ k.toServer = conn[c].toServer /\ k.toClient = conn[c].toClient
      /\ k.disposed = conn[c].disposed /\ k.mixed = conn[c].mixed
  BY DEF Conn
<1>2. conn' = [conn EXCEPT ![c] = k]
  BY DEF Becomes
<1>. HIDE DEF k
<1>. QED  BY <1>1, <1>2, ConnChanges

LEMMA DisposeChanges ==
    ASSUME conn \in [Conns -> Conn], NEW c \in Conns,
           conn' = [conn EXCEPT ![c].disposed = TRUE]
    PROVE  \E k : /\ Changes(c, k) /\ k.state = conn[c].state
                  /\ k.toServer = conn[c].toServer /\ k.toClient = conn[c].toClient
                  /\ k.mixed = conn[c].mixed
<1>. DEFINE k == [conn[c] EXCEPT !.disposed = TRUE]
<1>1. /\ k \in Conn /\ k.state = conn[c].state
      /\ k.toServer = conn[c].toServer /\ k.toClient = conn[c].toClient
      /\ k.mixed = conn[c].mixed
  BY DEF Conn
<1>2. conn' = [conn EXCEPT ![c] = k]
  OBVIOUS
<1>. HIDE DEF k
<1>. QED  BY <1>1, <1>2, ConnChanges

LEMMA StepRemove == ASSUME Inv, NEW r \in Requests, Remove(r) PROVE Inv'
<1>. USE DEF service, history
<1>1. TypeOK
  BY DEF Inv
<1>2. PICK h : Moves(r, h) /\ h.at = "add" /\ h.using = None
  <2>1. "add" \in Positions
    BY DEF Positions
  <2>. QED  BY <1>1, <2>1, ReleaseMoves DEF Remove, TypeOK
<1>3. PICK c \in Conns : c = handler[r].using
  BY <1>1, Typed DEF Inv, References, Refers, Holding, Remove
<1>4. PICK k : /\ Changes(c, k) /\ k.state = conn[c].state
               /\ k.toServer = conn[c].toServer /\ k.toClient = conn[c].toClient
               /\ k.mixed = conn[c].mixed
  BY <1>1, <1>3, DisposeChanges DEF Remove, TypeOK
<1>5. References'
  <2>1. \A d \in Conns : conn'[d].state = conn[d].state
    BY <1>4 DEF Changes
  <2>2. \A q \in Requests : handler'[q] = handler[q] \/ handler'[q] = h
    BY <1>2 DEF Moves
  <2>. QED  BY <1>2, <2>1, <2>2, Referred DEF Remove, Holding
<1>6. \A d \in Conns : conn'[d].toServer = conn[d].toServer /\ Orderly(conn'[d], Reading(d))
  <2>. SUFFICES ASSUME NEW d \in Conns
                PROVE  conn'[d].toServer = conn[d].toServer /\ Orderly(conn'[d], Reading(d))
    OBVIOUS
  <2>1. Orderly(conn[d], Reading(d))
    BY DEF Inv
  <2>2. CASE d = c
    BY <1>4, <2>1, <2>2 DEF Changes, Orderly, Tidy, Marked, Answers, Empty, Carries
  <2>3. CASE d # c
    BY <1>4, <2>1, <2>3 DEF Changes
  <2>. QED  BY <2>2, <2>3
<1>7. /\ (\A d \in Conns : Orderly(conn[d], Reading(d)))'
      /\ (\A q \in Requests : Accounted(q))'
  BY <1>2, <1>6, Apart DEF Remove
<1>8. TypeOK'
  BY <1>1, <1>2, <1>4 DEF Remove, TypeOK, Moves, Changes
<1>9. OwnAnswer'
  BY Refused DEF Remove
<1>. QED  BY <1>5, <1>7, <1>8, <1>9 DEF Inv

LEMMA AddNew ==
    ASSUME TypeOK, NEW r \in Requests, Add(r)
    PROVE  \E c \in Conns, k \in Conn, h \in Handler :
             /\ conn[c].state = "unused" \/ Unreferenced(c)
             /\ entry' = c /\ Changes(c, k) /\ Moves(r, h)
             /\ k.state = "new" /\ k.toServer = <<>> /\ k.toClient = <<>> /\ ~k.mixed /\ ~k.disposed
             /\ h.at = "connect" /\ h.using = c /\ h.tries = handler[r].tries
<1>. DEFINE free == {c \in Conns : conn[c].state = "unused" \/ Unreferenced(c)}
            new == CHOOSE c \in free : TRUE
            k == [Unused EXCEPT !.state = "new"]
<1>1. new \in free
  BY DEF Add
<1>2. new \in Conns /\ (conn[new].state = "unused" \/ Unreferenced(new))
  BY <1>1
<1>3. /\ k \in Conn /\ k.state = "new" /\ k.toServer = <<>> /\ k.toClient = <<>>
      /\ ~k.mixed /\ ~k.disposed
  <2>1. <<>> \in Seq(Requests)
    OBVIOUS
  <2>2. Unused \in Conn /\ Unused.toServer = <<>> /\ Unused.toClient = <<>>
        /\ ~Unused.mixed /\ ~Unused.disposed
    BY <2>1 DEF Conn, Unused
  <2>. QED  BY <2>2 DEF Conn
<1>4. conn' = [conn EXCEPT ![new] = k] /\ entry' = new
  BY DEF Add
<1>5. Takes(r, new, "connect")
  BY DEF Add, Takes
<1>. HIDE DEF new, k
<1>6. Changes(new, k)
  BY <1>2, <1>3, <1>4, ConnChanges DEF TypeOK
<1>7. "connect" \in Positions
  BY DEF Positions
<1>8. \E h : Moves(r, h) /\ h.at = "connect" /\ h.using = new /\ h.tries = handler[r].tries
  <2>1. handler \in [Requests -> Handler] /\ new \in Conns \cup {None}
    BY <1>2 DEF TypeOK
  <2>. QED  BY <1>5, <1>7, <2>1, UseMoves
<1>9. \E h \in Handler : Moves(r, h) /\ h.at = "connect" /\ h.using = new /\ h.tries = handler[r].tries
  BY <1>8 DEF Moves
<1>. QED  BY <1>2, <1>3, <1>4, <1>6, <1>9

LEMMA StepAdd == ASSUME Inv, NEW r \in Requests, Add(r) PROVE Inv'
<1>. USE DEF service, history
<1>1. TypeOK
  BY DEF Inv
<1>2. PICK c \in Conns, k \in Conn, h \in Handler :
             /\ conn[c].state = "unused" \/ Unreferenced(c)
             /\ entry' = c /\ Changes(c, k) /\ Moves(r, h)
             /\ k.state = "new" /\ k.toServer = <<>> /\ k.toClient = <<>> /\ ~k.mixed /\ ~k.disposed
             /\ h.at = "connect" /\ h.using = c
  BY <1>1, AddNew
<1>3. \A q \in Requests : Refers(handler[q]) /\ handler[q].using # c
  <2>1. c # None
    BY NamesAssumption
  <2>. QED  BY <1>2, <2>1 DEF Inv, References, Refers, Unreferenced
<1>4. \A q \in Requests \ {r} : handler'[q] = handler[q]
  BY <1>2 DEF Moves
<1>5. References'
  <2>1. entry' # None /\ conn'[entry'].state # "unused" /\ ~conn'[entry'].disposed
    BY <1>2, NamesAssumption DEF Changes
  <2>2. ASSUME NEW q \in Requests PROVE Refers(handler[q])'
    <3>1. CASE q = r
      <4>1. handler'[r] = h /\ conn'[c] = k
        BY <1>2 DEF Moves, Changes
      <4>. QED  BY <1>2, <3>1, <4>1, NamesAssumption DEF Refers
    <3>2. CASE q # r
      <4>1. handler'[q] = handler[q] /\ handler[q].using \in Conns \cup {None}
        BY <1>1, <1>4, <3>2, Typed
      <4>2. handler[q].using # None => conn'[handler[q].using] = conn[handler[q].using]
        BY <1>2, <1>3, <4>1 DEF Changes
      <4>. QED  BY <1>3, <4>1, <4>2 DEF Refers, Holding
    <3>. QED  BY <3>1, <3>2
  <2>3. ASSUME NEW p \in Requests, NEW q \in Requests,
               handler'[p].at = "connect", handler'[q].at = "connect", handler'[p].using = handler'[q].using
        PROVE  p = q
    <3>1. handler'[r].using = c
      BY <1>2 DEF Moves
    <3>. QED  BY <1>3, <1>4, <2>3, <3>1 DEF Inv, References
  <2>. QED  BY <2>1, <2>2, <2>3 DEF References
<1>6. \A d \in Conns : conn'[d].toServer = conn[d].toServer /\ Orderly(conn'[d], Reading(d))
  <2>. SUFFICES ASSUME NEW d \in Conns
                PROVE  conn'[d].toServer = conn[d].toServer /\ Orderly(conn'[d], Reading(d))
    OBVIOUS
  <2>1. Orderly(conn[d], Reading(d))
    BY DEF Inv
  <2>2. CASE d = c
    <3>1. Reading(c) = {} /\ conn'[c] = k
      BY <1>2, <1>3 DEF Reading, Changes
    <3>2. conn[c].toServer = <<>>
      BY <1>2, <2>1, <2>2 DEF Unreferenced, Orderly, Tidy, Empty
    <3>3. DOMAIN k.toClient = {}
      BY <1>2
    <3>. QED  BY <1>2, <2>2, <3>1, <3>2, <3>3 DEF Orderly, Tidy, Marked, Answers, Empty
  <2>3. CASE d # c
    BY <1>2, <2>1, <2>3 DEF Changes
  <2>. QED  BY <2>2, <2>3
<1>7. /\ (\A d \in Conns : Orderly(conn[d], Reading(d)))'
      /\ (\A q \in Requests : Accounted(q))'
  BY <1>2, <1>6, Apart DEF Add
<1>8. TypeOK'
  BY <1>1, <1>2 DEF Add, TypeOK, Moves, Changes
<1>9. OwnAnswer'
  BY Refused DEF Add
<1>. QED  BY <1>5, <1>7, <1>8, <1>9 DEF Inv
LEMMA StepConnect == ASSUME Inv, NEW r \in Requests, Connect(r) PROVE Inv'
<1>. USE DEF service, history
<1>1. TypeOK
  BY DEF Inv
<1>2. PICK h : Moves(r, h) /\ h.at \in {"send", "done"} /\ (h.at = "send" => h.using = entry /\ entry # None)
                 /\ (h.using # None => h.using = entry)
  <2>1. CASE entry = None
    <3>1. handler \in [Requests -> Handler] /\ Return(r)
      BY <1>1, <2>1 DEF Connect, Refuse, TypeOK
    <3>. QED  BY <3>1, ReturnMoves
  <2>2. CASE entry # None
    <3>1. handler \in [Requests -> Handler] /\ entry \in Conns \cup {None} /\ Takes(r, entry, "send")
      BY <1>1, <2>2 DEF Connect, TypeOK, Takes
    <3>2. "send" \in Positions
      BY DEF Positions
    <3>. QED  BY <2>2, <3>1, <3>2, UseMoves
  <2>. QED  BY <2>1, <2>2
<1>3. PICK c \in Conns : c = handler[r].using
  BY <1>1, Typed DEF Inv, References, Refers, Holding, Connect
<1>4. PICK k : /\ Changes(c, k) /\ k.state = "open"
               /\ k.toServer = conn[c].toServer /\ k.toClient = conn[c].toClient
               /\ k.disposed = conn[c].disposed /\ k.mixed = conn[c].mixed
  <2>1. Becomes(c, "open") /\ conn \in [Conns -> Conn]
    BY <1>1, <1>3 DEF Connect, Becomes, TypeOK
  <2>. QED  BY <2>1, StateChanges
<1>5. conn[c].state = "new"
  BY <1>3 DEF Inv, References, Refers, Connect
<1>6. References'
  <2>1. \A q \in Requests : handler'[q].at = "connect" => handler'[q].using # c
    BY <1>2, <1>3 DEF Inv, References, Moves, Connect
  <2>2. \A d \in Conns : d # c => conn'[d] = conn[d]
    BY <1>4 DEF Changes
  <2>3. conn'[c].state = "open" /\ \A d \in Conns : conn'[d].disposed = conn[d].disposed
    BY <1>4, <2>2 DEF Changes
  <2>4. \A q \in Requests : handler'[q] = handler[q] \/ handler'[q] = h
    BY <1>2 DEF Moves
  <2>5. entry' = entry
    BY DEF Connect
  <2>. QED  BY <1>2, <1>5, <2>1, <2>2, <2>3, <2>4, <2>5, Referred DEF Holding
<1>7. \A d \in Conns : conn'[d].toServer = conn[d].toServer /\ Orderly(conn'[d], Reading(d))
  <2>. SUFFICES ASSUME NEW d \in Conns
                PROVE  conn'[d].toServer = conn[d].toServer /\ Orderly(conn'[d], Reading(d))
    OBVIOUS
  <2>1. Orderly(conn[d], Reading(d))
    BY DEF Inv
  <2>2. CASE d = c
    BY <1>4, <1>5, <2>1, <2>2 DEF Changes, Orderly, Tidy, Marked, Answers, Empty
  <2>3. CASE d # c
    BY <1>4, <2>1, <2>3 DEF Changes
  <2>. QED  BY <2>2, <2>3
<1>8. /\ (\A d \in Conns : Orderly(conn[d], Reading(d)))'
      /\ (\A q \in Requests : Accounted(q))'
  BY <1>2, <1>7, Apart DEF Connect
<1>9. OwnAnswer' /\ (reply \in [Requests -> Requests \cup {Waiting, Unavailable}])'
  BY Refused DEF Connect, Refuse
<1>10. TypeOK'
  BY <1>1, <1>2, <1>4, <1>9 DEF Connect, TypeOK, Moves, Changes
<1>. QED  BY <1>6, <1>8, <1>9, <1>10 DEF Inv

LEMMA StepConnectFails == ASSUME Inv, NEW r \in Requests, ConnectFails(r) PROVE Inv'
<1>. USE DEF service, history
<1>1. TypeOK
  BY DEF Inv
<1>2. PICK h : Moves(r, h) /\ h.at = "backoff" /\ h.using = None
  <2>1. "backoff" \in Positions
    BY DEF Positions
  <2>. QED  BY <1>1, <2>1, ReleaseMoves DEF ConnectFails, TypeOK
<1>3. PICK c \in Conns : c = handler[r].using
  BY <1>1, Typed DEF Inv, References, Refers, Holding, ConnectFails
<1>4. PICK k : /\ Changes(c, k) /\ k.state = "failed"
               /\ k.toServer = conn[c].toServer /\ k.toClient = conn[c].toClient
               /\ k.disposed = conn[c].disposed /\ k.mixed = conn[c].mixed
  <2>1. Becomes(c, "failed") /\ conn \in [Conns -> Conn]
    BY <1>1, <1>3 DEF ConnectFails, Becomes, TypeOK
  <2>. QED  BY <2>1, StateChanges
<1>5. conn[c].state = "new"
  BY <1>3 DEF Inv, References, Refers, ConnectFails
<1>6. References'
  <2>1. \A q \in Requests : handler'[q].at = "connect" => handler'[q].using # c
    BY <1>2, <1>3 DEF Inv, References, Moves, ConnectFails
  <2>2. \A d \in Conns : d # c => conn'[d] = conn[d]
    BY <1>4 DEF Changes
  <2>3. conn'[c].state = "failed" /\ \A d \in Conns : conn'[d].disposed = conn[d].disposed
    BY <1>4, <2>2 DEF Changes
  <2>4. \A q \in Requests : handler'[q] = handler[q] \/ handler'[q] = h
    BY <1>2 DEF Moves
  <2>5. entry' = entry
    BY DEF ConnectFails
  <2>. QED  BY <1>2, <1>5, <2>1, <2>2, <2>3, <2>4, <2>5, Referred DEF Holding
<1>7. \A d \in Conns : conn'[d].toServer = conn[d].toServer /\ Orderly(conn'[d], Reading(d))
  <2>. SUFFICES ASSUME NEW d \in Conns
                PROVE  conn'[d].toServer = conn[d].toServer /\ Orderly(conn'[d], Reading(d))
    OBVIOUS
  <2>1. Orderly(conn[d], Reading(d))
    BY DEF Inv
  <2>2. CASE d = c
    BY <1>4, <1>5, <2>1, <2>2 DEF Changes, Orderly, Tidy, Marked, Answers, Empty
  <2>3. CASE d # c
    BY <1>4, <2>1, <2>3 DEF Changes
  <2>. QED  BY <2>2, <2>3
<1>8. /\ (\A d \in Conns : Orderly(conn[d], Reading(d)))'
      /\ (\A q \in Requests : Accounted(q))'
  BY <1>2, <1>7, Apart DEF ConnectFails
<1>9. OwnAnswer'
  BY Refused DEF ConnectFails
<1>10. TypeOK'
  BY <1>1, <1>2, <1>4 DEF ConnectFails, TypeOK, Moves, Changes
<1>. QED  BY <1>6, <1>8, <1>9, <1>10 DEF Inv

-----------------------------------------------------------------------------
(***************************************************************************)
(* SendAsync: either the command is on its way and its handler reads, or   *)
(* nothing has been written.                                               *)
(***************************************************************************)
Mix(c) == conn[c].mixed \/ Reading(c) # {}

LEMMA SendCases ==
    ASSUME TypeOK, NEW r \in Requests, NEW c \in Conns, c = handler[r].using, Send(r)
    PROVE  \/ /\ conn[c].state = "open" /\ ~conn[c].disposed
              /\ \E h : Moves(r, h) /\ h.at = "reading" /\ h.using = c /\ h.tries = handler[r].tries
              /\ \E k : /\ Changes(c, k) /\ k.state = "open" /\ ~k.disposed
                        /\ k.toServer = Append(conn[c].toServer, r) /\ k.toClient = conn[c].toClient
                        /\ k.mixed = Mix(c)
              /\ mixed' = [q \in Requests |-> mixed[q] \/ (Mix(c) /\ q \in Reading(c) \cup {r})]
           \/ /\ conn[c].state # "open" \/ conn[c].disposed
              /\ \E h : Moves(r, h) /\ h.at = "pause" /\ h.using = None /\ h.tries = handler[r].tries
              /\ \E k : /\ Changes(c, k)
                        /\ k.state = IF conn[c].state = "lost" THEN "dead" ELSE conn[c].state
                        /\ k.toServer = conn[c].toServer /\ k.toClient = conn[c].toClient
                        /\ k.disposed = conn[c].disposed /\ k.mixed = conn[c].mixed
              /\ mixed' = mixed
<1>1. handler \in [Requests -> Handler] /\ conn \in [Conns -> Conn] /\ conn[c] \in Conn
  BY DEF TypeOK
<1>2. CASE conn[c].state = "open" /\ ~conn[c].disposed
  <2>. DEFINE q == Append(conn[c].toServer, r)
              m == Mix(c)
              k == [conn[c] EXCEPT !.toServer = q, !.mixed = m]
  <2>1. q \in Seq(Requests) /\ m \in BOOLEAN
    BY <1>1 DEF Conn, Mix
  <2>2. conn' = [conn EXCEPT ![c] = k]
    BY <1>2 DEF Send, Mix
  <2>. HIDE DEF q, m
  <2>3. k \in Conn /\ k.state = "open" /\ ~k.disposed /\ k.toServer = q
        /\ k.toClient = conn[c].toClient /\ k.mixed = m
    BY <1>1, <1>2, <2>1 DEF Conn
  <2>. HIDE DEF k
  <2>4. Changes(c, k)
    BY <1>1, <2>2, <2>3, ConnChanges
  <2>5. \E h : Moves(r, h) /\ h.at = "reading" /\ h.using = c /\ h.tries = handler[r].tries
    <3>1. Goto(r, "reading")
      BY <1>2 DEF Send
    <3>2. "reading" \in Positions
      BY DEF Positions
    <3>. QED  BY <1>1, <3>1, <3>2, AtMoves
  <2>6. mixed' = [p \in Requests |-> mixed[p] \/ (Mix(c) /\ p \in Reading(c) \cup {r})]
    BY <1>2 DEF Send, Mix
  <2>. QED  BY <1>2, <2>3, <2>4, <2>5, <2>6 DEF q, m
<1>3. CASE ~(conn[c].state = "open" /\ ~conn[c].disposed)
  <2>. DEFINE s == IF conn[c].state = "lost" THEN "dead" ELSE conn[c].state
  <2>1. s \in {"unused", "new", "failed", "open", "lost", "dead"}
    BY <1>1 DEF Conn
  <2>2. Becomes(c, s)
    BY <1>3 DEF Send, Becomes
  <2>3. \E k : /\ Changes(c, k) /\ k.state = s
               /\ k.toServer = conn[c].toServer /\ k.toClient = conn[c].toClient
               /\ k.disposed = conn[c].disposed /\ k.mixed = conn[c].mixed
    <3>. HIDE DEF s
    <3>. QED  BY <1>1, <2>1, <2>2, StateChanges
  <2>4. \E h : Moves(r, h) /\ h.at = "pause" /\ h.using = None /\ h.tries = handler[r].tries
    <3>1. Retry(r)
      BY <1>3 DEF Send
    <3>. QED  BY <1>1, <3>1, RetryMoves
  <2>5. mixed' = mixed
    BY <1>3 DEF Send
  <2>. QED  BY <1>3, <2>3, <2>4, <2>5
<1>. QED  BY <1>2, <1>3
LEMMA SendSucceeds ==
    ASSUME Inv, NEW r \in Requests, NEW c \in Conns, c = handler[r].using, handler[r].at = "send",
           NEW h, Moves(r, h), h.at = "reading", h.using = c,
           conn[c].state = "open", NEW k, Changes(c, k), k.state = "open", ~k.disposed,
           k.toServer = Append(conn[c].toServer, r), k.toClient = conn[c].toClient, k.mixed = Mix(c),
           ~conn[c].disposed,
           mixed' = [q \in Requests |-> mixed[q] \/ (Mix(c) /\ q \in Reading(c) \cup {r})],
           UNCHANGED <<entry, runs, broken, reply>>
    PROVE  /\ References'
           /\ (\A d \in Conns : Orderly(conn[d], Reading(d)))'
           /\ (\A q \in Requests : Accounted(q))'
           /\ OwnAnswer'
<1>. USE DEF Inv
<1>1. /\ \A d \in Conns : d # c => conn'[d] = conn[d]
      /\ conn'[c] = k /\ k \in Conn
  BY DEF Changes
<1>2. /\ \A q \in Requests : q # r => handler'[q] = handler[q]
      /\ handler'[r] = h
  BY DEF Moves
<1>3. /\ conn[c].toServer \in Seq(Requests) /\ conn[c].toClient \in Seq(Requests)
      /\ c # None /\ Orderly(conn[c], Reading(c))
  BY Typed, NamesAssumption
<1>4. \A q \in Requests : mixed[q] => mixed'[q]
  OBVIOUS
<1>5. Reading(c)' = Reading(c) \cup {r} /\ \A d \in Conns : d # c => Reading(d)' = Reading(d)
  BY <1>2 DEF Reading
<1>6. ~Mix(c) => Empty(conn[c]) /\ Reading(c) = {}
  BY <1>3 DEF Orderly, Tidy, Mix
<1>7. References'
  <2>1. \A d \in Conns : conn'[d].state = conn[d].state /\ conn'[d].disposed = conn[d].disposed
    <3>. SUFFICES ASSUME NEW d \in Conns
                  PROVE  conn'[d].state = conn[d].state /\ conn'[d].disposed = conn[d].disposed
      OBVIOUS
    <3>1. CASE d = c
      <4>1. k.disposed \in BOOLEAN /\ conn[c].disposed \in BOOLEAN
        BY <1>1, Typed DEF Conn
      <4>. QED  BY <1>1, <3>1, <4>1
    <3>2. CASE d # c
      BY <1>1, <3>2
    <3>. QED  BY <3>1, <3>2
  <2>. QED  BY <1>1, <1>2, <1>3, <2>1, Referred DEF Established
<1>8. ASSUME NEW d \in Conns PROVE Orderly(conn[d], Reading(d))'
  <2>1. CASE d = c
    <3>1. Tidy(k, Reading(c) \cup {r})
      <4>1. ~k.mixed => Carries(k, r) /\ Reading(c) = {}
        <5>1. k.mixed = Mix(c)
          OBVIOUS
        <5>2. Empty(conn[c]) => k.toServer = <<r>> /\ k.toClient = <<>>
          BY <1>3, SMTT(30) DEF Empty
        <5>. QED  BY <1>6, <5>1, <5>2 DEF Carries
      <4>. QED  BY <4>1 DEF Tidy
    <3>2. ASSUME k.mixed PROVE (\A q \in Reading(c) \cup {r} : mixed'[q])
                               /\ \A j \in DOMAIN k.toServer : mixed'[k.toServer[j]]
      <4>1. \A q \in Reading(c) \cup {r} : q \in Requests /\ mixed'[q]
        BY <3>2 DEF Reading
      <4>2. ASSUME NEW j \in DOMAIN conn[c].toServer PROVE mixed'[conn[c].toServer[j]]
        <5>1. conn[c].toServer[j] \in Requests
          BY <1>3
        <5>2. CASE conn[c].mixed
          BY <1>3, <1>4, <5>1, <5>2 DEF Orderly, Marked
        <5>3. CASE ~conn[c].mixed
          <6>1. PICK q \in Reading(c) : TRUE
            BY <3>2, <5>3 DEF Mix
          <6>2. conn[c].toServer = <<q>>
            <7>1. Empty(conn[c]) \/ Carries(conn[c], q)
              BY <1>3, <5>3, <6>1 DEF Orderly, Tidy
            <7>2. conn[c].toServer # <<>>
              OBVIOUS
            <7>. QED  BY <7>1, <7>2 DEF Empty, Carries
          <6>3. conn[c].toServer[j] = q
            BY <6>2, SMTT(30)
          <6>. QED  BY <4>1, <6>1, <6>3
        <5>. QED  BY <5>2, <5>3
      <4>3. ASSUME NEW j \in DOMAIN k.toServer PROVE mixed'[k.toServer[j]]
        <5>1. j \in DOMAIN conn[c].toServer \/ j = Len(conn[c].toServer) + 1
          BY <1>3, SMTT(30)
        <5>2. CASE j \in DOMAIN conn[c].toServer
          <6>1. k.toServer[j] = conn[c].toServer[j]
            BY <1>3, <5>2
          <6>. QED  BY <4>2, <5>2, <6>1
        <5>3. CASE j = Len(conn[c].toServer) + 1
          <6>1. PICK s \in Seq(Requests) : s = conn[c].toServer
            BY <1>3
          <6>2. Append(s, r)[Len(s) + 1] = r
            BY <6>1, SMTT(30)
          <6>3. k.toServer[j] = r
            BY <5>3, <6>1, <6>2
          <6>. QED  BY <4>1, <6>3
        <5>. QED  BY <5>1, <5>2, <5>3
      <4>. QED  BY <4>1, <4>3
    <3>3. \A j \in DOMAIN k.toClient : runs'[k.toClient[j]] > 0
      BY <1>3 DEF Orderly, Answers
    <3>. QED  BY <1>1, <1>5, <2>1, <3>1, <3>2, <3>3
              DEF Orderly, Tidy, Marked, Answers, Empty, Carries
  <2>2. CASE d # c
    <3>1. Orderly(conn[d], Reading(d)) /\ Reading(d) \subseteq Requests
          /\ \A j \in DOMAIN conn[d].toServer : conn[d].toServer[j] \in Requests
      <4>1. conn[d].toServer \in Seq(Requests)
        BY Typed
      <4>2. Reading(d) \subseteq Requests
        BY DEF Reading
      <4>. QED  BY <4>1, <4>2
    <3>2. conn'[d] = conn[d] /\ Reading(d)' = Reading(d)
      BY <1>1, <1>5, <2>2
    <3>. QED  BY <1>4, <3>1, <3>2 DEF Orderly, Tidy, Marked, Answers, Empty, Carries
  <2>. QED  BY <2>1, <2>2, ZenonT(60)
<1>9. ASSUME NEW q \in Requests PROVE Accounted(q)'
  <2>1. SUFFICES ASSUME ~mixed'[q]
                 PROVE  /\ IsFiniteSet(Pending(q)')
                        /\ runs[q] + Cardinality(Pending(q)')
                             <= broken[q] + IF handler'[q].at \in {"reading", "done"} THEN 1 ELSE 0
    BY DEF Accounted
  <2>2. /\ IsFiniteSet(Pending(q)) /\ runs[q] \in Nat /\ broken[q] \in Nat
        /\ runs[q] + Cardinality(Pending(q))
             <= broken[q] + IF handler[q].at \in {"reading", "done"} THEN 1 ELSE 0
    BY <1>4, <2>1, Typed DEF Accounted
  <2>3. CASE q = r
    <3>1. Empty(conn[c])
      BY <1>6, <2>1, <2>3
    <3>2. Pending(r)' = Pending(r) \cup {c} /\ c \notin Pending(r)
      BY <1>1, <3>1 DEF Pending, Empty
    <3>3. PICK n \in Nat : n = Cardinality(Pending(r))
      BY <2>2, <2>3, FS_CardinalityType
    <3>4. IsFiniteSet(Pending(r)') /\ Cardinality(Pending(r)') = n + 1
      BY <2>2, <2>3, <3>2, <3>3, FS_AddElement
    <3>5. runs[r] + n <= broken[r]
      BY <2>2, <2>3, <3>3
    <3>6. handler'[r].at = "reading"
      BY <1>2
    <3>. QED  BY <2>2, <2>3, <3>4, <3>5, <3>6
  <2>4. CASE q # r
    <3>1. ASSUME NEW d \in Conns
          PROVE  d \in Pending(q)' <=> d \in Pending(q)
      <4>1. CASE d # c
        BY <1>1, <4>1 DEF Pending
      <4>2. CASE d = c /\ conn[c].toServer = <<>>
        BY <1>1, <2>4, <4>2 DEF Pending
      <4>3. CASE d = c /\ conn[c].toServer # <<>>
        <5>1. Head(k.toServer) = Head(conn[c].toServer) /\ k.toServer # <<>>
          BY <1>3, <4>3
        <5>. QED  BY <1>1, <4>3, <5>1 DEF Pending
      <4>. QED  BY <4>1, <4>2, <4>3
    <3>2. Pending(q)' = Pending(q)
      <4>1. Pending(q) \subseteq Conns /\ Pending(q)' \subseteq Conns
        BY DEF Pending
      <4>. QED  BY <3>1, <4>1
    <3>. QED  BY <1>2, <2>2, <2>4, <3>2
  <2>. QED  BY <2>3, <2>4
<1>10. OwnAnswer'
  BY <1>4 DEF OwnAnswer
<1>. QED  BY <1>7, <1>8, <1>9, <1>10

LEMMA StepSend == ASSUME Inv, NEW r \in Requests, Send(r) PROVE Inv'
<1>. USE DEF service, history
<1>1. TypeOK
  BY DEF Inv
<1>2. PICK c \in Conns : c = handler[r].using
  BY <1>1, Typed DEF Inv, References, Refers, Holding, Send
<1>3. CASE conn[c].state = "open" /\ ~conn[c].disposed
  <2>1. PICK h : Moves(r, h) /\ h.at = "reading" /\ h.using = c
    BY <1>1, <1>2, <1>3, SendCases
  <2>2. PICK k : /\ Changes(c, k) /\ k.state = "open" /\ ~k.disposed
                 /\ k.toServer = Append(conn[c].toServer, r) /\ k.toClient = conn[c].toClient
                 /\ k.mixed = Mix(c)
    BY <1>1, <1>2, <1>3, SendCases
  <2>3. mixed' = [q \in Requests |-> mixed[q] \/ (Mix(c) /\ q \in Reading(c) \cup {r})]
    BY <1>1, <1>2, <1>3, SendCases
  <2>4. /\ References'
        /\ (\A d \in Conns : Orderly(conn[d], Reading(d)))'
        /\ (\A q \in Requests : Accounted(q))'
        /\ OwnAnswer'
    <3>1. handler[r].at = "send" /\ UNCHANGED <<entry, runs, broken, reply>>
      BY DEF Send
    <3>. QED  BY <1>2, <1>3, <2>1, <2>2, <2>3, <3>1, SendSucceeds
  <2>5. mixed' \in [Requests -> BOOLEAN]
    <3>1. \A q \in Requests : (mixed[q] \/ (Mix(c) /\ q \in Reading(c) \cup {r})) \in BOOLEAN
      OBVIOUS
    <3>. QED  BY <2>3, <3>1
  <2>6. TypeOK'
    BY <1>1, <2>1, <2>2, <2>5 DEF Send, TypeOK, Moves, Changes
  <2>. QED  BY <2>4, <2>6 DEF Inv
<1>4. CASE ~(conn[c].state = "open" /\ ~conn[c].disposed)
  <2>1. PICK h : Moves(r, h) /\ h.at = "pause" /\ h.using = None
    BY <1>1, <1>2, <1>4, SendCases
  <2>2. PICK k : /\ Changes(c, k)
                 /\ k.state = IF conn[c].state = "lost" THEN "dead" ELSE conn[c].state
                 /\ k.toServer = conn[c].toServer /\ k.toClient = conn[c].toClient
                 /\ k.disposed = conn[c].disposed /\ k.mixed = conn[c].mixed
    BY <1>1, <1>2, <1>4, SendCases
  <2>3. mixed' = mixed
    BY <1>1, <1>2, <1>4, SendCases
  <2>4. References'
    <3>1. \A d \in Conns : d # c => conn'[d] = conn[d]
      BY <2>2 DEF Changes
    <3>2. /\ \/ conn'[c].state = conn[c].state
             \/ conn[c].state \in Established /\ conn'[c].state \in Established
          /\ \A d \in Conns : conn'[d].disposed = conn[d].disposed
      <4>1. conn'[c] = k
        BY <2>2 DEF Changes
      <4>2. conn'[c].state = IF conn[c].state = "lost" THEN "dead" ELSE conn[c].state
        BY <2>2, <4>1
      <4>3. conn'[c].disposed = conn[c].disposed
        BY <2>2, <4>1
      <4>. QED  BY <3>1, <4>2, <4>3 DEF Established
    <3>3. \A q \in Requests : handler'[q] = handler[q] \/ handler'[q] = h
      BY <2>1 DEF Moves
    <3>. QED  BY <2>1, <3>1, <3>2, <3>3, Referred DEF Holding, Send
  <2>5. \A d \in Conns : conn'[d].toServer = conn[d].toServer /\ Orderly(conn'[d], Reading(d))
    <3>. SUFFICES ASSUME NEW d \in Conns
                  PROVE  conn'[d].toServer = conn[d].toServer /\ Orderly(conn'[d], Reading(d))
      OBVIOUS
    <3>1. Orderly(conn[d], Reading(d))
      BY DEF Inv
    <3>2. CASE d = c
      BY <2>2, <3>1, <3>2 DEF Changes, Orderly, Tidy, Marked, Answers, Empty, Carries
    <3>3. CASE d # c
      BY <2>2, <3>1, <3>3 DEF Changes
    <3>. QED  BY <3>2, <3>3
  <2>6. /\ (\A d \in Conns : Orderly(conn[d], Reading(d)))'
        /\ (\A q \in Requests : Accounted(q))'
    BY <2>1, <2>3, <2>5, Apart DEF Send
  <2>7. OwnAnswer'
    BY <2>3, Refused DEF Send
  <2>8. TypeOK'
    BY <1>1, <2>1, <2>2, <2>3 DEF Send, TypeOK, Moves, Changes
  <2>. QED  BY <2>4, <2>6, <2>7, <2>8 DEF Inv
<1>. QED  BY <1>3, <1>4
-----------------------------------------------------------------------------
LEMMA TailElements ==
    ASSUME NEW S, NEW s \in Seq(S), s # <<>>
    PROVE  /\ Tail(s) \in Seq(S) /\ Head(s) \in S /\ Head(s) = s[1] /\ 1 \in DOMAIN s
           /\ \A j \in DOMAIN Tail(s) : j + 1 \in DOMAIN s /\ Tail(s)[j] = s[j + 1]
OBVIOUS

(***************************************************************************)
(* One connection changes and what its handlers read.                      *)
(***************************************************************************)
LEMMA OrderlyKept ==
    ASSUME Inv, NEW c \in Conns, NEW k, Changes(c, k), UNCHANGED mixed,
           \A q \in Requests : runs'[q] \in Nat /\ runs'[q] >= runs[q],
           \A d \in Conns \ {c} : Reading(d)' = Reading(d),
           Reading(c)' \subseteq Reading(c),
           Tidy(k, Reading(c)'), k.mixed => conn[c].mixed,
           \A j \in DOMAIN k.toServer : \E i \in DOMAIN conn[c].toServer : k.toServer[j] = conn[c].toServer[i],
           \A j \in DOMAIN k.toClient : runs'[k.toClient[j]] > 0
    PROVE  (\A d \in Conns : Orderly(conn[d], Reading(d)))'
<1>. USE DEF Inv
<1>1. ASSUME NEW d \in Conns PROVE Orderly(conn[d], Reading(d))'
  <2>1. Orderly(conn[d], Reading(d))
    OBVIOUS
  <2>2. CASE d = c
    <3>1. conn'[c] = k
      BY DEF Changes
    <3>2. k.mixed => /\ \A q \in Reading(c)' : mixed[q]
                     /\ \A j \in DOMAIN k.toServer : mixed[k.toServer[j]]
      BY <2>1, <2>2 DEF Orderly, Marked
    <3>. QED  BY <2>2, <3>1, <3>2 DEF Orderly, Tidy, Marked, Answers, Empty, Carries
  <2>3. CASE d # c
    <3>1. conn'[d] = conn[d] /\ Reading(d)' = Reading(d)
      BY <2>3 DEF Changes
    <3>2. conn[d].toClient \in Seq(Requests)
      BY Typed
    <3>3. \A j \in DOMAIN conn[d].toClient : runs'[conn[d].toClient[j]] > 0
      <4>. SUFFICES ASSUME NEW j \in DOMAIN conn[d].toClient
                    PROVE  runs'[conn[d].toClient[j]] > 0
        OBVIOUS
      <4>1. PICK q \in Requests : q = conn[d].toClient[j]
        BY <3>2
      <4>2. runs[q] > 0 /\ runs[q] \in Nat /\ runs'[q] \in Nat /\ runs'[q] >= runs[q]
        BY <2>1, <4>1, Typed DEF Orderly, Answers
      <4>. QED  BY <4>1, <4>2
    <3>. QED  BY <2>1, <3>1, <3>3 DEF Orderly, Tidy, Marked, Answers, Empty, Carries
  <2>. QED  BY <2>2, <2>3
<1>. QED  BY <1>1

(* An answer, or what looks like one, is taken from the stream of a connection. *)
Taken(c) == conn' = [conn EXCEPT ![c].toClient = Tail(@)]

LEMMA TakenChanges ==
    ASSUME TypeOK, NEW c \in Conns, Taken(c), conn[c].toClient # <<>>
    PROVE  \E k : /\ Changes(c, k) /\ k.toClient = Tail(conn[c].toClient)
                  /\ k.toServer = conn[c].toServer /\ k.state = conn[c].state
                  /\ k.disposed = conn[c].disposed /\ k.mixed = conn[c].mixed
<1>. DEFINE s == Tail(conn[c].toClient)
            k == [conn[c] EXCEPT !.toClient = s]
<1>1. s \in Seq(Requests)
  BY Typed, TailElements
<1>2. conn \in [Conns -> Conn] /\ conn' = [conn EXCEPT ![c] = k]
  BY DEF Taken, TypeOK
<1>. HIDE DEF s
<1>3. /\ k \in Conn /\ k.toClient = s
      /\ k.toServer = conn[c].toServer /\ k.state = conn[c].state
      /\ k.disposed = conn[c].disposed /\ k.mixed = conn[c].mixed
  BY <1>1, Typed DEF Conn
<1>. HIDE DEF k
<1>4. Changes(c, k)
  BY <1>2, <1>3, ConnChanges
<1>. QED  BY <1>3, <1>4 DEF s

(* A handler that has taken something reads no more, or reads what it has read from. *)
LEMMA TakenKept ==
    ASSUME Inv, NEW r \in Requests, NEW c \in Conns, handler[r].at = "reading", c = handler[r].using,
           Taken(c), conn[c].toClient # <<>>,
           \/ handler' = handler
           \/ \E h : Moves(r, h) /\ h.at \in {"pause", "done"} /\ h.using = None,
           conn[c].mixed \/ \E h : Moves(r, h) /\ h.at = "done" /\ h.using = None,
           UNCHANGED <<entry, runs, broken, mixed>>
    PROVE  /\ References'
           /\ (\A d \in Conns : Orderly(conn[d], Reading(d)))'
           /\ (\A q \in Requests : Accounted(q))'
<1>. USE DEF Inv
<1>1. PICK k : /\ Changes(c, k) /\ k.toClient = Tail(conn[c].toClient)
               /\ k.toServer = conn[c].toServer /\ k.state = conn[c].state
               /\ k.disposed = conn[c].disposed /\ k.mixed = conn[c].mixed
  BY TakenChanges
<1>2. /\ \A d \in Conns : d # c => conn'[d] = conn[d]
      /\ conn'[c] = k
  BY <1>1 DEF Changes
<1>3. \A q \in Requests : q # r => handler'[q] = handler[q]
  BY DEF Moves
<1>4. handler'[r] = handler[r] \/ (handler'[r].at \in {"pause", "done"} /\ handler'[r].using = None)
  BY DEF Moves
<1>5. /\ conn[c].toServer \in Seq(Requests) /\ conn[c].toClient \in Seq(Requests)
      /\ Orderly(conn[c], Reading(c)) /\ r \in Reading(c) /\ conn[c].state \in Established
  <2>1. Orderly(conn[c], Reading(c)) /\ r \in Reading(c)
    BY DEF Reading
  <2>2. conn[c].state \in Established
    BY DEF References, Refers, Established
  <2>. QED  BY <2>1, <2>2, Typed
<1>6. References'
  <2>1. \A d \in Conns : conn'[d].state = conn[d].state /\ conn'[d].disposed = conn[d].disposed
    BY <1>1, <1>2
  <2>2. handler'[r] = handler[r] \/ (handler'[r].at \notin Holding \cup {"connect"} /\ handler'[r].using = None)
    BY <1>4 DEF Holding
  <2>. QED  BY <1>3, <2>1, <2>2, Referred DEF Holding
<1>7. /\ Reading(c)' \subseteq Reading(c)
      /\ \A d \in Conns \ {c} : Reading(d)' = Reading(d)
  BY <1>3, <1>4 DEF Reading
<1>8. ~conn[c].mixed => conn[c].toServer = <<>> /\ conn[c].toClient = <<r>>
  BY <1>5 DEF Orderly, Tidy, Empty, Carries
<1>9. Tidy(k, Reading(c)')
  <2>1. CASE conn[c].mixed
    BY <1>1, <1>5, <2>1 DEF Tidy, Established
  <2>2. CASE ~conn[c].mixed
    <3>1. Empty(k)
      <4>1. Tail(<<r>>) = <<>>
        OBVIOUS
      <4>. QED  BY <1>1, <1>8, <2>2, <4>1 DEF Empty
    <3>2. \A p, q \in Reading(c)' : p = q
      BY <1>5, <1>7, <2>2 DEF Orderly, Tidy
    <3>. QED  BY <1>1, <2>2, <3>1, <3>2 DEF Tidy
  <2>. QED  BY <2>1, <2>2
<1>10. (\A d \in Conns : Orderly(conn[d], Reading(d)))'
  <2>1. \A q \in Requests : runs'[q] \in Nat /\ runs'[q] >= runs[q]
    BY Typed
  <2>2. \A j \in DOMAIN k.toClient : runs'[k.toClient[j]] > 0
    <3>. SUFFICES ASSUME NEW j \in DOMAIN k.toClient PROVE runs[k.toClient[j]] > 0
      OBVIOUS
    <3>1. j + 1 \in DOMAIN conn[c].toClient /\ k.toClient[j] = conn[c].toClient[j + 1]
      BY <1>1, <1>5, TailElements
    <3>. QED  BY <1>5, <3>1 DEF Orderly, Answers
  <2>. QED  BY <1>1, <1>7, <1>9, <2>1, <2>2, OrderlyKept, ZenonT(60)
<1>11. ASSUME NEW q \in Requests PROVE Accounted(q)'
  <2>1. Pending(q)' = Pending(q)
    BY <1>1, <1>2 DEF Pending
  <2>2. Accounted(q)
    OBVIOUS
  <2>3. CASE q = r /\ conn[c].mixed
    <3>1. mixed[r]
      BY <1>5, <2>3 DEF Orderly, Marked
    <3>. QED  BY <2>3, <3>1 DEF Accounted
  <2>4. CASE q = r /\ ~conn[c].mixed
    <3>1. handler'[r].at = "done"
      BY <2>4 DEF Moves
    <3>. QED  BY <2>1, <2>2, <2>4, <3>1 DEF Accounted
  <2>5. CASE q # r
    BY <1>3, <2>1, <2>2, <2>5 DEF Accounted
  <2>. QED  BY <2>3, <2>4, <2>5
<1>. QED  BY <1>6, <1>10, <1>11

LEMMA StepRead == ASSUME Inv, NEW r \in Requests, Read(r) PROVE Inv'
<1>. USE DEF service, history
<1>1. TypeOK
  BY DEF Inv
<1>2. PICK c \in Conns : c = handler[r].using
  BY <1>1, Typed DEF Inv, References, Refers, Holding, Read
<1>3. PICK h : Moves(r, h) /\ h.at = "done" /\ h.using = None
  BY <1>1, ReturnMoves DEF Read, TypeOK
<1>4. /\ handler[r].at = "reading" /\ Taken(c) /\ conn[c].toClient # <<>>
      /\ reply' = [reply EXCEPT ![r] = Head(conn[c].toClient)]
      /\ UNCHANGED <<entry, runs, broken, mixed, up, faults, calm>>
  BY <1>2 DEF Read, Taken
<1>5. /\ References'
      /\ (\A d \in Conns : Orderly(conn[d], Reading(d)))'
      /\ (\A q \in Requests : Accounted(q))'
  BY <1>2, <1>3, <1>4, TakenKept
<1>6. /\ conn[c].toClient \in Seq(Requests) /\ Head(conn[c].toClient) \in Requests
      /\ Orderly(conn[c], Reading(c)) /\ r \in Reading(c)
  <2>1. conn[c].toClient \in Seq(Requests)
    BY <1>1, Typed
  <2>2. Head(conn[c].toClient) \in Requests
    BY <1>4, <2>1, TailElements
  <2>. QED  BY <1>2, <1>4, <2>1, <2>2 DEF Inv, Reading
<1>7. OwnAnswer'
  <2>1. ASSUME ~mixed[r] PROVE Head(conn[c].toClient) = r /\ runs[r] > 0
    <3>1. ~conn[c].mixed
      BY <1>6, <2>1 DEF Orderly, Marked
    <3>2. conn[c].toClient = <<r>>
      BY <1>4, <1>6, <3>1 DEF Orderly, Tidy, Empty, Carries
    <3>3. 1 \in DOMAIN conn[c].toClient /\ conn[c].toClient[1] = r
      BY <3>2
    <3>. QED  BY <1>6, <3>2, <3>3 DEF Orderly, Answers
  <2>2. reply'[r] = Head(conn[c].toClient) /\ \A q \in Requests : q # r => reply'[q] = reply[q]
    BY <1>1, <1>4 DEF TypeOK
  <2>. QED  BY <1>4, <2>1, <2>2 DEF OwnAnswer, Inv
<1>8. TypeOK'
  <2>1. conn' \in [Conns -> Conn]
    BY <1>1, <1>4, TakenChanges DEF Changes
  <2>2. reply' \in [Requests -> Requests \cup {Waiting, Unavailable}]
    BY <1>1, <1>4, <1>6 DEF TypeOK
  <2>. QED  BY <1>1, <1>3, <1>4, <2>1, <2>2 DEF TypeOK, Moves
<1>. QED  BY <1>5, <1>7, <1>8 DEF Inv

LEMMA StepReadMixed == ASSUME Inv, NEW r \in Requests, ReadMixed(r) PROVE Inv'
<1>. USE DEF service, history
<1>1. TypeOK
  BY DEF Inv
<1>2. PICK c \in Conns : c = handler[r].using
  BY <1>1, Typed DEF Inv, References, Refers, Holding, ReadMixed
<1>3. handler' = handler \/ \E h : Moves(r, h) /\ h.at = "pause" /\ h.using = None
  BY <1>1, RetryMoves DEF ReadMixed, TypeOK
<1>4. /\ handler[r].at = "reading" /\ Taken(c) /\ conn[c].toClient # <<>> /\ conn[c].mixed
      /\ UNCHANGED <<reply, entry, runs, broken, mixed, up, faults, calm>>
  BY <1>2 DEF ReadMixed, Taken
<1>5. /\ References'
      /\ (\A d \in Conns : Orderly(conn[d], Reading(d)))'
      /\ (\A q \in Requests : Accounted(q))'
  BY <1>2, <1>3, <1>4, TakenKept
<1>6. OwnAnswer'
  BY <1>4, Refused
<1>7. TypeOK'
  <2>1. conn' \in [Conns -> Conn]
    BY <1>1, <1>4, TakenChanges DEF Changes
  <2>2. handler' \in [Requests -> Handler]
    BY <1>1, <1>3 DEF Moves, TypeOK
  <2>. QED  BY <1>1, <1>4, <2>1, <2>2 DEF TypeOK
<1>. QED  BY <1>5, <1>6, <1>7 DEF Inv
LEMMA StepReadEnd == ASSUME Inv, NEW r \in Requests, ReadEnd(r) PROVE Inv'
<1>. USE DEF service, history
<1>1. TypeOK
  BY DEF Inv
<1>2. PICK c \in Conns : c = handler[r].using
  BY <1>1, Typed DEF Inv, References, Refers, Holding, ReadEnd
<1>3. PICK h : Moves(r, h) /\ h.at = "pause" /\ h.using = None
  BY <1>1, RetryMoves DEF ReadEnd, TypeOK
<1>4. /\ handler[r].at = "reading" /\ Becomes(c, "dead")
      /\ broken' = [broken EXCEPT ![r] = @ + 1]
      /\ UNCHANGED <<reply, entry, runs, mixed, up, faults, calm>>
  BY <1>2 DEF ReadEnd, Becomes
<1>5. PICK k : /\ Changes(c, k) /\ k.state = "dead"
               /\ k.toServer = conn[c].toServer /\ k.toClient = conn[c].toClient
               /\ k.disposed = conn[c].disposed /\ k.mixed = conn[c].mixed
  <2>1. conn \in [Conns -> Conn]
    BY <1>1 DEF TypeOK
  <2>. QED  BY <1>4, <2>1, StateChanges
<1>6. /\ \A d \in Conns : d # c => conn'[d] = conn[d]
      /\ conn'[c] = k
  BY <1>5 DEF Changes
<1>7. /\ \A q \in Requests : q # r => handler'[q] = handler[q]
      /\ handler'[r] = h
  BY <1>3 DEF Moves
<1>8. conn[c].state \in Established /\ r \in Reading(c) /\ Orderly(conn[c], Reading(c))
  BY <1>2, <1>4 DEF Inv, References, Refers, Established, Reading
<1>9. References'
  <2>1. \A d \in Conns : conn'[d].disposed = conn[d].disposed
    BY <1>5, <1>6
  <2>2. \A d \in Conns : \/ conn'[d].state = conn[d].state
                         \/ conn[d].state \in Established /\ conn'[d].state \in Established
    BY <1>5, <1>6, <1>8 DEF Established
  <2>. QED  BY <1>3, <1>4, <1>7, <2>1, <2>2, Referred DEF Holding
<1>10. (\A d \in Conns : Orderly(conn[d], Reading(d)))'
  <2>1. Reading(c)' \subseteq Reading(c) /\ \A d \in Conns \ {c} : Reading(d)' = Reading(d)
    BY <1>2, <1>3, <1>7 DEF Reading
  <2>2. Tidy(k, Reading(c)')
    <3>1. ~k.mixed => /\ Empty(k) \/ \E q \in Requests : Carries(k, q)
                      /\ \A q \in Reading(c) : Empty(k) \/ Carries(k, q)
                      /\ \A p, q \in Reading(c) : p = q
      BY <1>5, <1>8 DEF Orderly, Tidy, Empty, Carries
    <3>. QED  BY <1>5, <2>1, <3>1 DEF Tidy
  <2>3. \A j \in DOMAIN k.toClient : runs'[k.toClient[j]] > 0
    BY <1>4, <1>5, <1>8 DEF Orderly, Answers
  <2>4. \A q \in Requests : runs'[q] \in Nat /\ runs'[q] >= runs[q]
    BY <1>1, <1>4, Typed
  <2>. QED  BY <1>4, <1>5, <2>1, <2>2, <2>3, <2>4, OrderlyKept
<1>11. ASSUME NEW q \in Requests PROVE Accounted(q)'
  <2>1. Pending(q)' = Pending(q)
    BY <1>5, <1>6 DEF Pending
  <2>2. Accounted(q) /\ runs[q] \in Nat /\ broken[q] \in Nat
    BY <1>1, Typed DEF Inv
  <2>3. CASE q = r
    <3>1. handler'[r].at = "pause" /\ broken'[r] = broken[r] + 1 /\ runs'[r] = runs[r] /\ mixed'[r] = mixed[r]
      BY <1>1, <1>3, <1>4, <1>7 DEF TypeOK
    <3>2. SUFFICES ASSUME ~mixed[r]
                   PROVE  IsFiniteSet(Pending(r)) /\ runs[r] + Cardinality(Pending(r)) <= broken[r] + 1
      BY <2>1, <2>2, <2>3, <3>1 DEF Accounted
    <3>. QED  BY <1>4, <2>2, <2>3, <3>2 DEF Accounted
  <2>4. CASE q # r
    <3>1. handler'[q] = handler[q] /\ broken'[q] = broken[q]
      BY <1>1, <1>4, <1>7, <2>4 DEF TypeOK
    <3>. QED  BY <1>4, <2>1, <2>2, <3>1 DEF Accounted
  <2>. QED  BY <2>3, <2>4
<1>12. OwnAnswer'
  BY <1>4, Refused
<1>13. TypeOK'
  <2>1. broken' \in [Requests -> Nat]
    BY <1>1, <1>4 DEF TypeOK
  <2>. QED  BY <1>1, <1>3, <1>4, <1>5, <2>1 DEF TypeOK, Moves, Changes
<1>. QED  BY <1>9, <1>10, <1>11, <1>12, <1>13 DEF Inv

-----------------------------------------------------------------------------
(* The next command of a connection is carried out; its answer may arrive. *)
LEMMA ServeChanges ==
    ASSUME TypeOK, NEW c \in Conns, Serve(c)
    PROVE  \E r \in Requests, k \in Conn :
             /\ conn[c].toServer # <<>> /\ r = Head(conn[c].toServer)
             /\ runs' = [runs EXCEPT ![r] = @ + 1]
             /\ Changes(c, k) /\ k.toServer = Tail(conn[c].toServer)
             /\ k.toClient = conn[c].toClient \/ k.toClient = Append(conn[c].toClient, r)
             /\ conn[c].state = "open" /\ r \notin Silent <=> k.toClient = Append(conn[c].toClient, r)
             /\ k.state = conn[c].state /\ k.disposed = conn[c].disposed /\ k.mixed = conn[c].mixed
<1>. DEFINE r == Head(conn[c].toServer)
            s == Tail(conn[c].toServer)
            t == IF conn[c].state = "open" /\ r \notin Silent THEN Append(conn[c].toClient, r)
                 ELSE conn[c].toClient
            k == [conn[c] EXCEPT !.toServer = s, !.toClient = t]
<1>1. conn[c].toServer # <<>> /\ conn[c].toServer \in Seq(Requests) /\ conn[c].toClient \in Seq(Requests)
  BY Typed DEF Serve
<1>2. r \in Requests /\ s \in Seq(Requests)
  BY <1>1, TailElements
<1>3. t \in Seq(Requests)
  BY <1>1, <1>2
<1>4. conn \in [Conns -> Conn] /\ conn' = [conn EXCEPT ![c] = k] /\ runs' = [runs EXCEPT ![r] = @ + 1]
  BY DEF Serve, TypeOK
<1>5. /\ t = conn[c].toClient \/ t = Append(conn[c].toClient, r)
      /\ conn[c].state = "open" /\ r \notin Silent <=> t = Append(conn[c].toClient, r)
  <2>1. Len(Append(conn[c].toClient, r)) = Len(conn[c].toClient) + 1
    BY <1>1, <1>2
  <2>2. conn[c].toClient # Append(conn[c].toClient, r)
    BY <1>1, <2>1
  <2>. QED  BY <2>2
<1>. HIDE DEF r, s, t
<1>6. /\ k \in Conn /\ k.toServer = s /\ k.toClient = t
      /\ k.state = conn[c].state /\ k.disposed = conn[c].disposed /\ k.mixed = conn[c].mixed
  BY <1>2, <1>3, Typed DEF Conn
<1>. HIDE DEF k
<1>7. Changes(c, k)
  BY <1>4, <1>6, ConnChanges
<1>. QED  BY <1>1, <1>2, <1>4, <1>5, <1>6, <1>7 DEF r, s
LEMMA StepServe == ASSUME Inv, NEW c \in Conns, Serve(c) PROVE Inv'
<1>. USE DEF service, history
<1>1. TypeOK
  BY DEF Inv
<1>2. PICK r \in Requests, k \in Conn :
             /\ conn[c].toServer # <<>> /\ r = Head(conn[c].toServer)
             /\ runs' = [runs EXCEPT ![r] = @ + 1]
             /\ Changes(c, k) /\ k.toServer = Tail(conn[c].toServer)
             /\ k.toClient = conn[c].toClient \/ k.toClient = Append(conn[c].toClient, r)
             /\ k.state = conn[c].state /\ k.disposed = conn[c].disposed /\ k.mixed = conn[c].mixed
  BY <1>1, ServeChanges
<1>3. UNCHANGED <<handler, reply, entry, up, faults, broken, calm, mixed>>
  BY DEF Serve
<1>4. /\ \A d \in Conns : d # c => conn'[d] = conn[d]
      /\ conn'[c] = k
  BY <1>2 DEF Changes
<1>5. /\ conn[c].toServer \in Seq(Requests) /\ conn[c].toClient \in Seq(Requests)
      /\ Orderly(conn[c], Reading(c))
  BY <1>1, Typed DEF Inv
<1>6. /\ Tail(conn[c].toServer) \in Seq(Requests)
      /\ r = conn[c].toServer[1] /\ 1 \in DOMAIN conn[c].toServer
      /\ \A j \in DOMAIN Tail(conn[c].toServer) :
           j + 1 \in DOMAIN conn[c].toServer /\ Tail(conn[c].toServer)[j] = conn[c].toServer[j + 1]
  BY <1>2, <1>5, TailElements
<1>7. ~conn[c].mixed => conn[c].toServer = <<r>> /\ conn[c].toClient = <<>>
  <2>. SUFFICES ASSUME ~conn[c].mixed PROVE conn[c].toServer = <<r>> /\ conn[c].toClient = <<>>
    OBVIOUS
  <2>1. PICK q \in Requests : Carries(conn[c], q)
    BY <1>2, <1>5 DEF Orderly, Tidy, Empty
  <2>2. conn[c].toServer = <<q>> /\ conn[c].toClient = <<>>
    BY <1>2, <2>1 DEF Carries
  <2>. QED  BY <1>2, <2>2
<1>8. /\ runs'[r] = runs[r] + 1
      /\ \A q \in Requests : /\ runs[q] \in Nat /\ runs'[q] \in Nat /\ runs'[q] >= runs[q]
                             /\ q # r => runs'[q] = runs[q]
  BY <1>1, <1>2, Typed DEF TypeOK
<1>9. \A d \in Conns : Reading(d)' = Reading(d)
  BY <1>3 DEF Reading
<1>10. References'
  <2>1. \A d \in Conns : conn'[d].state = conn[d].state /\ conn'[d].disposed = conn[d].disposed
    BY <1>2, <1>4
  <2>. QED  BY <1>3, <2>1, Referred
<1>11. Tidy(k, Reading(c))
  <2>1. k.state \notin {"unused", "new", "failed"}
    BY <1>2, <1>5 DEF Orderly, Tidy, Empty
  <2>2. CASE conn[c].mixed
    BY <1>2, <2>1, <2>2 DEF Tidy
  <2>3. CASE ~conn[c].mixed
    <3>1. Tail(<<r>>) = <<>> /\ Append(<<>>, r) = <<r>>
      OBVIOUS
    <3>2. Empty(k) \/ Carries(k, r)
      BY <1>2, <1>7, <2>3, <3>1 DEF Empty, Carries
    <3>3. \A q \in Reading(c) : q = r
      <4>. SUFFICES ASSUME NEW q \in Reading(c) PROVE q = r
        OBVIOUS
      <4>1. Empty(conn[c]) \/ Carries(conn[c], q)
        BY <1>5, <2>3 DEF Orderly, Tidy
      <4>2. conn[c].toServer = <<q>>
        BY <1>2, <4>1 DEF Empty, Carries
      <4>. QED  BY <1>7, <2>3, <4>2
    <3>4. Reading(c) = {} => k.state = "dead"
      BY <1>2, <1>5, <2>3 DEF Orderly, Tidy, Empty
    <3>. QED  BY <2>1, <3>2, <3>3, <3>4 DEF Tidy
  <2>. QED  BY <2>2, <2>3
<1>12. \A j \in DOMAIN k.toClient : runs'[k.toClient[j]] > 0
  <2>. SUFFICES ASSUME NEW j \in DOMAIN k.toClient PROVE runs'[k.toClient[j]] > 0
    OBVIOUS
  <2>1. PICK s \in Seq(Requests) : s = conn[c].toClient
    BY <1>5
  <2>2. \A i \in DOMAIN s : s[i] \in Requests /\ runs[s[i]] > 0
    BY <1>5, <2>1 DEF Orderly, Answers
  <2>3. CASE j \in DOMAIN s
    <3>1. k.toClient[j] = s[j]
      BY <1>2, <2>1, <2>3
    <3>2. PICK q \in Requests : q = s[j] /\ runs[q] > 0
      BY <2>2, <2>3
    <3>. QED  BY <1>8, <3>1, <3>2
  <2>4. CASE j \notin DOMAIN s
    <3>1. k.toClient = Append(s, r)
      BY <1>2, <2>1, <2>4
    <3>2. j = Len(s) + 1 /\ Append(s, r)[Len(s) + 1] = r
      BY <2>4, <3>1
    <3>3. k.toClient[j] = r
      BY <3>1, <3>2
    <3>. QED  BY <1>8, <3>3
  <2>. QED  BY <2>3, <2>4
<1>13. (\A d \in Conns : Orderly(conn[d], Reading(d)))'
  <2>1. \A j \in DOMAIN k.toServer : \E i \in DOMAIN conn[c].toServer : k.toServer[j] = conn[c].toServer[i]
    BY <1>2, <1>6
  <2>. QED  BY <1>2, <1>3, <1>8, <1>9, <1>11, <1>12, <2>1, OrderlyKept
<1>14. ASSUME NEW q \in Requests PROVE Accounted(q)'
  <2>1. SUFFICES ASSUME ~mixed[q]
                 PROVE  /\ IsFiniteSet(Pending(q)')
                        /\ runs'[q] + Cardinality(Pending(q)')
                             <= broken[q] + IF handler[q].at \in {"reading", "done"} THEN 1 ELSE 0
    BY <1>3 DEF Accounted
  <2>2. /\ IsFiniteSet(Pending(q)) /\ runs[q] \in Nat /\ broken[q] \in Nat
        /\ runs[q] + Cardinality(Pending(q))
             <= broken[q] + IF handler[q].at \in {"reading", "done"} THEN 1 ELSE 0
    BY <1>1, <2>1, Typed DEF Accounted, Inv
  <2>3. PICK n \in Nat : n = Cardinality(Pending(q))
    BY <2>2, FS_CardinalityType
  <2>4. ASSUME NEW d \in Conns, d # c PROVE d \in Pending(q)' <=> d \in Pending(q)
    BY <1>4, <2>4 DEF Pending
  <2>5. c \notin Pending(q)'
    <3>. SUFFICES ASSUME c \in Pending(q)' PROVE FALSE
      OBVIOUS
    <3>1. Tail(conn[c].toServer) # <<>> /\ Head(Tail(conn[c].toServer)) = q
      BY <1>2, <1>4 DEF Pending
    <3>2. Head(Tail(conn[c].toServer)) = Tail(conn[c].toServer)[1] /\ 1 \in DOMAIN Tail(conn[c].toServer)
      BY <1>6, <3>1, TailElements
    <3>3. 1 + 1 \in DOMAIN conn[c].toServer /\ conn[c].toServer[1 + 1] = q
      BY <1>6, <3>1, <3>2
    <3>4. conn[c].mixed
      <4>1. Tail(<<r>>) = <<>>
        OBVIOUS
      <4>. QED  BY <1>7, <3>1, <4>1
    <3>5. mixed[conn[c].toServer[1 + 1]]
      BY <1>5, <3>3, <3>4 DEF Orderly, Marked
    <3>. QED  BY <2>1, <3>3, <3>5
  <2>6. CASE q = r
    <3>1. c \in Pending(r)
      BY <1>2 DEF Pending
    <3>2. Pending(r)' = Pending(r) \ {c}
      <4>1. Pending(r)' \subseteq Conns /\ Pending(r) \subseteq Conns
        BY DEF Pending
      <4>. QED  BY <2>4, <2>5, <2>6, <4>1
    <3>3. IsFiniteSet(Pending(r)') /\ Cardinality(Pending(r)') = n - 1
      BY <2>2, <2>3, <2>6, <3>1, <3>2, FS_RemoveElement
    <3>. QED  BY <1>8, <2>2, <2>3, <2>6, <3>3
  <2>7. CASE q # r
    <3>1. c \notin Pending(q)
      BY <1>2, <2>7 DEF Pending
    <3>2. Pending(q)' = Pending(q)
      <4>1. Pending(q)' \subseteq Conns /\ Pending(q) \subseteq Conns
        BY DEF Pending
      <4>. QED  BY <2>4, <2>5, <3>1, <4>1
    <3>. QED  BY <1>8, <2>2, <2>7, <3>2
  <2>. QED  BY <2>6, <2>7
<1>15. OwnAnswer'
  <2>1. \A q \in Requests : runs[q] > 0 => runs'[q] > 0
    BY <1>8
  <2>. QED  BY <1>3, <2>1 DEF OwnAnswer, Inv
<1>16. TypeOK'
  <2>1. runs' \in [Requests -> Nat]
    BY <1>1, <1>2 DEF TypeOK
  <2>. QED  BY <1>1, <1>2, <1>3, <2>1 DEF TypeOK, Changes
<1>. QED  BY <1>10, <1>13, <1>14, <1>15, <1>16 DEF Inv

-----------------------------------------------------------------------------
(***************************************************************************)
(* Connections break: open ones become lost, with what was on its way or   *)
(* without.                                                                *)
(***************************************************************************)
Loses(c, k) ==
    /\ k \in Conn
    /\ k.state = conn[c].state \/ (conn[c].state = "open" /\ k.state = "lost")
    /\ k.toServer \in {conn[c].toServer, <<>>} /\ k.toClient \in {conn[c].toClient, <<>>}
    /\ k.disposed = conn[c].disposed /\ k.mixed = conn[c].mixed

LEMMA LossKeeps ==
    ASSUME Inv, conn' \in [Conns -> Conn], \A c \in Conns : Loses(c, conn'[c]), up' \in BOOLEAN,
           Disturb
    PROVE  Inv'
<1>. USE DEF service, history
<1>1. TypeOK
  BY DEF Inv
<1>2. UNCHANGED <<handler, reply, entry, runs, broken, mixed>>
  BY DEF Disturb
<1>3. References'
  <2>1. ASSUME NEW c \in Conns
        PROVE  /\ conn'[c].disposed = conn[c].disposed
               /\ \/ conn'[c].state = conn[c].state
                  \/ conn[c].state \in Established /\ conn'[c].state \in Established
    BY DEF Loses, Established
  <2>. QED  BY <1>2, <2>1, Referred
<1>4. ASSUME NEW c \in Conns PROVE Orderly(conn[c], Reading(c))'
  <2>1. Orderly(conn[c], Reading(c)) /\ Loses(c, conn'[c]) /\ Reading(c)' = Reading(c)
    BY <1>2 DEF Inv, Reading
  <2>2. Tidy(conn'[c], Reading(c))
    <3>1. Empty(conn[c]) => Empty(conn'[c])
      BY <2>1 DEF Loses, Empty
    <3>2. ASSUME NEW q, Carries(conn[c], q) PROVE Empty(conn'[c]) \/ Carries(conn'[c], q)
      BY <2>1, <3>2 DEF Loses, Empty, Carries
    <3>. HIDE DEF Empty, Carries
    <3>. QED  BY <2>1, <3>1, <3>2 DEF Orderly, Tidy, Loses
  <2>3. Marked(conn'[c], Reading(c)) /\ Answers(conn'[c])
    <3>1. DOMAIN <<>> = {}
      OBVIOUS
    <3>. QED  BY <2>1, <3>1 DEF Orderly, Marked, Answers, Loses
  <2>. QED  BY <1>2, <2>1, <2>2, <2>3 DEF Orderly, Tidy, Marked, Answers, Empty, Carries
<1>5. ASSUME NEW q \in Requests PROVE Accounted(q)'
  <2>1. SUFFICES ASSUME ~mixed[q]
                 PROVE  /\ IsFiniteSet(Pending(q)')
                        /\ runs[q] + Cardinality(Pending(q)')
                             <= broken[q] + IF handler[q].at \in {"reading", "done"} THEN 1 ELSE 0
    BY <1>2 DEF Accounted
  <2>2. /\ IsFiniteSet(Pending(q)) /\ runs[q] \in Nat /\ broken[q] \in Nat
        /\ runs[q] + Cardinality(Pending(q))
             <= broken[q] + IF handler[q].at \in {"reading", "done"} THEN 1 ELSE 0
    BY <1>1, <2>1, Typed DEF Accounted, Inv
  <2>3. Pending(q)' \subseteq Pending(q)
    BY DEF Pending, Loses
  <2>4. /\ IsFiniteSet(Pending(q)') /\ Cardinality(Pending(q)') <= Cardinality(Pending(q))
        /\ Cardinality(Pending(q)') \in Nat /\ Cardinality(Pending(q)) \in Nat
    BY <2>2, <2>3, FS_Subset, FS_CardinalityType
  <2>5. PICK m \in Nat, n \in Nat : m = Cardinality(Pending(q)') /\ n = Cardinality(Pending(q))
    BY <2>4
  <2>. QED  BY <2>2, <2>4, <2>5
<1>6. OwnAnswer'
  BY <1>2 DEF OwnAnswer, Inv
<1>7. TypeOK'
  <2>1. calm' \in [Requests -> BOOLEAN]
    BY <1>1 DEF Disturb, TypeOK
  <2>2. faults' \in 0 .. MaxFaults
    BY <1>1, BoundsAssumption DEF Disturb, TypeOK
  <2>. QED  BY <1>1, <1>2, <2>1, <2>2 DEF TypeOK
<1>. QED  BY <1>3, <1>4, <1>5, <1>6, <1>7 DEF Inv
LEMMA StepBreak == ASSUME Inv, NEW c \in Conns, Break(c) PROVE Inv'
<1>1. TypeOK /\ conn \in [Conns -> Conn]
  BY DEF Inv, TypeOK
<1>2. PICK in \in BOOLEAN, out \in BOOLEAN :
          conn' = [conn EXCEPT ![c].state = "lost", ![c].toServer = Kept(@, in),
                               ![c].toClient = Kept(@, out)]
  BY DEF Break
<1>. DEFINE s == Kept(conn[c].toServer, in)
            t == Kept(conn[c].toClient, out)
            k == [conn[c] EXCEPT !.state = "lost", !.toServer = s, !.toClient = t]
<1>3. s \in {conn[c].toServer, <<>>} /\ t \in {conn[c].toClient, <<>>}
  BY DEF Kept
<1>4. s \in Seq(Requests) /\ t \in Seq(Requests)
  <2>1. conn[c].toServer \in Seq(Requests) /\ conn[c].toClient \in Seq(Requests) /\ <<>> \in Seq(Requests)
    BY <1>1, Typed
  <2>. HIDE DEF s, t
  <2>. QED  BY <1>3, <2>1
<1>5. conn' = [conn EXCEPT ![c] = k]
  BY <1>2
<1>. HIDE DEF s, t
<1>6. /\ k \in Conn /\ k.state = "lost" /\ k.toServer = s /\ k.toClient = t
      /\ k.disposed = conn[c].disposed /\ k.mixed = conn[c].mixed
  BY <1>1, <1>4, Typed DEF Conn
<1>. HIDE DEF k
<1>7. Changes(c, k)
  BY <1>1, <1>5, <1>6, ConnChanges
<1>8. Loses(c, k)
  BY <1>3, <1>6 DEF Loses, Break
<1>9. ASSUME NEW d \in Conns PROVE Loses(d, conn'[d])
  <2>1. CASE d = c
    BY <1>7, <1>8, <2>1 DEF Changes
  <2>2. CASE d # c
    BY <1>1, <1>7, <2>2, Typed DEF Changes, Loses
  <2>. QED  BY <2>1, <2>2
<1>10. up' \in BOOLEAN /\ Disturb
  BY <1>1 DEF Break, TypeOK
<1>11. conn' \in [Conns -> Conn]
  BY <1>7 DEF Changes
<1>. QED  BY <1>9, <1>10, <1>11, LossKeeps

LEMMA StepCrash == ASSUME Inv, Crash PROVE Inv'
<1>1. TypeOK /\ conn \in [Conns -> Conn]
  BY ZenonT(60) DEF Inv, TypeOK
<1>2. PICK out \in BOOLEAN :
          conn' = [c \in Conns |->
                     [conn[c] EXCEPT !.state = IF @ = "open" THEN "lost" ELSE @,
                                     !.toServer = <<>>, !.toClient = Kept(@, out)]]
  BY DEF Crash
<1>3. ASSUME NEW c \in Conns PROVE Loses(c, conn'[c])
  <2>. DEFINE t == Kept(conn[c].toClient, out)
              z == IF conn[c].state = "open" THEN "lost" ELSE conn[c].state
              k == [conn[c] EXCEPT !.state = z, !.toServer = <<>>, !.toClient = t]
  <2>1. t \in {conn[c].toClient, <<>>}
    BY DEF Kept
  <2>2. t \in Seq(Requests) /\ <<>> \in Seq(Requests) /\ conn[c] \in Conn
    <3>1. conn[c].toClient \in Seq(Requests) /\ <<>> \in Seq(Requests) /\ conn[c] \in Conn
      BY <1>1, Typed
    <3>. HIDE DEF t
    <3>. QED  BY <2>1, <3>1
  <2>3. /\ z \in {"unused", "new", "failed", "open", "lost", "dead"}
        /\ z = conn[c].state \/ (conn[c].state = "open" /\ z = "lost")
    BY <2>2 DEF Conn
  <2>4. conn'[c] = k
    BY <1>2
  <2>. HIDE DEF t, z
  <2>5. /\ k \in Conn /\ k.state = z /\ k.toServer = <<>> /\ k.toClient = t
        /\ k.disposed = conn[c].disposed /\ k.mixed = conn[c].mixed
    BY <2>2, <2>3 DEF Conn
  <2>. HIDE DEF k
  <2>. QED  BY <2>1, <2>3, <2>4, <2>5 DEF Loses
<1>4. conn' \in [Conns -> Conn]
  <2>1. \A c \in Conns : conn'[c] \in Conn
    BY <1>3 DEF Loses
  <2>. QED  BY <1>2, <2>1
<1>5. up' \in BOOLEAN /\ Disturb
  BY DEF Crash
<1>. QED  BY <1>3, <1>4, <1>5, LossKeeps

(* Nothing that the invariant is about changes but the service and calm. *)
LEMMA Stays ==
    ASSUME Inv, UNCHANGED <<handler, reply, entry, conn, runs, broken, mixed>>, TypeOK'
    PROVE  Inv'
<1>1. References'
  BY DEF Inv, References, Refers, Holding
<1>2. \A c \in Conns : Reading(c)' = Reading(c)
  BY DEF Reading
<1>3. (\A c \in Conns : Orderly(conn[c], Reading(c)))'
  BY <1>2 DEF Inv, Orderly, Tidy, Marked, Answers, Empty, Carries
<1>4. (\A r \in Requests : Accounted(r))'
  BY DEF Inv, Accounted, Pending
<1>5. OwnAnswer'
  BY DEF Inv, OwnAnswer
<1>. QED  BY <1>1, <1>3, <1>4, <1>5 DEF Inv

LEMMA StepInv == ASSUME Inv, [Next]_vars PROVE Inv'
<1>1. CASE UNCHANGED vars
  BY <1>1, Stays DEF vars, service, history, TypeOK, Inv
<1>2. ASSUME NEW r \in Requests, Issue(r) \/ Proceed(r) PROVE Inv'
  BY <1>2, StepIssue, StepLookup, StepRemove, StepAddThrows, StepAdd, StepConnect, StepConnectFails,
     StepBackoff, StepSend, StepRead, StepReadMixed, StepReadEnd, StepPause DEF Proceed
<1>3. ASSUME NEW c \in Conns, Serve(c) \/ Break(c) PROVE Inv'
  BY <1>3, StepServe, StepBreak
<1>4. CASE Crash
  BY <1>4, StepCrash
<1>5. CASE Restart
  BY <1>5, Stays DEF Restart, service, history, TypeOK, Inv
<1>. QED  BY <1>1, <1>2, <1>3, <1>4, <1>5 DEF Next

LEMMA InitInv == ASSUME Init PROVE Inv
<1>1. Unused \in Conn /\ Empty(Unused) /\ ~Unused.mixed /\ Unused.state = "unused"
  <2>1. <<>> \in Seq(Requests)
    OBVIOUS
  <2>. QED  BY <2>1 DEF Unused, Conn, Empty
<1>2. Fresh \in Handler /\ Fresh.at = "idle" /\ Fresh.using = None
  BY FreshHandler DEF Fresh
<1>3. TypeOK
  BY <1>1, <1>2, BoundsAssumption DEF Init, TypeOK
<1>4. References
  BY <1>2 DEF Init, References, Refers, Holding
<1>5. ASSUME NEW c \in Conns PROVE Orderly(conn[c], Reading(c))
  <2>1. conn[c] = Unused /\ Reading(c) = {}
    BY <1>2 DEF Init, Reading
  <2>2. DOMAIN Unused.toClient = {}
    BY <1>1 DEF Empty
  <2>. QED  BY <1>1, <2>1, <2>2 DEF Orderly, Tidy, Marked, Answers
<1>6. ASSUME NEW r \in Requests PROVE Accounted(r)
  <2>1. Pending(r) = {}
    BY <1>1 DEF Init, Pending, Empty
  <2>. QED  BY <1>2, <2>1, FS_EmptySet DEF Init, Accounted
<1>7. OwnAnswer
  BY NamesAssumption DEF Init, OwnAnswer
<1>. QED  BY <1>3, <1>4, <1>5, <1>6, <1>7 DEF Inv

(***************************************************************************)
(* The inductive invariant holds: whatever connections break and whichever *)
(* commands overlap, connections carry what their one reader has sent, or  *)
(* are marked as mixed.                                                    *)
(***************************************************************************)
THEOREM Invariance == Spec => []Inv
<1>1. Init => Inv
  BY InitInv
<1>2. Inv /\ [Next]_vars => Inv'
  BY StepInv
<1>. QED  BY <1>1, <1>2, PTL DEF Spec

(***************************************************************************)
(* Connections!TypeOK: the handlers stay within their attempts and turns,  *)
(* and each one that uses a connection refers to one.                      *)
(***************************************************************************)
THEOREM TypeCorrect == Spec => []TypeOK
<1>1. Inv => TypeOK
  BY DEF Inv
<1>. QED  BY <1>1, Invariance, PTL

(***************************************************************************)
(* Connections!OwnAnswer: a user gets the answer to his own command, which *)
(* was carried out, for any number of commands that remove and replace     *)
(* each other's connections, breaks and crashes.                           *)
(***************************************************************************)
THEOREM AnswersBelong == Spec => []OwnAnswer
<1>1. Inv => OwnAnswer
  BY DEF Inv
<1>. QED  BY <1>1, Invariance, PTL

(***************************************************************************)
(* Connections!RepeatsExplained: a command is carried out at most once     *)
(* more than connections ended under it, however often it is sent again.   *)
(***************************************************************************)
THEOREM RepeatsHaveReasons == Spec => []RepeatsExplained
<1>1. ASSUME Inv PROVE RepeatsExplained
  <2>. SUFFICES ASSUME NEW r \in Requests, ~mixed[r] PROVE runs[r] <= 1 + broken[r]
    BY DEF RepeatsExplained
  <2>1. /\ IsFiniteSet(Pending(r)) /\ runs[r] \in Nat /\ broken[r] \in Nat
        /\ runs[r] + Cardinality(Pending(r))
             <= broken[r] + IF handler[r].at \in {"reading", "done"} THEN 1 ELSE 0
    BY <1>1, Typed DEF Inv, Accounted
  <2>2. PICK n \in Nat : n = Cardinality(Pending(r))
    BY <2>1, FS_CardinalityType
  <2>. QED  BY <2>1, <2>2
<1>. QED  BY <1>1, Invariance, PTL
-----------------------------------------------------------------------------
(***************************************************************************)
(* While a command is calm no other runs: what another one does concerns   *)
(* only commands that are answered or not sent yet.                        *)
(***************************************************************************)
LEMMA OthersCalm ==
    ASSUME CalmInv, NEW r \in Requests, handler[r].at \notin {"idle", "done"},
           NEW q \in Requests, q # r, handler'[q] = handler[q],
           broken'[q] = broken[q], reply'[q] = reply[q],
           calm'[q] => calm[q], mixed[q] => mixed'[q]
    PROVE  Calmed(q)'
<1>1. Calmed(q)
  BY DEF CalmInv
<1>2. r \in Running
  BY DEF Running
<1>3. q \in Running' => q \in Running
  BY DEF Running
<1>. QED  BY <1>1, <1>2, <1>3 DEF Calmed

LEMMA SelfCalm ==
    ASSUME CalmInv, NEW r \in Requests, handler[r].at \notin {"idle", "done"}, NEW h, Moves(r, h),
           h.at # "idle", up' = up, broken'[r] = broken[r],
           calm'[r] => calm[r], mixed[r] => mixed'[r],
           calm'[r] /\ ~mixed'[r] /\ up /\ Path(handler[r]) =>
             IF h.at = "done" THEN reply'[r] = r ELSE Path(h)'
    PROVE  Calmed(r)'
<1>1. Calmed(r) /\ r \in Running
  BY DEF CalmInv, Running
<1>2. handler'[r] = h /\ \A q \in Requests : q # r => handler'[q] = handler[q]
  BY DEF Moves
<1>3. \A q \in Running' : q \in Running
  BY <1>1, <1>2 DEF Running
<1>4. SUFFICES ASSUME calm'[r], ~mixed'[r]
               PROVE  /\ broken'[r] = 0
                      /\ r \in Running' => up' /\ (\A q \in Running' : q = r) /\ Path(handler[r])'
                      /\ h.at = "done" => reply'[r] = r
  BY <1>2 DEF Calmed
<1>5. broken[r] = 0 /\ up /\ (\A q \in Running : q = r) /\ Path(handler[r])
  BY <1>1, <1>4 DEF Calmed
<1>6. IF h.at = "done" THEN reply'[r] = r ELSE Path(h)'
  BY <1>4, <1>5
<1>7. r \in Running' => h.at # "done"
  BY <1>2 DEF Running
<1>8. Path(h)' => Path(handler[r])'
  BY <1>2 DEF Path, Stale
<1>. QED  BY <1>3, <1>5, <1>6, <1>7, <1>8

(* Both together, for the step of one handler. *)
LEMMA CalmSteps ==
    ASSUME CalmInv, NEW r \in Requests, handler[r].at \notin {"idle", "done"}, NEW h, Moves(r, h),
           h.at # "idle", up' = up, broken' = broken,
           \A q \in Requests : (calm'[q] => calm[q]) /\ (mixed[q] => mixed'[q]),
           \A q \in Requests : q # r => reply'[q] = reply[q],
           calm'[r] /\ ~mixed'[r] /\ up /\ Path(handler[r]) =>
             IF h.at = "done" THEN reply'[r] = r ELSE Path(h)'
    PROVE  \A q \in Requests : Calmed(q)'
<1>1. Calmed(r)'
  BY SelfCalm
<1>2. ASSUME NEW q \in Requests, q # r PROVE Calmed(q)'
  <2>1. handler'[q] = handler[q]
    BY <1>2 DEF Moves
  <2>. QED  BY <1>2, <2>1, OthersCalm
<1>. QED  BY <1>1, <1>2

LEMMA CalmIssue == ASSUME CalmInv, NEW r \in Requests, Issue(r) PROVE \A q \in Requests : Calmed(q)'
<1>. USE DEF service, history
<1>1. TypeOK
  BY DEF CalmInv, Inv
<1>2. PICK h : Moves(r, h) /\ h.at = "lookup" /\ h.using = handler[r].using /\ h.tries = handler[r].tries
  <2>1. "lookup" \in Positions
    BY DEF Positions
  <2>2. handler \in [Requests -> Handler]
    BY <1>1 DEF TypeOK
  <2>3. Goto(r, "lookup")
    BY DEF Issue
  <2>. QED  BY <2>1, <2>2, <2>3, AtMoves
<1>3. /\ handler'[r] = h /\ \A q \in Requests : q # r => handler'[q] = handler[q]
      /\ handler[r].at = "idle"
      /\ UNCHANGED <<up, broken, reply, mixed, entry, conn>>
  BY <1>2 DEF Moves, Issue
<1>4. calm'[r] <=> (up /\ Running = {})
  BY DEF Issue
<1>5. \A q \in Requests : q # r => (calm'[q] <=> (calm[q] /\ q \notin Running))
  BY DEF Issue
<1>6. Calmed(r)'
  <2>1. broken[r] = 0 /\ h.tries = 0
    BY <1>2, <1>3 DEF CalmInv, Calmed
  <2>2. calm'[r] => up' /\ \A q \in Running' : q = r
    BY <1>3, <1>4 DEF Running
  <2>3. Path(handler[r])'
    BY <1>2, <1>3, <2>1 DEF Path
  <2>. QED  BY <1>2, <1>3, <2>1, <2>2, <2>3 DEF Calmed
<1>7. ASSUME NEW q \in Requests, q # r PROVE Calmed(q)'
  <2>1. Calmed(q) /\ (q \in Running' => q \in Running)
    BY <1>3, <1>7 DEF CalmInv, Running
  <2>. QED  BY <1>3, <1>5, <1>7, <2>1 DEF Calmed
<1>. QED  BY <1>6, <1>7

LEMMA CalmPause ==
    ASSUME CalmInv, MaxTries >= 2, NEW r \in Requests, Pause(r) PROVE \A q \in Requests : Calmed(q)'
<1>. USE DEF service, history
<1>1. TypeOK
  BY DEF CalmInv, Inv
<1>2. handler[r].tries \in Nat /\ MaxTries \in Nat
  BY <1>1, Typed, BoundsAssumption
<1>3. handler[r].at = "pause" /\ UNCHANGED <<up, broken, mixed, entry, conn>>
  BY DEF Pause
<1>4. CASE Refuse(r)
  <2>1. PICK h : Moves(r, h) /\ h.at = "done" /\ h.using = None
    BY <1>1, <1>4, ReturnMoves DEF Refuse, TypeOK
  <2>2. \A q \in Requests : (calm'[q] => calm[q]) /\ (q # r => reply'[q] = reply[q])
    BY <1>1, <1>4 DEF Pause, Refuse, TypeOK
  <2>3. calm'[r] => handler[r].tries + 1 = MaxTries \/ handler'[r].at # "done"
    <3>1. \/ handler' = [handler EXCEPT ![r].at = "lookup", ![r].tries = @ + 1]
          \/ calm' = [calm EXCEPT ![r] = @ /\ handler[r].tries + 1 = MaxTries]
      BY DEF Pause
    <3>2. CASE handler' = [handler EXCEPT ![r].at = "lookup", ![r].tries = @ + 1]
      <4>1. handler[r] \in Handler /\ handler \in [Requests -> Handler]
        BY <1>1 DEF TypeOK
      <4>2. handler'[r].at = "lookup"
        BY <3>2, <4>1 DEF Handler
      <4>. QED  BY <4>2
    <3>3. CASE calm' = [calm EXCEPT ![r] = @ /\ handler[r].tries + 1 = MaxTries]
      <4>1. calm'[r] = (calm[r] /\ handler[r].tries + 1 = MaxTries)
        BY <1>1, <3>3 DEF TypeOK
      <4>. QED  BY <4>1
    <3>. QED  BY <3>1, <3>2, <3>3
  <2>4. handler'[r].at = "done"
    BY <2>1 DEF Moves
  <2>5. ~(calm'[r] /\ Path(handler[r]))
    BY <1>2, <1>3, <2>3, <2>4 DEF Path
  <2>. QED  BY <1>3, <2>1, <2>2, <2>5, CalmSteps
<1>5. CASE ~Refuse(r)
  <2>. DEFINE k == [handler[r] EXCEPT !.at = "lookup", !.tries = @ + 1]
  <2>1. handler' = [handler EXCEPT ![r] = k] /\ handler[r].tries + 1 < MaxTries /\ UNCHANGED <<reply, calm>>
    BY <1>5 DEF Pause
  <2>2. handler[r].tries + 1 \in 0 .. MaxTries - 1
    BY <1>2, <2>1
  <2>3. k \in Handler /\ k.at = "lookup" /\ k.tries = handler[r].tries + 1
    BY <1>1, <2>2, Typed DEF Handler, Positions
  <2>. HIDE DEF k
  <2>4. PICK h \in Handler : h = k
    BY <2>3
  <2>5. Moves(r, h)
    BY <1>1, <2>1, <2>4, HandlerMoves DEF TypeOK
  <2>6. Path(handler[r]) => Path(h)'
    BY <1>2, <1>3, <2>3, <2>4 DEF Path, Stale
  <2>. QED  BY <1>3, <2>1, <2>3, <2>4, <2>5, <2>6, CalmSteps
<1>. QED  BY <1>4, <1>5
LEMMA CalmLookup == ASSUME CalmInv, NEW r \in Requests, Lookup(r) PROVE \A q \in Requests : Calmed(q)'
<1>. USE DEF service, history
<1>1. TypeOK
  BY DEF CalmInv, Inv
<1>2. PICK h : /\ Moves(r, h) /\ h.using = entry /\ h.tries = handler[r].tries
               /\ Connected(entry) => h.at = "send"
               /\ ~Connected(entry) /\ entry = None => h.at = "add"
               /\ ~Connected(entry) /\ entry # None => h.at = "remove"
  BY <1>1, LookupMoves
<1>3. handler[r].at = "lookup" /\ UNCHANGED <<up, broken, mixed, reply, entry, conn, calm>>
  BY DEF Lookup
<1>4. h.at \in {"send", "add", "remove"} /\ (h.at = "send" => conn[entry].state \in {"open", "lost"})
  BY <1>2 DEF Connected
<1>5. h.at = "add" => entry = None
  BY <1>2
<1>6. Path(handler[r]) => Path(h)'
  BY <1>2, <1>3, <1>4, <1>5 DEF Path, Stale
<1>. QED  BY <1>2, <1>3, <1>4, <1>6, CalmSteps

LEMMA CalmRemove == ASSUME CalmInv, NEW r \in Requests, Remove(r) PROVE \A q \in Requests : Calmed(q)'
<1>. USE DEF service, history
<1>1. TypeOK
  BY DEF CalmInv, Inv
<1>2. PICK h : Moves(r, h) /\ h.at = "add" /\ h.using = None /\ h.tries = handler[r].tries
  <2>1. "add" \in Positions
    BY DEF Positions
  <2>. QED  BY <1>1, <2>1, ReleaseMoves DEF Remove, TypeOK
<1>3. handler[r].at = "remove" /\ entry' = None /\ UNCHANGED <<up, broken, mixed, reply, calm>>
  BY DEF Remove
<1>4. Path(handler[r]) => Path(h)'
  BY <1>2, <1>3 DEF Path, Stale
<1>. QED  BY <1>2, <1>3, <1>4, CalmSteps

LEMMA CalmAddThrows == ASSUME CalmInv, NEW r \in Requests, AddThrows(r) PROVE \A q \in Requests : Calmed(q)'
<1>. USE DEF service, history
<1>1. TypeOK
  BY DEF CalmInv, Inv
<1>2. PICK h : Moves(r, h) /\ h.at = "done" /\ h.using = None
  BY <1>1, ReturnMoves DEF AddThrows, Refuse, TypeOK
<1>3. /\ handler[r].at = "add" /\ ~(up /\ entry = None) /\ UNCHANGED <<up, broken, mixed, calm>>
      /\ reply' = [reply EXCEPT ![r] = Unavailable]
  BY DEF AddThrows, Refuse
<1>4. ~(up /\ Path(handler[r]))
  BY <1>3 DEF Path
<1>5. \A q \in Requests : q # r => reply'[q] = reply[q]
  BY <1>1, <1>3 DEF TypeOK
<1>. QED  BY <1>2, <1>3, <1>4, <1>5, CalmSteps

LEMMA CalmAdd == ASSUME CalmInv, NEW r \in Requests, Add(r) PROVE \A q \in Requests : Calmed(q)'
<1>. USE DEF service, history
<1>1. TypeOK
  BY DEF CalmInv, Inv
<1>2. PICK c \in Conns, k \in Conn, h \in Handler :
             /\ entry' = c /\ Changes(c, k) /\ Moves(r, h) /\ k.state = "new"
             /\ h.at = "connect" /\ h.using = c /\ h.tries = handler[r].tries
  BY <1>1, AddNew
<1>3. handler[r].at = "add" /\ UNCHANGED <<up, broken, mixed, reply, calm>>
  BY DEF Add
<1>4. conn'[c] = k
  BY <1>2 DEF Changes
<1>5. Path(handler[r]) => Path(h)'
  BY <1>2, <1>3, <1>4 DEF Path, Stale
<1>. QED  BY <1>2, <1>3, <1>5, CalmSteps

LEMMA CalmConnect == ASSUME CalmInv, NEW r \in Requests, Connect(r) PROVE \A q \in Requests : Calmed(q)'
<1>. USE DEF service, history
<1>1. TypeOK /\ Inv
  BY DEF CalmInv, Inv
<1>2. PICK h : Moves(r, h) /\ h.at \in {"send", "done"}
               /\ (entry # None => h.at = "send" /\ h.using = entry /\ h.tries = handler[r].tries)
  <2>1. CASE entry = None
    <3>1. handler \in [Requests -> Handler] /\ Return(r)
      BY <1>1, <2>1 DEF Connect, Refuse, TypeOK
    <3>. QED  BY <2>1, <3>1, ReturnMoves
  <2>2. CASE entry # None
    <3>1. handler \in [Requests -> Handler] /\ entry \in Conns \cup {None} /\ Takes(r, entry, "send")
      BY <1>1, <2>2 DEF Connect, TypeOK, Takes
    <3>2. "send" \in Positions
      BY DEF Positions
    <3>. QED  BY <2>2, <3>1, <3>2, UseMoves
  <2>. QED  BY <2>1, <2>2
<1>3. PICK c \in Conns : c = handler[r].using
  BY <1>1, Typed DEF Inv, References, Refers, Holding, Connect
<1>4. PICK k : Changes(c, k) /\ k.state = "open"
  <2>1. Becomes(c, "open") /\ conn \in [Conns -> Conn]
    BY <1>1, <1>3 DEF Connect, Becomes, TypeOK
  <2>. QED  BY <2>1, StateChanges
<1>5. handler[r].at = "connect" /\ UNCHANGED <<up, broken, mixed, calm, entry>>
  BY DEF Connect
<1>6. \A q \in Requests : q # r => reply'[q] = reply[q]
  BY <1>1 DEF Connect, Refuse, TypeOK
<1>7. conn'[c].state = "open" /\ c # None
  BY <1>4, NamesAssumption DEF Changes
<1>8. Path(handler[r]) => h.at = "send" /\ Path(h)'
  BY <1>2, <1>3, <1>5, <1>7 DEF Path, Stale
<1>. QED  BY <1>2, <1>5, <1>6, <1>8, CalmSteps

LEMMA CalmConnectFails ==
    ASSUME CalmInv, NEW r \in Requests, ConnectFails(r) PROVE \A q \in Requests : Calmed(q)'
<1>. USE DEF service, history
<1>1. TypeOK
  BY DEF CalmInv, Inv
<1>2. PICK h : Moves(r, h) /\ h.at = "backoff"
  <2>1. "backoff" \in Positions
    BY DEF Positions
  <2>. QED  BY <1>1, <2>1, ReleaseMoves DEF ConnectFails, TypeOK
<1>3. handler[r].at = "connect" /\ ~up /\ UNCHANGED <<up, broken, mixed, calm, reply>>
  BY DEF ConnectFails
<1>. QED  BY <1>2, <1>3, CalmSteps

LEMMA CalmBackoff == ASSUME CalmInv, NEW r \in Requests, Backoff(r) PROVE \A q \in Requests : Calmed(q)'
<1>. USE DEF service, history
<1>1. TypeOK
  BY DEF CalmInv, Inv
<1>2. PICK h : Moves(r, h) /\ h.at \in {"add", "pause", "done"}
  <2>1. CASE Refuse(r)
    BY <1>1, <2>1, ReturnMoves DEF Refuse, TypeOK
  <2>2. CASE Retry(r)
    BY <1>1, <2>2, RetryMoves DEF TypeOK
  <2>3. CASE ~Refuse(r) /\ ~Retry(r)
    <3>. DEFINE h == [handler[r] EXCEPT !.at = "add", !.i = @ + 1]
    <3>1. handler' = [handler EXCEPT ![r] = h] /\ handler[r].i + 1 < Attempts
      BY <2>3 DEF Backoff
    <3>2. handler[r].i + 1 \in 0 .. Attempts - 1
      BY <1>1, <3>1, Typed DEF Attempts
    <3>3. h \in Handler /\ h.at = "add"
      BY <1>1, <3>2, Typed DEF Handler, Positions
    <3>. HIDE DEF h
    <3>. QED  BY <1>1, <3>1, <3>3, HandlerMoves DEF TypeOK
  <2>. QED  BY <2>1, <2>2, <2>3
<1>3. handler[r].at = "backoff" /\ UNCHANGED <<up, broken, mixed, calm>>
  BY DEF Backoff
<1>4. \A q \in Requests : q # r => reply'[q] = reply[q]
  BY <1>1 DEF Backoff, Refuse, TypeOK
<1>5. ~Path(handler[r])
  BY <1>3 DEF Path
<1>. QED  BY <1>2, <1>3, <1>4, <1>5, CalmSteps
LEMMA CalmSend == ASSUME CalmInv, NEW r \in Requests, Send(r) PROVE \A q \in Requests : Calmed(q)'
<1>. USE DEF service, history
<1>1. TypeOK /\ Inv
  BY DEF CalmInv, Inv
<1>2. PICK c \in Conns : c = handler[r].using
  BY <1>1, Typed DEF Inv, References, Refers, Holding, Send
<1>3. handler[r].at = "send" /\ UNCHANGED <<up, broken, reply, entry, calm>> /\ c # None
  BY NamesAssumption DEF Send
<1>4. CASE conn[c].state = "open" /\ ~conn[c].disposed
  <2>1. PICK h : Moves(r, h) /\ h.at = "reading" /\ h.using = c /\ h.tries = handler[r].tries
    BY <1>1, <1>2, <1>4, SendCases
  <2>2. PICK k : Changes(c, k) /\ k.state = "open" /\ ~k.disposed
    BY <1>1, <1>2, <1>4, SendCases
  <2>3. mixed' = [q \in Requests |-> mixed[q] \/ (Mix(c) /\ q \in Reading(c) \cup {r})]
    BY <1>1, <1>2, <1>4, SendCases
  <2>4. \A q \in Requests : mixed[q] => mixed'[q]
    BY <2>3
  <2>5. conn'[c].state = "open" /\ ~conn'[c].disposed
    BY <2>2 DEF Changes
  <2>6. Path(handler[r]) => Path(h)'
    BY <1>2, <1>3, <2>1, <2>5 DEF Path, Stale
  <2>. QED  BY <1>3, <2>1, <2>4, <2>6, CalmSteps
<1>5. CASE ~(conn[c].state = "open" /\ ~conn[c].disposed)
  <2>1. PICK h : Moves(r, h) /\ h.at = "pause" /\ h.using = None /\ h.tries = handler[r].tries
    BY <1>1, <1>2, <1>5, SendCases
  <2>2. PICK k : Changes(c, k) /\ k.state = IF conn[c].state = "lost" THEN "dead" ELSE conn[c].state
    BY <1>1, <1>2, <1>5, SendCases
  <2>3. mixed' = mixed
    BY <1>1, <1>2, <1>5, SendCases
  <2>4. conn'[c].state = IF conn[c].state = "lost" THEN "dead" ELSE conn[c].state
    BY <2>2 DEF Changes
  <2>5. Path(handler[r]) => conn[c].state = "lost" /\ entry = c
    BY <1>1, <1>2, <1>3, <1>5 DEF Path, Inv, References
  <2>6. Path(handler[r]) => Path(h)'
    BY <1>3, <2>1, <2>4, <2>5 DEF Path, Stale
  <2>. QED  BY <1>3, <2>1, <2>3, <2>6, CalmSteps
<1>. QED  BY <1>4, <1>5

LEMMA CalmRead == ASSUME CalmInv, NEW r \in Requests, Read(r) PROVE \A q \in Requests : Calmed(q)'
<1>. USE DEF service, history
<1>1. TypeOK /\ Inv
  BY DEF CalmInv, Inv
<1>2. PICK c \in Conns : c = handler[r].using
  BY <1>1, Typed DEF Inv, References, Refers, Holding, Read
<1>3. PICK h : Moves(r, h) /\ h.at = "done" /\ h.using = None
  BY <1>1, ReturnMoves DEF Read, TypeOK
<1>4. /\ handler[r].at = "reading" /\ conn[c].toClient # <<>>
      /\ reply' = [reply EXCEPT ![r] = Head(conn[c].toClient)]
      /\ UNCHANGED <<broken, mixed, up, calm>>
  BY <1>2 DEF Read
<1>5. reply'[r] = Head(conn[c].toClient) /\ \A q \in Requests : q # r => reply'[q] = reply[q]
  BY <1>1, <1>4 DEF TypeOK
<1>6. Head(conn[c].toClient) \in Requests
  <2>1. conn[c].toClient \in Seq(Requests)
    BY <1>1, Typed
  <2>. QED  BY <1>4, <2>1, TailElements
<1>7. ~mixed'[r] => reply'[r] = r
  <2>1. OwnAnswer'
    BY <1>1, StepRead DEF Inv
  <2>. QED  BY <1>5, <1>6, <2>1 DEF OwnAnswer
<1>. QED  BY <1>3, <1>4, <1>5, <1>7, CalmSteps

LEMMA CalmReadMixed ==
    ASSUME CalmInv, NEW r \in Requests, ReadMixed(r) PROVE \A q \in Requests : Calmed(q)'
<1>. USE DEF service, history
<1>1. TypeOK /\ Inv
  BY DEF CalmInv, Inv
<1>2. PICK c \in Conns : c = handler[r].using
  BY <1>1, Typed DEF Inv, References, Refers, Holding, ReadMixed
<1>3. handler[r].at = "reading" /\ conn[c].mixed /\ UNCHANGED <<up, broken, mixed, reply, calm>>
  BY <1>2 DEF ReadMixed
<1>4. mixed[r]
  <2>1. r \in Reading(c) /\ Orderly(conn[c], Reading(c))
    BY <1>1, <1>2, <1>3 DEF Reading, Inv
  <2>. QED  BY <1>3, <2>1 DEF Orderly, Marked
<1>5. CASE handler' = handler
  <2>1. \A q \in Requests : q # r => Calmed(q)'
    BY <1>3, <1>5, OthersCalm
  <2>2. Calmed(r)'
    BY <1>3, <1>4, <1>5 DEF CalmInv, Calmed
  <2>. QED  BY <2>1, <2>2
<1>6. CASE Retry(r)
  <2>1. PICK h : Moves(r, h) /\ h.at = "pause"
    BY <1>1, <1>6, RetryMoves DEF TypeOK
  <2>. QED  BY <1>3, <1>4, <2>1, CalmSteps
<1>. QED  BY <1>5, <1>6 DEF ReadMixed

LEMMA CalmReadEnd == ASSUME CalmInv, NEW r \in Requests, ReadEnd(r) PROVE \A q \in Requests : Calmed(q)'
<1>. USE DEF service, history
<1>1. TypeOK /\ Inv
  BY DEF CalmInv, Inv
<1>2. PICK h : Moves(r, h) /\ h.at = "pause"
  BY <1>1, RetryMoves DEF ReadEnd, TypeOK
<1>3. /\ handler[r].at = "reading" /\ UNCHANGED <<up, mixed, reply, calm>>
      /\ \A q \in Requests : q # r => broken'[q] = broken[q]
  BY <1>1 DEF ReadEnd, TypeOK
<1>4. /\ handler'[r] = h
      /\ \A q \in Requests : q # r => handler'[q] = handler[q]
  BY <1>2 DEF Moves
<1>5. ~Path(handler[r])
  BY DEF ReadEnd, Path
<1>6. Calmed(r)'
  <2>1. Calmed(r) /\ r \in Running
    BY <1>3 DEF CalmInv, Running
  <2>2. ~(calm[r] /\ ~mixed[r])
    BY <1>5, <2>1 DEF Calmed
  <2>. QED  BY <1>2, <1>3, <1>4, <2>2 DEF Calmed
<1>7. \A q \in Requests : q # r => Calmed(q)'
  BY <1>3, <1>4, OthersCalm
<1>. QED  BY <1>6, <1>7

-----------------------------------------------------------------------------
(* The service and the surroundings change nothing for a calm command. *)
LEMMA CalmSurroundings ==
    ASSUME CalmInv, UNCHANGED <<handler, reply, entry, broken, mixed>>,
           \A q \in Requests : calm'[q] => calm[q],
           \A q \in Requests : calm'[q] /\ q \in Running => up' = up,
           \A q \in Requests : calm'[q] /\ q \in Running =>
              \A c \in Conns : conn'[c].state = conn[c].state /\ conn'[c].disposed = conn[c].disposed
    PROVE  \A q \in Requests : Calmed(q)'
<1>. SUFFICES ASSUME NEW q \in Requests PROVE Calmed(q)'
  OBVIOUS
<1>1. Calmed(q) /\ Running' = Running
  BY DEF CalmInv, Running
<1>2. ASSUME calm'[q], q \in Running, Path(handler[q])
      PROVE  Path(handler[q])'
  <2>1. \A c \in Conns : conn'[c].state = conn[c].state /\ conn'[c].disposed = conn[c].disposed
    BY <1>2
  <2>2. Refers(handler[q]) /\ entry \in Conns \cup {None} /\ handler[q].using \in Conns \cup {None}
    BY Typed DEF CalmInv, Inv, TypeOK, References
  <2>3. handler[q].at = "reading" => handler[q].using \in Conns
    BY <2>2 DEF Refers, Holding
  <2>4. handler[q].at = "send" => handler[q].using \in Conns
    BY <2>2, ZenonT(60) DEF Refers, Holding
  <2>. QED  BY <1>2, <2>1, <2>2, <2>3, <2>4 DEF Path, Stale
<1>. QED  BY <1>1, <1>2 DEF Calmed

LEMMA CalmStep == ASSUME CalmInv, MaxTries >= 2, [Next]_vars PROVE CalmInv'
<1>. USE DEF service, history
<1>1. Inv'
  BY StepInv DEF CalmInv
<1>2. CASE UNCHANGED vars
  <2>1. \A q \in Requests : Calmed(q)'
    BY <1>2, CalmSurroundings DEF vars
  <2>. QED  BY <1>1, <2>1 DEF CalmInv
<1>3. ASSUME NEW r \in Requests, Issue(r) \/ Proceed(r) PROVE CalmInv'
  <2>1. \A q \in Requests : Calmed(q)'
    BY <1>3, CalmIssue, CalmLookup, CalmRemove, CalmAddThrows, CalmAdd, CalmConnect, CalmConnectFails,
       CalmBackoff, CalmSend, CalmRead, CalmReadMixed, CalmReadEnd, CalmPause DEF Proceed
  <2>. QED  BY <1>1, <2>1 DEF CalmInv
<1>4. ASSUME NEW c \in Conns, Serve(c) PROVE CalmInv'
  <2>1. PICK k : Changes(c, k) /\ k.state = conn[c].state /\ k.disposed = conn[c].disposed
    BY <1>4, ServeChanges DEF CalmInv, Inv
  <2>2. \A d \in Conns : conn'[d].state = conn[d].state /\ conn'[d].disposed = conn[d].disposed
    BY <2>1 DEF Changes
  <2>3. \A q \in Requests : Calmed(q)'
    BY <1>4, <2>2, CalmSurroundings DEF Serve
  <2>. QED  BY <1>1, <2>3 DEF CalmInv
<1>5. CASE Disturb
  <2>1. \A q \in Requests : calm'[q] <=> (calm[q] /\ q \notin Running)
    BY <1>5 DEF Disturb
  <2>2. \A q \in Requests : Calmed(q)'
    BY <1>5, <2>1, CalmSurroundings DEF Disturb
  <2>. QED  BY <1>1, <2>2 DEF CalmInv
<1>6. CASE Restart
  <2>1. \A q \in Requests : ~(calm[q] /\ ~mixed[q] /\ q \in Running)
    BY <1>6 DEF Restart, CalmInv, Calmed
  <2>2. \A q \in Requests : Calmed(q)'
    BY <1>6, <2>1 DEF Restart, CalmInv, Calmed, Running
  <2>. QED  BY <1>1, <2>2 DEF CalmInv
<1>. QED  BY <1>2, <1>3, <1>4, <1>5, <1>6 DEF Next, Break, Crash

(***************************************************************************)
(* Connections!ExactlyOnceWhenCalm, when the ten seconds leave time for a  *)
(* second turn, as its pauses of half a second do: a command that meets no *)
(* fault and no other command is answered and carried out exactly once,    *)
(* whatever stale, failed or disposed connections earlier ones have left.  *)
(***************************************************************************)
THEOREM CalmOnce == ASSUME MaxTries >= 2 PROVE Spec => []ExactlyOnceWhenCalm
<1>1. Init => CalmInv
  BY InitInv, FreshHandler DEF Init, CalmInv, Calmed, Fresh
<1>2. CalmInv /\ [Next]_vars => CalmInv'
  BY CalmStep
<1>3. CalmInv => ExactlyOnceWhenCalm
  <2>. SUFFICES ASSUME CalmInv, NEW r \in Requests, handler[r].at = "done", calm[r], ~mixed[r]
                PROVE  reply[r] = r /\ runs[r] = 1
    BY DEF ExactlyOnceWhenCalm
  <2>1. reply[r] = r /\ broken[r] = 0
    BY DEF CalmInv, Calmed
  <2>2. /\ IsFiniteSet(Pending(r)) /\ runs[r] \in Nat /\ runs[r] > 0
        /\ runs[r] + Cardinality(Pending(r)) <= broken[r] + 1
    BY <2>1, Typed DEF CalmInv, Inv, Accounted, OwnAnswer
  <2>3. PICK n \in Nat : n = Cardinality(Pending(r))
    BY <2>2, FS_CardinalityType
  <2>. QED  BY <2>1, <2>2, <2>3
<1>. QED  BY <1>1, <1>2, <1>3, PTL DEF Spec
=============================================================================
