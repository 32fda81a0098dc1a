------------------------- MODULE AuditTrailProofs -------------------------
(***************************************************************************)
(* Theorems about AuditTrail, for any number of records, connections and   *)
(* faults: no slot of a batch that is sent is empty, no record disappears  *)
(* or is doubled between the stack, the sends, the connections and the     *)
(* log, and the file of a DUMPLOG holds what was sent ahead of it.         *)
(*                                                                         *)
(* A record waits on the stack, is sent on a connection, is coming to the  *)
(* server in full, is in the log or is lost, and is only ever in one of    *)
(* these (Kept).  For the file of a DUMPLOG it is the order that matters:  *)
(* while a DUMPLOG is in the sends or the stream of a connection, what was *)
(* sent ahead of it there is still ahead of it, unless it has arrived or   *)
(* is lost (InOrder).  That holds because a connection that has broken     *)
(* delivers none of its sends any more, and none comes back.               *)
(***************************************************************************)
EXTENDS AuditTrail, SequenceTheorems, FiniteSetTheorems, TLAPS

(* The loop makes a client before it connects it, and counts before it pops. *)
Looping ==
    /\ loop.at = "connect" => client \in Conns
    /\ loop.at = "pop" => loop.size <= Len(logs)
    /\ loop.at = "pop" => loop.size > 0

(* Record r is in a message of these, of which only the parts count. *)
Bears(messages, r, parts) ==
    \E i \in DOMAIN messages : messages[i].part \in parts /\ r \in ToSet(messages[i].items)

(* It is in one slot of a sequence of records at most ... *)
Once(records, r) == \A i, j \in DOMAIN records : records[i] = r /\ records[j] = r => i = j

(* ... and in one slot of one message. *)
BearsOnce(messages, r, parts) ==
    /\ \A i, j \in DOMAIN messages :
         /\ messages[i].part \in parts /\ r \in ToSet(messages[i].items)
         /\ messages[j].part \in parts /\ r \in ToSet(messages[j].items)
         => i = j
    /\ \A i \in DOMAIN messages : messages[i].part \in parts => Once(messages[i].items, r)

Complete == {"whole", "last"}

Waits(r) == r \in ToSet(logs)
Sent(c, r) == Bears(conn[c].sending, r, Parts)
Coming(c, r) == Bears(conn[c].stream, r, Complete)

(* It is on no connection, not in the log and not lost. *)
Nowhere(r) == r \notin lost /\ log[r] = 0 /\ \A c \in Conns : ~Sent(c, r) /\ ~Coming(c, r)

(* No two of the places of a record are occupied ... *)
Delivering(r) ==
    /\ \A c, e \in Conns : Sent(c, r) /\ Sent(e, r) => c = e
    /\ \A c, e \in Conns : Coming(c, r) /\ Coming(e, r) => c = e
    /\ \A c, e \in Conns : ~(Sent(c, r) /\ Coming(e, r))
    /\ r \in lost \/ log[r] # 0 => \A c \in Conns : ~Sent(c, r) /\ ~Coming(c, r)
    /\ r \in lost => log[r] = 0

Apart(r) == Delivering(r) /\ (Waits(r) => Nowhere(r))

(* ... and none of them twice. *)
Slots(c, r) == BearsOnce(conn[c].sending, r, Parts) /\ BearsOnce(conn[c].stream, r, Complete)
Single(r) == Once(logs, r) /\ log[r] \in {0, 1} /\ \A c \in Conns : Slots(c, r)

(* What is written is somewhere; nothing else is. *)
Somewhere(r) == Waits(r) \/ ~Nowhere(r)

Kept(r) == Apart(r) /\ Single(r) /\ (Somewhere(r) <=> at[r] = "written")

-----------------------------------------------------------------------------
(* A connection that is not made yet carries nothing. *)
Quiet(c) == conn[c].state \in {"free", "connecting"} => conn[c].sending = <<>> /\ conn[c].stream = <<>>

(* Record x has arrived or is lost. *)
Past(x) == x \in lost \/ log[x] > 0

(* x is in a message up to the j-th, in full or in the same message. *)
UpTo(messages, j, x) ==
    \E i \in 1 .. j : x \in ToSet(messages[i].items) /\ (i = j \/ messages[i].part # "first")

(* What was sent ahead of DUMPLOG d is past or still ahead of it. *)
StreamInOrder(c, d) ==
    \A j \in DOMAIN conn[c].stream :
      conn[c].stream[j].part # "first" /\ d \in ToSet(conn[c].stream[j].items) =>
        \A x \in due[d] : Past(x) \/ UpTo(conn[c].stream, j, x)

SendsInOrder(c, d) ==
    conn[c].state = "open" =>
      \A j \in DOMAIN conn[c].sending :
        d \in ToSet(conn[c].sending[j].items) =>
          \A x \in due[d] : Past(x) \/ Coming(c, x) \/ UpTo(conn[c].sending, j, x)

Dumping(d) ==
    /\ log[d] > 0 => \A x \in due[d] : Past(x)
    /\ dumped[d] # {} => log[d] > 0 /\ due[d] \ lost \subseteq dumped[d]

Scanned(c) == \A x \in ToSet(scan[c]) : log[x] > 0

InOrder ==
    /\ \A c \in Conns : Quiet(c) /\ Scanned(c)
    /\ \A c \in Conns, d \in Dumplogs : StreamInOrder(c, d) /\ SendsInOrder(c, d)
    /\ \A d \in Dumplogs : Dumping(d)

Inv == TypeOK /\ Looping /\ (\A r \in Records : Kept(r)) /\ InOrder
-----------------------------------------------------------------------------
(* Sequences of records. *)
LEMMA Elements ==
    ASSUME NEW S, NEW s \in Seq(S), NEW x
    PROVE  /\ x \in ToSet(s) <=> \E i \in 1 .. Len(s) : s[i] = x
           /\ x \in ToSet(s) => x \in S
           /\ DOMAIN s = 1 .. Len(s) /\ Len(s) \in Nat
  BY DEF ToSet

LEMMA Joined ==
    ASSUME NEW s \in Seq(Records), NEW t \in Seq(Records)
    PROVE  /\ s \o t \in Seq(Records)
           /\ \A r : r \in ToSet(s \o t) <=> r \in ToSet(s) \/ r \in ToSet(t)
           /\ \A r : Once(s, r) /\ Once(t, r) /\ ~(r \in ToSet(s) /\ r \in ToSet(t)) => Once(s \o t, r)
<1>1. PICK n \in Nat, m \in Nat : n = Len(s) /\ m = Len(t)
  OBVIOUS
<1>2. PICK u \in Seq(Records) : u = s \o t
  BY ConcatProperties
<1>3. /\ Len(u) = n + m
      /\ \A i \in 1 .. n : u[i] = s[i]
      /\ \A i \in n + 1 .. n + m : u[i] = t[i - n]
  BY <1>1, <1>2, ConcatProperties
<1>4. DOMAIN u = 1 .. n + m /\ DOMAIN s = 1 .. n /\ DOMAIN t = 1 .. m
  BY <1>1, <1>3
<1>5. ASSUME NEW r PROVE r \in ToSet(u) <=> r \in ToSet(s) \/ r \in ToSet(t)
  <2>1. ASSUME NEW i \in 1 .. n + m, u[i] = r PROVE r \in ToSet(s) \/ r \in ToSet(t)
    <3>1. CASE i \in 1 .. n
      BY <1>3, <1>4, <2>1, <3>1 DEF ToSet
    <3>2. CASE i \notin 1 .. n
      <4>1. i \in n + 1 .. n + m /\ i - n \in 1 .. m
        BY <3>2
      <4>. QED  BY <1>3, <1>4, <2>1, <4>1 DEF ToSet
    <3>. QED  BY <3>1, <3>2
  <2>2. ASSUME NEW i \in 1 .. n, s[i] = r PROVE r \in ToSet(u)
    <3>1. i \in 1 .. n + m
      OBVIOUS
    <3>. QED  BY <1>3, <1>4, <2>2, <3>1 DEF ToSet
  <2>3. ASSUME NEW i \in 1 .. m, t[i] = r PROVE r \in ToSet(u)
    <3>1. i + n \in n + 1 .. n + m /\ (i + n) - n = i /\ i + n \in 1 .. n + m
      OBVIOUS
    <3>. QED  BY <1>3, <1>4, <2>3, <3>1 DEF ToSet
  <2>. QED  BY <1>4, <2>1, <2>2, <2>3 DEF ToSet
<1>6. ASSUME NEW r, Once(s, r), Once(t, r), ~(r \in ToSet(s) /\ r \in ToSet(t)) PROVE Once(u, r)
  <2>. SUFFICES ASSUME NEW i \in 1 .. n + m, NEW j \in 1 .. n + m, u[i] = r, u[j] = r PROVE i = j
    BY <1>4 DEF Once
  <2>1. CASE i \in 1 .. n /\ j \in 1 .. n
    BY <1>3, <1>4, <1>6, <2>1 DEF Once
  <2>2. CASE i \in n + 1 .. n + m /\ j \in n + 1 .. n + m
    <3>1. i - n \in 1 .. m /\ j - n \in 1 .. m /\ t[i - n] = r /\ t[j - n] = r
      BY <1>3, <2>2
    <3>2. i - n = j - n
      BY <1>4, <1>6, <3>1 DEF Once
    <3>. QED  BY <3>2
  <2>3. ~(i \in 1 .. n /\ j \in n + 1 .. n + m) /\ ~(j \in 1 .. n /\ i \in n + 1 .. n + m)
    <3>1. ASSUME NEW a \in 1 .. n, NEW b \in n + 1 .. n + m, u[a] = r, u[b] = r PROVE FALSE
      <4>1. b - n \in 1 .. m /\ t[b - n] = r /\ s[a] = r
        BY <1>3, <3>1
      <4>. QED  BY <1>4, <1>6, <4>1 DEF ToSet
    <3>. QED  BY <3>1
  <2>. QED  BY <2>1, <2>2, <2>3
<1>. QED  BY <1>2, <1>5, <1>6

LEMMA Reversed ==
    ASSUME NEW s \in Seq(Records)
    PROVE  /\ Reverse(s) \in Seq(Records)
           /\ \A r : r \in ToSet(Reverse(s)) <=> r \in ToSet(s)
           /\ \A r : Once(s, r) => Once(Reverse(s), r)
<1>1. PICK n \in Nat : n = Len(s)
  OBVIOUS
<1>2. PICK u : u = Reverse(s)
  OBVIOUS
<1>3. \A i \in 1 .. n : (n - i) + 1 \in 1 .. n /\ (n - ((n - i) + 1)) + 1 = i
  OBVIOUS
<1>4. /\ u = [i \in 1 .. n |-> s[(n - i) + 1]]
      /\ DOMAIN s = 1 .. n
  BY <1>1, <1>2 DEF Reverse
<1>5. u \in Seq(Records)
  <2>1. \A i \in 1 .. n : u[i] \in Records
    BY <1>1, <1>3, <1>4
  <2>. QED  BY <1>4, <2>1, IsASeq
<1>6. DOMAIN u = 1 .. n /\ \A i \in 1 .. n : u[i] = s[(n - i) + 1]
  BY <1>4
<1>7. \A i \in 1 .. n : s[i] = u[(n - i) + 1]
  BY <1>3, <1>6
<1>8. ASSUME NEW r PROVE r \in ToSet(u) <=> r \in ToSet(s)
  BY <1>3, <1>4, <1>6, <1>7, ZenonT(60) DEF ToSet
<1>9. ASSUME NEW r, Once(s, r) PROVE Once(u, r)
  <2>. SUFFICES ASSUME NEW i \in 1 .. n, NEW j \in 1 .. n, u[i] = r, u[j] = r PROVE i = j
    BY <1>6 DEF Once
  <2>1. (n - i) + 1 = (n - j) + 1
    BY <1>3, <1>4, <1>6, <1>9 DEF Once
  <2>. QED  BY <2>1
<1>. QED  BY <1>2, <1>5, <1>8, <1>9

LEMMA Split ==
    ASSUME NEW s \in Seq(Records), NEW n \in 0 .. Len(s)
    PROVE  /\ SubSeq(s, 1, n) \in Seq(Records) /\ SubSeq(s, n + 1, Len(s)) \in Seq(Records)
           /\ Len(SubSeq(s, 1, n)) = n
           /\ \A r : r \in ToSet(s) <=> r \in ToSet(SubSeq(s, 1, n)) \/ r \in ToSet(SubSeq(s, n + 1, Len(s)))
           /\ \A r : Once(s, r) =>
                /\ Once(SubSeq(s, 1, n), r) /\ Once(SubSeq(s, n + 1, Len(s)), r)
                /\ ~(r \in ToSet(SubSeq(s, 1, n)) /\ r \in ToSet(SubSeq(s, n + 1, Len(s))))
<1>1. PICK m \in Nat : m = Len(s)
  OBVIOUS
<1>2. PICK a, b : a = SubSeq(s, 1, n) /\ b = SubSeq(s, n + 1, m)
  OBVIOUS
<1>3. n \in 0 .. m /\ n \in Nat
  BY <1>1
<1>4. /\ a \in Seq(Records) /\ Len(a) = n
      /\ \A i \in 1 .. n : a[i] = s[i]
  BY <1>1, <1>2, <1>3, SubSeqProperties
<1>5. b \in Seq(Records) /\ Len(b) = m - n /\ \A i \in 1 .. m - n : b[i] = s[i + n]
  <2>1. b \in Seq(Records)
    BY <1>1, <1>2, <1>3, SubSeqProperties
  <2>2. Len(b) = m - n
    BY <1>1, <1>2, <1>3, SubSeqProperties
  <2>3. ASSUME NEW i \in 1 .. m - n PROVE b[i] = s[i + n]
    BY <1>1, <1>2, <1>3
  <2>. QED  BY <2>1, <2>2, <2>3
<1>6. DOMAIN s = 1 .. m /\ DOMAIN a = 1 .. n /\ DOMAIN b = 1 .. m - n
  BY <1>1, <1>3, <1>4, <1>5
<1>7. ASSUME NEW r PROVE r \in ToSet(s) <=> r \in ToSet(a) \/ r \in ToSet(b)
  <2>1. ASSUME NEW i \in 1 .. m, s[i] = r PROVE r \in ToSet(a) \/ r \in ToSet(b)
    <3>1. CASE i \in 1 .. n
      BY <1>4, <1>6, <2>1, <3>1 DEF ToSet
    <3>2. CASE i \notin 1 .. n
      <4>1. i - n \in 1 .. m - n /\ (i - n) + n = i
        BY <1>3, <3>2
      <4>. QED  BY <1>5, <1>6, <2>1, <4>1 DEF ToSet
    <3>. QED  BY <3>1, <3>2
  <2>2. ASSUME NEW i \in 1 .. n, a[i] = r PROVE r \in ToSet(s)
    <3>1. i \in 1 .. m
      BY <1>3
    <3>. QED  BY <1>4, <1>6, <2>2, <3>1 DEF ToSet
  <2>3. ASSUME NEW i \in 1 .. m - n, b[i] = r PROVE r \in ToSet(s)
    <3>1. i + n \in 1 .. m
      BY <1>3
    <3>. QED  BY <1>5, <1>6, <2>3, <3>1 DEF ToSet
  <2>. QED  BY <1>6, <2>1, <2>2, <2>3 DEF ToSet
<1>8. ASSUME NEW r, Once(s, r) PROVE Once(a, r) /\ Once(b, r) /\ ~(r \in ToSet(a) /\ r \in ToSet(b))
  <2>1. ASSUME NEW i \in 1 .. n, NEW j \in 1 .. n, a[i] = r, a[j] = r PROVE i = j
    <3>1. i \in 1 .. m /\ j \in 1 .. m /\ s[i] = r /\ s[j] = r
      BY <1>3, <1>4, <2>1
    <3>. QED  BY <1>6, <1>8, <3>1 DEF Once
  <2>2. ASSUME NEW i \in 1 .. m - n, NEW j \in 1 .. m - n, b[i] = r, b[j] = r PROVE i = j
    <3>1. i + n \in 1 .. m /\ j + n \in 1 .. m /\ s[i + n] = r /\ s[j + n] = r
      BY <1>3, <1>5, <2>2
    <3>2. i + n = j + n
      BY <1>6, <1>8, <3>1 DEF Once
    <3>. QED  BY <3>2
  <2>3. ASSUME NEW i \in 1 .. n, NEW j \in 1 .. m - n, a[i] = r, b[j] = r PROVE FALSE
    <3>1. i \in 1 .. m /\ j + n \in 1 .. m /\ s[i] = r /\ s[j + n] = r
      BY <1>3, <1>4, <1>5, <2>3
    <3>2. i = j + n
      BY <1>6, <1>8, <3>1 DEF Once
    <3>. QED  BY <3>2
  <2>. QED  BY <1>6, <2>1, <2>2, <2>3 DEF Once, ToSet
<1>. QED  BY <1>1, <1>2, <1>4, <1>5, <1>7, <1>8
-----------------------------------------------------------------------------
(* Sequences of messages. *)
LEMMA Messages ==
    ASSUME NEW m \in Message
    PROVE  m.items \in Seq(Records) /\ m.part \in Parts /\ \A r \in ToSet(m.items) : r \in Records
  BY Elements DEF Message

LEMMA Positions ==
    ASSUME NEW s \in Seq(Message)
    PROVE  /\ Len(s) \in Nat /\ DOMAIN s = 1 .. Len(s)
           /\ \A i \in 1 .. Len(s) : s[i] \in Message /\ s[i].items \in Seq(Records) /\ s[i].part \in Parts
<1>1. Len(s) \in Nat /\ DOMAIN s = 1 .. Len(s)
  OBVIOUS
<1>2. \A i \in 1 .. Len(s) : s[i] \in Message
  BY <1>1
<1>. QED  BY <1>1, <1>2, Messages

LEMMA Added ==
    ASSUME NEW s \in Seq(Message), NEW m \in Message, NEW parts
    PROVE  /\ Append(s, m) \in Seq(Message)
           /\ Len(Append(s, m)) = Len(s) + 1
           /\ \A i \in 1 .. Len(s) : Append(s, m)[i] = s[i]
           /\ Append(s, m)[Len(s) + 1] = m
           /\ \A r : Bears(Append(s, m), r, parts) <=>
                       Bears(s, r, parts) \/ (m.part \in parts /\ r \in ToSet(m.items))
           /\ \A r : /\ BearsOnce(s, r, parts)
                     /\ m.part \in parts => Once(m.items, r)
                     /\ ~(Bears(s, r, parts) /\ m.part \in parts /\ r \in ToSet(m.items))
                     => BearsOnce(Append(s, m), r, parts)
<1>1. PICK n \in Nat : n = Len(s)
  OBVIOUS
<1>2. PICK u \in Seq(Message) : u = Append(s, m)
  BY AppendProperties
<1>3. Len(u) = n + 1 /\ u[n + 1] = m /\ \A i \in 1 .. n : u[i] = s[i]
  BY <1>1, <1>2, AppendProperties
<1>4. DOMAIN u = 1 .. n + 1 /\ DOMAIN s = 1 .. n /\ n + 1 \in 1 .. n + 1
  BY <1>1, <1>3
<1>5. \A i \in 1 .. n + 1 : i \in 1 .. n \/ i = n + 1
  OBVIOUS
<1>6. \A i \in 1 .. n : i \in 1 .. n + 1 /\ i # n + 1
  OBVIOUS
<1>7. ASSUME NEW r
      PROVE  Bears(u, r, parts) <=> Bears(s, r, parts) \/ (m.part \in parts /\ r \in ToSet(m.items))
  BY <1>3, <1>4, <1>5, <1>6 DEF Bears
<1>8. ASSUME NEW r, BearsOnce(s, r, parts), m.part \in parts => Once(m.items, r),
             ~(Bears(s, r, parts) /\ m.part \in parts /\ r \in ToSet(m.items))
      PROVE  BearsOnce(u, r, parts)
  BY <1>3, <1>4, <1>5, <1>6, <1>8 DEF Bears, BearsOnce
<1>. QED  BY <1>1, <1>2, <1>3, <1>7, <1>8

LEMMA AddedBears ==
    ASSUME NEW s \in Seq(Message), NEW m \in Message, NEW parts, NEW r, NEW u, u = Append(s, m)
    PROVE  /\ Bears(u, r, parts) <=> Bears(s, r, parts) \/ (m.part \in parts /\ r \in ToSet(m.items))
           /\ /\ BearsOnce(s, r, parts)
              /\ m.part \in parts => Once(m.items, r)
              /\ ~(Bears(s, r, parts) /\ m.part \in parts /\ r \in ToSet(m.items))
              => BearsOnce(u, r, parts)
  BY Added

LEMMA Parted ==
    ASSUME NEW s \in Seq(Message), NEW n \in 0 .. Len(s), NEW parts
    PROVE  /\ SubSeq(s, 1, n) \in Seq(Message) /\ SubSeq(s, n + 1, Len(s)) \in Seq(Message)
           /\ Len(SubSeq(s, 1, n)) = n /\ Len(SubSeq(s, n + 1, Len(s))) = Len(s) - n
           /\ \A i \in 1 .. n : SubSeq(s, 1, n)[i] = s[i]
           /\ \A i \in 1 .. Len(s) - n : SubSeq(s, n + 1, Len(s))[i] = s[i + n]
           /\ \A r : Bears(s, r, parts) <=>
                       Bears(SubSeq(s, 1, n), r, parts) \/ Bears(SubSeq(s, n + 1, Len(s)), r, parts)
           /\ \A r : BearsOnce(s, r, parts) =>
                /\ BearsOnce(SubSeq(s, 1, n), r, parts) /\ BearsOnce(SubSeq(s, n + 1, Len(s)), r, parts)
                /\ ~(Bears(SubSeq(s, 1, n), r, parts) /\ Bears(SubSeq(s, n + 1, Len(s)), r, parts))
<1>1. PICK m \in Nat : m = Len(s)
  OBVIOUS
<1>2. PICK a, b : a = SubSeq(s, 1, n) /\ b = SubSeq(s, n + 1, m)
  OBVIOUS
<1>3. n \in 0 .. m /\ n \in Nat
  BY <1>1
<1>4. /\ a \in Seq(Message) /\ Len(a) = n
      /\ \A i \in 1 .. n : a[i] = s[i]
  BY <1>1, <1>2, <1>3, SubSeqProperties
<1>5. b \in Seq(Message) /\ Len(b) = m - n /\ \A i \in 1 .. m - n : b[i] = s[i + n]
  <2>1. b \in Seq(Message)
    BY <1>1, <1>2, <1>3, SubSeqProperties
  <2>2. Len(b) = m - n
    BY <1>1, <1>2, <1>3, SubSeqProperties
  <2>3. ASSUME NEW i \in 1 .. m - n PROVE b[i] = s[i + n]
    BY <1>1, <1>2, <1>3
  <2>. QED  BY <2>1, <2>2, <2>3
<1>6. DOMAIN s = 1 .. m /\ DOMAIN a = 1 .. n /\ DOMAIN b = 1 .. m - n
  BY <1>1, <1>3, <1>4, <1>5
<1>7. \A i \in 1 .. n : i \in 1 .. m
  BY <1>3
<1>8. \A i \in 1 .. m - n : i + n \in 1 .. m /\ i + n \notin 1 .. n
  BY <1>3
<1>9. \A i \in 1 .. m : i \in 1 .. n \/ (i - n \in 1 .. m - n /\ (i - n) + n = i)
  BY <1>3
<1>10. \A i, j \in 1 .. m - n : i + n = j + n => i = j
  BY <1>3
<1>11. ASSUME NEW r
       PROVE  Bears(s, r, parts) <=> Bears(a, r, parts) \/ Bears(b, r, parts)
  <2>1. ASSUME NEW i \in 1 .. m, s[i].part \in parts, r \in ToSet(s[i].items)
        PROVE  Bears(a, r, parts) \/ Bears(b, r, parts)
    <3>1. CASE i \in 1 .. n
      BY <1>4, <1>6, <2>1, <3>1 DEF Bears
    <3>2. CASE i - n \in 1 .. m - n /\ (i - n) + n = i
      BY <1>5, <1>6, <2>1, <3>2 DEF Bears
    <3>. QED  BY <1>9, <3>1, <3>2
  <2>2. Bears(a, r, parts) => Bears(s, r, parts)
    BY <1>4, <1>6, <1>7 DEF Bears
  <2>3. Bears(b, r, parts) => Bears(s, r, parts)
    BY <1>5, <1>6, <1>8 DEF Bears
  <2>. QED  BY <1>6, <2>1, <2>2, <2>3 DEF Bears
<1>12. ASSUME NEW r, BearsOnce(s, r, parts)
       PROVE  BearsOnce(a, r, parts) /\ BearsOnce(b, r, parts) /\ ~(Bears(a, r, parts) /\ Bears(b, r, parts))
  <2>1. BearsOnce(a, r, parts)
    BY <1>4, <1>6, <1>7, <1>12 DEF BearsOnce
  <2>2. BearsOnce(b, r, parts)
    <3>1. ASSUME NEW i \in 1 .. m - n, NEW j \in 1 .. m - n,
                 b[i].part \in parts, r \in ToSet(b[i].items), b[j].part \in parts, r \in ToSet(b[j].items)
          PROVE  i = j
      <4>1. i + n = j + n
        BY <1>5, <1>6, <1>8, <1>12, <3>1 DEF BearsOnce
      <4>. QED  BY <1>10, <4>1
    <3>2. ASSUME NEW i \in 1 .. m - n, b[i].part \in parts PROVE Once(b[i].items, r)
      BY <1>5, <1>6, <1>8, <1>12, <3>2 DEF BearsOnce
    <3>. QED  BY <1>6, <3>1, <3>2 DEF BearsOnce
  <2>3. ASSUME NEW i \in 1 .. n, NEW j \in 1 .. m - n,
               a[i].part \in parts, r \in ToSet(a[i].items), b[j].part \in parts, r \in ToSet(b[j].items)
        PROVE  FALSE
    <3>1. i = j + n
      BY <1>4, <1>5, <1>6, <1>7, <1>8, <1>12, <2>3 DEF BearsOnce
    <3>. QED  BY <1>8, <3>1
  <2>. QED  BY <1>6, <2>1, <2>2, <2>3 DEF Bears
<1>. QED  BY <1>1, <1>2, <1>4, <1>5, <1>11, <1>12

LEMMA Headed ==
    ASSUME NEW s \in Seq(Message), s # <<>>, NEW parts
    PROVE  /\ Head(s) \in Message /\ Head(s) = s[1] /\ Tail(s) \in Seq(Message)
           /\ Len(Tail(s)) = Len(s) - 1
           /\ \A i \in 1 .. Len(s) - 1 : Tail(s)[i] = s[i + 1]
           /\ \A r : Bears(s, r, parts) <=>
                       Bears(Tail(s), r, parts) \/ (Head(s).part \in parts /\ r \in ToSet(Head(s).items))
           /\ \A r : BearsOnce(s, r, parts) =>
                /\ BearsOnce(Tail(s), r, parts)
                /\ Head(s).part \in parts => Once(Head(s).items, r)
                /\ ~(Bears(Tail(s), r, parts) /\ Head(s).part \in parts /\ r \in ToSet(Head(s).items))
<1>1. 1 \in 0 .. Len(s) /\ Len(s) \in Nat /\ 1 \in 1 .. Len(s) /\ 1 + 1 = 2
  BY EmptySeq
<1>2. PICK a, b : a = SubSeq(s, 1, 1) /\ b = SubSeq(s, 1 + 1, Len(s))
  OBVIOUS
<1>3. Tail(s) = b
  BY <1>1, <1>2, TailIsSubSeq
<1>4. /\ Head(s) = s[1] /\ s[1] \in Message
      /\ DOMAIN s = 1 .. Len(s)
  BY <1>1
<1>5. a \in Seq(Message) /\ Len(a) = 1 /\ a[1] = s[1]
  BY <1>1, <1>2, Parted
<1>6. DOMAIN a = {1}
  BY <1>5
<1>9. /\ b \in Seq(Message) /\ Len(b) = Len(s) - 1
      /\ \A i \in 1 .. Len(s) - 1 : b[i] = s[i + 1]
  BY <1>1, <1>2, Parted
<1>10. \A r : Bears(s, r, parts) <=> Bears(a, r, parts) \/ Bears(b, r, parts)
  BY <1>1, <1>2, Parted
<1>11. \A r : BearsOnce(s, r, parts) => BearsOnce(b, r, parts) /\ ~(Bears(a, r, parts) /\ Bears(b, r, parts))
  BY <1>1, <1>2, Parted
<1>7. \A r : Bears(a, r, parts) <=> (s[1].part \in parts /\ r \in ToSet(s[1].items))
  BY <1>5, <1>6 DEF Bears
<1>8. \A r : BearsOnce(s, r, parts) => (s[1].part \in parts => Once(s[1].items, r))
  BY <1>1, <1>4 DEF BearsOnce
<1>. QED  BY <1>3, <1>4, <1>7, <1>8, <1>9, <1>10, <1>11
-----------------------------------------------------------------------------
(* What each action does to the connections. *)
LEMMA Typed ==
    ASSUME TypeOK, NEW c \in Conns
    PROVE  /\ conn[c] \in Conn /\ conn[c].state \in States
           /\ conn[c].sending \in Seq(Message) /\ conn[c].stream \in Seq(Message)
           /\ scan[c] \in Seq(Records)
  BY DEF TypeOK, Conn

(* Only connection c changes, and becomes k. *)
Changes(c, k) ==
    /\ k \in Conn /\ conn' \in [Conns -> Conn]
    /\ conn'[c] = k
    /\ \A d \in Conns : d # c => conn'[d] = conn[d]

LEMMA ConnChanges ==
    ASSUME conn \in [Conns -> Conn], NEW c \in Conns, NEW k \in Conn, conn' = [conn EXCEPT ![c] = k]
    PROVE  Changes(c, k)
  BY DEF Changes

(* Only states change. *)
Steady ==
    /\ conn' \in [Conns -> Conn]
    /\ \A d \in Conns : conn'[d].sending = conn[d].sending /\ conn'[d].stream = conn[d].stream

Aged == \A d \in Conns : conn'[d].state = conn[d].state \/ conn'[d].state = "closed"

LEMMA SteadyState ==
    ASSUME TypeOK, NEW c \in Conns, NEW s \in States, conn' = [conn EXCEPT ![c].state = s]
    PROVE  /\ Steady /\ conn'[c].state = s
           /\ \A d \in Conns : d # c => conn'[d].state = conn[d].state
<1>. DEFINE k == [conn[c] EXCEPT !.state = s]
<1>1. k \in Conn /\ k.state = s /\ k.sending = conn[c].sending /\ k.stream = conn[c].stream
  BY Typed DEF Conn
<1>2. conn' = [conn EXCEPT ![c] = k]
  OBVIOUS
<1>. HIDE DEF k
<1>3. Changes(c, k)
  BY <1>1, <1>2, ConnChanges DEF TypeOK
<1>. QED  BY <1>1, <1>3 DEF Changes, Steady

LEMMA SameConn == ASSUME TypeOK, conn' = conn PROVE Steady /\ Aged
  BY DEF Steady, Aged, TypeOK

(* The message that a batch is sent in. *)
Batch(items, m) ==
    /\ m \in Message /\ m.items = items
    /\ m.part = IF Len(items) > Segment THEN "first" ELSE "whole"

LEMMA WriteSends ==
    ASSUME TypeOK, NEW items \in Seq(Records), NEW rest \in Seq(Records),
           WriteToServer(items, rest), Usable(client)
    PROVE  /\ client \in Conns /\ logs' = rest
           /\ due' = [d \in Dumplogs |->
                        IF d \in ToSet(items)
                        THEN ToSet(items) \cup Carried(conn[client].stream \o conn[client].sending)
                        ELSE due[d]]
           /\ \E m, k : /\ Batch(items, m) /\ Changes(client, k)
                        /\ k.sending = Append(conn[client].sending, m)
                        /\ k.stream = conn[client].stream /\ k.state = conn[client].state
<1>1. PICK c \in Conns : c = client
  BY DEF TypeOK, Usable
<1>2. PICK m : m = [items |-> items, part |-> IF Len(items) > Segment THEN "first" ELSE "whole"]
  OBVIOUS
<1>3. m \in Message /\ Batch(items, m)
  <2>1. (IF Len(items) > Segment THEN "first" ELSE "whole") \in Parts
    BY DEF Parts
  <2>. QED  BY <1>2, <2>1 DEF Message, Batch
<1>. DEFINE k == [conn[c] EXCEPT !.sending = Append(@, m)]
<1>4. Append(conn[c].sending, m) \in Seq(Message)
  BY <1>3, Typed, Added
<1>5. /\ k \in Conn
      /\ k.sending = Append(conn[c].sending, m) /\ k.stream = conn[c].stream /\ k.state = conn[c].state
  BY <1>4, Typed DEF Conn
<1>6. conn' = [conn EXCEPT ![c] = k]
  BY <1>1, <1>2 DEF WriteToServer
<1>. HIDE DEF k
<1>7. Changes(c, k)
  BY <1>5, <1>6, ConnChanges DEF TypeOK
<1>8. logs' = rest /\ due' = [d \in Dumplogs |->
                        IF d \in ToSet(items)
                        THEN ToSet(items) \cup Carried(conn[client].stream \o conn[client].sending)
                        ELSE due[d]]
  BY DEF WriteToServer
<1>. QED  BY <1>1, <1>3, <1>5, <1>7, <1>8

LEMMA WriteReturns ==
    ASSUME TypeOK, NEW items \in Seq(Records), NEW rest \in Seq(Records),
           WriteToServer(items, rest), ~Usable(client)
    PROVE  logs' = Reverse(items) \o rest /\ due' = due /\ Steady /\ Aged
<1>1. logs' = Reverse(items) \o rest /\ due' = due /\ conn' = Closed(conn, client)
  BY DEF WriteToServer
<1>2. CASE client = NoClient
  <2>1. conn' = conn
    BY <1>1, <1>2 DEF Closed
  <2>. QED  BY <1>1, <2>1, SameConn
<1>3. CASE client # NoClient
  <2>1. client \in Conns /\ "closed" \in States
    BY <1>3 DEF TypeOK, States
  <2>2. conn' = [conn EXCEPT ![client].state = "closed"]
    BY <1>1, <1>3 DEF Closed
  <2>3. PICK c \in Conns : c = client
    BY <2>1
  <2>4. Steady /\ conn'[c].state = "closed" /\ \A d \in Conns : d # c => conn'[d].state = conn[d].state
    BY <2>1, <2>2, <2>3, SteadyState
  <2>. QED  BY <1>1, <2>4 DEF Aged
<1>. QED  BY <1>2, <1>3

(* Check makes a client of a connection that is not in use. *)
LEMMA CheckDoes ==
    ASSUME TypeOK, Check
    PROVE  /\ Steady /\ UNCHANGED <<at, logs, server, faults, lost, due>>
           /\ \A d \in Conns : conn'[d].state = conn[d].state
                               \/ (conn[d].state = "free" /\ conn'[d].state = "connecting")
           /\ client' \in Conns \cup {NoClient}
           /\ \/ loop' = [loop EXCEPT !.at = "count"]
              \/ loop' = [loop EXCEPT !.at = "connect"] /\ client' \in Conns
<1>1. CASE Connected
  <2>1. UNCHANGED <<client, conn>> /\ loop' = [loop EXCEPT !.at = "count"]
    BY <1>1 DEF Check
  <2>. QED  BY <2>1, SameConn DEF Check, TypeOK, server
<1>2. CASE ~Connected
  <2>. DEFINE unused == {c \in Conns : conn[c].state = "free"}
              new == CHOOSE c \in unused : TRUE
  <2>1. unused # {} /\ conn' = [conn EXCEPT ![new].state = "connecting"] /\ client' = new
        /\ loop' = [loop EXCEPT !.at = "connect"]
    BY <1>2 DEF Check
  <2>2. new \in unused
    BY <2>1
  <2>3. PICK c \in Conns : c = new /\ conn[c].state = "free"
    BY <2>2
  <2>. HIDE DEF new, unused
  <2>4. "connecting" \in States
    BY DEF States
  <2>5. /\ Steady /\ conn'[c].state = "connecting"
        /\ \A d \in Conns : d # c => conn'[d].state = conn[d].state
    BY <2>1, <2>3, <2>4, SteadyState
  <2>. QED  BY <2>1, <2>3, <2>5 DEF Check, server
<1>. QED  BY <1>1, <1>2

LEMMA ConnectDoes ==
    ASSUME TypeOK, Looping, Connect \/ ConnectFails
    PROVE  /\ Steady /\ UNCHANGED <<at, logs, client, server, lost, due>>
           /\ \A d \in Conns : \/ conn'[d].state = conn[d].state \/ conn'[d].state = "closed"
                               \/ (conn[d].state = "connecting" /\ conn'[d].state = "open")
           /\ loop' = [loop EXCEPT !.at = "check"]
           /\ faults' \in 0 .. MaxFaults
<1>1. PICK c \in Conns : c = client
  BY DEF Looping, Connect, ConnectFails
<1>2. "open" \in States /\ "closed" \in States
  BY DEF States
<1>3. CASE Connect /\ conn[c].state = "connecting"
  <2>1. conn' = [conn EXCEPT ![c].state = "open"]
    BY <1>1, <1>3 DEF Connect
  <2>2. Steady /\ conn'[c].state = "open" /\ \A d \in Conns : d # c => conn'[d].state = conn[d].state
    BY <1>2, <2>1, SteadyState
  <2>. QED  BY <1>3, <2>2 DEF Connect, server, TypeOK
<1>4. CASE Connect /\ conn[c].state # "connecting"
  <2>1. conn' = conn
    BY <1>1, <1>4 DEF Connect
  <2>. QED  BY <1>4, <2>1, SameConn DEF Connect, server, TypeOK
<1>5. CASE ConnectFails
  <2>1. conn' = [conn EXCEPT ![c].state = "closed"]
    BY <1>1, <1>5 DEF ConnectFails
  <2>2. Steady /\ conn'[c].state = "closed" /\ \A d \in Conns : d # c => conn'[d].state = conn[d].state
    BY <1>2, <2>1, SteadyState, ZenonT(60)
  <2>3. faults' \in 0 .. MaxFaults
    <3>1. faults \in 0 .. MaxFaults /\ faults < MaxFaults /\ faults' = faults + 1 /\ MaxFaults \in Nat
      BY <1>5, SizeAssumption, ZenonT(60) DEF ConnectFails, TypeOK
    <3>. QED  BY <3>1
  <2>. QED  BY <1>5, <2>2, <2>3 DEF ConnectFails, server
<1>. QED  BY <1>3, <1>4, <1>5
(* The rest of a message that is sent in two parts. *)
Rest(m) == [m EXCEPT !.part = "last"]

(* The sends of a connection when the oldest, m, has completed. *)
Moved(c, k, m) ==
    /\ m = Head(conn[c].sending) /\ m \in Message /\ conn[c].sending # <<>>
    /\ k.state = conn[c].state
    /\ \/ m.part = "first" /\ Rest(m) \in Message /\ k.sending = Append(Tail(conn[c].sending), Rest(m))
       \/ m.part # "first" /\ k.sending = Tail(conn[c].sending)

LEMMA TransmitDoes ==
    ASSUME TypeOK, NEW c \in Conns, Transmit(c)
    PROVE  /\ UNCHANGED <<writer, server, faults, due>>
           /\ \E k, m : /\ Changes(c, k) /\ Moved(c, k, m)
                        /\ \/ /\ conn[c].state = "open" /\ lost' = lost
                              /\ k.stream = Append(conn[c].stream, m)
                           \/ /\ conn[c].state = "lost" /\ lost' = lost \cup Carried(<<m>>)
                              /\ k.stream = conn[c].stream
<1>. DEFINE q == conn[c].sending
            m == Head(q)
            more == IF m.part = "first" THEN <<Rest(m)>> ELSE <<>>
            rest == Tail(q) \o more
<1>1. q # <<>> /\ q \in Seq(Message) /\ conn[c].stream \in Seq(Message) /\ conn[c] \in Conn
  BY Typed DEF Transmit
<1>2. m \in Message /\ Tail(q) \in Seq(Message)
  BY <1>1, Headed
<1>3. Rest(m) \in Message
  BY <1>2 DEF Message, Rest, Parts
<1>4. rest \in Seq(Message) /\ (m.part = "first" => rest = Append(Tail(q), Rest(m)))
                            /\ (m.part # "first" => rest = Tail(q))
  <2>1. CASE m.part = "first"
    <3>1. rest = Tail(q) \o <<Rest(m)>> /\ Tail(q) \o <<Rest(m)>> = Append(Tail(q), Rest(m))
      BY <1>2, <1>3, <2>1, AppendIsConcat
    <3>2. Append(Tail(q), Rest(m)) \in Seq(Message)
      BY <1>2, <1>3, Added
    <3>. QED  BY <2>1, <3>1, <3>2
  <2>2. CASE m.part # "first"
    <3>1. rest = Tail(q) \o <<>> /\ Tail(q) \o <<>> = Tail(q)
      BY <1>2, <2>2, ConcatEmptySeq
    <3>. QED  BY <1>2, <2>2, <3>1
  <2>. QED  BY <2>1, <2>2
<1>5. Append(conn[c].stream, m) \in Seq(Message)
  BY <1>1, <1>2, Added, ZenonT(60)
<1>6. UNCHANGED <<writer, server, faults, due>>
  BY DEF Transmit
<1>7. CASE /\ conn[c].state = "open" /\ lost' = lost
           /\ conn' = [conn EXCEPT ![c].sending = Tail(@) \o more, ![c].stream = Append(@, m)]
  <2>. DEFINE k == [conn[c] EXCEPT !.sending = rest, !.stream = Append(@, m)]
  <2>1. k \in Conn /\ k.sending = rest /\ k.stream = Append(conn[c].stream, m) /\ k.state = conn[c].state
    BY <1>1, <1>4, <1>5 DEF Conn
  <2>2. conn' = [conn EXCEPT ![c] = k]
    BY <1>7
  <2>. HIDE DEF k, rest, more
  <2>3. Changes(c, k)
    BY <2>1, <2>2, ConnChanges DEF TypeOK
  <2>4. Moved(c, k, m)
    BY <1>1, <1>2, <1>3, <1>4, <2>1, ZenonT(60) DEF Moved
  <2>. QED  BY <1>6, <1>7, <2>1, <2>3, <2>4, ZenonT(60)
<1>8. CASE /\ conn[c].state = "lost" /\ lost' = lost \cup Carried(<<m>>)
           /\ conn' = [conn EXCEPT ![c].sending = Tail(@) \o more]
  <2>. DEFINE k == [conn[c] EXCEPT !.sending = rest]
  <2>1. k \in Conn /\ k.sending = rest /\ k.stream = conn[c].stream /\ k.state = conn[c].state
    BY <1>1, <1>4 DEF Conn
  <2>2. conn' = [conn EXCEPT ![c] = k]
    BY <1>8
  <2>. HIDE DEF k, rest, more
  <2>3. Changes(c, k)
    BY <2>1, <2>2, ConnChanges DEF TypeOK
  <2>4. Moved(c, k, m)
    BY <1>1, <1>2, <1>3, <1>4, <2>1 DEF Moved
  <2>. QED  BY <1>6, <1>8, <2>1, <2>3, <2>4
<1>. QED  BY <1>7, <1>8, ZenonT(60) DEF Transmit, Rest

LEMMA WriteFailsDoes ==
    ASSUME TypeOK, NEW c \in Conns, WriteFails(c)
    PROVE  /\ UNCHANGED <<at, client, loop, server, faults, lost, due>>
           /\ conn[c].sending # <<>> /\ conn[c].state # "open" /\ conn' \in [Conns -> Conn]
           /\ conn'[c].sending = Tail(conn[c].sending)
           /\ \A d \in Conns : d # c => conn'[d].sending = conn[d].sending
           /\ \A d \in Conns : conn'[d].stream = conn[d].stream
           /\ Aged
           /\ logs' = Reverse(Head(conn[c].sending).items) \o logs
<1>. DEFINE k == [conn[c] EXCEPT !.sending = Tail(@)]
            middle == [conn EXCEPT ![c] = k]
<1>1. conn[c].sending # <<>> /\ conn[c].state # "open" /\ conn[c].sending \in Seq(Message) /\ conn[c] \in Conn
  BY Typed DEF WriteFails
<1>2. Tail(conn[c].sending) \in Seq(Message)
  BY <1>1, Headed
<1>3. /\ k \in Conn
      /\ k.sending = Tail(conn[c].sending) /\ k.stream = conn[c].stream /\ k.state = conn[c].state
  BY <1>1, <1>2 DEF Conn
<1>4. conn' = Closed(middle, client)
  BY DEF WriteFails
<1>. HIDE DEF k
<1>5. PICK mid : mid = middle
  OBVIOUS
<1>6. /\ mid \in [Conns -> Conn] /\ mid[c] = k
      /\ \A d \in Conns : d # c => mid[d] = conn[d]
  BY <1>3, <1>5 DEF TypeOK
<1>7. conn' = Closed(mid, client)
  BY <1>4, <1>5
<1>. HIDE DEF middle
<1>8. /\ conn' \in [Conns -> Conn]
      /\ \A d \in Conns : conn'[d].sending = mid[d].sending /\ conn'[d].stream = mid[d].stream
                          /\ (conn'[d].state = mid[d].state \/ conn'[d].state = "closed")
  <2>1. CASE client = NoClient
    BY <1>6, <1>7, <2>1 DEF Closed
  <2>2. CASE client # NoClient
    <3>. DEFINE e == [mid[client] EXCEPT !.state = "closed"]
    <3>1. client \in Conns
      BY <2>2 DEF TypeOK
    <3>2. e \in Conn /\ e.state = "closed" /\ e.sending = mid[client].sending /\ e.stream = mid[client].stream
      BY <1>6, <3>1 DEF Conn, States
    <3>3. conn' = [mid EXCEPT ![client] = e]
      BY <1>7, <2>2 DEF Closed
    <3>. HIDE DEF e
    <3>. QED  BY <1>6, <3>1, <3>2, <3>3
  <2>. QED  BY <2>1, <2>2
<1>9. \A d \in Conns : mid[d].state = conn[d].state /\ mid[d].stream = conn[d].stream
  BY <1>3, <1>6
<1>10. mid[c].sending = Tail(conn[c].sending) /\ \A d \in Conns : d # c => mid[d].sending = conn[d].sending
  BY <1>3, <1>6
<1>11. UNCHANGED <<at, client, loop, server, faults, lost, due>>
       /\ logs' = Reverse(Head(conn[c].sending).items) \o logs
  BY DEF WriteFails, PushRange
<1>. QED  BY <1>1, <1>8, <1>9, <1>10, <1>11 DEF Aged
LEMMA CarriedIs ==
    ASSUME NEW s \in Seq(Message)
    PROVE  /\ \A r : r \in Carried(s) <=> Bears(s, r, Complete)
           /\ Carried(s) \subseteq Records
<1>1. \A i \in DOMAIN s : s[i].part # "first" <=> s[i].part \in Complete
  BY Positions DEF Complete, Parts
<1>2. \A i \in DOMAIN s : \A r \in ToSet(s[i].items) : r \in Records
  BY Positions, Messages
<1>3. \A r : r \in Carried(s) <=> Bears(s, r, Complete)
  BY <1>1 DEF Carried, Bears
<1>. QED  BY <1>2, <1>3 DEF Bears

(* The first n messages of a stream leave it. *)
Leaves(c, k, n) ==
    /\ n \in 1 .. Len(conn[c].stream)
    /\ k.stream = SubSeq(conn[c].stream, n + 1, Len(conn[c].stream))
    /\ k.sending = conn[c].sending /\ k.state = conn[c].state

(* They are a message in one part or in both. *)
Deserialized(stream, n) ==
    \/ n = 1 /\ stream[1].part = "whole"
    \/ n = 2 /\ stream[1].part # "whole" /\ stream[2].part = "last" /\ stream[2].items = stream[1].items

Adds(c, items) ==
    /\ lost' = lost
    /\ log' = [r \in Records |-> log[r] + IF r \in ToSet(items) THEN 1 ELSE 0]
    /\ scan' = [scan EXCEPT ![c] = items]

LEMMA ProcessDoes ==
    ASSUME TypeOK, NEW c \in Conns, Process(c)
    PROVE  /\ UNCHANGED <<writer, dumped, faults, due>>
           /\ \E k, n : /\ Changes(c, k) /\ Leaves(c, k, n)
                        /\ \/ Deserialized(conn[c].stream, n) /\ Adds(c, conn[c].stream[1].items)
                           \/ /\ lost' = lost \cup Carried(SubSeq(conn[c].stream, 1, n))
                              /\ UNCHANGED <<log, scan>>
<1>. DEFINE s == conn[c].stream
            m == s[1]
            k(n) == [conn[c] EXCEPT !.stream = SubSeq(@, n + 1, Len(@))]
            Gone(n) == conn' = [conn EXCEPT ![c].stream = SubSeq(@, n + 1, Len(@))]
            Garbage(n) == Gone(n) /\ lost' = lost \cup Carried(SubSeq(s, 1, n)) /\ UNCHANGED <<log, scan>>
<1>1. s \in Seq(Message) /\ s # <<>> /\ conn[c] \in Conn
  BY Typed DEF Process
<1>2. Len(s) \in Nat /\ Len(s) > 0 /\ DOMAIN s = 1 .. Len(s) /\ 1 \in 1 .. Len(s)
  BY <1>1, EmptySeq
<1>3. UNCHANGED <<writer, dumped, faults, due>>
  BY DEF Process
<1>4. ASSUME NEW n \in 1 .. Len(s), Gone(n)
      PROVE  Changes(c, k(n)) /\ Leaves(c, k(n), n)
  <2>1. n \in 0 .. Len(s)
    BY <1>2
  <2>2. SubSeq(s, n + 1, Len(s)) \in Seq(Message)
    BY <1>1, <2>1, Parted
  <2>3. k(n) \in Conn /\ k(n).stream = SubSeq(s, n + 1, Len(s))
        /\ k(n).sending = conn[c].sending /\ k(n).state = conn[c].state
    BY <1>1, <2>2 DEF Conn
  <2>4. conn' = [conn EXCEPT ![c] = k(n)]
    BY <1>4
  <2>5. PICK e : e = k(n)
    OBVIOUS
  <2>6. Changes(c, e)
    BY <2>3, <2>4, <2>5, ConnChanges DEF TypeOK
  <2>. QED  BY <2>3, <2>5, <2>6 DEF Leaves
<1>5. \/ m.part = "whole" /\ Gone(1) /\ Adds(c, m.items)
      \/ /\ m.part # "whole"
         /\ \E i \in EndOf(s) : IF i = 2 THEN Gone(2) /\ Adds(c, m.items) ELSE Garbage(i)
      \/ Garbage(Len(s))
  BY DEF Process, Adds
<1>. HIDE DEF Gone
<1>6. CASE m.part = "whole" /\ Gone(1) /\ Adds(c, m.items)
  <2>1. Changes(c, k(1)) /\ Leaves(c, k(1), 1)
    BY <1>2, <1>4, <1>6
  <2>2. Deserialized(s, 1)
    BY <1>6 DEF Deserialized
  <2>. HIDE DEF k
  <2>. QED  BY <1>3, <1>6, <2>1, <2>2
<1>7. ASSUME NEW i \in EndOf(s), m.part # "whole",
             IF i = 2 THEN Gone(2) /\ Adds(c, m.items) ELSE Garbage(i)
      PROVE  \E e, n : /\ Changes(c, e) /\ Leaves(c, e, n)
                       /\ \/ Deserialized(s, n) /\ Adds(c, m.items)
                          \/ lost' = lost \cup Carried(SubSeq(s, 1, n)) /\ UNCHANGED <<log, scan>>
  <2>1. i \in 1 .. Len(s) /\ s[i].part = "last" /\ s[i].items = m.items
    BY <1>2 DEF EndOf
  <2>2. CASE i = 2
    <3>1. Changes(c, k(2)) /\ Leaves(c, k(2), 2)
      BY <1>4, <1>7, <2>1, <2>2
    <3>2. Deserialized(s, 2)
      BY <1>7, <2>1, <2>2 DEF Deserialized
    <3>. HIDE DEF k
    <3>. QED  BY <1>7, <2>2, <3>1, <3>2
  <2>3. CASE i # 2
    <3>1. Changes(c, k(i)) /\ Leaves(c, k(i), i)
      BY <1>4, <1>7, <2>1, <2>3
    <3>. HIDE DEF k
    <3>. QED  BY <1>7, <2>3, <3>1
  <2>. QED  BY <2>2, <2>3
<1>8. CASE Garbage(Len(s))
  <2>2. PICK n \in 1 .. Len(s) : n = Len(s)
    BY <1>2
  <2>3. Gone(n)
    BY <1>8, <2>2
  <2>1. Changes(c, k(n)) /\ Leaves(c, k(n), n)
    BY <1>4, <2>3
  <2>. HIDE DEF k
  <2>. QED  BY <1>3, <1>8, <2>1, <2>2
<1>. QED  BY <1>3, <1>5, <1>6, <1>7, <1>8

(* The connection breaks behind the n-th message. *)
Breaks(c, k, n) ==
    /\ n \in 0 .. Len(conn[c].stream)
    /\ k.stream = SubSeq(conn[c].stream, 1, n)
    /\ k.sending = conn[c].sending
    /\ k.state # "open" /\ (conn[c].state # "open" => k.state = conn[c].state)
    /\ k.state \in {"free", "connecting"} => k.state = conn[c].state

LEMMA EndedDoes ==
    ASSUME TypeOK, NEW c \in Conns, NEW n \in 0 .. Len(conn[c].stream), Ended(c, SubSeq(conn[c].stream, 1, n))
    PROVE  /\ lost' = lost \cup (Carried(conn[c].stream) \ Carried(SubSeq(conn[c].stream, 1, n)))
           /\ \E k : Changes(c, k) /\ Breaks(c, k, n)
<1>. DEFINE s == conn[c].stream
            kept == SubSeq(s, 1, n)
            k == [conn[c] EXCEPT !.state = IF @ = "open" THEN "lost" ELSE @, !.stream = kept]
<1>1. s \in Seq(Message) /\ conn[c] \in Conn /\ conn[c].state \in States
  BY Typed
<1>2. kept \in Seq(Message)
  BY <1>1, Parted
<1>3. k.stream = kept /\ k.sending = conn[c].sending
      /\ k.state = IF conn[c].state = "open" THEN "lost" ELSE conn[c].state
  BY <1>1 DEF Conn
<1>4. k \in Conn
  BY <1>1, <1>2 DEF Conn, States
<1>5. conn' = [conn EXCEPT ![c] = k]
  BY DEF Ended
<1>6. Breaks(c, k, n)
  BY <1>1, <1>3 DEF Breaks
<1>. HIDE DEF k
<1>7. Changes(c, k)
  BY <1>4, <1>5, ConnChanges DEF TypeOK
<1>. QED  BY <1>6, <1>7 DEF Ended

LEMMA DumpFailsDoes ==
    ASSUME TypeOK, NEW c \in Conns, DumpFails(c)
    PROVE  /\ UNCHANGED <<writer, log, faults, due>>
           /\ scan' = [scan EXCEPT ![c] = <<>>]
           /\ dumped' \in [Dumplogs -> SUBSET Records]
           /\ \A d \in Dumplogs : dumped'[d] = dumped[d] \/ (d \in ToSet(scan[c]) /\ dumped'[d] = InLog)
           /\ \E n : /\ n \in 0 .. Len(conn[c].stream)
                     /\ lost' = lost \cup (Carried(conn[c].stream) \ Carried(SubSeq(conn[c].stream, 1, n)))
                     /\ \E k : Changes(c, k) /\ Breaks(c, k, n)
<1>1. UNCHANGED <<writer, log, faults, due>> /\ scan' = [scan EXCEPT ![c] = <<>>]
  BY DEF DumpFails
<1>2. SubSeq(conn[c].stream, 1, 0) = <<>> /\ 0 \in 0 .. Len(conn[c].stream)
  <2>1. conn[c].stream \in Seq(Message)
    BY Typed
  <2>. QED  BY <2>1, SubSeqEmpty
<1>3. Ended(c, SubSeq(conn[c].stream, 1, 0))
  BY <1>2 DEF DumpFails
<1>4. PICK i \in DOMAIN scan[c] :
        dumped' = [d \in Dumplogs |->
                     IF \E j \in DOMAIN scan[c] : j > i /\ scan[c][j] = d THEN InLog ELSE dumped[d]]
  BY DEF DumpFails
<1>5. \A d \in Dumplogs : dumped'[d] = dumped[d] \/ (d \in ToSet(scan[c]) /\ dumped'[d] = InLog)
  BY <1>4 DEF ToSet
<1>6. dumped' \in [Dumplogs -> SUBSET Records]
  BY <1>4 DEF InLog, TypeOK
<1>7. /\ lost' = lost \cup (Carried(conn[c].stream) \ Carried(SubSeq(conn[c].stream, 1, 0)))
      /\ \E k : Changes(c, k) /\ Breaks(c, k, 0)
  BY <1>2, <1>3, EndedDoes
<1>. QED  BY <1>1, <1>2, <1>5, <1>6, <1>7

LEMMA BreakDoes ==
    ASSUME TypeOK, NEW c \in Conns, Break(c)
    PROVE  /\ UNCHANGED <<writer, server, due>> /\ faults' \in 0 .. MaxFaults
           /\ \E n : /\ n \in 0 .. Len(conn[c].stream)
                     /\ lost' = lost \cup (Carried(conn[c].stream) \ Carried(SubSeq(conn[c].stream, 1, n)))
                     /\ \E k : Changes(c, k) /\ Breaks(c, k, n)
<1>1. PICK n \in 0 .. Len(conn[c].stream) : Ended(c, SubSeq(conn[c].stream, 1, n))
  BY DEF Break
<1>2. faults' \in 0 .. MaxFaults
  <2>1. faults \in 0 .. MaxFaults /\ faults < MaxFaults /\ faults' = faults + 1 /\ MaxFaults \in Nat
    BY SizeAssumption DEF Break, TypeOK
  <2>. QED  BY <2>1
<1>3. UNCHANGED <<writer, server, due>>
  BY DEF Break
<1>. QED  BY <1>1, <1>2, <1>3, EndedDoes

LEMMA ForgetDoes ==
    ASSUME TypeOK, NEW c \in Conns, Forget(c)
    PROVE  /\ UNCHANGED <<writer, server, faults, lost, due>> /\ Steady
           /\ conn'[c].state = "free" /\ conn'[c].sending = <<>> /\ conn'[c].stream = <<>>
           /\ \A d \in Conns : d # c => conn'[d].state = conn[d].state
<1>1. Free \in Conn /\ Free.state = "free" /\ Free.sending = <<>> /\ Free.stream = <<>>
  BY DEF Free, Conn, States
<1>2. Changes(c, Free)
  BY <1>1, ConnChanges DEF Forget, TypeOK
<1>. QED  BY <1>1, <1>2 DEF Changes, Forget, Steady
-----------------------------------------------------------------------------
(* What an action leaves alone, and the arguments of each write. *)
LEMMA DirectWrite ==
    ASSUME TypeOK, NEW r \in Records, WriteDirect(r)
    PROVE  /\ <<r>> \in Seq(Records) /\ logs \in Seq(Records) /\ WriteToServer(<<r>>, logs)
           /\ at[r] = "connected" /\ at' = [at EXCEPT ![r] = "written"]
           /\ UNCHANGED <<client, loop, server, faults, lost>>
  BY DEF WriteDirect, TypeOK

LEMMA BatchWrite ==
    ASSUME TypeOK, Looping, PopAndWrite
    PROVE  /\ loop.size \in 0 .. Len(logs)
           /\ SubSeq(logs, 1, loop.size) \in Seq(Records)
           /\ SubSeq(logs, loop.size + 1, Len(logs)) \in Seq(Records)
           /\ WriteToServer(SubSeq(logs, 1, loop.size), SubSeq(logs, loop.size + 1, Len(logs)))
           /\ loop' = [at |-> "check", size |-> 0]
           /\ UNCHANGED <<at, client, server, faults, lost>>
<1>1. logs \in Seq(Records) /\ loop.size \in Nat /\ loop.size <= Len(logs)
  BY DEF TypeOK, Looping, PopAndWrite
<1>2. loop.size \in 0 .. Len(logs)
  BY <1>1
<1>. QED  BY <1>1, <1>2, Split DEF PopAndWrite

LEMMA WriteTyped ==
    ASSUME TypeOK, NEW items \in Seq(Records), NEW rest \in Seq(Records), WriteToServer(items, rest)
    PROVE  /\ logs' \in Seq(Records) /\ conn' \in [Conns -> Conn]
           /\ due' \in [Dumplogs -> SUBSET Records]
<1>1. CASE Usable(client)
  <2>1. logs' = rest /\ conn' \in [Conns -> Conn] /\ client \in Conns
    BY <1>1, WriteSends DEF Changes
  <2>2. ToSet(items) \subseteq Records
    BY Elements
  <2>3. Carried(conn[client].stream \o conn[client].sending) \subseteq Records
    <3>1. conn[client].stream \o conn[client].sending \in Seq(Message)
      BY <2>1, Typed, ConcatProperties
    <3>. QED  BY <3>1, CarriedIs
  <2>4. due' = [d \in Dumplogs |->
                  IF d \in ToSet(items)
                  THEN ToSet(items) \cup Carried(conn[client].stream \o conn[client].sending)
                  ELSE due[d]]
    BY <1>1, WriteSends
  <2>5. \A d \in Dumplogs : (IF d \in ToSet(items)
                  THEN ToSet(items) \cup Carried(conn[client].stream \o conn[client].sending)
                  ELSE due[d]) \in SUBSET Records
    BY <2>2, <2>3 DEF TypeOK
  <2>6. due' \in [Dumplogs -> SUBSET Records]
    BY <2>4, <2>5
  <2>. QED  BY <2>1, <2>6
<1>2. CASE ~Usable(client)
  <2>1. logs' = Reverse(items) \o rest /\ due' = due /\ Steady
    BY <1>2, WriteReturns
  <2>2. logs' \in Seq(Records)
    BY <2>1, Reversed, Joined
  <2>. QED  BY <2>1, <2>2 DEF Steady, TypeOK
<1>. QED  BY <1>1, <1>2

LEMMA StepTyped == ASSUME TypeOK, Looping, [Next]_vars PROVE TypeOK'
<1>. USE DEF writer, server
<1>1. ASSUME NEW r \in Records, WriteRecord(r) PROVE TypeOK'
  <2>1. at' \in [Records -> {"unborn", "connected", "written"}]
    BY <1>1 DEF WriteRecord, TypeOK
  <2>2. logs' \in Seq(Records)
    <3>1. <<r>> \in Seq(Records) /\ logs \in Seq(Records)
      BY DEF TypeOK
    <3>2. logs' = logs \/ logs' = <<r>> \o logs
      BY <1>1 DEF WriteRecord
    <3>. QED  BY <3>1, <3>2, Joined
  <2>. QED  BY <1>1, <2>1, <2>2 DEF WriteRecord, TypeOK
<1>2. ASSUME NEW r \in Records, WriteDirect(r) PROVE TypeOK'
  <2>1. logs' \in Seq(Records) /\ conn' \in [Conns -> Conn] /\ due' \in [Dumplogs -> SUBSET Records]
    BY <1>2, DirectWrite, WriteTyped
  <2>. QED  BY <1>2, <2>1, DirectWrite DEF TypeOK
<1>3. CASE Check
  <2>1. loop' \in [at : {"check", "connect", "count", "pop"}, size : Nat]
    BY <1>3, CheckDoes DEF TypeOK
  <2>. QED  BY <1>3, <2>1, CheckDoes DEF Steady, TypeOK
<1>4. CASE Connect \/ ConnectFails
  <2>1. loop' \in [at : {"check", "connect", "count", "pop"}, size : Nat]
    BY <1>4, ConnectDoes DEF TypeOK
  <2>. QED  BY <1>4, <2>1, ConnectDoes DEF Steady, TypeOK
<1>5. CASE Count
  <2>1. loop' \in [at : {"check", "connect", "count", "pop"}, size : Nat]
    BY <1>5 DEF Count, TypeOK
  <2>. QED  BY <1>5, <2>1 DEF Count, TypeOK
<1>6. CASE PopAndWrite
  <2>1. logs' \in Seq(Records) /\ conn' \in [Conns -> Conn] /\ due' \in [Dumplogs -> SUBSET Records]
    BY <1>6, BatchWrite, WriteTyped
  <2>2. loop' \in [at : {"check", "connect", "count", "pop"}, size : Nat]
    BY <1>6, BatchWrite
  <2>. QED  BY <1>6, <2>1, <2>2, BatchWrite DEF TypeOK
<1>7. ASSUME NEW c \in Conns, Transmit(c) PROVE TypeOK'
  <2>1. PICK k, m : /\ Changes(c, k) /\ Moved(c, k, m)
                    /\ lost' = lost \/ lost' = lost \cup Carried(<<m>>)
    BY <1>7, TransmitDoes
  <2>2. Carried(<<m>>) \subseteq Records
    <3>1. <<m>> \in Seq(Message)
      BY <2>1 DEF Moved
    <3>. QED  BY <3>1, CarriedIs
  <2>. QED  BY <1>7, <2>1, <2>2, TransmitDoes DEF Changes, TypeOK
<1>8. ASSUME NEW c \in Conns, WriteFails(c) PROVE TypeOK'
  <2>1. logs' \in Seq(Records)
    <3>1. Head(conn[c].sending) \in Message
      BY <1>8, WriteFailsDoes, Typed, Headed
    <3>2. Reverse(Head(conn[c].sending).items) \in Seq(Records)
      BY <3>1, Messages, Reversed
    <3>. QED  BY <1>8, <3>2, WriteFailsDoes, Joined, ZenonT(60) DEF TypeOK
  <2>. QED  BY <1>8, <2>1, WriteFailsDoes DEF TypeOK
<1>9. ASSUME NEW c \in Conns, Process(c) PROVE TypeOK'
  <2>1. PICK k, n : /\ Changes(c, k) /\ Leaves(c, k, n)
                    /\ \/ Deserialized(conn[c].stream, n) /\ Adds(c, conn[c].stream[1].items)
                       \/ /\ lost' = lost \cup Carried(SubSeq(conn[c].stream, 1, n))
                          /\ UNCHANGED <<log, scan>>
    BY <1>9, ProcessDoes
  <2>2. conn[c].stream \in Seq(Message) /\ n \in 0 .. Len(conn[c].stream) /\ 1 \in 1 .. Len(conn[c].stream)
    <3>1. conn[c].stream \in Seq(Message)
      BY Typed
    <3>2. n \in 1 .. Len(conn[c].stream) /\ Len(conn[c].stream) \in Nat
      BY <2>1, <3>1 DEF Leaves
    <3>. QED  BY <3>1, <3>2
  <2>3. Carried(SubSeq(conn[c].stream, 1, n)) \subseteq Records
    BY <2>2, Parted, CarriedIs
  <2>4. conn[c].stream[1].items \in Seq(Records)
    BY <2>2, Positions
  <2>5. lost' \subseteq Records /\ log' \in [Records -> Nat] /\ scan' \in [Conns -> Seq(Records)]
    <3>1. CASE lost' = lost \cup Carried(SubSeq(conn[c].stream, 1, n)) /\ UNCHANGED <<log, scan>>
      BY <2>3, <3>1 DEF TypeOK
    <3>2. CASE Adds(c, conn[c].stream[1].items)
      <4>. DEFINE one(r) == IF r \in ToSet(conn[c].stream[1].items) THEN 1 ELSE 0
      <4>1. \A r \in Records : log[r] \in Nat /\ one(r) \in Nat
        BY DEF TypeOK
      <4>2. lost' = lost /\ scan' = [scan EXCEPT ![c] = conn[c].stream[1].items]
            /\ log' = [r \in Records |-> log[r] + one(r)]
        BY <3>2 DEF Adds
      <4>. HIDE DEF one
      <4>3. log' \in [Records -> Nat]
        BY <4>1, <4>2
      <4>4. scan' \in [Conns -> Seq(Records)]
        BY <2>4, <4>2 DEF TypeOK
      <4>. QED  BY <4>2, <4>3, <4>4 DEF TypeOK
    <3>. QED  BY <2>1, <3>1, <3>2
  <2>. QED  BY <1>9, <2>1, <2>5, ProcessDoes DEF Changes, TypeOK
<1>10. ASSUME NEW c \in Conns, Scan(c) PROVE TypeOK'
  <2>1. dumped' \in [Dumplogs -> SUBSET Records] /\ scan' \in [Conns -> Seq(Records)]
    BY <1>10 DEF Scan, InLog, TypeOK
  <2>. QED  BY <1>10, <2>1 DEF Scan, TypeOK
<1>11. ASSUME NEW c \in Conns, DumpFails(c) PROVE TypeOK'
  <2>1. scan' \in [Conns -> Seq(Records)] /\ dumped' \in [Dumplogs -> SUBSET Records]
        /\ UNCHANGED <<writer, log, faults, due>>
    <3>1. scan' = [scan EXCEPT ![c] = <<>>] /\ <<>> \in Seq(Records)
      BY <1>11, DumpFailsDoes
    <3>2. scan' \in [Conns -> Seq(Records)]
      BY <3>1 DEF TypeOK
    <3>. QED  BY <1>11, <3>2, DumpFailsDoes
  <2>2. lost' \subseteq Records /\ conn' \in [Conns -> Conn]
    <3>1. Carried(conn[c].stream) \subseteq Records
      BY Typed, CarriedIs
    <3>. QED  BY <1>11, <3>1, DumpFailsDoes DEF Changes, TypeOK
  <2>. QED  BY <2>1, <2>2 DEF TypeOK
<1>12. ASSUME NEW c \in Conns, Break(c) PROVE TypeOK'
  <2>1. lost' \subseteq Records /\ conn' \in [Conns -> Conn]
    <3>1. Carried(conn[c].stream) \subseteq Records
      BY Typed, CarriedIs
    <3>. QED  BY <1>12, <3>1, BreakDoes DEF Changes, TypeOK
  <2>. QED  BY <1>12, <2>1, BreakDoes DEF TypeOK
<1>13. ASSUME NEW c \in Conns, Forget(c) PROVE TypeOK'
  BY <1>13, ForgetDoes DEF Steady, TypeOK
<1>14. CASE UNCHANGED vars
  BY <1>14 DEF vars, TypeOK
<1>. QED
  BY <1>1, <1>2, <1>3, <1>4, <1>5, <1>6, <1>7, <1>8, <1>9, <1>10, <1>11, <1>12, <1>13, <1>14
     DEF Next, KeepConnected

(* Only PopAndWrite takes from the stack, so what was counted is still there. *)
LEMMA StepLooping == ASSUME TypeOK, Looping, [Next]_vars PROVE Looping'
<1>. USE DEF writer, server
<1>1. ASSUME loop' = loop, client' = client, Len(logs') >= Len(logs) PROVE Looping'
  <2>1. loop.size \in Nat /\ Len(logs) \in Nat /\ Len(logs') \in Nat
    BY StepTyped DEF TypeOK
  <2>. QED  BY <1>1, <2>1 DEF Looping
<1>2. ASSUME NEW s \in Seq(Records), logs' = s \o logs PROVE Len(logs') >= Len(logs)
  <2>1. Len(s) \in Nat /\ Len(logs) \in Nat /\ logs \in Seq(Records)
    BY DEF TypeOK
  <2>. QED  BY <1>2, <2>1, ConcatProperties
<1>3. Len(logs) \in Nat /\ logs \in Seq(Records)
  BY DEF TypeOK
<1>4. ASSUME logs' = logs PROVE Len(logs') >= Len(logs)
  BY <1>3, <1>4
<1>5. ASSUME NEW r \in Records, WriteRecord(r) PROVE Looping'
  <2>1. Len(logs') >= Len(logs)
    <3>1. <<r>> \in Seq(Records)
      OBVIOUS
    <3>. QED  BY <1>2, <1>4, <1>5, <3>1 DEF WriteRecord
  <2>. QED  BY <1>1, <1>5, <2>1 DEF WriteRecord
<1>6. ASSUME NEW r \in Records, WriteDirect(r) PROVE Looping'
  <2>1. Len(logs') >= Len(logs)
    <3>1. <<r>> \in Seq(Records) /\ logs \in Seq(Records) /\ WriteToServer(<<r>>, logs)
      BY <1>6, DirectWrite
    <3>2. logs' = logs \/ logs' = Reverse(<<r>>) \o logs
      BY <3>1, WriteSends, WriteReturns
    <3>. QED  BY <1>2, <1>4, <3>1, <3>2, Reversed
  <2>. QED  BY <1>1, <1>6, <2>1, DirectWrite
<1>7. CASE Check
  BY <1>7, CheckDoes DEF Looping, Check, TypeOK
<1>8. CASE Connect \/ ConnectFails
  BY <1>8, ConnectDoes DEF Looping, TypeOK
<1>9. CASE Count
  <2>1. CASE logs = <<>>
    BY <1>9, <2>1 DEF Count, Looping
  <2>2. CASE logs # <<>>
    <3>1. Len(logs) > 0 /\ logs' = logs /\ loop' = [at |-> "pop", size |-> Len(logs)]
      BY <1>3, <1>9, <2>2, EmptySeq DEF Count
    <3>. QED  BY <1>3, <3>1 DEF Looping
  <2>. QED  BY <2>1, <2>2
<1>10. CASE PopAndWrite
  BY <1>10, BatchWrite DEF Looping
<1>11. ASSUME NEW c \in Conns, WriteFails(c) PROVE Looping'
  <2>1. Head(conn[c].sending).items \in Seq(Records)
    <3>1. Head(conn[c].sending) \in Message
      BY <1>11, WriteFailsDoes, Typed, Headed
    <3>. QED  BY <3>1, Messages
  <2>2. Len(logs') >= Len(logs)
    BY <1>2, <1>11, <2>1, WriteFailsDoes, Reversed
  <2>. QED  BY <1>1, <1>11, <2>2, WriteFailsDoes
<1>12. ASSUME UNCHANGED writer PROVE Looping'
  BY <1>1, <1>4, <1>12, ZenonT(60)
<1>13. ASSUME NEW c \in Conns, Transmit(c) \/ Process(c) \/ Scan(c) \/ DumpFails(c) \/ Break(c) \/ Forget(c)
       PROVE  UNCHANGED writer
  BY <1>13 DEF Transmit, Process, Scan, DumpFails, Break, Forget
<1>14. CASE UNCHANGED vars
  BY <1>12, <1>14 DEF vars
<1>. QED
  BY <1>5, <1>6, <1>7, <1>8, <1>9, <1>10, <1>11, <1>12, <1>13, <1>14 DEF Next, KeepConnected
-----------------------------------------------------------------------------
(* Every record is in one place. *)
LEMMA Unmoved ==
    ASSUME NEW c \in Conns, conn'[c].sending = conn[c].sending, conn'[c].stream = conn[c].stream, NEW r
    PROVE  (Sent(c, r)' <=> Sent(c, r)) /\ (Coming(c, r)' <=> Coming(c, r)) /\ (Slots(c, r)' <=> Slots(c, r))
  BY DEF Sent, Coming, Slots

LEMMA Becomes ==
    ASSUME NEW c \in Conns, NEW k, Changes(c, k), NEW r
    PROVE  /\ Sent(c, r)' <=> Bears(k.sending, r, Parts)
           /\ Coming(c, r)' <=> Bears(k.stream, r, Complete)
           /\ Slots(c, r)' <=> BearsOnce(k.sending, r, Parts) /\ BearsOnce(k.stream, r, Complete)
           /\ \A d \in Conns : d # c => (Sent(d, r)' <=> Sent(d, r)) /\ (Coming(d, r)' <=> Coming(d, r))
                                        /\ (Slots(d, r)' <=> Slots(d, r))
<1>1. conn'[c] = k /\ \A d \in Conns : d # c => conn'[d] = conn[d]
  BY DEF Changes
<1>. QED  BY <1>1, Unmoved DEF Sent, Coming, Slots

(* Only the stack has changed, or a record that was nowhere is put on it. *)
LEMMA KeptOnStack ==
    ASSUME NEW r \in Records, Delivering(r), Steady, lost' = lost, log'[r] = log[r], log[r] \in {0, 1},
           \A c \in Conns : Slots(c, r),
           Once(logs', r), Waits(r)' => Nowhere(r), (Waits(r)' \/ ~Nowhere(r)) <=> at'[r] = "written"
    PROVE  Kept(r)'
<1>1. \A c \in Conns : /\ Sent(c, r)' <=> Sent(c, r)
                       /\ Coming(c, r)' <=> Coming(c, r)
                       /\ Slots(c, r)' <=> Slots(c, r)
  BY Unmoved DEF Steady
<1>2. Nowhere(r)' <=> Nowhere(r)
  BY <1>1 DEF Nowhere
<1>3. Delivering(r)'
  BY <1>1 DEF Delivering
<1>4. Single(r)'
  BY <1>1 DEF Single, Once
<1>. QED  BY <1>2, <1>3, <1>4 DEF Kept, Apart, Somewhere

(* WriteToServer keeps a record that was in the batch, on the rest of the *)
(* stack or in another place.                                             *)
LEMMA KeptWrite ==
    ASSUME TypeOK, NEW items \in Seq(Records), NEW rest \in Seq(Records), WriteToServer(items, rest),
           UNCHANGED <<lost, log>>,
           NEW r \in Records, Delivering(r), log[r] \in {0, 1}, \A c \in Conns : Slots(c, r),
           Once(items, r), Once(rest, r), ~(r \in ToSet(items) /\ r \in ToSet(rest)),
           r \in ToSet(items) \/ r \in ToSet(rest) => Nowhere(r),
           at'[r] = "written" <=> r \in ToSet(items) \/ r \in ToSet(rest) \/ ~Nowhere(r)
    PROVE  Kept(r)'
<1>1. CASE ~Usable(client)
  <2>1. logs' = Reverse(items) \o rest /\ Steady
    BY <1>1, WriteReturns
  <2>2. Waits(r)' <=> r \in ToSet(items) \/ r \in ToSet(rest)
    BY <2>1, Reversed, Joined DEF Waits
  <2>3. Once(logs', r)
    BY <2>1, Reversed, Joined
  <2>. QED  BY <2>1, <2>2, <2>3, KeptOnStack
<1>2. CASE Usable(client)
  <2>1. PICK c \in Conns : c = client
    BY <1>2, WriteSends
  <2>2. logs' = rest
    BY <1>2, WriteSends
  <2>3. PICK m, k : /\ Batch(items, m) /\ Changes(c, k)
                    /\ k.sending = Append(conn[c].sending, m)
                    /\ k.stream = conn[c].stream
    BY <1>2, <2>1, WriteSends
  <2>4. conn[c].sending \in Seq(Message) /\ m \in Message /\ m.part \in Parts /\ m.items = items
    BY <2>3, Typed, Messages DEF Batch
  <2>5. Sent(c, r)' <=> Sent(c, r) \/ r \in ToSet(items)
    <3>1. Sent(c, r)' <=> Bears(k.sending, r, Parts)
      BY <2>3, Becomes
    <3>2. Bears(k.sending, r, Parts) <=> Bears(conn[c].sending, r, Parts) \/ r \in ToSet(items)
      BY <2>3, <2>4, Added
    <3>. QED  BY <3>1, <3>2 DEF Sent
  <2>6. Coming(c, r)' <=> Coming(c, r)
    BY <2>3, Becomes DEF Coming
  <2>7. Slots(c, r)'
    <3>1. Slots(c, r) /\ ~(Sent(c, r) /\ r \in ToSet(items))
      BY DEF Nowhere
    <3>2. BearsOnce(k.sending, r, Parts)
      BY <2>3, <2>4, <3>1, Added DEF Slots, Sent
    <3>. QED  BY <2>3, <3>1, <3>2, Becomes DEF Slots
  <2>8. \A d \in Conns : d # c => (Sent(d, r)' <=> Sent(d, r)) /\ (Coming(d, r)' <=> Coming(d, r))
                                  /\ (Slots(d, r)' <=> Slots(d, r))
    BY <2>3, Becomes
  <2>9. Waits(r)' <=> r \in ToSet(rest)
    BY <2>2 DEF Waits
  <2>10. Single(r)'
    BY <2>2, <2>7, <2>8 DEF Single
  <2>11. CASE r \in ToSet(items)
    <3>1. Nowhere(r) /\ ~Waits(r)'
      BY <2>9, <2>11
    <3>2. \A d \in Conns : (Sent(d, r)' <=> d = c) /\ ~Coming(d, r)'
      BY <2>5, <2>6, <2>8, <2>11, <3>1 DEF Nowhere
    <3>3. Delivering(r)'
      BY <3>1, <3>2 DEF Delivering, Nowhere
    <3>4. ~Nowhere(r)' /\ at'[r] = "written"
      BY <2>11, <3>2 DEF Nowhere
    <3>. QED  BY <2>10, <3>1, <3>3, <3>4 DEF Kept, Apart, Somewhere
  <2>12. CASE r \notin ToSet(items)
    <3>1. \A d \in Conns : (Sent(d, r)' <=> Sent(d, r)) /\ (Coming(d, r)' <=> Coming(d, r))
      BY <2>5, <2>6, <2>8, <2>12
    <3>2. Delivering(r)' /\ (Nowhere(r)' <=> Nowhere(r))
      BY <3>1 DEF Delivering, Nowhere
    <3>. QED  BY <2>9, <2>10, <2>12, <3>2 DEF Kept, Apart, Somewhere
  <2>. QED  BY <2>11, <2>12
<1>. QED  BY <1>1, <1>2

LEMMA KeptRecord ==
    ASSUME TypeOK, NEW q \in Records, WriteRecord(q), NEW r \in Records, Kept(r) PROVE Kept(r)'
<1>. USE DEF server
<1>1. conn' = conn /\ lost' = lost /\ log' = log
  BY DEF WriteRecord
<1>2. Steady
  BY <1>1, SameConn
<1>3. Delivering(r) /\ log[r] \in {0, 1} /\ (\A c \in Conns : Slots(c, r)) /\ Once(logs, r)
      /\ (Waits(r) => Nowhere(r)) /\ ((Waits(r) \/ ~Nowhere(r)) <=> at[r] = "written")
  BY DEF Kept, Apart, Single, Somewhere
<1>4. CASE logs' = logs
  <2>1. at'[r] = "written" <=> at[r] = "written"
    <3>1. CASE Connected
      BY <3>1 DEF WriteRecord, TypeOK
    <3>2. CASE ~Connected
      <4>1. logs' = <<q>> \o logs /\ logs \in Seq(Records) /\ <<q>> \in Seq(Records)
        BY <3>2 DEF WriteRecord, TypeOK
      <4>2. Len(logs') = Len(<<q>>) + Len(logs) /\ Len(logs) \in Nat /\ Len(<<q>>) = 1
        BY <4>1, ConcatProperties
      <4>. QED  BY <1>4, <4>2
    <3>. QED  BY <3>1, <3>2
  <2>2. Waits(r)' <=> Waits(r)
    BY <1>4 DEF Waits
  <2>. QED  BY <1>1, <1>2, <1>3, <1>4, <2>1, <2>2, KeptOnStack
<1>5. CASE logs' = <<q>> \o logs /\ at' = [at EXCEPT ![q] = "written"]
  <2>1. <<q>> \in Seq(Records) /\ logs \in Seq(Records)
    BY DEF TypeOK
  <2>2. (r \in ToSet(<<q>>) <=> r = q) /\ Once(<<q>>, r)
    BY DEF ToSet, Once
  <2>3. Waits(r)' <=> r = q \/ Waits(r)
    BY <1>5, <2>1, <2>2, Joined DEF Waits
  <2>4. r = q => ~Waits(r) /\ Nowhere(r)
    BY <1>3 DEF WriteRecord
  <2>5. Once(logs', r)
    BY <1>3, <1>5, <2>1, <2>2, <2>4, Joined DEF Waits
  <2>6. at'[r] = "written" <=> r = q \/ at[r] = "written"
    BY <1>5 DEF TypeOK
  <2>. QED  BY <1>1, <1>2, <1>3, <2>3, <2>4, <2>5, <2>6, KeptOnStack
<1>. QED  BY <1>4, <1>5 DEF WriteRecord

LEMMA KeptDirect ==
    ASSUME TypeOK, NEW q \in Records, WriteDirect(q), NEW r \in Records, Kept(r) PROVE Kept(r)'
<1>1. /\ <<q>> \in Seq(Records) /\ logs \in Seq(Records) /\ WriteToServer(<<q>>, logs)
      /\ at[q] = "connected" /\ at' = [at EXCEPT ![q] = "written"] /\ lost' = lost /\ log' = log
  BY DirectWrite DEF server
<1>2. Delivering(r) /\ log[r] \in {0, 1} /\ (\A c \in Conns : Slots(c, r)) /\ Once(logs, r)
      /\ (Waits(r) => Nowhere(r)) /\ ((Waits(r) \/ ~Nowhere(r)) <=> at[r] = "written")
  BY DEF Kept, Apart, Single, Somewhere
<1>3. (r \in ToSet(<<q>>) <=> r = q) /\ Once(<<q>>, r) /\ (Waits(r) <=> r \in ToSet(logs))
  BY DEF ToSet, Once, Waits
<1>4. r = q => ~Waits(r) /\ Nowhere(r)
  BY <1>1, <1>2
<1>5. at'[r] = "written" <=> r = q \/ at[r] = "written"
  BY <1>1 DEF TypeOK
<1>. QED  BY <1>1, <1>2, <1>3, <1>4, <1>5, KeptWrite

LEMMA KeptBatch == ASSUME TypeOK, Looping, PopAndWrite, NEW r \in Records, Kept(r) PROVE Kept(r)'
<1>1. PICK items, rest : items = SubSeq(logs, 1, loop.size) /\ rest = SubSeq(logs, loop.size + 1, Len(logs))
  OBVIOUS
<1>2. /\ items \in Seq(Records) /\ rest \in Seq(Records) /\ WriteToServer(items, rest)
      /\ lost' = lost /\ log' = log /\ at' = at /\ loop.size \in 0 .. Len(logs) /\ logs \in Seq(Records)
  BY <1>1, BatchWrite DEF server, TypeOK
<1>3. Delivering(r) /\ log[r] \in {0, 1} /\ (\A c \in Conns : Slots(c, r)) /\ Once(logs, r)
      /\ (Waits(r) => Nowhere(r)) /\ ((Waits(r) \/ ~Nowhere(r)) <=> at[r] = "written")
  BY DEF Kept, Apart, Single, Somewhere
<1>4. /\ Waits(r) <=> r \in ToSet(items) \/ r \in ToSet(rest)
      /\ Once(items, r) /\ Once(rest, r) /\ ~(r \in ToSet(items) /\ r \in ToSet(rest))
  BY <1>1, <1>2, <1>3, Split DEF Waits
<1>. QED  BY <1>2, <1>3, <1>4, KeptWrite
LEMMA KeptTransmit ==
    ASSUME TypeOK, NEW c \in Conns, Transmit(c), NEW r \in Records, Kept(r) PROVE Kept(r)'
<1>1. PICK k, m : /\ Changes(c, k) /\ Moved(c, k, m)
                  /\ \/ lost' = lost /\ k.stream = Append(conn[c].stream, m)
                     \/ lost' = lost \cup Carried(<<m>>) /\ k.stream = conn[c].stream
  BY TransmitDoes
<1>2. at' = at /\ logs' = logs /\ log' = log
  BY TransmitDoes DEF writer, server
<1>3. /\ conn[c].sending \in Seq(Message) /\ conn[c].sending # <<>> /\ conn[c].stream \in Seq(Message)
      /\ m = Head(conn[c].sending) /\ m \in Message /\ m.part \in Parts
  BY <1>1, Typed, Messages DEF Moved
<1>4. /\ Sent(c, r) <=> Bears(Tail(conn[c].sending), r, Parts) \/ r \in ToSet(m.items)
      /\ Slots(c, r) => /\ BearsOnce(Tail(conn[c].sending), r, Parts) /\ Once(m.items, r)
                        /\ ~(Bears(Tail(conn[c].sending), r, Parts) /\ r \in ToSet(m.items))
      /\ Tail(conn[c].sending) \in Seq(Message)
  BY <1>3, Headed DEF Sent, Slots
<1>5. Kept(r) => Slots(c, r) /\ (Sent(c, r) => ~Coming(c, r) /\ ~Waits(r) /\ r \notin lost /\ log[r] = 0)
  BY DEF Kept, Single, Apart, Delivering, Nowhere
<1>6. \A d \in Conns : d # c => (Sent(d, r)' <=> Sent(d, r)) /\ (Coming(d, r)' <=> Coming(d, r))
                                /\ (Slots(d, r)' <=> Slots(d, r))
  BY <1>1, Becomes
<1>7. (Waits(r)' <=> Waits(r)) /\ (Once(logs, r)' <=> Once(logs, r))
  BY <1>2 DEF Waits
<1>8. CASE m.part = "first"
  <2>1. Rest(m) \in Message /\ k.sending = Append(Tail(conn[c].sending), Rest(m))
    BY <1>1, <1>8 DEF Moved
  <2>2. Rest(m).items = m.items /\ Rest(m).part \in Parts
    BY <1>3 DEF Rest, Message, Parts
  <2>3. Sent(c, r)' <=> Sent(c, r)
    <3>1. Sent(c, r)' <=> Bears(k.sending, r, Parts)
      BY <1>1, Becomes
    <3>2. Bears(k.sending, r, Parts) <=> Bears(Tail(conn[c].sending), r, Parts) \/ r \in ToSet(m.items)
      BY <1>4, <2>1, <2>2, AddedBears
    <3>. QED  BY <1>4, <3>1, <3>2
  <2>4. BearsOnce(k.sending, r, Parts)
    BY <1>4, <1>5, <2>1, <2>2, AddedBears
  <2>5. m.part \notin Complete
    BY <1>8 DEF Complete
  <2>6. /\ Bears(k.stream, r, Complete) <=> Bears(conn[c].stream, r, Complete)
        /\ BearsOnce(conn[c].stream, r, Complete) => BearsOnce(k.stream, r, Complete)
    BY <1>1, <1>3, <1>8, <2>5, AddedBears
  <2>7. (Coming(c, r)' <=> Coming(c, r)) /\ Slots(c, r)'
    BY <1>1, <1>5, <2>4, <2>6, Becomes DEF Coming, Slots
  <2>8. lost' = lost
    <3>1. Carried(<<m>>) = {}
      BY <1>8 DEF Carried
    <3>. QED  BY <1>1, <3>1
  <2>9. \A d \in Conns : (Sent(d, r)' <=> Sent(d, r)) /\ (Coming(d, r)' <=> Coming(d, r))
    BY <1>6, <2>3, <2>7
  <2>10. (Delivering(r)' <=> Delivering(r)) /\ (Nowhere(r)' <=> Nowhere(r))
    BY <1>2, <2>8, <2>9 DEF Delivering, Nowhere
  <2>11. Single(r)'
    BY <1>2, <1>6, <1>7, <2>7 DEF Single, Kept
  <2>. QED  BY <1>2, <1>7, <2>10, <2>11 DEF Kept, Apart, Somewhere
<1>9. CASE m.part # "first"
  <2>1. k.sending = Tail(conn[c].sending) /\ m.part \in Complete
    BY <1>1, <1>3, <1>9 DEF Moved, Parts, Complete
  <2>2. (Sent(c, r)' <=> Sent(c, r) /\ r \notin ToSet(m.items)) /\ BearsOnce(k.sending, r, Parts)
    <3>1. Sent(c, r)' <=> Bears(k.sending, r, Parts)
      BY <1>1, Becomes
    <3>. QED  BY <1>4, <1>5, <2>1, <3>1
  <2>3. r \in ToSet(m.items) =>
          ~Waits(r) /\ r \notin lost /\ log[r] = 0 /\ Sent(c, r) /\ at[r] = "written"
          /\ \A d \in Conns : ~Coming(d, r) /\ (Sent(d, r) => d = c)
    BY <1>4, <1>5 DEF Kept, Apart, Delivering, Somewhere, Nowhere
  <2>4. CASE lost' = lost /\ k.stream = Append(conn[c].stream, m)
    <3>1. Coming(c, r)' <=> Coming(c, r) \/ r \in ToSet(m.items)
      <4>1. Coming(c, r)' <=> Bears(k.stream, r, Complete)
        BY <1>1, Becomes
      <4>2. Bears(k.stream, r, Complete) <=> Bears(conn[c].stream, r, Complete) \/ r \in ToSet(m.items)
        BY <1>3, <2>1, <2>4, Added
      <4>. QED  BY <4>1, <4>2 DEF Coming
    <3>2. BearsOnce(k.stream, r, Complete)
      <4>1. ~(Bears(conn[c].stream, r, Complete) /\ r \in ToSet(m.items))
        BY <2>3 DEF Coming
      <4>2. BearsOnce(conn[c].stream, r, Complete) /\ Once(m.items, r)
        BY <1>4, <1>5 DEF Slots
      <4>. QED  BY <1>3, <2>4, <4>1, <4>2, AddedBears
    <3>3. Slots(c, r)'
      BY <1>1, <2>2, <3>2, Becomes
    <3>4. Single(r)'
      BY <1>2, <1>6, <1>7, <3>3 DEF Single, Kept
    <3>5. CASE r \in ToSet(m.items)
      <4>1. \A d \in Conns : ~Sent(d, r)' /\ (Coming(d, r)' <=> d = c)
        BY <1>6, <2>2, <2>3, <3>1, <3>5
      <4>2. Delivering(r)' /\ ~Nowhere(r)'
        BY <1>2, <2>3, <2>4, <3>5, <4>1 DEF Delivering, Nowhere
      <4>. QED  BY <1>2, <1>7, <2>3, <3>4, <3>5, <4>2 DEF Kept, Apart, Somewhere
    <3>6. CASE r \notin ToSet(m.items)
      <4>1. \A d \in Conns : (Sent(d, r)' <=> Sent(d, r)) /\ (Coming(d, r)' <=> Coming(d, r))
        BY <1>6, <2>2, <3>1, <3>6
      <4>2. (Delivering(r)' <=> Delivering(r)) /\ (Nowhere(r)' <=> Nowhere(r))
        BY <1>2, <2>4, <4>1 DEF Delivering, Nowhere
      <4>. QED  BY <1>2, <1>7, <3>4, <4>2 DEF Kept, Apart, Somewhere
    <3>. QED  BY <3>5, <3>6
  <2>5. CASE lost' = lost \cup Carried(<<m>>) /\ k.stream = conn[c].stream
    <3>1. (Coming(c, r)' <=> Coming(c, r)) /\ BearsOnce(k.stream, r, Complete)
      BY <1>1, <1>5, <2>5, Becomes DEF Coming, Slots
    <3>2. r \in lost' <=> r \in lost \/ r \in ToSet(m.items)
      <4>1. Carried(<<m>>) = ToSet(m.items)
        BY <1>9 DEF Carried
      <4>. QED  BY <2>5, <4>1
    <3>3. Slots(c, r)'
      BY <1>1, <2>2, <3>1, Becomes
    <3>4. Single(r)'
      BY <1>2, <1>6, <1>7, <3>3 DEF Single, Kept
    <3>5. CASE r \in ToSet(m.items)
      <4>1. \A d \in Conns : ~Sent(d, r)' /\ ~Coming(d, r)'
        BY <1>6, <2>2, <2>3, <3>1, <3>5
      <4>2. Delivering(r)' /\ ~Nowhere(r)'
        BY <1>2, <2>3, <3>2, <3>5, <4>1 DEF Delivering, Nowhere
      <4>. QED  BY <1>2, <1>7, <2>3, <3>4, <3>5, <4>2 DEF Kept, Apart, Somewhere
    <3>6. CASE r \notin ToSet(m.items)
      <4>1. \A d \in Conns : (Sent(d, r)' <=> Sent(d, r)) /\ (Coming(d, r)' <=> Coming(d, r))
        BY <1>6, <2>2, <3>1, <3>6
      <4>2. (Delivering(r)' <=> Delivering(r)) /\ (Nowhere(r)' <=> Nowhere(r))
        BY <1>2, <3>2, <3>6, <4>1 DEF Delivering, Nowhere
      <4>. QED  BY <1>2, <1>7, <3>4, <4>2 DEF Kept, Apart, Somewhere
    <3>. QED  BY <3>5, <3>6
  <2>. QED  BY <1>1, <2>4, <2>5
<1>. QED  BY <1>8, <1>9

LEMMA KeptFails ==
    ASSUME TypeOK, NEW c \in Conns, WriteFails(c), NEW r \in Records, Kept(r) PROVE Kept(r)'
<1>1. /\ at' = at /\ log' = log /\ lost' = lost
      /\ conn[c].sending # <<>> /\ conn' \in [Conns -> Conn]
      /\ conn'[c].sending = Tail(conn[c].sending)
      /\ \A d \in Conns : d # c => conn'[d].sending = conn[d].sending
      /\ \A d \in Conns : conn'[d].stream = conn[d].stream
      /\ logs' = Reverse(Head(conn[c].sending).items) \o logs
  BY WriteFailsDoes DEF server
<1>2. PICK m, q : m = Head(conn[c].sending) /\ q = conn[c].sending
  OBVIOUS
<1>3. q \in Seq(Message) /\ m = Head(q) /\ q # <<>> /\ m \in Message /\ m.items \in Seq(Records) /\ m.part \in Parts
  BY <1>1, <1>2, Typed, Headed, Messages
<1>4. /\ Sent(c, r) <=> Bears(Tail(q), r, Parts) \/ r \in ToSet(m.items)
      /\ Slots(c, r) => /\ BearsOnce(Tail(q), r, Parts) /\ Once(m.items, r)
                        /\ ~(Bears(Tail(q), r, Parts) /\ r \in ToSet(m.items))
  BY <1>2, <1>3, Headed DEF Sent, Slots
<1>5. Slots(c, r)
  BY DEF Kept, Single
<1>6. (Sent(c, r)' <=> Sent(c, r) /\ r \notin ToSet(m.items))
  BY <1>1, <1>2, <1>4, <1>5 DEF Sent
<1>7. \A d \in Conns : (Coming(d, r)' <=> Coming(d, r)) /\ (d # c => (Sent(d, r)' <=> Sent(d, r)))
  BY <1>1 DEF Sent, Coming
<1>8. \A d \in Conns : Slots(d, r)'
  <2>1. Slots(c, r)'
    BY <1>1, <1>2, <1>4, <1>5 DEF Slots
  <2>2. \A d \in Conns : d # c => (Slots(d, r)' <=> Slots(d, r))
    BY <1>1 DEF Slots
  <2>. QED  BY <2>1, <2>2 DEF Kept, Single
<1>9. Waits(r)' <=> r \in ToSet(m.items) \/ Waits(r)
  BY <1>1, <1>2, <1>3, Reversed, Joined DEF Waits, TypeOK
<1>10. r \in ToSet(m.items) =>
         ~Waits(r) /\ r \notin lost /\ log[r] = 0 /\ at[r] = "written"
         /\ \A d \in Conns : ~Coming(d, r) /\ (Sent(d, r) => d = c)
  BY <1>4 DEF Kept, Apart, Delivering, Somewhere, Nowhere
<1>11. Single(r)'
  <2>1. Once(logs', r)
    <3>1. Once(Reverse(m.items), r) /\ Once(logs, r) /\ Reverse(m.items) \in Seq(Records) /\ logs \in Seq(Records)
      BY <1>3, <1>4, <1>5, Reversed DEF Kept, Single, TypeOK
    <3>2. ~(r \in ToSet(Reverse(m.items)) /\ r \in ToSet(logs))
      BY <1>3, <1>10, Reversed DEF Waits
    <3>. QED  BY <1>1, <1>2, <3>1, <3>2, Joined
  <2>2. log'[r] \in {0, 1}
    BY <1>1 DEF Kept, Single
  <2>. QED  BY <1>8, <2>1, <2>2 DEF Single
<1>12. CASE r \in ToSet(m.items)
  <2>1. \A d \in Conns : ~Sent(d, r)' /\ ~Coming(d, r)'
    BY <1>6, <1>7, <1>10, <1>12
  <2>2. Delivering(r)' /\ Nowhere(r)'
    BY <1>1, <1>10, <1>12, <2>1 DEF Delivering, Nowhere
  <2>. QED  BY <1>1, <1>9, <1>10, <1>11, <1>12, <2>2 DEF Kept, Apart, Somewhere
<1>13. CASE r \notin ToSet(m.items)
  <2>1. \A d \in Conns : (Sent(d, r)' <=> Sent(d, r)) /\ (Coming(d, r)' <=> Coming(d, r))
    BY <1>6, <1>7, <1>13
  <2>2. (Delivering(r)' <=> Delivering(r)) /\ (Nowhere(r)' <=> Nowhere(r))
    BY <1>1, <2>1 DEF Delivering, Nowhere
  <2>. QED  BY <1>1, <1>9, <1>11, <1>13, <2>2 DEF Kept, Apart, Somewhere
<1>. QED  BY <1>12, <1>13
(* What leaves a stream is lost, or it is the items of the first message. *)
LEMMA DeserializedIs ==
    ASSUME TypeOK, NEW c \in Conns, NEW n \in 1 .. Len(conn[c].stream), Deserialized(conn[c].stream, n), NEW r
    PROVE  /\ conn[c].stream[1].items \in Seq(Records)
           /\ r \in ToSet(conn[c].stream[1].items) <=> Bears(SubSeq(conn[c].stream, 1, n), r, Complete)
<1>1. PICK s \in Seq(Message) : s = conn[c].stream
  BY Typed
<1>2. PICK a : a = SubSeq(s, 1, n)
  OBVIOUS
<1>3. n \in 0 .. Len(s) /\ Len(s) \in Nat /\ n \in 1 .. Len(s) /\ 1 \in 1 .. Len(s)
  <2>1. Len(s) \in Nat /\ n \in 1 .. Len(s)
    BY <1>1
  <2>. QED  BY <2>1
<1>4. a \in Seq(Message) /\ DOMAIN a = 1 .. n /\ \A i \in 1 .. n : a[i] = s[i]
  BY <1>2, <1>3, Parted
<1>5. s[1].items \in Seq(Records) /\ s[1].part \in Parts
  BY <1>3, Positions
<1>6. r \in ToSet(s[1].items) <=> Bears(a, r, Complete)
  <2>1. CASE n = 1 /\ s[1].part = "whole"
    <3>1. DOMAIN a = {1} /\ a[1] = s[1] /\ s[1].part \in Complete
      BY <1>4, <2>1 DEF Complete
    <3>. QED  BY <3>1 DEF Bears
  <2>2. CASE n = 2 /\ s[1].part # "whole" /\ s[2].part = "last" /\ s[2].items = s[1].items
    <3>1. DOMAIN a = {1, 2} /\ a[1] = s[1] /\ a[2] = s[2] /\ s[2].part \in Complete
      BY <1>4, <2>2 DEF Complete
    <3>. QED  BY <2>2, <3>1 DEF Bears
  <2>. QED  BY <1>1, <2>1, <2>2 DEF Deserialized
<1>. QED  BY <1>1, <1>2, <1>5, <1>6

(* A part of a stream goes, and what was in it is lost. *)
LEMMA KeptLost ==
    ASSUME TypeOK, NEW c \in Conns, NEW k, Changes(c, k), k.sending = conn[c].sending,
           NEW gone \in Seq(Message), k.stream \in Seq(Message),
           NEW r \in Records, Kept(r),
           Coming(c, r) <=> Bears(gone, r, Complete) \/ Bears(k.stream, r, Complete),
           ~(Bears(gone, r, Complete) /\ Bears(k.stream, r, Complete)),
           BearsOnce(k.stream, r, Complete),
           UNCHANGED <<logs, at, log>>, r \in lost' <=> r \in lost \/ Bears(gone, r, Complete)
    PROVE  Kept(r)'
<1>1. (Sent(c, r)' <=> Sent(c, r)) /\ (Coming(c, r)' <=> Bears(k.stream, r, Complete))
  BY Becomes DEF Sent
<1>2. Slots(c, r)'
  <2>1. Slots(c, r)
    BY DEF Kept, Single
  <2>. QED  BY <2>1, Becomes DEF Slots
<1>3. \A d \in Conns : d # c => (Sent(d, r)' <=> Sent(d, r)) /\ (Coming(d, r)' <=> Coming(d, r))
                                /\ (Slots(d, r)' <=> Slots(d, r))
  BY Becomes
<1>4. (Waits(r)' <=> Waits(r)) /\ Single(r)'
  BY <1>2, <1>3 DEF Waits, Kept, Single
<1>5. CASE Bears(gone, r, Complete)
  <2>1. ~Waits(r) /\ r \notin lost /\ log[r] = 0 /\ at[r] = "written"
        /\ \A d \in Conns : ~Sent(d, r) /\ (Coming(d, r) => d = c)
    BY <1>5 DEF Kept, Apart, Delivering, Somewhere, Nowhere
  <2>2. \A d \in Conns : ~Sent(d, r)' /\ ~Coming(d, r)'
    BY <1>1, <1>3, <1>5, <2>1
  <2>3. Delivering(r)' /\ ~Nowhere(r)'
    BY <1>5, <2>1, <2>2 DEF Delivering, Nowhere
  <2>. QED  BY <1>4, <2>1, <2>3 DEF Kept, Apart, Somewhere
<1>6. CASE ~Bears(gone, r, Complete)
  <2>1. \A d \in Conns : (Sent(d, r)' <=> Sent(d, r)) /\ (Coming(d, r)' <=> Coming(d, r))
    BY <1>1, <1>3, <1>6
  <2>2. (Delivering(r)' <=> Delivering(r)) /\ (Nowhere(r)' <=> Nowhere(r))
    BY <1>6, <2>1 DEF Delivering, Nowhere
  <2>. QED  BY <1>4, <2>2 DEF Kept, Apart, Somewhere
<1>. QED  BY <1>5, <1>6

LEMMA KeptProcess ==
    ASSUME TypeOK, NEW c \in Conns, Process(c), NEW r \in Records, Kept(r) PROVE Kept(r)'
<1>1. PICK k, n : /\ Changes(c, k) /\ Leaves(c, k, n)
                  /\ \/ Deserialized(conn[c].stream, n) /\ Adds(c, conn[c].stream[1].items)
                     \/ /\ lost' = lost \cup Carried(SubSeq(conn[c].stream, 1, n))
                        /\ UNCHANGED <<log, scan>>
  BY ProcessDoes
<1>2. at' = at /\ logs' = logs
  BY ProcessDoes DEF writer
<1>3. PICK s \in Seq(Message) : s = conn[c].stream
  BY Typed
<1>4. n \in 1 .. Len(s) /\ n \in 0 .. Len(s)
  BY <1>1, <1>3 DEF Leaves
<1>5. PICK gone, rest : gone = SubSeq(s, 1, n) /\ rest = SubSeq(s, n + 1, Len(s))
  OBVIOUS
<1>6. k.stream = rest /\ k.sending = conn[c].sending
  BY <1>1, <1>3, <1>5 DEF Leaves
<1>7. Slots(c, r) /\ BearsOnce(s, r, Complete)
  BY <1>3 DEF Kept, Single, Slots
<1>8. /\ gone \in Seq(Message) /\ rest \in Seq(Message)
      /\ Bears(s, r, Complete) <=> Bears(gone, r, Complete) \/ Bears(rest, r, Complete)
      /\ BearsOnce(rest, r, Complete) /\ ~(Bears(gone, r, Complete) /\ Bears(rest, r, Complete))
  BY <1>4, <1>5, <1>7, Parted
<1>9. Coming(c, r) <=> Bears(s, r, Complete)
  BY <1>3 DEF Coming
<1>10. CASE lost' = lost \cup Carried(gone) /\ UNCHANGED <<log, scan>>
  <2>1. r \in lost' <=> r \in lost \/ Bears(gone, r, Complete)
    BY <1>8, <1>10, CarriedIs
  <2>. QED  BY <1>1, <1>2, <1>6, <1>8, <1>9, <1>10, <2>1, KeptLost
<1>11. CASE Deserialized(s, n) /\ Adds(c, s[1].items)
  <2>1. r \in ToSet(s[1].items) <=> Bears(gone, r, Complete)
    BY <1>3, <1>4, <1>5, <1>7, <1>11, DeserializedIs
  <2>2. lost' = lost /\ log'[r] = log[r] + IF r \in ToSet(s[1].items) THEN 1 ELSE 0
    BY <1>11 DEF Adds
  <2>3. log[r] \in {0, 1}
    BY DEF Kept, Single
  <2>4. CASE ~Bears(gone, r, Complete)
    <3>1. log'[r] = log[r]
      BY <2>1, <2>2, <2>3, <2>4
    <3>2. \A d \in Conns : (Sent(d, r)' <=> Sent(d, r)) /\ (Coming(d, r)' <=> Coming(d, r))
      BY <1>1, <1>6, <1>8, <1>9, <2>4, Becomes DEF Sent
    <3>3. (Delivering(r)' <=> Delivering(r)) /\ (Nowhere(r)' <=> Nowhere(r))
      BY <2>2, <3>1, <3>2 DEF Delivering, Nowhere
    <3>4. Single(r)'
      <4>1. \A d \in Conns : Slots(d, r)'
        BY <1>1, <1>6, <1>7, <1>8, Becomes DEF Slots, Kept, Single
      <4>. QED  BY <1>2, <2>3, <3>1, <4>1 DEF Kept, Single
    <3>5. Waits(r)' <=> Waits(r)
      BY <1>2 DEF Waits
    <3>. QED  BY <1>2, <3>3, <3>4, <3>5 DEF Kept, Apart, Somewhere
  <2>5. CASE Bears(gone, r, Complete)
    <3>1. ~Waits(r) /\ r \notin lost /\ log[r] = 0 /\ at[r] = "written"
          /\ \A d \in Conns : ~Sent(d, r) /\ (Coming(d, r) => d = c)
      BY <1>8, <1>9, <2>5 DEF Kept, Apart, Delivering, Somewhere, Nowhere
    <3>2. log'[r] = 1
      BY <2>1, <2>2, <2>5, <3>1
    <3>3. \A d \in Conns : ~Sent(d, r)' /\ ~Coming(d, r)'
      BY <1>1, <1>6, <1>8, <2>5, <3>1, Becomes DEF Sent
    <3>4. Delivering(r)' /\ ~Nowhere(r)'
      BY <2>2, <3>1, <3>2, <3>3 DEF Delivering, Nowhere
    <3>5. Single(r)'
      <4>1. \A d \in Conns : Slots(d, r)'
        BY <1>1, <1>6, <1>7, <1>8, Becomes DEF Slots, Kept, Single
      <4>. QED  BY <1>2, <3>2, <4>1 DEF Kept, Single
    <3>6. Waits(r)' <=> Waits(r)
      BY <1>2 DEF Waits
    <3>. QED  BY <1>2, <3>1, <3>4, <3>5, <3>6 DEF Kept, Apart, Somewhere
  <2>. QED  BY <2>4, <2>5
<1>. QED  BY <1>1, <1>3, <1>5, <1>10, <1>11

LEMMA KeptEnded ==
    ASSUME TypeOK, NEW c \in Conns, NEW n \in 0 .. Len(conn[c].stream), NEW k, Changes(c, k), Breaks(c, k, n),
           lost' = lost \cup (Carried(conn[c].stream) \ Carried(SubSeq(conn[c].stream, 1, n))),
           UNCHANGED <<logs, at, log>>, NEW r \in Records, Kept(r)
    PROVE  Kept(r)'
<1>1. PICK s \in Seq(Message) : s = conn[c].stream
  BY Typed
<1>2. PICK kept, gone : kept = SubSeq(s, 1, n) /\ gone = SubSeq(s, n + 1, Len(s))
  OBVIOUS
<1>3. BearsOnce(s, r, Complete) /\ (Coming(c, r) <=> Bears(s, r, Complete))
  BY <1>1 DEF Kept, Single, Slots, Coming
<1>4. /\ kept \in Seq(Message) /\ gone \in Seq(Message)
      /\ Bears(s, r, Complete) <=> Bears(kept, r, Complete) \/ Bears(gone, r, Complete)
      /\ BearsOnce(kept, r, Complete) /\ ~(Bears(kept, r, Complete) /\ Bears(gone, r, Complete))
  BY <1>1, <1>2, <1>3, Parted
<1>5. k.stream = kept /\ k.sending = conn[c].sending
  BY <1>1, <1>2 DEF Breaks
<1>6. r \in lost' <=> r \in lost \/ Bears(gone, r, Complete)
  <2>1. (r \in Carried(s) <=> Bears(s, r, Complete)) /\ (r \in Carried(kept) <=> Bears(kept, r, Complete))
    BY <1>4, CarriedIs
  <2>2. r \in lost' <=> r \in lost \/ (r \in Carried(s) /\ r \notin Carried(kept))
    BY <1>1, <1>2
  <2>. QED  BY <1>4, <2>1, <2>2
<1>. QED  BY <1>3, <1>4, <1>5, <1>6, KeptLost

LEMMA StepKept ==
    ASSUME TypeOK, Looping, [Next]_vars, NEW r \in Records, Kept(r) PROVE Kept(r)'
<1>. USE DEF writer, server
<1>1. ASSUME Steady, UNCHANGED <<at, logs, log, lost>> PROVE Kept(r)'
  <2>1. Delivering(r) /\ log[r] \in {0, 1} /\ (\A c \in Conns : Slots(c, r)) /\ Once(logs, r)
        /\ (Waits(r) => Nowhere(r)) /\ ((Waits(r) \/ ~Nowhere(r)) <=> at[r] = "written")
    BY DEF Kept, Apart, Single, Somewhere
  <2>2. Waits(r)' <=> Waits(r)
    BY <1>1 DEF Waits
  <2>. QED  BY <1>1, <2>1, <2>2, KeptOnStack
<1>2. ASSUME NEW q \in Records, WriteRecord(q) \/ WriteDirect(q) PROVE Kept(r)'
  BY <1>2, KeptRecord, KeptDirect
<1>3. CASE Check
  BY <1>1, <1>3, CheckDoes
<1>4. CASE Connect \/ ConnectFails
  BY <1>1, <1>4, ConnectDoes
<1>5. CASE Count
  BY <1>1, <1>5, SameConn DEF Count
<1>6. CASE PopAndWrite
  BY <1>6, KeptBatch
<1>7. ASSUME NEW c \in Conns, Transmit(c) \/ WriteFails(c) \/ Process(c) PROVE Kept(r)'
  BY <1>7, KeptTransmit, KeptFails, KeptProcess
<1>8. ASSUME NEW c \in Conns, Scan(c) PROVE Kept(r)'
  BY <1>1, <1>8, SameConn DEF Scan
<1>9. ASSUME NEW c \in Conns, DumpFails(c) PROVE Kept(r)'
  BY <1>9, DumpFailsDoes, KeptEnded
<1>10. ASSUME NEW c \in Conns, Break(c) PROVE Kept(r)'
  BY <1>10, BreakDoes, KeptEnded
<1>11. ASSUME NEW c \in Conns, Forget(c) PROVE Kept(r)'
  BY <1>1, <1>11, ForgetDoes
<1>12. CASE UNCHANGED vars
  BY <1>1, <1>12, SameConn DEF vars
<1>. QED
  BY <1>2, <1>3, <1>4, <1>5, <1>6, <1>7, <1>8, <1>9, <1>10, <1>11, <1>12 DEF Next, KeepConnected
-----------------------------------------------------------------------------
(* What was sent ahead of a DUMPLOG stays ahead of it. *)

(* What is past stays past. *)
Passing == \A x \in Records : Past(x) => Past(x)'

LEMMA DueTyped == ASSUME TypeOK, NEW d \in Dumplogs PROVE \A x \in due[d] : x \in Records
  BY DEF TypeOK

LEMMA StreamSame ==
    ASSUME TypeOK, NEW c \in Conns, NEW d \in Dumplogs, StreamInOrder(c, d), Passing,
           conn'[c].stream = conn[c].stream, due'[d] = due[d]
    PROVE  StreamInOrder(c, d)'
  BY DueTyped DEF StreamInOrder, Passing

LEMMA SendsSame ==
    ASSUME TypeOK, NEW c \in Conns, NEW d \in Dumplogs, SendsInOrder(c, d), Passing,
           conn'[c].sending = conn[c].sending, conn'[c].stream = conn[c].stream, due'[d] = due[d],
           conn'[c].state = "open" => conn[c].state = "open" \/ conn[c].sending = <<>>
    PROVE  SendsInOrder(c, d)'
<1>1. \A x : Coming(c, x) => Coming(c, x)'
  BY DEF Coming
<1>2. CASE conn[c].sending = <<>>
  <2>1. DOMAIN conn'[c].sending = {}
    BY <1>2
  <2>. QED  BY <2>1 DEF SendsInOrder
<1>3. CASE conn[c].sending # <<>>
  BY <1>1, <1>3, DueTyped DEF SendsInOrder, Passing
<1>. QED  BY <1>2, <1>3

LEMMA DumpingSame ==
    ASSUME TypeOK, NEW d \in Dumplogs, Dumping(d), Passing, log'[d] = log[d], due'[d] = due[d],
           dumped'[d] = dumped[d], lost \subseteq lost'
    PROVE  Dumping(d)'
  BY DueTyped DEF Dumping, Passing

(* Only the states of connections have changed, or what was dumped. *)
LEMMA OrderSteady ==
    ASSUME TypeOK, InOrder, Steady, UNCHANGED <<due, log, lost>>,
           \A c \in Conns : conn'[c].state = "open" => conn[c].state \in {"open", "connecting"},
           \A c \in Conns : conn'[c].state \in {"free", "connecting"} =>
             conn[c].state \in {"free", "connecting"} \/ (conn[c].sending = <<>> /\ conn[c].stream = <<>>),
           \A c \in Conns : scan'[c] = scan[c] \/ scan'[c] = <<>>,
           \A d \in Dumplogs : dumped'[d] = dumped[d] \/ (log[d] > 0 /\ dumped'[d] = InLog)
    PROVE  InOrder'
<1>1. Passing
  BY DEF Passing, Past
<1>2. ASSUME NEW c \in Conns PROVE Quiet(c)' /\ Scanned(c)'
  <2>1. Quiet(c)'
    BY <1>2 DEF InOrder, Quiet, Steady
  <2>2. ToSet(<<>>) = {}
    BY DEF ToSet
  <2>3. Scanned(c)'
    BY <1>2, <2>2 DEF InOrder, Scanned
  <2>. QED  BY <2>1, <2>3
<1>3. ASSUME NEW c \in Conns, NEW d \in Dumplogs PROVE StreamInOrder(c, d)' /\ SendsInOrder(c, d)'
  <2>1. conn'[c].sending = conn[c].sending /\ conn'[c].stream = conn[c].stream /\ due'[d] = due[d]
    BY DEF Steady
  <2>2. StreamInOrder(c, d) /\ SendsInOrder(c, d) /\ Quiet(c)
    BY DEF InOrder
  <2>3. conn'[c].state = "open" => conn[c].state = "open" \/ conn[c].sending = <<>>
    BY <2>2 DEF Quiet
  <2>. QED  BY <1>1, <2>1, <2>2, <2>3, StreamSame, SendsSame
<1>4. ASSUME NEW d \in Dumplogs PROVE Dumping(d)'
  <2>1. Dumping(d)
    BY DEF InOrder
  <2>2. CASE dumped'[d] = dumped[d]
    BY <1>1, <2>1, <2>2, DumpingSame
  <2>3. CASE log[d] > 0 /\ dumped'[d] = InLog
    <3>1. \A x \in due[d] : x \in Records
      BY DEF TypeOK
    <3>. QED  BY <2>1, <2>3, <3>1 DEF Dumping, Past, InLog
  <2>. QED  BY <2>2, <2>3
<1>. QED  BY <1>2, <1>3, <1>4 DEF InOrder

LEMMA BearsUpTo ==
    ASSUME NEW s \in Seq(Message), NEW x
    PROVE  Bears(s, x, Complete) <=> \E i \in 1 .. Len(s) : s[i].part # "first" /\ x \in ToSet(s[i].items)
<1>1. DOMAIN s = 1 .. Len(s) /\ \A i \in 1 .. Len(s) : s[i].part \in Complete <=> s[i].part # "first"
  BY Positions DEF Complete, Parts
<1>. QED  BY <1>1 DEF Bears

(* A DUMPLOG that is written was nowhere, and all that is due is ahead of it. *)
LEMMA OrderWrite ==
    ASSUME TypeOK, InOrder, NEW items \in Seq(Records), NEW rest \in Seq(Records), WriteToServer(items, rest),
           UNCHANGED <<lost, server>>, \A r \in ToSet(items) : Nowhere(r)
    PROVE  InOrder'
<1>. USE DEF server
<1>1. Passing
  BY DEF Passing, Past
<1>2. CASE ~Usable(client)
  <2>1. due' = due /\ Steady /\ Aged
    BY <1>2, WriteReturns
  <2>. QED  BY <2>1, OrderSteady DEF Aged
<1>3. CASE Usable(client)
  <2>1. PICK c \in Conns : c = client
    BY <1>3, WriteSends
  <2>2. PICK m, k : /\ Batch(items, m) /\ Changes(c, k)
                    /\ k.sending = Append(conn[c].sending, m)
                    /\ k.stream = conn[c].stream /\ k.state = conn[c].state
    BY <1>3, <2>1, WriteSends
  <2>3. PICK q, s \in Seq(Message) : q = conn[c].sending /\ s = conn[c].stream
    BY Typed
  <2>4. due' = [d \in Dumplogs |-> IF d \in ToSet(items) THEN ToSet(items) \cup Carried(s \o q) ELSE due[d]]
    BY <1>3, <2>1, <2>3, WriteSends
  <2>5. conn'[c] = k /\ \A e \in Conns : e # c => conn'[e] = conn[e]
    BY <2>2 DEF Changes
  <2>6. m \in Message /\ m.items = items
    BY <2>2 DEF Batch
  <2>7. PICK n \in Nat : n = Len(q)
    BY <2>3
  <2>8. /\ k.sending \in Seq(Message) /\ Len(k.sending) = n + 1 /\ DOMAIN k.sending = 1 .. n + 1
        /\ k.sending[n + 1] = m /\ \A i \in 1 .. n : k.sending[i] = q[i]
    BY <2>2, <2>3, <2>6, <2>7, Added
  <2>9. DOMAIN q = 1 .. n
    BY <2>3, <2>7
  <2>10. ASSUME NEW e \in Conns PROVE Quiet(e)' /\ Scanned(e)'
    <3>1. Scanned(e)'
      BY DEF InOrder, Scanned
    <3>2. conn[c].state \in {"open", "lost"}
      BY <1>3, <2>1 DEF Usable
    <3>3. Quiet(e)'
      BY <2>2, <2>5, <3>2 DEF InOrder, Quiet
    <3>. QED  BY <3>1, <3>3
  <2>11. ASSUME NEW d \in Dumplogs, d \in ToSet(items)
         PROVE  Dumping(d)' /\ \A e \in Conns : StreamInOrder(e, d)' /\ SendsInOrder(e, d)'
    <3>1. log[d] = 0 /\ \A e \in Conns : ~Sent(e, d) /\ ~Coming(e, d)
      BY <2>11 DEF Nowhere
    <3>2. Dumping(d)'
      BY <3>1 DEF InOrder, Dumping
    <3>3. ASSUME NEW e \in Conns PROVE StreamInOrder(e, d)'
      <4>1. conn'[e].stream = conn[e].stream /\ conn[e].stream \in Seq(Message)
        BY <2>2, <2>5, Typed
      <4>2. \A j \in 1 .. Len(conn[e].stream) :
              ~(conn[e].stream[j].part # "first" /\ d \in ToSet(conn[e].stream[j].items))
        BY <3>1, <4>1, BearsUpTo DEF Coming
      <4>3. DOMAIN conn[e].stream = 1 .. Len(conn[e].stream)
        BY <4>1
      <4>. QED  BY <4>1, <4>2, <4>3 DEF StreamInOrder
    <3>4. ASSUME NEW e \in Conns PROVE SendsInOrder(e, d)'
      <4>1. \A j \in DOMAIN conn[e].sending : d \notin ToSet(conn[e].sending[j].items)
        <5>1. conn[e].sending \in Seq(Message)
          BY Typed
        <5>. QED  BY <3>1, <5>1, Positions DEF Sent, Bears
      <4>2. CASE e # c
        BY <2>5, <4>1, <4>2 DEF SendsInOrder
      <4>3. CASE e = c
        <5>1. ASSUME NEW j \in 1 .. n + 1, d \in ToSet(k.sending[j].items), NEW x \in due'[d]
              PROVE  Coming(c, x)' \/ UpTo(k.sending, j, x)
          <6>1. j = n + 1
            <7>1. ASSUME j \in 1 .. n PROVE FALSE
              <8>1. k.sending[j] = q[j]
                BY <2>8, <7>1
              <8>2. d \notin ToSet(q[j].items)
                BY <2>3, <2>9, <4>1, <4>3, <7>1
              <8>. QED  BY <5>1, <8>1, <8>2
            <7>2. j \in 1 .. n + 1 /\ n \in Nat
              OBVIOUS
            <7>. QED  BY <7>1, <7>2
          <6>2. x \in ToSet(items) \/ x \in Carried(s \o q)
            BY <2>4, <2>11, <5>1
          <6>3. CASE x \in ToSet(items)
            <7>1. n + 1 \in 1 .. n + 1
              OBVIOUS
            <7>. QED  BY <2>6, <2>8, <6>1, <6>3, <7>1 DEF UpTo
          <6>4. CASE x \in Carried(s \o q)
            <7>1. PICK u \in Seq(Message) : u = s \o q
              BY ConcatProperties
            <7>2. PICK l \in Nat : l = Len(s)
              OBVIOUS
            <7>3. /\ Len(u) = l + n
                  /\ \A i \in 1 .. l : u[i] = s[i]
                  /\ \A i \in l + 1 .. l + n : u[i] = q[i - l]
              BY <2>7, <7>1, <7>2, ConcatProperties
            <7>4. PICK i \in 1 .. l + n : u[i].part # "first" /\ x \in ToSet(u[i].items)
              BY <6>4, <7>1, <7>3, CarriedIs, BearsUpTo
            <7>5. CASE i \in 1 .. l
              <8>1. Bears(s, x, Complete)
                BY <7>2, <7>3, <7>4, <7>5, BearsUpTo
              <8>2. Coming(c, x)'
                BY <2>2, <2>3, <8>1, Becomes
              <8>. QED  BY <8>2
            <7>6. CASE i \notin 1 .. l
              <8>1. i \in l + 1 .. l + n /\ i - l \in 1 .. n
                BY <7>6
              <8>2. PICK h \in 1 .. n : h = i - l
                BY <8>1
              <8>3. q[h].part # "first" /\ x \in ToSet(q[h].items)
                BY <7>3, <7>4, <8>1, <8>2
              <8>4. h \in 1 .. j
                BY <6>1
              <8>. QED  BY <2>8, <8>3, <8>4 DEF UpTo
            <7>. QED  BY <7>5, <7>6
          <6>. QED  BY <6>2, <6>3, <6>4
        <5>. QED  BY <2>5, <2>8, <4>3, <5>1 DEF SendsInOrder
      <4>. QED  BY <4>2, <4>3
    <3>. QED  BY <3>2, <3>3, <3>4
  <2>12. ASSUME NEW d \in Dumplogs, d \notin ToSet(items)
         PROVE  Dumping(d)' /\ \A e \in Conns : StreamInOrder(e, d)' /\ SendsInOrder(e, d)'
    <3>1. due'[d] = due[d]
      BY <2>4, <2>12
    <3>2. Dumping(d)'
      BY <1>1, <3>1, DumpingSame DEF InOrder
    <3>3. ASSUME NEW e \in Conns PROVE StreamInOrder(e, d)'
      <4>1. conn'[e].stream = conn[e].stream
        BY <2>2, <2>5
      <4>. QED  BY <1>1, <3>1, <4>1, StreamSame DEF InOrder
    <3>4. ASSUME NEW e \in Conns, e # c PROVE SendsInOrder(e, d)'
      BY <1>1, <2>5, <3>1, <3>4, SendsSame DEF InOrder
    <3>5. SendsInOrder(c, d)'
      <4>1. \A x : Coming(c, x) => Coming(c, x)'
        BY <2>2, Becomes DEF Coming
      <4>2. ASSUME conn[c].state = "open", NEW j \in 1 .. n + 1, d \in ToSet(k.sending[j].items), NEW x \in due[d]
            PROVE  Past(x) \/ Coming(c, x) \/ UpTo(k.sending, j, x)
        <5>1. j \in 1 .. n /\ k.sending[j] = q[j]
          BY <2>6, <2>8, <2>12, <4>2
        <5>2. Past(x) \/ Coming(c, x) \/ UpTo(q, j, x)
          BY <2>3, <2>9, <4>2, <5>1 DEF InOrder, SendsInOrder
        <5>3. \A i \in 1 .. j : k.sending[i] = q[i]
          BY <2>8, <5>1
        <5>. QED  BY <5>2, <5>3 DEF UpTo
      <4>. QED  BY <1>1, <2>2, <2>5, <2>8, <3>1, <4>1, <4>2, DueTyped DEF SendsInOrder, Passing
    <3>. QED  BY <3>2, <3>3, <3>4, <3>5
  <2>. QED  BY <2>10, <2>11, <2>12 DEF InOrder
<1>. QED  BY <1>2, <1>3
(* A message that is at the head of the sends may go on to the stream, and *)
(* the rest of it joins the sends behind the others.                       *)
LEMMA OrderTransmit ==
    ASSUME TypeOK, InOrder, NEW c \in Conns, Transmit(c) PROVE InOrder'
<1>1. PICK k, m : /\ Changes(c, k) /\ Moved(c, k, m)
                  /\ \/ /\ conn[c].state = "open" /\ lost' = lost
                        /\ k.stream = Append(conn[c].stream, m)
                     \/ /\ conn[c].state = "lost" /\ lost' = lost \cup Carried(<<m>>)
                        /\ k.stream = conn[c].stream
  BY TransmitDoes
<1>2. due' = due /\ log' = log /\ scan' = scan /\ dumped' = dumped
  BY TransmitDoes DEF server
<1>3. Passing
  BY <1>1, <1>2 DEF Passing, Past
<1>4. conn'[c] = k /\ \A e \in Conns : e # c => conn'[e] = conn[e]
  BY <1>1 DEF Changes
<1>5. PICK q, s \in Seq(Message) : q = conn[c].sending /\ s = conn[c].stream
  BY Typed
<1>6. q # <<>> /\ m = Head(q) /\ m \in Message /\ k.state = conn[c].state
  BY <1>1, <1>5 DEF Moved
<1>7. PICK n \in Nat, l \in Nat : n = Len(q) /\ l = Len(s)
  OBVIOUS
<1>8. /\ n > 0 /\ m = q[1] /\ Tail(q) \in Seq(Message) /\ Len(Tail(q)) = n - 1
      /\ \A i \in 1 .. n - 1 : Tail(q)[i] = q[i + 1]
      /\ DOMAIN q = 1 .. n /\ DOMAIN s = 1 .. l
  <2>1. n > 0
    BY <1>5, <1>6, <1>7, EmptySeq
  <2>. QED  BY <1>5, <1>6, <1>7, <2>1, Headed
<1>9. \A e \in Conns : Quiet(e)' /\ Scanned(e)'
  <2>1. Quiet(c)'
    BY <1>1, <1>4, <1>6 DEF Quiet
  <2>. QED  BY <1>2, <1>4, <2>1 DEF InOrder, Quiet, Scanned
<1>10. ASSUME NEW d \in Dumplogs PROVE Dumping(d)'
  BY <1>1, <1>2, <1>3, DumpingSame DEF InOrder
<1>11. ASSUME NEW d \in Dumplogs, NEW e \in Conns, e # c PROVE StreamInOrder(e, d)' /\ SendsInOrder(e, d)'
  BY <1>2, <1>3, <1>4, <1>11, StreamSame, SendsSame DEF InOrder
<1>12. ASSUME NEW d \in Dumplogs PROVE StreamInOrder(c, d)'
  <2>1. CASE k.stream = s
    BY <1>2, <1>3, <1>4, <1>5, <2>1, StreamSame DEF InOrder
  <2>2. CASE conn[c].state = "open" /\ k.stream = Append(s, m)
    <3>1. /\ DOMAIN k.stream = 1 .. l + 1 /\ k.stream[l + 1] = m
          /\ \A i \in 1 .. l : k.stream[i] = s[i]
      BY <1>6, <1>7, <2>2, Added
    <3>2. ASSUME NEW j \in 1 .. l + 1, k.stream[j].part # "first", d \in ToSet(k.stream[j].items), NEW x \in due[d]
          PROVE  Past(x) \/ UpTo(k.stream, j, x)
      <4>1. CASE j \in 1 .. l
        <5>1. Past(x) \/ UpTo(s, j, x)
          BY <1>5, <1>8, <3>1, <3>2, <4>1 DEF InOrder, StreamInOrder
        <5>2. \A i \in 1 .. j : k.stream[i] = s[i]
          BY <3>1, <4>1
        <5>. QED  BY <5>1, <5>2 DEF UpTo
      <4>2. CASE j = l + 1
        <5>1. d \in ToSet(q[1].items) /\ 1 \in 1 .. n /\ m.part # "first"
          BY <1>8, <3>1, <3>2, <4>2
        <5>2. Past(x) \/ Coming(c, x) \/ UpTo(q, 1, x)
          BY <1>5, <1>8, <2>2, <3>2, <5>1 DEF InOrder, SendsInOrder
        <5>3. CASE Coming(c, x)
          <6>1. PICK i \in 1 .. l : s[i].part # "first" /\ x \in ToSet(s[i].items)
            BY <1>5, <1>7, <5>3, BearsUpTo DEF Coming
          <6>2. i \in 1 .. j /\ k.stream[i] = s[i]
            BY <3>1, <4>2
          <6>. QED  BY <6>1, <6>2 DEF UpTo
        <5>4. CASE UpTo(q, 1, x)
          <6>1. x \in ToSet(m.items)
            BY <1>8, <5>4 DEF UpTo
          <6>2. j \in 1 .. j /\ k.stream[j] = m
            BY <3>1, <4>2
          <6>. QED  BY <6>1, <6>2 DEF UpTo
        <5>. QED  BY <5>2, <5>3, <5>4
      <4>3. j \in 1 .. l \/ j = l + 1
        OBVIOUS
      <4>. QED  BY <4>1, <4>2, <4>3
    <3>. QED  BY <1>2, <1>3, <1>4, <3>1, <3>2, DueTyped DEF StreamInOrder, Passing
  <2>. QED  BY <1>1, <1>5, <2>1, <2>2
<1>13. ASSUME NEW d \in Dumplogs PROVE SendsInOrder(c, d)'
  <2>1. CASE conn[c].state # "open"
    BY <1>4, <1>6, <2>1 DEF SendsInOrder
  <2>2. CASE conn[c].state = "open"
    <3>1. k.stream = Append(s, m)
      BY <1>1, <1>5, <2>2
    <3>2. \A x : Bears(k.stream, x, Complete) <=>
                   Bears(s, x, Complete) \/ (m.part \in Complete /\ x \in ToSet(m.items))
      BY <1>6, <3>1, AddedBears
    <3>3. \A x : Coming(c, x)' <=> Bears(k.stream, x, Complete)
      BY <1>4 DEF Coming
    <3>4. \A x : Coming(c, x) => Coming(c, x)'
      BY <1>5, <3>2, <3>3 DEF Coming
    <3>5. \A x \in ToSet(m.items) : m.part # "first" => Coming(c, x)'
      <4>1. m.part # "first" => m.part \in Complete
        BY <1>6, Messages DEF Complete, Parts
      <4>. QED  BY <3>2, <3>3, <4>1
    (* Position j of the sends that are left was position j + 1. *)
    <3>6. ASSUME NEW u \in Seq(Message), \A i \in 1 .. n - 1 : u[i] = q[i + 1],
                 NEW j \in 1 .. n - 1, d \in ToSet(u[j].items), NEW x \in due[d]
          PROVE  Past(x) \/ Coming(c, x)' \/ UpTo(u, j, x)
      <4>1. PICK h \in 1 .. n : h = j + 1
        OBVIOUS
      <4>2. d \in ToSet(q[h].items)
        BY <3>6, <4>1
      <4>3. Past(x) \/ Coming(c, x) \/ UpTo(q, h, x)
        BY <1>5, <1>8, <2>2, <3>6, <4>2 DEF InOrder, SendsInOrder
      <4>4. CASE UpTo(q, h, x)
        <5>1. PICK i \in 1 .. h : x \in ToSet(q[i].items) /\ (i = h \/ q[i].part # "first")
          BY <4>4 DEF UpTo
        <5>2. CASE i = 1
          <6>1. x \in ToSet(m.items) /\ m.part # "first"
            BY <1>8, <4>1, <5>1, <5>2
          <6>. QED  BY <3>5, <6>1
        <5>3. CASE i # 1
          <6>1. PICK g \in 1 .. j : i = g + 1
            <7>1. i - 1 \in 1 .. j /\ i = (i - 1) + 1
              BY <4>1, <5>3
            <7>. QED  BY <7>1
          <6>2. g \in 1 .. n - 1 /\ (i = h => g = j)
            BY <4>1, <6>1
          <6>3. u[g] = q[i]
            BY <3>6, <6>1, <6>2
          <6>. QED  BY <5>1, <6>2, <6>3 DEF UpTo
        <5>. QED  BY <5>2, <5>3
      <4>. QED  BY <3>4, <4>3, <4>4
    <3>7. CASE m.part # "first"
      <4>1. k.sending = Tail(q)
        BY <1>1, <1>5, <3>7 DEF Moved
      <4>2. DOMAIN k.sending = 1 .. n - 1 /\ k.sending \in Seq(Message)
        BY <1>8, <4>1
      <4>3. \A j \in 1 .. n - 1 : d \in ToSet(k.sending[j].items) =>
              \A x \in due[d] : Past(x) \/ Coming(c, x)' \/ UpTo(k.sending, j, x)
        BY <1>8, <3>6, <4>1, <4>2
      <4>. QED  BY <1>2, <1>3, <1>4, <4>2, <4>3, DueTyped DEF SendsInOrder, Passing
    <3>8. CASE m.part = "first"
      <4>1. PICK z : z = Rest(m) /\ z \in Message /\ k.sending = Append(Tail(q), z)
        BY <1>1, <1>5, <3>8 DEF Moved
      <4>2. z.items = m.items
        BY <1>6, <4>1 DEF Rest, Message
      <4>3. /\ DOMAIN k.sending = 1 .. n /\ k.sending \in Seq(Message) /\ k.sending[n] = z
            /\ \A i \in 1 .. n - 1 : k.sending[i] = q[i + 1]
        <5>1. PICK t \in Seq(Message) : t = Tail(q) /\ Len(t) = n - 1 /\ \A i \in 1 .. n - 1 : t[i] = q[i + 1]
          BY <1>8
        <5>2. /\ k.sending \in Seq(Message) /\ Len(k.sending) = (n - 1) + 1 /\ k.sending[(n - 1) + 1] = z
              /\ \A i \in 1 .. n - 1 : k.sending[i] = t[i]
          BY <4>1, <5>1, Added
        <5>3. (n - 1) + 1 = n
          OBVIOUS
        <5>. QED  BY <5>1, <5>2, <5>3
      <4>4. ASSUME NEW j \in 1 .. n, d \in ToSet(k.sending[j].items), NEW x \in due[d]
            PROVE  Past(x) \/ Coming(c, x)' \/ UpTo(k.sending, j, x)
        <5>1. CASE j \in 1 .. n - 1
          BY <3>6, <4>3, <4>4, <5>1
        <5>2. CASE j = n
          <6>1. d \in ToSet(q[1].items) /\ 1 \in 1 .. n
            BY <1>8, <4>2, <4>3, <4>4, <5>2
          <6>2. Past(x) \/ Coming(c, x) \/ UpTo(q, 1, x)
            BY <1>5, <1>8, <2>2, <4>4, <6>1 DEF InOrder, SendsInOrder
          <6>3. CASE UpTo(q, 1, x)
            <7>1. x \in ToSet(m.items)
              BY <1>8, <6>3 DEF UpTo
            <7>2. j \in 1 .. j /\ x \in ToSet(k.sending[j].items)
              BY <4>2, <4>3, <5>2, <7>1
            <7>. QED  BY <7>2 DEF UpTo
          <6>. QED  BY <3>4, <6>2, <6>3
        <5>3. j \in 1 .. n - 1 \/ j = n
          OBVIOUS
        <5>. QED  BY <5>1, <5>2, <5>3
      <4>. QED  BY <1>2, <1>3, <1>4, <4>3, <4>4, DueTyped DEF SendsInOrder, Passing
    <3>. QED  BY <3>7, <3>8
  <2>. QED  BY <2>1, <2>2
<1>. QED  BY <1>9, <1>10, <1>11, <1>12, <1>13 DEF InOrder

(* A connection whose sends fail is broken: it delivers none of them. *)
LEMMA OrderFails ==
    ASSUME TypeOK, InOrder, NEW c \in Conns, WriteFails(c) PROVE InOrder'
<1>1. /\ UNCHANGED <<log, scan, dumped, lost, due>>
      /\ conn[c].state # "open" /\ conn[c].sending # <<>>
      /\ \A d \in Conns : d # c => conn'[d].sending = conn[d].sending
      /\ \A d \in Conns : conn'[d].stream = conn[d].stream
      /\ Aged
  BY WriteFailsDoes DEF server
<1>2. Passing
  BY <1>1 DEF Passing, Past
<1>3. conn'[c].state # "open" /\ \A d \in Conns : conn'[d].state = "open" => conn[d].state = "open"
  BY <1>1 DEF Aged
<1>4. \A e \in Conns : Quiet(e)' /\ Scanned(e)'
  <2>1. conn'[c].state \notin {"free", "connecting"}
    BY <1>1 DEF Aged, InOrder, Quiet
  <2>. QED  BY <1>1, <2>1 DEF InOrder, Quiet, Scanned, Aged
<1>5. ASSUME NEW d \in Dumplogs PROVE Dumping(d)'
  BY <1>1, <1>2, DumpingSame DEF InOrder
<1>6. ASSUME NEW d \in Dumplogs, NEW e \in Conns PROVE StreamInOrder(e, d)' /\ SendsInOrder(e, d)'
  <2>1. StreamInOrder(e, d)'
    BY <1>1, <1>2, StreamSame DEF InOrder
  <2>2. CASE e = c
    BY <1>3, <2>1, <2>2 DEF SendsInOrder
  <2>3. CASE e # c
    BY <1>1, <1>2, <1>3, <2>1, <2>3, SendsSame DEF InOrder
  <2>. QED  BY <2>1, <2>2, <2>3
<1>. QED  BY <1>4, <1>5, <1>6 DEF InOrder
(* The first messages of a stream have left it: what they carried is past. *)
LEMMA StreamShifts ==
    ASSUME TypeOK, NEW c \in Conns, NEW d \in Dumplogs, StreamInOrder(c, d), Passing, due'[d] = due[d],
           NEW k, Changes(c, k), NEW n, Leaves(c, k, n),
           \A x \in Records : Bears(SubSeq(conn[c].stream, 1, n), x, Complete) => Past(x)'
    PROVE  StreamInOrder(c, d)' /\ (SendsInOrder(c, d) => SendsInOrder(c, d)')
<1>1. PICK s \in Seq(Message) : s = conn[c].stream
  BY Typed
<1>2. PICK l \in Nat : l = Len(s)
  OBVIOUS
<1>3. n \in 1 .. l /\ n \in 0 .. Len(s) /\ n \in Nat
  BY <1>1, <1>2 DEF Leaves
<1>4. conn'[c] = k /\ k.stream = SubSeq(s, n + 1, Len(s)) /\ k.sending = conn[c].sending /\ k.state = conn[c].state
  BY <1>1 DEF Leaves, Changes
<1>5. PICK gone, u \in Seq(Message) : gone = SubSeq(s, 1, n) /\ u = SubSeq(s, n + 1, Len(s))
  BY <1>3, Parted
<1>6. /\ Len(gone) = n /\ \A i \in 1 .. n : gone[i] = s[i]
      /\ Len(u) = l - n /\ \A i \in 1 .. l - n : u[i] = s[i + n]
      /\ \A x : Bears(s, x, Complete) <=> Bears(gone, x, Complete) \/ Bears(u, x, Complete)
  <2>1. Len(gone) = n /\ \A i \in 1 .. n : gone[i] = s[i]
    BY <1>3, <1>5, Parted
  <2>2. Len(u) = Len(s) - n /\ \A i \in 1 .. Len(s) - n : u[i] = s[i + n]
    BY <1>3, <1>5, Parted
  <2>3. \A x : Bears(s, x, Complete) <=> Bears(gone, x, Complete) \/ Bears(u, x, Complete)
    BY <1>3, <1>5, Parted
  <2>. QED  BY <1>2, <2>1, <2>2, <2>3
<1>7. k.stream = u /\ DOMAIN u = 1 .. l - n /\ DOMAIN s = 1 .. l
  BY <1>2, <1>3, <1>4, <1>5, <1>6
<1>8. \A x \in Records : Bears(gone, x, Complete) => Past(x)'
  BY <1>1, <1>5
<1>9. ASSUME NEW j \in 1 .. l - n, u[j].part # "first", d \in ToSet(u[j].items), NEW x \in due[d]
      PROVE  Past(x)' \/ UpTo(u, j, x)
  <2>. x \in Records
    BY DueTyped
  <2>1. PICK h \in 1 .. l : h = j + n
    BY <1>3
  <2>2. s[h].part # "first" /\ d \in ToSet(s[h].items)
    BY <1>6, <1>9, <2>1
  <2>3. Past(x) \/ UpTo(s, h, x)
    BY <1>1, <1>7, <1>9, <2>2 DEF StreamInOrder
  <2>4. CASE UpTo(s, h, x)
    <3>1. PICK i \in 1 .. h : x \in ToSet(s[i].items) /\ s[i].part # "first"
      BY <2>2, <2>4 DEF UpTo
    <3>2. CASE i \in 1 .. n
      <4>1. gone[i].part # "first" /\ x \in ToSet(gone[i].items)
        BY <1>6, <3>1, <3>2
      <4>2. Bears(gone, x, Complete)
        BY <1>5, <1>6, <3>2, <4>1, BearsUpTo
      <4>. QED  BY <1>8, <4>2
    <3>3. CASE i \notin 1 .. n
      <4>1. i - n \in 1 .. j /\ (i - n) + n = i
        BY <1>3, <2>1, <3>3
      <4>2. PICK g \in 1 .. j : g + n = i
        BY <4>1
      <4>3. g \in 1 .. l - n
        BY <1>3
      <4>4. u[g] = s[i]
        BY <1>6, <4>2, <4>3
      <4>. QED  BY <3>1, <4>2, <4>4 DEF UpTo
    <3>. QED  BY <3>2, <3>3
  <2>. QED  BY <2>3, <2>4 DEF Passing
<1>10. StreamInOrder(c, d)'
  BY <1>4, <1>7, <1>9 DEF StreamInOrder
<1>11. \A x \in Records : Coming(c, x) => Coming(c, x)' \/ Past(x)'
  <2>1. \A x : (Coming(c, x) <=> Bears(s, x, Complete)) /\ (Coming(c, x)' <=> Bears(u, x, Complete))
    BY <1>1, <1>4, <1>7 DEF Coming
  <2>. QED  BY <1>6, <1>8, <2>1
<1>12. SendsInOrder(c, d) => SendsInOrder(c, d)'
  BY <1>4, <1>11, DueTyped DEF SendsInOrder, Passing
<1>. QED  BY <1>10, <1>12

LEMMA OrderProcess ==
    ASSUME TypeOK, InOrder, NEW c \in Conns, Process(c) PROVE InOrder'
<1>1. PICK k, n : /\ Changes(c, k) /\ Leaves(c, k, n)
                  /\ \/ Deserialized(conn[c].stream, n) /\ Adds(c, conn[c].stream[1].items)
                     \/ /\ lost' = lost \cup Carried(SubSeq(conn[c].stream, 1, n))
                        /\ UNCHANGED <<log, scan>>
  BY ProcessDoes
<1>2. due' = due /\ dumped' = dumped
  BY ProcessDoes
<1>3. PICK s \in Seq(Message) : s = conn[c].stream
  BY Typed
<1>4. n \in 1 .. Len(s) /\ n \in 0 .. Len(s) /\ n \in 1 .. Len(conn[c].stream)
  BY <1>1, <1>3 DEF Leaves
<1>5. PICK gone \in Seq(Message) : gone = SubSeq(s, 1, n)
  BY <1>4, Parted
<1>6. /\ Passing /\ lost \subseteq lost'
      /\ \A x \in Records : Bears(gone, x, Complete) => Past(x)'
      /\ \A x \in Records : log[x] > 0 => log'[x] > 0
      /\ \A x \in Records : log'[x] > 0 => log[x] > 0 \/ Bears(gone, x, Complete)
      /\ \A e \in Conns : Scanned(e)'
  <2>1. CASE lost' = lost \cup Carried(gone) /\ UNCHANGED <<log, scan>>
    BY <1>5, <2>1, CarriedIs DEF Passing, Past, InOrder, Scanned
  <2>2. CASE Deserialized(s, n) /\ Adds(c, s[1].items)
    <3>1. /\ s[1].items \in Seq(Records)
          /\ \A x : x \in ToSet(s[1].items) <=> Bears(gone, x, Complete)
      BY <1>3, <1>4, <1>5, <2>2, DeserializedIs
    <3>2. /\ lost' = lost /\ scan' = [scan EXCEPT ![c] = s[1].items]
          /\ \A x \in Records : log'[x] = log[x] + IF x \in ToSet(s[1].items) THEN 1 ELSE 0
      BY <2>2 DEF Adds
    <3>3. \A x \in Records : log[x] \in Nat
      BY DEF TypeOK
    <3>4. ASSUME NEW x \in Records
          PROVE  /\ log[x] > 0 => log'[x] > 0
                 /\ log'[x] > 0 => log[x] > 0 \/ x \in ToSet(s[1].items)
                 /\ x \in ToSet(s[1].items) => log'[x] > 0
      <4>1. CASE x \in ToSet(s[1].items)
        BY <3>2, <3>3, <4>1
      <4>2. CASE x \notin ToSet(s[1].items)
        BY <3>2, <3>3, <4>2
      <4>. QED  BY <4>1, <4>2
    <3>5. \A x \in ToSet(s[1].items) : x \in Records
      BY <3>1, Elements
    <3>6. \A e \in Conns : scan'[e] = scan[e] \/ scan'[e] = s[1].items
      BY <3>2 DEF TypeOK
    <3>7. \A e \in Conns : \A x \in ToSet(scan[e]) : x \in Records
      <4>1. \A e \in Conns : scan[e] \in Seq(Records)
        BY DEF TypeOK
      <4>. QED  BY <4>1, Elements
    <3>8. \A e \in Conns : Scanned(e)'
      BY <3>4, <3>5, <3>6, <3>7 DEF InOrder, Scanned
    <3>. QED  BY <3>1, <3>2, <3>4, <3>8 DEF Passing, Past
  <2>. QED  BY <1>1, <1>3, <1>5, <2>1, <2>2
<1>7. \A e \in Conns : Quiet(e)'
  <2>1. conn[c].state \notin {"free", "connecting"}
    BY DEF InOrder, Quiet, Process
  <2>2. conn'[c] = k /\ k.state = conn[c].state /\ \A e \in Conns : e # c => conn'[e] = conn[e]
    BY <1>1 DEF Changes, Leaves
  <2>. QED  BY <2>1, <2>2 DEF InOrder, Quiet
<1>8. ASSUME NEW d \in Dumplogs, NEW e \in Conns PROVE StreamInOrder(e, d)' /\ SendsInOrder(e, d)'
  <2>1. StreamInOrder(e, d) /\ SendsInOrder(e, d) /\ due'[d] = due[d]
    BY <1>2 DEF InOrder
  <2>2. CASE e = c
    BY <1>1, <1>3, <1>5, <1>6, <2>1, <2>2, StreamShifts
  <2>3. CASE e # c
    <3>1. conn'[e] = conn[e]
      BY <1>1, <2>3 DEF Changes
    <3>. QED  BY <1>6, <2>1, <3>1, StreamSame, SendsSame
  <2>. QED  BY <2>2, <2>3
<1>9. ASSUME NEW d \in Dumplogs PROVE Dumping(d)'
  <2>1. Dumping(d) /\ due'[d] = due[d] /\ dumped'[d] = dumped[d] /\ d \in Records
    BY <1>2, RecordAssumption DEF InOrder
  <2>2. ASSUME Bears(gone, d, Complete), NEW x \in due[d] PROVE Past(x)'
    <3>. x \in Records
      BY DueTyped
    <3>1. /\ Len(gone) = n /\ n \in Nat /\ DOMAIN s = 1 .. Len(s)
          /\ \A i \in 1 .. n : gone[i] = s[i] /\ i \in 1 .. Len(s)
      <4>1. Len(s) \in Nat /\ n \in Nat /\ n <= Len(s) /\ DOMAIN s = 1 .. Len(s)
        BY <1>3, <1>4
      <4>2. Len(gone) = n /\ \A i \in 1 .. n : gone[i] = s[i]
        BY <1>3, <1>4, <1>5, Parted
      <4>. QED  BY <4>1, <4>2
    <3>2. PICK j \in 1 .. n : gone[j].part # "first" /\ d \in ToSet(gone[j].items)
      BY <1>5, <2>2, <3>1, BearsUpTo
    <3>3. Past(x) \/ UpTo(s, j, x)
      BY <1>3, <2>2, <3>1, <3>2 DEF InOrder, StreamInOrder
    <3>4. CASE UpTo(s, j, x)
      <4>1. PICK i \in 1 .. j : x \in ToSet(s[i].items) /\ (i = j \/ s[i].part # "first")
        BY <3>4 DEF UpTo
      <4>2. i \in 1 .. n /\ gone[i].part # "first" /\ x \in ToSet(gone[i].items)
        BY <3>1, <3>2, <4>1
      <4>3. Bears(gone, x, Complete)
        BY <1>5, <3>1, <4>2, BearsUpTo
      <4>. QED  BY <1>6, <4>3
    <3>. QED  BY <1>6, <3>3, <3>4 DEF Passing
  <2>3. log'[d] > 0 => \A x \in due[d] : Past(x)'
    <3>1. log[d] > 0 => \A x \in due[d] : Past(x)'
      BY <1>6, <2>1, DueTyped DEF Dumping, Passing
    <3>. QED  BY <1>6, <2>1, <2>2, <3>1
  <2>. QED  BY <1>6, <2>1, <2>3 DEF Dumping
<1>. QED  BY <1>6, <1>7, <1>8, <1>9 DEF InOrder

(* A connection breaks: what is left of its stream is the beginning. *)
LEMMA OrderEnded ==
    ASSUME TypeOK, InOrder, NEW c \in Conns, NEW n \in 0 .. Len(conn[c].stream),
           NEW k, Changes(c, k), Breaks(c, k, n), lost \subseteq lost', UNCHANGED <<log, due>>,
           \A e \in Conns : scan'[e] = scan[e] \/ scan'[e] = <<>>,
           \A d \in Dumplogs : dumped'[d] = dumped[d] \/ (log[d] > 0 /\ dumped'[d] = InLog)
    PROVE  InOrder'
<1>1. Passing
  BY DEF Passing, Past
<1>2. conn'[c] = k /\ \A e \in Conns : e # c => conn'[e] = conn[e]
  BY DEF Changes
<1>3. PICK s \in Seq(Message) : s = conn[c].stream
  BY Typed
<1>4. ASSUME NEW e \in Conns PROVE Quiet(e)' /\ Scanned(e)'
  <2>1. ToSet(<<>>) = {}
    BY DEF ToSet
  <2>2. Scanned(e)'
    BY <1>4, <2>1 DEF InOrder, Scanned
  <2>3. CASE e # c
    BY <1>2, <2>2, <2>3 DEF InOrder, Quiet
  <2>4. CASE e = c
    <3>1. ASSUME k.state \in {"free", "connecting"} PROVE k.sending = <<>> /\ k.stream = <<>>
      <4>1. conn[c].sending = <<>> /\ s = <<>>
        BY <1>3, <3>1 DEF Breaks, InOrder, Quiet
      <4>2. Len(s) = 0 /\ n = 0
        <5>1. Len(s) = 0
          BY <4>1
        <5>. QED  BY <1>3, <5>1
      <4>3. k.stream = SubSeq(s, 1, 0) /\ SubSeq(s, 1, 0) = <<>>
        BY <1>3, <4>2, SubSeqEmpty DEF Breaks
      <4>. QED  BY <4>1, <4>3 DEF Breaks
    <3>. QED  BY <1>2, <2>2, <2>4, <3>1 DEF Quiet
  <2>. QED  BY <2>3, <2>4
<1>5. ASSUME NEW d \in Dumplogs, NEW e \in Conns PROVE StreamInOrder(e, d)' /\ SendsInOrder(e, d)'
  <2>1. StreamInOrder(e, d) /\ SendsInOrder(e, d) /\ due'[d] = due[d]
    BY DEF InOrder
  <2>2. CASE e # c
    BY <1>1, <1>2, <2>1, <2>2, StreamSame, SendsSame
  <2>3. CASE e = c
    <3>1. SendsInOrder(c, d)'
      BY <1>2 DEF Breaks, SendsInOrder
    <3>2. PICK l \in Nat : l = Len(s)
      OBVIOUS
    <3>3. n \in 0 .. l /\ n \in Nat /\ n \in 0 .. Len(s) /\ DOMAIN s = 1 .. l
      BY <1>3, <3>2
    <3>4. PICK u \in Seq(Message) : u = SubSeq(s, 1, n) /\ Len(u) = n /\ \A i \in 1 .. n : u[i] = s[i]
      BY <3>3, Parted, ZenonT(60)
    <3>5. conn'[c].stream = u /\ DOMAIN u = 1 .. n
      BY <1>2, <1>3, <3>3, <3>4 DEF Breaks
    <3>6. ASSUME NEW j \in 1 .. n, u[j].part # "first", d \in ToSet(u[j].items), NEW x \in due[d]
          PROVE  Past(x) \/ UpTo(u, j, x)
      <4>1. j \in 1 .. l /\ u[j] = s[j]
        BY <3>3, <3>4
      <4>2. Past(x) \/ UpTo(s, j, x)
        BY <1>3, <2>1, <2>3, <3>3, <3>6, <4>1 DEF StreamInOrder
      <4>3. \A i \in 1 .. j : u[i] = s[i]
        BY <3>4
      <4>. QED  BY <4>2, <4>3 DEF UpTo
    <3>7. StreamInOrder(c, d)'
      BY <1>1, <2>1, <3>5, <3>6, DueTyped DEF StreamInOrder, Passing
    <3>. QED  BY <2>3, <3>1, <3>7
  <2>. QED  BY <2>2, <2>3
<1>6. ASSUME NEW d \in Dumplogs PROVE Dumping(d)'
  <2>1. Dumping(d)
    BY DEF InOrder
  <2>2. CASE dumped'[d] = dumped[d]
    BY <1>1, <2>1, <2>2, DumpingSame
  <2>3. CASE log[d] > 0 /\ dumped'[d] = InLog
    <3>1. \A x \in due[d] : x \in Records
      BY DueTyped
    <3>. QED  BY <2>1, <2>3, <3>1 DEF Dumping, Past, InLog
  <2>. QED  BY <2>2, <2>3
<1>. QED  BY <1>4, <1>5, <1>6 DEF InOrder
(* A DUMPLOG that is written is in no other place. *)
LEMMA WrittenNowhere ==
    ASSUME TypeOK, Looping, \A r \in Records : Kept(r)
    PROVE  /\ \A r \in Records : WriteDirect(r) => \A q \in ToSet(<<r>>) : Nowhere(q)
           /\ PopAndWrite => \A q \in ToSet(SubSeq(logs, 1, loop.size)) : Nowhere(q)
<1>1. ASSUME NEW r \in Records, WriteDirect(r), NEW q \in ToSet(<<r>>) PROVE Nowhere(q)
  <2>1. q = r /\ at[r] # "written"
    BY <1>1 DEF ToSet, WriteDirect
  <2>. QED  BY <2>1 DEF Kept, Somewhere
<1>2. ASSUME PopAndWrite, NEW q \in ToSet(SubSeq(logs, 1, loop.size)) PROVE Nowhere(q)
  <2>1. logs \in Seq(Records) /\ loop.size \in 0 .. Len(logs)
    BY <1>2, BatchWrite DEF TypeOK
  <2>2. q \in ToSet(logs)
    BY <1>2, <2>1, Split
  <2>3. q \in Records
    BY <2>1, <2>2, Elements
  <2>. QED  BY <2>2, <2>3 DEF Kept, Apart, Waits
<1>. QED  BY <1>1, <1>2

LEMMA StepInOrder ==
    ASSUME TypeOK, Looping, \A r \in Records : Kept(r), InOrder, [Next]_vars PROVE InOrder'
<1>. USE DEF writer, server
<1>1. ASSUME Steady, UNCHANGED <<due, log, lost, scan, dumped>>,
             \A c \in Conns : \/ conn'[c].state = conn[c].state \/ conn'[c].state = "closed"
                              \/ (conn[c].state = "free" /\ conn'[c].state = "connecting")
                              \/ (conn[c].state = "connecting" /\ conn'[c].state = "open")
      PROVE  InOrder'
  BY <1>1, OrderSteady
<1>2. ASSUME NEW r \in Records, WriteRecord(r) PROVE InOrder'
  BY <1>1, <1>2, SameConn DEF WriteRecord, Aged
<1>3. ASSUME NEW r \in Records, WriteDirect(r) PROVE InOrder'
  <2>1. <<r>> \in Seq(Records) /\ logs \in Seq(Records) /\ WriteToServer(<<r>>, logs) /\ UNCHANGED <<lost, server>>
    BY <1>3, DirectWrite
  <2>2. \A q \in ToSet(<<r>>) : Nowhere(q)
    BY <1>3, WrittenNowhere
  <2>. QED  BY <2>1, <2>2, OrderWrite
<1>4. CASE Check
  BY <1>1, <1>4, CheckDoes
<1>5. CASE Connect \/ ConnectFails
  BY <1>1, <1>5, ConnectDoes
<1>6. CASE Count
  BY <1>1, <1>6, SameConn DEF Count, Aged
<1>7. CASE PopAndWrite
  <2>1. PICK items, rest : items = SubSeq(logs, 1, loop.size) /\ rest = SubSeq(logs, loop.size + 1, Len(logs))
    OBVIOUS
  <2>2. /\ items \in Seq(Records) /\ rest \in Seq(Records) /\ WriteToServer(items, rest)
        /\ UNCHANGED <<lost, server>>
    BY <1>7, <2>1, BatchWrite
  <2>3. \A q \in ToSet(items) : Nowhere(q)
    BY <1>7, <2>1, WrittenNowhere
  <2>. QED  BY <2>2, <2>3, OrderWrite
<1>8. ASSUME NEW c \in Conns, Transmit(c) \/ WriteFails(c) \/ Process(c) PROVE InOrder'
  BY <1>8, OrderTransmit, OrderFails, OrderProcess
<1>9. ASSUME NEW c \in Conns PROVE \A d \in Dumplogs : d \in ToSet(scan[c]) => log[d] > 0
  BY DEF InOrder, Scanned
<1>10. ASSUME NEW c \in Conns, Scan(c) PROVE InOrder'
  <2>1. Steady /\ UNCHANGED <<due, log, lost>> /\ \A e \in Conns : conn'[e].state = conn[e].state
    BY <1>10, SameConn DEF Scan
  <2>2. \A e \in Conns : scan'[e] = scan[e] \/ scan'[e] = <<>>
    BY <1>10 DEF Scan, TypeOK
  <2>3. \A d \in Dumplogs : dumped'[d] = dumped[d] \/ (log[d] > 0 /\ dumped'[d] = InLog)
    BY <1>9, <1>10 DEF Scan
  <2>. QED  BY <2>1, <2>2, <2>3, OrderSteady
<1>11. ASSUME NEW c \in Conns, DumpFails(c) PROVE InOrder'
  <2>1. \A d \in Dumplogs : dumped'[d] = dumped[d] \/ (log[d] > 0 /\ dumped'[d] = InLog)
    BY <1>9, <1>11, DumpFailsDoes
  <2>2. \A e \in Conns : scan'[e] = scan[e] \/ scan'[e] = <<>>
    <3>1. scan' = [scan EXCEPT ![c] = <<>>]
      BY <1>11, DumpFailsDoes
    <3>. QED  BY <3>1 DEF TypeOK
  <2>3. PICK n \in 0 .. Len(conn[c].stream) :
          /\ lost' = lost \cup (Carried(conn[c].stream) \ Carried(SubSeq(conn[c].stream, 1, n)))
          /\ \E k : Changes(c, k) /\ Breaks(c, k, n)
    BY <1>11, DumpFailsDoes
  <2>4. lost \subseteq lost' /\ UNCHANGED <<log, due>>
    BY <1>11, <2>3, DumpFailsDoes
  <2>. QED  BY <2>1, <2>2, <2>3, <2>4, OrderEnded
<1>12. ASSUME NEW c \in Conns, Break(c) PROVE InOrder'
  <2>1. PICK n \in 0 .. Len(conn[c].stream) :
          /\ lost' = lost \cup (Carried(conn[c].stream) \ Carried(SubSeq(conn[c].stream, 1, n)))
          /\ \E k : Changes(c, k) /\ Breaks(c, k, n)
    BY <1>12, BreakDoes
  <2>2. lost \subseteq lost' /\ UNCHANGED <<log, due, scan, dumped>>
    BY <1>12, <2>1, BreakDoes
  <2>. QED  BY <2>1, <2>2, OrderEnded
<1>13. ASSUME NEW c \in Conns, Forget(c) PROVE InOrder'
  <2>1. /\ Steady /\ UNCHANGED <<due, log, lost, scan, dumped>>
        /\ conn'[c].state = "free" /\ \A e \in Conns : e # c => conn'[e].state = conn[e].state
    BY <1>13, ForgetDoes
  <2>2. conn[c].sending = <<>> /\ conn[c].stream = <<>>
    BY <1>13 DEF Forget
  <2>. QED  BY <2>1, <2>2, OrderSteady
<1>14. CASE UNCHANGED vars
  BY <1>1, <1>14, SameConn DEF vars, Aged
<1>. QED
  BY <1>2, <1>3, <1>4, <1>5, <1>6, <1>7, <1>8, <1>10, <1>11, <1>12, <1>13, <1>14 DEF Next, KeepConnected

-----------------------------------------------------------------------------
LEMMA InitInv == ASSUME Init PROVE Inv
<1>1. \A c \in Conns : conn[c] = Free /\ scan[c] = <<>>
  BY DEF Init
<1>2. Free \in Conn /\ Free.state = "free" /\ Free.sending = <<>> /\ Free.stream = <<>>
  BY DEF Free, Conn, States
<1>3. TypeOK
  <2>1. conn \in [Conns -> Conn] /\ scan \in [Conns -> Seq(Records)]
    BY <1>2 DEF Init
  <2>2. faults \in 0 .. MaxFaults
    BY SizeAssumption DEF Init
  <2>. QED  BY <2>1, <2>2 DEF Init, TypeOK
<1>4. Looping
  BY DEF Init, Looping
<1>5. ToSet(<<>>) = {} /\ DOMAIN <<>> = {}
  BY DEF ToSet
<1>6. ASSUME NEW r \in Records PROVE Kept(r)
  <2>1. \A c \in Conns : ~Sent(c, r) /\ ~Coming(c, r) /\ Slots(c, r)
    BY <1>1, <1>2, <1>5 DEF Sent, Coming, Slots, Bears, BearsOnce
  <2>2. ~Waits(r) /\ Once(logs, r) /\ log[r] = 0 /\ r \notin lost /\ at[r] = "unborn"
    BY <1>5 DEF Init, Waits, Once
  <2>. QED  BY <2>1, <2>2 DEF Kept, Apart, Delivering, Single, Somewhere, Nowhere
<1>7. InOrder
  <2>1. \A c \in Conns : Quiet(c) /\ Scanned(c)
    BY <1>1, <1>2, <1>5 DEF Quiet, Scanned
  <2>2. \A c \in Conns, d \in Dumplogs : StreamInOrder(c, d) /\ SendsInOrder(c, d)
    BY <1>1, <1>2, <1>5 DEF StreamInOrder, SendsInOrder
  <2>3. \A d \in Dumplogs : Dumping(d)
    BY RecordAssumption DEF Init, Dumping
  <2>. QED  BY <2>1, <2>2, <2>3 DEF InOrder
<1>. QED  BY <1>3, <1>4, <1>6, <1>7 DEF Inv

LEMMA StepInv == ASSUME Inv, [Next]_vars PROVE Inv'
<1>1. TypeOK /\ Looping /\ (\A r \in Records : Kept(r)) /\ InOrder
  BY DEF Inv
<1>2. TypeOK' /\ Looping' /\ InOrder'
  BY <1>1, StepTyped, StepLooping, StepInOrder
<1>3. \A r \in Records : Kept(r)'
  BY <1>1, StepKept
<1>. QED  BY <1>2, <1>3 DEF Inv

(***************************************************************************)
(* The inductive invariant: every record is in one place, and what was     *)
(* sent ahead of a DUMPLOG stays ahead of it or has arrived or is lost.    *)
(***************************************************************************)
THEOREM Invariance == Spec => []Inv
<1>1. Init => Inv
  BY InitInv
<1>2. Inv /\ [Next]_vars => Inv'
  BY StepInv
<1>. QED  BY <1>1, <1>2, PTL DEF Spec

(***************************************************************************)
(* AuditTrail!TypeOK: the array that KeepConnected has made of logs.Count  *)
(* slots is filled by TryPopRange, so no slot of a batch is empty.         *)
(***************************************************************************)
THEOREM TypeCorrect == Spec => []TypeOK
<1>1. Inv => TypeOK
  BY DEF Inv
<1>. QED  BY <1>1, Invariance, PTL

(***************************************************************************)
(* AuditTrail!DumpHoldsEarlier: whatever breaks or fails, the file of a    *)
(* DUMPLOG holds what was sent ahead of it on its connection and all of    *)
(* its own batch, except what is lost.                                     *)
(***************************************************************************)
THEOREM DumpsHoldEarlier == Spec => []DumpHoldsEarlier
<1>1. Inv => DumpHoldsEarlier
  BY DEF Inv, InOrder, Dumping, DumpHoldsEarlier
<1>. QED  BY <1>1, Invariance, PTL
-----------------------------------------------------------------------------
(* A record that is kept has one place at most to count. *)
LEMMA PlacesAre ==
    ASSUME TypeOK, NEW r \in Records, Kept(r)
    PROVE  /\ Waits(r) => \E p : Places(r) = {p}
           /\ \A c \in Conns : Sent(c, r) \/ Coming(c, r) => \E p : Places(r) = {p}
           /\ ~Waits(r) /\ (\A c \in Conns : ~Sent(c, r) /\ ~Coming(c, r)) => Places(r) = {}
<1>. DEFINE L == {<<"logs", NoClient, i>> : i \in {j \in DOMAIN logs : logs[j] = r}}
            S(c) == {<<"sending", c, i>> : i \in Sends(r, c)}
            A(c) == {<<"stream", c, i>> : i \in Arriving(r, c)}
<1>1. Places(r) = L \cup UNION {S(c) \cup A(c) : c \in Conns}
  BY DEF Places
<1>2. ASSUME NEW c \in Conns
      PROVE  /\ Sends(r, c) # {} <=> Sent(c, r)
             /\ Arriving(r, c) # {} <=> Coming(c, r)
             /\ \A i, j \in Sends(r, c) : i = j
             /\ \A i, j \in Arriving(r, c) : i = j
  <2>1. conn[c].sending \in Seq(Message) /\ conn[c].stream \in Seq(Message)
    BY Typed
  <2>2. \A i \in DOMAIN conn[c].sending : conn[c].sending[i].part \in Parts
    BY <2>1, Positions
  <2>3. \A i \in DOMAIN conn[c].stream : conn[c].stream[i].part # "first" <=> conn[c].stream[i].part \in Complete
    BY <2>1, Positions DEF Parts, Complete
  <2>4. Slots(c, r)
    BY DEF Kept, Single
  <2>5. (Sends(r, c) # {} <=> Sent(c, r)) /\ (Arriving(r, c) # {} <=> Coming(c, r))
    BY <2>2, <2>3 DEF Sends, Arriving, Sent, Coming, Bears
  <2>6. \A i, j \in Sends(r, c) : i = j
    BY <2>2, <2>4 DEF Sends, Slots, BearsOnce
  <2>7. \A i, j \in Arriving(r, c) : i = j
    BY <2>3, <2>4 DEF Arriving, Slots, BearsOnce
  <2>. QED  BY <2>5, <2>6, <2>7
<1>3. ~Waits(r) => L = {}
  BY DEF Waits, ToSet
<1>4. \A c \in Conns : (~Sent(c, r) => S(c) = {}) /\ (~Coming(c, r) => A(c) = {})
  BY <1>2
<1>5. CASE Waits(r)
  <2>1. PICK i \in DOMAIN logs : logs[i] = r
    BY <1>5 DEF Waits, ToSet
  <2>2. {j \in DOMAIN logs : logs[j] = r} = {i}
    BY <2>1 DEF Kept, Single, Once
  <2>3. L = {<<"logs", NoClient, i>>}
    BY <2>2
  <2>4. \A c \in Conns : S(c) = {} /\ A(c) = {}
    BY <1>4, <1>5 DEF Kept, Apart, Nowhere
  <2>. HIDE DEF L, S, A
  <2>5. Places(r) = {<<"logs", NoClient, i>>}
    BY <1>1, <2>3, <2>4
  <2>. QED  BY <1>5, <2>5 DEF Kept, Apart, Nowhere
<1>6. ASSUME NEW c \in Conns, Sent(c, r) PROVE \E p : Places(r) = {p}
  <2>1. PICK i : i \in Sends(r, c)
    BY <1>2, <1>6
  <2>2. Sends(r, c) = {i}
    BY <1>2, <2>1
  <2>3. S(c) = {<<"sending", c, i>>}
    BY <2>2
  <2>4. ~Waits(r) /\ \A e \in Conns : (e # c => ~Sent(e, r)) /\ ~Coming(e, r)
    BY <1>6 DEF Kept, Apart, Delivering, Nowhere
  <2>5. L = {} /\ \A e \in Conns : (e # c => S(e) = {}) /\ A(e) = {}
    BY <1>3, <1>4, <2>4
  <2>. HIDE DEF L, S, A
  <2>6. Places(r) = {<<"sending", c, i>>}
    BY <1>1, <2>3, <2>5
  <2>. QED  BY <2>6
<1>7. ASSUME NEW c \in Conns, Coming(c, r) PROVE \E p : Places(r) = {p}
  <2>1. PICK i : i \in Arriving(r, c)
    BY <1>2, <1>7
  <2>2. Arriving(r, c) = {i}
    BY <1>2, <2>1
  <2>3. A(c) = {<<"stream", c, i>>}
    BY <2>2
  <2>4. ~Waits(r) /\ \A e \in Conns : (e # c => ~Coming(e, r)) /\ ~Sent(e, r)
    BY <1>7 DEF Kept, Apart, Delivering, Nowhere
  <2>5. L = {} /\ \A e \in Conns : (e # c => A(e) = {}) /\ S(e) = {}
    BY <1>3, <1>4, <2>4
  <2>. HIDE DEF L, S, A
  <2>6. Places(r) = {<<"stream", c, i>>}
    BY <1>1, <2>3, <2>5
  <2>. QED  BY <2>6
<1>8. ASSUME ~Waits(r), \A c \in Conns : ~Sent(c, r) /\ ~Coming(c, r) PROVE Places(r) = {}
  <2>1. L = {} /\ \A c \in Conns : S(c) = {} /\ A(c) = {}
    BY <1>3, <1>4, <1>8
  <2>. HIDE DEF L, S, A
  <2>. QED  BY <1>1, <2>1
<1>9. Waits(r) => \E p : Places(r) = {p}
  BY <1>5
<1>. HIDE DEF L, S, A
<1>. QED  BY <1>6, <1>7, <1>8, <1>9

LEMMA CountedOnce == ASSUME TypeOK, \A r \in Records : Kept(r) PROVE RecordsKept
<1>. SUFFICES ASSUME NEW r \in Records, at[r] = "written"
              PROVE  Cardinality(Places(r)) + log[r] + Cardinality({r} \cap lost) = 1
  BY DEF RecordsKept
<1>1. Kept(r)
  OBVIOUS
<1>2. Cardinality({}) = 0 /\ \A p : Cardinality({p}) = 1
  BY FS_EmptySet, FS_Singleton
<1>3. log[r] \in {0, 1}
  BY <1>1 DEF Kept, Single
<1>4. (r \in lost => Cardinality({r} \cap lost) = 1) /\ (r \notin lost => Cardinality({r} \cap lost) = 0)
  <2>1. (r \in lost => {r} \cap lost = {r}) /\ (r \notin lost => {r} \cap lost = {})
    OBVIOUS
  <2>. QED  BY <1>2, <2>1
<1>5. CASE Waits(r)
  <2>1. log[r] = 0 /\ r \notin lost
    BY <1>1, <1>5 DEF Kept, Apart, Nowhere
  <2>2. Cardinality(Places(r)) = 1
    BY <1>1, <1>2, <1>5, PlacesAre
  <2>. QED  BY <1>4, <2>1, <2>2
<1>6. ASSUME NEW c \in Conns, Sent(c, r) \/ Coming(c, r)
      PROVE  Cardinality(Places(r)) + log[r] + Cardinality({r} \cap lost) = 1
  <2>1. log[r] = 0 /\ r \notin lost
    BY <1>1, <1>6 DEF Kept, Apart, Delivering
  <2>2. Cardinality(Places(r)) = 1
    BY <1>1, <1>2, <1>6, PlacesAre
  <2>. QED  BY <1>4, <2>1, <2>2
<1>7. CASE ~Waits(r) /\ \A c \in Conns : ~Sent(c, r) /\ ~Coming(c, r)
  <2>1. Cardinality(Places(r)) = 0
    BY <1>1, <1>2, <1>7, PlacesAre
  <2>2. log[r] # 0 \/ r \in lost
    BY <1>1, <1>7 DEF Kept, Somewhere, Nowhere
  <2>3. r \in lost => log[r] = 0
    BY <1>1 DEF Kept, Apart, Delivering
  <2>. QED  BY <1>3, <1>4, <2>1, <2>2, <2>3
<1>. QED  BY <1>5, <1>6, <1>7

(***************************************************************************)
(* AuditTrail!RecordsKept: what WriteRecord was given is in exactly one    *)
(* place, the stack, a send, a connection, the log, or it went down with a *)
(* connection, although WriteToServer returns to the stack what it could   *)
(* not write and the loop sends it again.                                  *)
(***************************************************************************)
THEOREM OnePlaceEach == Spec => []RecordsKept
<1>1. Inv => RecordsKept
  BY CountedOnce DEF Inv
<1>. QED  BY <1>1, Invariance, PTL
=============================================================================
