---------------------------- MODULE ClientCalls -----------------------------
(***************************************************************************)
(* Every response has a call. First the unread bytes and the packets that  *)
(* start in them, then the ledger, which relates the requests and the      *)
(* responses on their way to the calls the application made, then the      *)
(* results about the client.                                               *)
(***************************************************************************)
EXTENDS ClientProofs

(* No cell of a packet is unread twice. *)
Distinct == \A j, k \in 1 .. Len(Unread) : Unread[j] = Unread[k] => j = k

(* The last cell of a request that is to be answered is on its way. *)
LastSent(id) ==
  \E j \in 1 .. Len(c2s) : c2s[j].id = id /\ c2s[j].fn # "close" /\ c2s[j].i = Span(c2s[j].fn)

(* A response to the call is on its way. *)
Answered(id) == \E p \in ToCome : log[p].call_id = id

(* Who is to be answered, or is being, has a call that is not yet answered. *)
Accounted ==
  ~blind => \A id \in Ids : LastSent(id) \/ id \in owed \/ Answered(id) =>
    id \in outstanding \cup abandoned \cup {call.id}

(* A pipelined call that waits has its request or its response on the way. *)
Waiting ==
  ~blind /\ open /\ (\A p \in 1 .. Len(log) : log[p].whole) =>
    \A id \in outstanding \ swallowed :
      id \in owed \/ Answered(id) \/ \E j \in 1 .. Len(c2s) : c2s[j].id = id

-----------------------------------------------------------------------------
(* A sequence without its first n elements. *)
LEMMA TailAt ==
  ASSUME NEW S, NEW s \in Seq(S), NEW n \in 0 .. Len(s)
  PROVE  /\ SubSeq(s, n + 1, Len(s)) \in Seq(S)
         /\ Len(SubSeq(s, n + 1, Len(s))) = Len(s) - n
         /\ \A i \in 1 .. Len(s) - n : SubSeq(s, n + 1, Len(s))[i] = s[n + i]
OBVIOUS

(* A sequence and another behind it. *)
LEMMA ConcatAt ==
  ASSUME NEW S, NEW s \in Seq(S), NEW t \in Seq(S)
  PROVE  /\ s \o t \in Seq(S) /\ Len(s \o t) = Len(s) + Len(t)
         /\ \A i \in 1 .. Len(s) : (s \o t)[i] = s[i]
         /\ \A i \in 1 .. Len(t) : (s \o t)[Len(s) + i] = t[i]
OBVIOUS

(* What is unread when r is the buffer and s is on the wire. *)
Rest(r, s) == SubSeq(r.buf, r.off + 1, Len(r.buf)) \o s

(* The unread bytes, one by one. *)
LEMMA RestAt ==
  ASSUME NEW m \in Nat, NEW r, NEW s \in Seq(CellsOf(m)), Buffer(r, m)
  PROVE  /\ Available(r) \in Nat /\ Len(s) \in Nat
         /\ Len(Rest(r, s)) = Available(r) + Len(s)
         /\ \A i \in 1 .. Available(r) : Rest(r, s)[i] = r.buf[r.off + i]
         /\ \A i \in 1 .. Len(s) : Rest(r, s)[Available(r) + i] = s[i]
         /\ \A i \in 1 .. Len(Rest(r, s)) : Rest(r, s)[i] \in CellsOf(m)
<1> DEFINE b == SubSeq(r.buf, r.off + 1, Len(r.buf))
           C == CellsOf(m)
           a == Available(r)
<1>1. r.buf \in Seq(C) /\ r.off \in 0 .. Len(r.buf) /\ s \in Seq(C)
  BY Zenon DEF Buffer
<1>2. a = Len(r.buf) - r.off /\ Rest(r, s) = b \o s
  BY Zenon DEF Available, Rest
<1> HIDE DEF C, a
<1>3. b \in Seq(C) /\ Len(b) = a /\ \A i \in 1 .. a : b[i] = r.buf[r.off + i]
  BY <1>1, <1>2, TailAt, Zenon
<1>4. a \in Nat /\ Len(s) \in Nat
  BY <1>1, <1>2, SMTT(30)
<1> HIDE DEF b
<1>5. /\ b \o s \in Seq(C) /\ Len(b \o s) = a + Len(s)
      /\ \A i \in 1 .. a : (b \o s)[i] = b[i]
      /\ \A i \in 1 .. Len(s) : (b \o s)[a + i] = s[i]
  <2>0. b \in Seq(C) /\ s \in Seq(C)
    BY <1>1, <1>3, Zenon
  <2>1. /\ b \o s \in Seq(C) /\ Len(b \o s) = Len(b) + Len(s)
        /\ \A i \in 1 .. Len(b) : (b \o s)[i] = b[i]
        /\ \A i \in 1 .. Len(s) : (b \o s)[Len(b) + i] = s[i]
    BY <2>0
  <2> QED
    BY <1>3, <2>1, Zenon
<1>6. \A i \in 1 .. Len(b \o s) : (b \o s)[i] \in C
  BY <1>5
<1> QED
  BY <1>2, <1>3, <1>4, <1>5, <1>6, Zenon DEF C, a

(* The same of the variables, before a step and after. *)
LEMMA UnreadAt ==
  ASSUME Types
  PROVE  /\ Len(log) \in Nat /\ Available(read) \in Nat /\ Len(s2c) \in Nat
         /\ Len(Unread) = Available(read) + Len(s2c)
         /\ \A i \in 1 .. Available(read) : Unread[i] = read.buf[read.off + i]
         /\ \A i \in 1 .. Len(s2c) : Unread[Available(read) + i] = s2c[i]
         /\ \A i \in 1 .. Len(Unread) : Unread[i] \in CellsOf(Len(log))
<1>1. Len(log) \in Nat /\ Buffer(read, Len(log)) /\ s2c \in Seq(CellsOf(Len(log)))
  BY DEF Types, Streams
<1>2. Unread = Rest(read, s2c)
  BY Zenon DEF Unread, Rest
<1> QED
  BY <1>1, <1>2, RestAt

(* After a step. *)
LEMMA NextUnreadAt ==
  ASSUME Types'
  PROVE  /\ Len(log') \in Nat /\ Available(read') \in Nat /\ Len(s2c') \in Nat
         /\ Len(Unread') = Available(read') + Len(s2c')
         /\ \A i \in 1 .. Available(read') : Unread'[i] = read'.buf[read'.off + i]
         /\ \A i \in 1 .. Len(s2c') : Unread'[Available(read') + i] = s2c'[i]
         /\ \A i \in 1 .. Len(Unread') : Unread'[i] \in CellsOf(Len(log'))
<1>1. Len(log') \in Nat /\ Buffer(read', Len(log')) /\ s2c' \in Seq(CellsOf(Len(log')))
  BY DEF Types, Streams
<1>2. Unread' = Rest(read', s2c')
  BY Zenon DEF Unread, Rest
<1> QED
  BY <1>1, <1>2, RestAt

(* The unread bytes stay the same. *)
Same == Len(Unread') = Len(Unread) /\ \A i \in 1 .. Len(Unread) : Unread'[i] = Unread[i]

(* A reservation leaves the unread bytes the same. *)
LEMMA ReserveSame ==
  ASSUME Types, Types', UNCHANGED <<s2c, log>>, Continues(read, read'),
         Available(read') = Available(read)
  PROVE  Same
<1> DEFINE a == Available(read)
           l == Len(s2c)
<1>1. /\ Len(log) \in Nat /\ Buffer(read, Len(log)) /\ Buffer(read', Len(log))
      /\ s2c \in Seq(CellsOf(Len(log)))
  BY DEF Types, Streams
<1>3. /\ a \in Nat /\ l \in Nat /\ Len(Unread) = a + l
      /\ \A i \in 1 .. a : Unread[i] = read.buf[read.off + i]
      /\ \A i \in 1 .. l : Unread[a + i] = s2c[i]
  BY UnreadAt, Zenon
<1>4. /\ Len(Unread') = a + l
      /\ \A i \in 1 .. a : Unread'[i] = read'.buf[read'.off + i]
      /\ \A i \in 1 .. l : Unread'[a + i] = s2c[i]
  BY NextUnreadAt, Zenon
<1>5. \A i \in 1 .. a : read'.buf[read'.off + i] = read.buf[read.off + i]
  BY Zenon DEF Continues
<1> HIDE DEF a, l
<1>6. ASSUME NEW i \in 1 .. a + l PROVE Unread'[i] = Unread[i]
  <2>1. i \in 1 .. a \/ (i - a \in 1 .. l /\ a + (i - a) = i)
    BY <1>3
  <2> QED
    BY <1>3, <1>4, <1>5, <2>1
<1> QED
  BY <1>3, <1>4, <1>6, Zenon DEF Same

(* Bytes move from the wire to the buffer. *)
LEMMA FillSame ==
  ASSUME Types, Types', NEW n \in 1 .. Len(s2c), ReadFill(n)
  PROVE  Same
<1> DEFINE a == Available(read)
           l == Len(s2c)
<1>1. /\ Len(log) \in Nat /\ Buffer(read, Len(log)) /\ Buffer(read', Len(log))
      /\ s2c \in Seq(CellsOf(Len(log))) /\ s2c' \in Seq(CellsOf(Len(log)))
  BY DEF Types, Streams, ReadFill, server
<1>2. PICK r : /\ Buffer(r, Len(log)) /\ Continues(read, r) /\ Available(r) = a
               /\ read' = [r EXCEPT !.buf = @ \o SubSeq(s2c, 1, n)]
  <2>1. PICK x \in Reserved(read, Need) : read' = [x.r EXCEPT !.buf = @ \o SubSeq(s2c, 1, n)]
    BY Zenon DEF ReadFill
  <2>2. Buffer(x.r, Len(log)) /\ Continues(read, x.r) /\ Available(x.r) = a
    BY FilledTypes, Zenon
  <2> QED
    BY <2>1, <2>2, Zenon
<1>4. /\ a \in Nat /\ l \in Nat /\ Len(Unread) = a + l
      /\ \A i \in 1 .. a : Unread[i] = read.buf[read.off + i]
      /\ \A i \in 1 .. l : Unread[a + i] = s2c[i]
  BY UnreadAt, Zenon
<1> DEFINE b == SubSeq(s2c, 1, n)
<1>5. b \in Seq(CellsOf(Len(log))) /\ Len(b) = n /\ \A i \in 1 .. n : b[i] = s2c[i]
  BY <1>1
<1>6. /\ read'.off = r.off /\ read'.buf = r.buf \o b
  BY <1>2, Zenon DEF Buffer
<1> HIDE DEF b
<1>7. /\ Len(read'.buf) = Len(r.buf) + n
      /\ \A i \in 1 .. Len(r.buf) : read'.buf[i] = r.buf[i]
      /\ \A i \in 1 .. n : read'.buf[Len(r.buf) + i] = s2c[i]
  <2> DEFINE D == CellsOf(Len(log))
             u == r.buf
  <2>1. u \in Seq(D) /\ b \in Seq(D)
    BY <1>2, <1>5, Zenon DEF Buffer
  <2> HIDE DEF D, u
  <2>2. /\ Len(u \o b) = Len(u) + Len(b)
        /\ \A i \in 1 .. Len(u) : (u \o b)[i] = u[i]
        /\ \A i \in 1 .. Len(b) : (u \o b)[Len(u) + i] = b[i]
    BY <2>1
  <2> QED
    BY <1>5, <1>6, <2>2, Zenon DEF u
<1>8. /\ Len(r.buf) = r.off + a /\ r.off \in Nat /\ n \in Nat /\ Available(read') = a + n
  <2>1. r.off \in 0 .. Len(r.buf) /\ Len(r.buf) \in Nat /\ n \in Nat
    BY <1>1, <1>2, SMTT(30) DEF Buffer
  <2>2. a = Len(r.buf) - r.off /\ Available(read') = Len(read'.buf) - read'.off
    BY <1>2, Zenon DEF Available
  <2>3. Len(read'.buf) = Len(r.buf) + n /\ read'.off = r.off
    BY <1>6, <1>7, Zenon
  <2> HIDE DEF a
  <2> QED
    BY <2>1, <2>2, <2>3
<1>9. /\ Len(s2c') = l - n /\ \A i \in 1 .. l - n : s2c'[i] = s2c[n + i]
  <2>1. n \in 0 .. l /\ s2c' = SubSeq(s2c, n + 1, l)
    BY DEF ReadFill
  <2> QED
    BY <1>1, <2>1, TailAt, Zenon
<1>10. /\ Len(Unread') = (a + n) + (l - n)
       /\ \A i \in 1 .. a + n : Unread'[i] = read'.buf[read'.off + i]
       /\ \A i \in 1 .. l - n : Unread'[(a + n) + i] = s2c'[i]
  <2>1. /\ Len(Unread') = Available(read') + Len(s2c')
        /\ \A i \in 1 .. Available(read') : Unread'[i] = read'.buf[read'.off + i]
        /\ \A i \in 1 .. Len(s2c') : Unread'[Available(read') + i] = s2c'[i]
    BY NextUnreadAt, Zenon
  <2> HIDE DEF a, l
  <2> QED
    BY <1>8, <1>9, <2>1, Zenon
<1>11. \A i \in 1 .. a : r.buf[r.off + i] = read.buf[read.off + i]
  BY Zenon, <1>2 DEF Continues
<1> HIDE DEF a, l
<1>12. ASSUME NEW i \in 1 .. a + l PROVE Unread'[i] = Unread[i]
  <2>1. CASE i \in 1 .. a
    <3>1. i \in 1 .. a + n /\ r.off + i \in 1 .. Len(r.buf)
      BY <1>4, <1>8, <2>1, SMTT(30)
    <3>2. Unread'[i] = read'.buf[r.off + i]
      BY <1>6, <1>10, <3>1, Zenon
    <3>3. read'.buf[r.off + i] = r.buf[r.off + i]
      BY <1>7, <3>1, Zenon
    <3>4. r.buf[r.off + i] = Unread[i]
      BY <1>4, <1>11, <2>1, Zenon
    <3> QED
      BY <3>2, <3>3, <3>4, Zenon
  <2>2. CASE i \in a + 1 .. a + n
    <3>1. /\ i \in 1 .. a + n /\ i - a \in 1 .. n /\ i - a \in 1 .. l /\ a + (i - a) = i
          /\ r.off + i = Len(r.buf) + (i - a)
      BY <1>4, <1>8, <1>12, <2>2
    <3>2. Unread'[i] = read'.buf[r.off + i]
      BY <1>6, <1>10, <3>1, Zenon
    <3>3. read'.buf[r.off + i] = s2c[i - a]
      BY <1>7, <3>1, Zenon
    <3>4. s2c[i - a] = Unread[i]
      BY <1>4, <3>1, Zenon
    <3> QED
      BY <3>2, <3>3, <3>4, Zenon
  <2>3. CASE i \in a + n + 1 .. a + l
    <3>1. /\ i - (a + n) \in 1 .. l - n /\ i - a \in 1 .. l
          /\ (a + n) + (i - (a + n)) = i /\ a + (i - a) = i /\ n + (i - (a + n)) = i - a
      <4>1. a \in Int /\ n \in Int /\ l \in Int /\ i \in Int /\ i >= a + n + 1 /\ i <= a + l /\ n >= 0
        BY <1>4, <1>8, <2>3
      <4> QED
        BY <4>1
    <3>2. Unread'[i] = s2c'[i - (a + n)]
      BY <1>10, <3>1, Zenon
    <3>3. s2c'[i - (a + n)] = s2c[i - a]
      BY <1>9, <3>1, Zenon
    <3>4. s2c[i - a] = Unread[i]
      BY <1>4, <3>1, Zenon
    <3> QED
      BY <3>2, <3>3, <3>4, Zenon
  <2> QED
    BY <1>4, <1>8, <2>1, <2>2, <2>3
<1>13. (a + n) + (l - n) = a + l
  BY <1>4, <1>8
<1> QED
  BY <1>4, <1>10, <1>12, <1>13, Zenon DEF Same

(* The server queues a packet. *)
LEMMA QueueUnread ==
  ASSUME Types, Types', UNCHANGED read,
         NEW op \in {"response", "error"}, NEW id \in Nat, NEW size \in Nat, NEW whole \in BOOLEAN,
         Queue(op, id, size, whole)
  PROVE  /\ Len(Unread') \in Nat /\ Len(Unread) < Len(Unread')
         /\ \A i \in 1 .. Len(Unread) : Unread'[i] = Unread[i] /\ Unread[i] \in CellsOf(Len(log))
         /\ \A i \in Len(Unread) + 1 .. Len(Unread') :
              Unread'[i] = [p |-> Len(log) + 1, i |-> i - Len(Unread)]
         /\ Len(log) \in Nat /\ Len(log') = Len(log) + 1 /\ Len(Unread) \in Nat
<1> DEFINE a == Available(read)
           l == Len(s2c)
           z == IF whole THEN size ELSE 0
           c == Cells(Len(log) + 1, z)
           w == HeaderCells + z
<1>1. /\ Len(log) \in Nat /\ Buffer(read, Len(log)) /\ Len(log') \in Nat /\ Buffer(read, Len(log'))
      /\ s2c \in Seq(CellsOf(Len(log))) /\ s2c' \in Seq(CellsOf(Len(log')))
  BY DEF Types, Streams
<1>2. Len(log') = Len(log) + 1
  BY DEF Queue, Types, Streams
<1>4. /\ a \in Nat /\ l \in Nat /\ Len(Unread) = a + l
      /\ \A i \in 1 .. a : Unread[i] = read.buf[read.off + i]
      /\ \A i \in 1 .. l : Unread[a + i] = s2c[i]
      /\ \A i \in 1 .. Len(Unread) : Unread[i] \in CellsOf(Len(log))
  BY UnreadAt, Zenon
<1>5. /\ Len(Unread') = a + Len(s2c')
      /\ \A i \in 1 .. a : Unread'[i] = read.buf[read.off + i]
      /\ \A i \in 1 .. Len(s2c') : Unread'[a + i] = s2c'[i]
  BY NextUnreadAt, Zenon
<1>6. z \in Nat /\ w \in Nat /\ w >= 1
  BY ClientAssumption
<1>7. c \in Seq(CellsOf(Len(log'))) /\ Len(c) = w
      /\ \A i \in 1 .. w : c[i] = [p |-> Len(log) + 1, i |-> i]
  <2>1. Len(log) + 1 \in 1 .. Len(log')
    BY <1>1, <1>2
  <2> HIDE DEF z
  <2> QED
    BY <1>1, <1>6, <2>1, CellsType
<1>8. s2c \in Seq(CellsOf(Len(log')))
  BY <1>1, <1>2, CellsWiden
<1>9. s2c' = s2c \o c
  BY Zenon DEF Queue
<1> HIDE DEF a, l, z, c, w
<1>10. /\ Len(s2c') = l + w
       /\ \A i \in 1 .. l : s2c'[i] = s2c[i]
       /\ \A i \in 1 .. w : s2c'[l + i] = c[i]
  <2>1. /\ Len(s2c \o c) = Len(s2c) + Len(c)
        /\ \A i \in 1 .. Len(s2c) : (s2c \o c)[i] = s2c[i]
        /\ \A i \in 1 .. Len(c) : (s2c \o c)[Len(s2c) + i] = c[i]
    <3> DEFINE D == CellsOf(Len(log'))
    <3>1. s2c \in Seq(D) /\ c \in Seq(D)
      BY <1>7, <1>8, Zenon
    <3> HIDE DEF D
    <3> QED
      BY <3>1
  <2> QED
    BY <1>7, <1>9, <2>1, Zenon DEF l
<1>11. ASSUME NEW i \in 1 .. Len(Unread) PROVE Unread'[i] = Unread[i]
  <2>1. CASE i \in 1 .. a
    BY <1>4, <1>5, <2>1, Zenon
  <2>2. CASE i \notin 1 .. a
    <3>1. i - a \in 1 .. l /\ i - a \in 1 .. Len(s2c') /\ a + (i - a) = i
      <4>1. i \in 1 .. a + l
        BY <1>4, <1>11, Zenon
      <4>2. Len(s2c') = l + w
        BY <1>10, Zenon
      <4> QED
        BY <1>4, <1>6, <2>2, <4>1, <4>2
    <3>2. Unread'[i] = s2c'[i - a] /\ Unread[i] = s2c[i - a] /\ s2c'[i - a] = s2c[i - a]
      BY <1>4, <1>5, <1>10, <3>1, Zenon
    <3> QED
      BY <3>2, Zenon
  <2> QED
    BY <2>1, <2>2, Zenon
<1>12. Len(Unread') = a + l + w
  BY <1>4, <1>5, <1>6, <1>10
<1>13. ASSUME NEW i \in Len(Unread) + 1 .. Len(Unread')
       PROVE  Unread'[i] = [p |-> Len(log) + 1, i |-> i - Len(Unread)]
  <2>1. i \in a + l + 1 .. a + l + w /\ Len(Unread) = a + l /\ Len(s2c') = l + w
    BY <1>4, <1>10, <1>12, <1>13
  <2>2. /\ i - a \in 1 .. Len(s2c') /\ a + (i - a) = i
        /\ i - (a + l) \in 1 .. w /\ l + (i - (a + l)) = i - a
    BY <1>4, <1>6, <2>1
  <2>3. Unread'[i] = s2c'[i - a]
    BY <1>5, <2>2, Zenon
  <2>4. s2c'[i - a] = c[i - (a + l)]
    BY <1>10, <2>2, Zenon
  <2>5. c[i - (a + l)] = [p |-> Len(log) + 1, i |-> i - (a + l)]
    BY <1>7, <2>2, Zenon
  <2> QED
    BY <2>1, <2>3, <2>4, <2>5, Zenon
<1>14. /\ Len(Unread) \in Nat /\ Len(Unread') \in Nat /\ Len(Unread) < Len(Unread')
  <2>1. Len(Unread) = a + l
    BY <1>4, Zenon
  <2> QED
    BY <1>4, <1>6, <1>12, <2>1
<1> QED
  BY <1>1, <1>2, <1>4, <1>11, <1>13, <1>14, Zenon

(* A packet of n bytes is taken. *)
LEMMA TakenUnread ==
  ASSUME Types, Types', UNCHANGED <<s2c, log>>,
         NEW n \in Nat, n <= Available(read), read' = Consumed(read, n)
  PROVE  /\ Len(Unread) \in Nat /\ n <= Len(Unread) /\ Len(Unread') = Len(Unread) - n
         /\ \A i \in 1 .. Len(Unread') : Unread'[i] = Unread[n + i] /\ n + i \in 1 .. Len(Unread)
         /\ \A i \in 1 .. n : Unread[i] = read.buf[read.off + i]
<1> DEFINE a == Available(read)
           l == Len(s2c)
<1>1. /\ Len(log) \in Nat /\ Buffer(read, Len(log)) /\ Buffer(read', Len(log))
      /\ s2c \in Seq(CellsOf(Len(log)))
  BY DEF Types, Streams
<1>3. /\ a \in Nat /\ l \in Nat /\ Len(Unread) = a + l
      /\ \A i \in 1 .. a : Unread[i] = read.buf[read.off + i]
      /\ \A i \in 1 .. l : Unread[a + i] = s2c[i]
  BY UnreadAt, Zenon
<1>4. /\ Len(Unread') = Available(read') + l
      /\ \A i \in 1 .. Available(read') : Unread'[i] = read'.buf[read'.off + i]
      /\ \A i \in 1 .. l : Unread'[Available(read') + i] = s2c[i]
  BY NextUnreadAt, Zenon
<1>5. /\ Available(read') = a - n
      /\ \A i \in 1 .. a - n : read'.buf[read'.off + i] = read.buf[read.off + (n + i)]
  <2>1. /\ DOMAIN read = {"buf", "off", "cap"} /\ read.off \in Nat /\ Len(read.buf) \in Nat
        /\ a = Len(read.buf) - read.off /\ read.buf \in Seq(CellsOf(Len(log)))
    BY <1>1 DEF Buffer, Available
  <2>2. CASE read.off + n = Len(read.buf)
    <3>1. read'.buf = <<>> /\ read'.off = 0
      BY <2>1, <2>2, Zenon DEF Consumed
    <3>2. Available(read') = 0 /\ a - n = 0
      BY <2>1, <2>2, <3>1 DEF Available
    <3> QED
      BY <3>2
  <2>3. CASE read.off + n # Len(read.buf)
    <3>1. read'.buf = read.buf /\ read'.off = read.off + n
      BY <2>1, <2>3, Zenon DEF Consumed
    <3>2. Available(read') = a - n
      BY <2>1, <3>1 DEF Available
    <3>3. \A i \in 1 .. a - n : (read.off + n) + i = read.off + (n + i)
      BY <2>1
    <3> QED
      BY <3>1, <3>2, <3>3, Zenon
  <2> QED
    BY <2>2, <2>3, Zenon
<1> HIDE DEF a, l
<1>6. n <= a
  BY Zenon DEF a
<1>7. /\ Len(Unread) \in Nat /\ n <= Len(Unread) /\ Len(Unread') = Len(Unread) - n
  <2>1. Len(Unread) = a + l /\ Len(Unread') = (a - n) + l
    BY <1>3, <1>4, <1>5, Zenon
  <2> QED
    BY <1>3, <1>6, <2>1
<1>8. ASSUME NEW i \in 1 .. Len(Unread')
      PROVE  Unread'[i] = Unread[n + i] /\ n + i \in 1 .. Len(Unread)
  <2>1. i \in 1 .. Len(Unread) - n /\ Len(Unread) = a + l
    BY <1>3, <1>7, <1>8, Zenon
  <2>2. n + i \in 1 .. Len(Unread)
    BY <1>7, <2>1
  <2>3. CASE i \in 1 .. a - n
    <3>1. n + i \in 1 .. a
      BY <1>3, <2>3
    <3>2. Unread'[i] = read.buf[read.off + (n + i)]
      BY <1>4, <1>5, <2>3, Zenon
    <3>3. Unread[n + i] = read.buf[read.off + (n + i)]
      BY <1>3, <3>1, Zenon
    <3> QED
      BY <2>2, <3>2, <3>3, Zenon
  <2>4. CASE i \notin 1 .. a - n
    <3>1. /\ i - (a - n) \in 1 .. l /\ (a - n) + (i - (a - n)) = i
          /\ a + (i - (a - n)) = n + i
      <4>1. i \in 1 .. a + l - n /\ a \in Nat /\ l \in Nat
        BY <1>3, <2>1
      <4> QED
        BY <1>6, <2>4, <4>1
    <3>2. Unread'[i] = s2c[i - (a - n)]
      BY <1>4, <1>5, <3>1, Zenon
    <3>3. Unread[n + i] = s2c[i - (a - n)]
      BY <1>3, <3>1, Zenon
    <3> QED
      BY <2>2, <3>2, <3>3
  <2> QED
    BY <2>3, <2>4, Zenon
<1>9. \A i \in 1 .. n : i \in 1 .. a
  BY <1>3, <1>6
<1> QED
  BY <1>3, <1>7, <1>8, <1>9, Zenon

-----------------------------------------------------------------------------
(* The packets to come *)

(* The same unread bytes hold the same responses. *)
LEMMA SameToCome ==
  ASSUME Same, UNCHANGED log
  PROVE  ToCome' = ToCome /\ (Distinct => Distinct')
BY Zenon DEF Same, ToCome, Distinct

(* A packet that is queued is one more response to come. *)
LEMMA QueuedToCome ==
  ASSUME Types, Types', Distinct, UNCHANGED read,
         NEW op \in {"response", "error"}, NEW id \in Nat, NEW size \in Nat, NEW whole \in BOOLEAN,
         Queue(op, id, size, whole)
  PROVE  Distinct' /\ ToCome' = ToCome \cup {Len(log) + 1}
<1> DEFINE m == Len(Unread)
           k == Len(log) + 1
<1>1. /\ Len(Unread') \in Nat /\ m < Len(Unread')
      /\ \A i \in 1 .. m : Unread'[i] = Unread[i] /\ Unread[i] \in CellsOf(Len(log))
      /\ \A i \in m + 1 .. Len(Unread') : Unread'[i] = [p |-> k, i |-> i - m]
      /\ Len(log) \in Nat /\ Len(log') = k /\ m \in Nat
  BY QueueUnread, Zenon
<1>2. \A i \in 1 .. m : Unread[i].p # k
  <2> TAKE i \in 1 .. m
  <2>1. Unread[i] \in CellsOf(Len(log)) /\ Len(log) \in Nat
    BY <1>1, Zenon
  <2> QED
    BY <2>1 DEF CellsOf
<1> HIDE DEF m, k
<1>3. \A i \in m + 1 .. Len(Unread') : Unread'[i].p = k /\ Unread'[i].i = i - m
  <2> TAKE i \in m + 1 .. Len(Unread')
  <2>1. Unread'[i] = [p |-> k, i |-> i - m]
    BY <1>1, Zenon
  <2> QED
    BY <2>1
<1>4. ASSUME NEW i \in 1 .. Len(Unread') PROVE i \in 1 .. m \/ i \in m + 1 .. Len(Unread')
  <2>1. m \in Nat /\ Len(Unread') \in Nat
    BY <1>1, Zenon
  <2> QED
    BY <2>1
<1>5. ASSUME NEW i \in 1 .. Len(Unread'), NEW j \in 1 .. Len(Unread'), Unread'[i] = Unread'[j]
      PROVE  i = j
  <2>1. CASE i \in 1 .. m /\ j \in 1 .. m
    BY <1>1, <1>5, <2>1, Zenon DEF Distinct, m
  <2>2. CASE i \in m + 1 .. Len(Unread') /\ j \in m + 1 .. Len(Unread')
    <3>1. i - m = j - m
      BY <1>3, <1>5, <2>2, Zenon
    <3> QED
      BY <1>1, <2>2, <3>1
  <2>3. ~(i \in 1 .. m /\ j \in m + 1 .. Len(Unread'))
    BY <1>1, <1>2, <1>3, <1>5, Zenon
  <2>4. ~(j \in 1 .. m /\ i \in m + 1 .. Len(Unread'))
    BY <1>1, <1>2, <1>3, <1>5, Zenon
  <2> QED
    BY <1>4, <2>1, <2>2, <2>3, <2>4, Zenon
<1>6. ASSUME NEW p \in ToCome PROVE p \in ToCome'
  <2>1. PICK i \in 1 .. m : Unread[i] = [p |-> p, i |-> 1]
    BY Zenon DEF ToCome, m
  <2>2. i \in 1 .. Len(Unread') /\ p \in 1 .. Len(log')
    BY <1>1 DEF ToCome, k
  <2> QED
    BY <1>1, <2>1, <2>2, Zenon DEF ToCome
<1>7. k \in ToCome'
  <2>1. m + 1 \in 1 .. Len(Unread') /\ m + 1 \in m + 1 .. Len(Unread') /\ (m + 1) - m = 1
        /\ k \in 1 .. Len(log')
    BY <1>1 DEF k
  <2> QED
    BY <1>1, <2>1, Zenon DEF ToCome
<1>8. ASSUME NEW p \in ToCome', p # k PROVE p \in ToCome
  <2>1. PICK i \in 1 .. Len(Unread') : Unread'[i] = [p |-> p, i |-> 1]
    BY Zenon DEF ToCome
  <2>2. Unread'[i].p = p
    BY <2>1
  <2>3. i \in 1 .. m
    BY <1>3, <1>4, <1>8, <2>2, Zenon
  <2>4. p \in 1 .. Len(log)
    BY <1>1, <1>8 DEF ToCome, k
  <2> QED
    BY <1>1, <2>1, <2>3, <2>4, Zenon DEF ToCome, m
<1> QED
  BY <1>5, <1>6, <1>7, <1>8, Zenon DEF Distinct, k

(* A packet that is taken is one response less, and no other is lost. *)
LEMMA TakenToCome ==
  ASSUME Types, Types', Distinct, UNCHANGED <<s2c, log>>, NEW P \in 1 .. Len(log), NEW z \in Nat,
         HeaderCells + z <= Available(read), Front(read, HeaderCells + z) = Cells(P, z),
         read' = Consumed(read, HeaderCells + z)
  PROVE  Distinct' /\ ToCome' = ToCome \ {P} /\ P \in ToCome
<1> DEFINE n == HeaderCells + z
           m == Len(Unread)
<1>1. n \in Nat /\ n >= 1
  BY ClientAssumption
<1>2. /\ m \in Nat /\ n <= m /\ Len(Unread') = m - n
      /\ \A i \in 1 .. Len(Unread') : Unread'[i] = Unread[n + i] /\ n + i \in 1 .. m
      /\ \A i \in 1 .. n : Unread[i] = read.buf[read.off + i]
  <2> HIDE DEF n
  <2>1. n <= Available(read) /\ read' = Consumed(read, n)
    BY Zenon DEF n
  <2> QED
    BY <1>1, <2>1, TakenUnread, Zenon
<1>3. \A i \in 1 .. n : Unread[i] = [p |-> P, i |-> i]
  <2>1. ASSUME NEW i \in 1 .. n PROVE Front(read, n)[i] = read.buf[read.off + i]
    BY Zenon DEF Front
  <2>2. ASSUME NEW i \in 1 .. n PROVE Cells(P, z)[i] = [p |-> P, i |-> i]
    BY Zenon DEF Cells
  <2> HIDE DEF n
  <2>3. Front(read, n) = Cells(P, z)
    BY Zenon DEF n
  <2> QED
    BY <1>2, <2>1, <2>2, <2>3, Zenon
<1> HIDE DEF n, m
<1>4. ASSUME NEW i \in 1 .. Len(Unread'), NEW j \in 1 .. Len(Unread'), Unread'[i] = Unread'[j]
      PROVE  i = j
  <2>0. Unread[n + i] = Unread[n + j] /\ n + i \in 1 .. m /\ n + j \in 1 .. m
    BY <1>2, <1>4, Zenon
  <2>1. n + i = n + j
    BY <2>0, Zenon DEF Distinct, m
  <2> QED
    BY <1>1, <2>1
<1>5. 1 \in 1 .. n /\ 1 \in 1 .. m /\ Unread[1] = [p |-> P, i |-> 1]
  <2>1. 1 \in 1 .. n /\ 1 \in 1 .. m
    BY <1>1, <1>2
  <2> QED
    BY <1>3, <2>1, Zenon
<1>6. P \in ToCome
  BY <1>5, Zenon DEF ToCome, m
<1>7. ASSUME NEW p \in ToCome' PROVE p \in ToCome /\ p # P
  <2>1. PICK i \in 1 .. Len(Unread') : Unread'[i] = [p |-> p, i |-> 1]
    BY Zenon DEF ToCome
  <2>2. Unread[n + i] = [p |-> p, i |-> 1] /\ n + i \in 1 .. m
    BY <1>2, <2>1, Zenon
  <2>3. p \in 1 .. Len(log)
    BY Zenon DEF ToCome
  <2>4. n + i # 1
    BY <1>1
  <2>5. p # P
    BY <1>5, <2>2, <2>4, Zenon DEF Distinct, m
  <2> QED
    BY <2>2, <2>3, <2>5, Zenon DEF ToCome, m
<1>8. ASSUME NEW p \in ToCome, p # P PROVE p \in ToCome'
  <2>1. PICK i \in 1 .. m : Unread[i] = [p |-> p, i |-> 1]
    BY Zenon DEF ToCome, m
  <2>2. i \notin 1 .. n
    <3>1. SUFFICES ASSUME i \in 1 .. n PROVE FALSE
      BY Zenon
    <3>2. [p |-> p, i |-> 1] = [p |-> P, i |-> i]
      BY <1>3, <2>1, <3>1, Zenon
    <3> QED
      BY <1>8, <3>2, Zenon
  <2>3. i - n \in 1 .. Len(Unread') /\ n + (i - n) = i
    <3>1. i \in 1 .. m /\ m \in Nat /\ Len(Unread') = m - n
      BY <1>2, Zenon
    <3> QED
      BY <1>1, <2>2, <3>1
  <2>4. p \in 1 .. Len(log')
    BY Zenon DEF ToCome
  <2>5. Unread'[i - n] = [p |-> p, i |-> 1]
    <3>1. Unread'[i - n] = Unread[n + (i - n)]
      BY <1>2, <2>3, Zenon
    <3> QED
      BY <2>1, <2>3, <3>1, Zenon
  <2> QED
    BY <2>3, <2>4, <2>5, Zenon DEF ToCome
<1> QED
  BY <1>4, <1>6, <1>7, <1>8, Zenon DEF Distinct

-----------------------------------------------------------------------------
(* Who waits for what *)

(* The account of the responses. *)
Ledger == Accounted /\ Waiting

(* A step that takes, queues or sends nothing, and forgets no call. *)
LEMMA LedgerKept ==
  ASSUME Requests, Ledger, UNCHANGED <<next_call_id, c2s, owed, log, outstanding, swallowed, blind>>,
         ToCome' = ToCome, open' => open, abandoned \subseteq abandoned',
         call.id \in {0, call'.id} \cup abandoned'
  PROVE  Ledger'
<1>1. 0 \notin Ids
  BY DEF Ids
<1>2. /\ \A id : LastSent(id)' = LastSent(id) /\ Answered(id)' = Answered(id)
      /\ Ids' = Ids
  BY Zenon DEF LastSent, Answered, Ids
<1>3. Accounted'
  BY <1>1, <1>2, Zenon DEF Ledger, Accounted
<1>4. Waiting'
  BY <1>2, Zenon DEF Ledger, Waiting
<1> QED
  BY <1>3, <1>4, Zenon DEF Ledger

(* A request that is being sent: its last cell is not on its way, and the    *)
(* server has not taken it.                                                  *)
LEMMA SendingIsUnsent ==
  ASSUME Types, Requests, pc = "sending"
  PROVE  ~LastSent(call.id) /\ call.id \notin owed /\ ~Answered(call.id)
<1>1. call.id \notin owed /\ ~Answered(call.id)
  BY Zenon DEF Requests, Apart, Served, Answered, ToCome
<1>2. ASSUME NEW j \in 1 .. Len(c2s), c2s[j].id = call.id, c2s[j].i = Span(c2s[j].fn) PROVE FALSE
  <2>1. c2s[j].fn = call.fn /\ c2s[j].i <= Span(call.fn) - Len(out)
    BY <1>2, Zenon DEF Requests, Wire
  <2>2. Len(out) \in 1 .. Span(call.fn) /\ Span(call.fn) \in Nat
    BY Zenon DEF Requests, Sending, Span
  <2> QED
    BY <1>2, <2>1, <2>2
<1> QED
  BY <1>1, <1>2, Zenon DEF LastSent

(* sendmsg fails: the server will never take the whole request. *)
LEMMA SendFailsLedger ==
  ASSUME Types, Requests, Ledger, SendFails, ToCome' = ToCome
  PROVE  Ledger'
<1>1. /\ UNCHANGED <<next_call_id, c2s, owed, log, outstanding, swallowed, blind, open, abandoned>>
      /\ pc = "sending"
  BY Zenon DEF SendFails, server, history
<1>2. ~LastSent(call.id) /\ call.id \notin owed /\ ~Answered(call.id)
  BY <1>1, SendingIsUnsent, Zenon
<1>3. /\ \A id : LastSent(id)' = LastSent(id) /\ Answered(id)' = Answered(id)
      /\ Ids' = Ids
  BY <1>1, Zenon DEF LastSent, Answered, Ids
<1>4. Accounted'
  BY <1>1, <1>2, <1>3 DEF Ledger, Accounted
<1>5. Waiting'
  BY <1>1, <1>3, Zenon DEF Ledger, Waiting
<1> QED
  BY <1>4, <1>5, Zenon DEF Ledger

(* A new call waits for its own response. *)
LEMMA BeginLedger ==
  ASSUME Types, Requests, Ledger, NEW fn \in Fns, Begin(fn), ToCome' = ToCome
  PROVE  Ledger'
<1>1. /\ UNCHANGED <<c2s, owed, log, outstanding, swallowed, blind, open, abandoned>>
      /\ next_call_id' = next_call_id + 1 /\ call'.id = next_call_id /\ call.id = 0
      /\ next_call_id \in Nat
  BY DEF Begin, server, history, Types, CallTypes, NoCall
<1>2. Ids' = Ids \cup {call'.id} /\ 0 \notin Ids
  <2>1. /\ Ids = 1 .. next_call_id - 1 /\ Ids' = 1 .. next_call_id' - 1 /\ next_call_id >= 1
        /\ next_call_id \in Nat /\ next_call_id' = next_call_id + 1 /\ call'.id = next_call_id
    BY <1>1, Zenon DEF Ids, Requests, Numbering
  <2>2. \A n \in Nat : n >= 1 => 1 .. (n + 1) - 1 = (1 .. n - 1) \cup {n} /\ 0 \notin 1 .. n - 1
    OBVIOUS
  <2> QED
    BY <2>1, <2>2, Zenon
<1>3. \A id : LastSent(id)' = LastSent(id) /\ Answered(id)' = Answered(id)
  BY <1>1, Zenon DEF LastSent, Answered
<1>4. Accounted'
  BY <1>1, <1>2, <1>3, Zenon DEF Ledger, Accounted
<1>5. Waiting'
  BY <1>1, <1>3, Zenon DEF Ledger, Waiting
<1> QED
  BY <1>4, <1>5, Zenon DEF Ledger

(* What SendSome adds to the stream: cells of the call's request. *)
LEMMA SentCells ==
  ASSUME Types, Requests, NEW n, SendSome(n)
  PROVE  /\ \A j \in 1 .. Len(c2s') : \/ j \in 1 .. Len(c2s) /\ c2s'[j] = c2s[j]
                                      \/ c2s'[j].fn = call.fn /\ c2s'[j].id = call.id
         /\ \A j \in 1 .. Len(c2s) : j \in 1 .. Len(c2s') /\ c2s'[j] = c2s[j]
         /\ open => \E j \in 1 .. Len(c2s') : c2s'[j].id = call.id
<1> DEFINE m == Len(c2s)
<1>1. n \in 1 .. Len(out) /\ m \in Nat /\ c2s \in Seq(RequestCells) /\ out \in Seq(RequestCells)
  BY DEF SendSome, Types, CallTypes
<1>2. ASSUME NEW j \in 1 .. Len(out) PROVE out[j].fn = call.fn /\ out[j].id = call.id
  <2>1. out[j] = [fn |-> call.fn, id |-> call.id, i |-> Span(call.fn) - Len(out) + j]
    BY Zenon DEF SendSome, Requests, Sending
  <2> QED
    BY <2>1
<1>3. CASE ~open
  BY <1>3, Zenon DEF SendSome
<1>4. CASE open
  <2>1. /\ Len(c2s') = m + n
        /\ \A j \in 1 .. m : c2s'[j] = c2s[j]
        /\ \A j \in m + 1 .. m + n : c2s'[j] = out[j - m] /\ j - m \in 1 .. n
    BY <1>1, <1>4 DEF SendSome
  <2> HIDE DEF m
  <2>2. \A j \in m + 1 .. m + n : c2s'[j].fn = call.fn /\ c2s'[j].id = call.id
    <3> TAKE j \in m + 1 .. m + n
    <3>1. c2s'[j] = out[j - m] /\ j - m \in 1 .. Len(out)
      BY <1>1, <2>1
    <3> QED
      BY <1>2, <3>1, Zenon
  <2>3. \A j \in 1 .. m + n : j \in 1 .. m \/ j \in m + 1 .. m + n
    BY <1>1
  <2>4. m + 1 \in m + 1 .. m + n /\ m + 1 \in 1 .. m + n /\ \A j \in 1 .. m : j \in 1 .. m + n
    BY <1>1
  <2> QED
    BY <2>1, <2>2, <2>3, <2>4, Zenon DEF m
<1> QED
  BY <1>3, <1>4, Zenon

(* Cells are sent; the call goes on, is pipelined or was a close. *)
LEMMA SendLedger ==
  ASSUME Types, Requests, Ledger, NEW n, SendSome(n), ToCome' = ToCome
  PROVE  Ledger'
<1>1. /\ UNCHANGED <<next_call_id, owed, log, swallowed, blind, open, abandoned>>
      /\ pc = "sending"
  BY Zenon DEF SendSome, server
<1>2. /\ \A j \in 1 .. Len(c2s') : \/ j \in 1 .. Len(c2s) /\ c2s'[j] = c2s[j]
                                   \/ c2s'[j].fn = call.fn /\ c2s'[j].id = call.id
      /\ \A j \in 1 .. Len(c2s) : j \in 1 .. Len(c2s') /\ c2s'[j] = c2s[j]
      /\ open => \E j \in 1 .. Len(c2s') : c2s'[j].id = call.id
  BY SentCells, Zenon
<1>3. ~LastSent(call.id) /\ call.id \notin owed /\ ~Answered(call.id)
  BY <1>1, SendingIsUnsent, Zenon
<1>4. Ids' = Ids /\ \A id : Answered(id)' = Answered(id)
  BY <1>1, Zenon DEF Answered, Ids
<1>5. ASSUME NEW id, id # call.id, LastSent(id)' PROVE LastSent(id)
  BY <1>2, <1>5, Zenon DEF LastSent
<1>6. \/ UNCHANGED <<call, outstanding>>
      \/ outstanding' = outstanding \cup {call.id}
      \/ UNCHANGED outstanding /\ call.fn = "close"
  <2>1. call.fn \in Fns
    BY <1>1, Zenon DEF Requests, Sending
  <2> QED
    BY <2>1, Zenon DEF SendSome, Fns
<1>7. ASSUME NEW id, id = call.id, call.fn = "close" PROVE ~LastSent(id)'
  <2>1. ASSUME NEW j \in 1 .. Len(c2s'), c2s'[j].id = id PROVE c2s'[j].fn = "close"
    BY <1>1, <1>2, <1>7, <2>1, Zenon DEF Requests, Wire
  <2> QED
    BY <2>1, Zenon DEF LastSent
<1>8. Accounted'
  <2> SUFFICES ASSUME ~blind, NEW id \in Ids, LastSent(id)' \/ id \in owed \/ Answered(id)
               PROVE  id \in outstanding' \cup abandoned \cup {call'.id}
    BY <1>1, <1>4, Zenon DEF Accounted
  <2>1. CASE id = call.id
    BY <1>3, <1>6, <1>7, <2>1, Zenon
  <2>2. CASE id # call.id
    <3>1. id \in outstanding \cup abandoned
      BY <1>5, <2>2, Zenon DEF Ledger, Accounted
    <3> QED
      BY <1>6, <3>1, Zenon
  <2> QED
    BY <2>1, <2>2, Zenon
<1>9. Waiting'
  <2>1. \A id : (\E j \in 1 .. Len(c2s) : c2s[j].id = id) => \E j \in 1 .. Len(c2s') : c2s'[j].id = id
    BY <1>2, Zenon
  <2> QED
    BY <1>1, <1>2, <1>4, <1>6, <2>1 DEF Ledger, Waiting
<1> QED
  BY <1>8, <1>9, Zenon DEF Ledger

(* A response, to the ping taken or to a call the server has taken before. *)
LEMMA QueuedAnswers ==
  ASSUME Types, Types', NEW id, ToCome' = ToCome \cup {Len(log) + 1}, LogGrows,
         Len(log') = Len(log) + 1, log'[Len(log) + 1].call_id = id
  PROVE  \A x : Answered(x)' <=> Answered(x) \/ x = id
<1>1. \A p \in ToCome : log'[p].call_id = log[p].call_id
  BY Zenon DEF ToCome, LogGrows
<1> QED
  BY <1>1, Zenon DEF Answered

(* The server answers a call it has taken. *)
LEMMA AnswersLedger ==
  ASSUME Types, Types', LogGrows, Distinct, Requests, Ledger, NEW id \in owed, ServerAnswers(id)
  PROVE  Ledger' /\ Distinct'
<1>1. PICK op \in {"response", "error"}, size \in BodySizes, whole \in BOOLEAN :
        Queue(op, id, size, whole)
  BY Zenon DEF ServerAnswers
<1>2. id \in Nat /\ size \in Nat /\ UNCHANGED <<read, header>>
  BY ClientAssumption, Zenon DEF Types, CallTypes, ServerAnswers, client
<1>3. Len(log') = Len(log) + 1 /\ log'[Len(log) + 1].call_id = id
  <2>1. /\ Len(log') = Len(log) + 1
        /\ log'[Len(log) + 1] = [op |-> op, call_id |-> id, size |-> size, whole |-> whole]
    BY <1>1, <1>2, QueueTypes, Zenon
  <2> QED
    BY <2>1
<1>4. Distinct' /\ ToCome' = ToCome \cup {Len(log) + 1}
  BY <1>1, <1>2, QueuedToCome, Zenon
<1>5. \A x : Answered(x)' <=> Answered(x) \/ x = id
  BY <1>3, <1>4, QueuedAnswers
<1>6. /\ UNCHANGED <<next_call_id, c2s, call, outstanding, abandoned, swallowed, blind, open>>
      /\ owed' = owed \ {id}
  BY Zenon DEF ServerAnswers, client, history
<1>7. Ids' = Ids /\ \A x : LastSent(x)' = LastSent(x)
  BY <1>6, Zenon DEF Ids, LastSent
<1>8. id \in Ids
  BY Zenon DEF Requests, Numbering
<1>9. Accounted'
  BY <1>5, <1>6, <1>7, <1>8 DEF Ledger, Accounted
<1>10. (\A p \in 1 .. Len(log') : log'[p].whole) => \A p \in 1 .. Len(log) : log[p].whole
  BY <1>3 DEF LogGrows, Types, Streams
<1>11. Waiting'
  BY <1>5, <1>6, <1>10, Zenon DEF Ledger, Waiting
<1> QED
  BY <1>4, <1>9, <1>11 DEF Ledger

(* The server takes a request: from then on it owes the response, or has    *)
(* queued it.                                                               *)
LEMMA TakesLedger ==
  ASSUME Types, Types', LogGrows, Distinct, Requests, Ledger, ServerTakes
  PROVE  Ledger' /\ Distinct'
<1> DEFINE id == c2s[1].id
           n == Span(c2s[1].fn)
<1>1. Complete(c2s) /\ Wire
  BY Zenon DEF ServerTakes, Requests
<1>2. /\ n \in 1 .. 2 /\ n <= Len(c2s) /\ c2s[1].fn \in Fns /\ id \in Nat
      /\ \A j \in 1 .. n : c2s[j].id = id /\ c2s[j].i = j /\ c2s[j].fn = c2s[1].fn
  BY <1>1, CompleteRequest, Zenon
<1>3. \A j \in 1 .. Len(c2s') : c2s'[j] = c2s[n + j] /\ n + j \in 1 .. Len(c2s)
  BY <1>1, TakenRest, Zenon
<1>4. \A j \in 1 .. Len(c2s) : c2s[j].id # id => j - n \in 1 .. Len(c2s') /\ c2s'[j - n] = c2s[j]
  BY <1>1, TakenRest, Zenon
<1>5. UNCHANGED <<next_call_id, call, read, header, outstanding, abandoned, swallowed, blind>>
  BY Zenon DEF ServerTakes, client, history
<1>6. n \in 1 .. n /\ n \in 1 .. Len(c2s) /\ 1 \in 1 .. Len(c2s)
  BY <1>2, SMTT(30) DEF Types, CallTypes
<1> HIDE DEF n
<1>7. c2s[1].fn # "close" => LastSent(id)
  BY <1>2, <1>6, Zenon DEF LastSent, n
<1>8. id \in Ids
  BY <1>6, Zenon DEF Requests, Numbering
<1>9. Ids' = Ids /\ \A x : LastSent(x)' => LastSent(x)
  <2>1. ASSUME NEW x, LastSent(x)' PROVE LastSent(x)
    BY <1>3, <2>1, Zenon DEF LastSent
  <2> QED
    BY <1>5, <2>1, Zenon DEF Ids
<1>10. ASSUME NEW x, x # id, \E j \in 1 .. Len(c2s) : c2s[j].id = x
       PROVE  \E j \in 1 .. Len(c2s') : c2s'[j].id = x
  BY <1>4, <1>10, Zenon
<1>11. CASE c2s[1].fn = "ping"
  <2>1. Queue("response", id, 0, TRUE) /\ UNCHANGED <<open, owed>>
    BY <1>11, Zenon DEF ServerTakes
  <2> HIDE DEF id
  <2>2. Len(log') = Len(log) + 1 /\ log'[Len(log) + 1].call_id = id
    <3>1. /\ Len(log') = Len(log) + 1
          /\ log'[Len(log) + 1] = [op |-> "response", call_id |-> id, size |-> 0, whole |-> TRUE]
      BY <1>2, <1>5, <2>1, QueueTypes, ZenonT(40)
    <3> QED
      BY <3>1
  <2>3. Distinct' /\ ToCome' = ToCome \cup {Len(log) + 1}
    BY <1>2, <1>5, <2>1, QueuedToCome, ZenonT(40)
  <2>4. \A x : Answered(x)' <=> Answered(x) \/ x = id
    BY <2>2, <2>3, QueuedAnswers
  <2>5. Accounted'
    BY <1>5, <1>7, <1>8, <1>9, <1>11, <2>1, <2>4, SMTT(30) DEF Ledger, Accounted
  <2>6. (\A p \in 1 .. Len(log') : log'[p].whole) => \A p \in 1 .. Len(log) : log[p].whole
    BY <2>2 DEF LogGrows, Types, Streams
  <2>7. Waiting'
    BY <1>5, <1>10, <2>1, <2>4, <2>6, Zenon DEF Ledger, Waiting
  <2> QED
    BY <2>3, <2>5, <2>7, Zenon DEF Ledger
<1>12. CASE c2s[1].fn # "ping"
  <2>1. /\ UNCHANGED <<log, s2c>>
        /\ \/ c2s[1].fn = "close" /\ ~open' /\ UNCHANGED owed
           \/ c2s[1].fn # "close" /\ owed' = owed \cup {id} /\ UNCHANGED open
    BY <1>12, Zenon DEF ServerTakes
  <2>2. Unread' = Unread
    BY <1>5, <2>1, Zenon DEF Unread
  <2>3. ToCome' = ToCome /\ Distinct' /\ \A x : Answered(x)' = Answered(x)
    BY <2>1, <2>2, Zenon DEF ToCome, Distinct, Answered
  <2> HIDE DEF id
  <2>4. Accounted'
    BY <1>5, <1>7, <1>8, <1>9, <2>1, <2>3 DEF Ledger, Accounted
  <2>5. Waiting'
    BY <1>5, <1>10, <2>1, <2>3, ZenonT(40) DEF Ledger, Waiting
  <2> QED
    BY <2>3, <2>4, <2>5, Zenon DEF Ledger
<1> QED
  BY <1>11, <1>12, Zenon

(* A whole packet is taken: its call waits no longer. *)
LEMMA TakenLedger ==
  ASSUME Types, Types', Parsed, Distinct, Requests, Ledger, PacketTaken
  PROVE  Ledger' /\ Distinct'
<1>1. /\ UNCHANGED <<next_call_id, c2s, owed, log, s2c, open>> /\ read' = Consumed(read, Need)
      /\ Need = HeaderCells + header.size /\ PacketReady /\ Verified
      /\ blind' = (blind \/ integrity = {}) /\ call' = NoCall
      /\ pc = "body" /\ call.fn \in {"ping", "call", "recv"}
  BY Zenon DEF PacketTaken, PacketReady, Need, server, Return, Types, CallTypes
<1>2. header.size \in Nat /\ Need \in Nat /\ Need <= Available(read)
  BY <1>1, ClientAssumption DEF Types, Streams, Buffer, Available, PacketReady
<1>3. Distinct'
  <2>1. /\ Len(Unread) \in Nat /\ Len(Unread') = Len(Unread) - Need
        /\ \A i \in 1 .. Len(Unread') : Unread'[i] = Unread[Need + i] /\ Need + i \in 1 .. Len(Unread)
    BY <1>1, <1>2, TakenUnread, Zenon
  <2>2. ASSUME NEW i \in 1 .. Len(Unread'), NEW j \in 1 .. Len(Unread'), Unread'[i] = Unread'[j]
        PROVE  i = j
    <3>1. /\ Unread[Need + i] = Unread[Need + j]
          /\ Need + i \in 1 .. Len(Unread) /\ Need + j \in 1 .. Len(Unread)
      BY <2>1, <2>2, Zenon
    <3>2. Need + i = Need + j
      BY <3>1, Zenon DEF Distinct
    <3> QED
      BY <1>2, <3>2
  <2> QED
    BY <2>2, Zenon DEF Distinct
<1>4. CASE blind'
  BY <1>3, <1>4, Zenon DEF Ledger, Accounted, Waiting
<1>5. CASE ~blind'
  <2> DEFINE P == header.p
             c == log[P].call_id
  <2>1. ~blind /\ Intact
    BY <1>1, <1>5, Zenon DEF Verified
  <2>2. P \in 1 .. Len(log)
    BY <2>1 DEF Intact, Types, Streams
  <2>3. ToCome' = ToCome \ {P} /\ P \in ToCome
    <3>1. Front(read, HeaderCells + header.size) = Cells(P, header.size)
      BY <1>1, <1>2, <2>1, FrontIsAt DEF Intact, Types
    <3>2. /\ HeaderCells + header.size <= Available(read)
          /\ read' = Consumed(read, HeaderCells + header.size)
      BY <1>1, <1>2, Zenon
    <3> HIDE DEF P
    <3> QED
      BY <1>1, <1>2, <2>2, <3>1, <3>2, TakenToCome, Zenon
  <2>4. \A h \in Fields : h.call_id = c
    BY <2>2 DEF Fields
  <2>5. LET waits == call.fn # "recv" /\ c # call.id
        IN  /\ outstanding' = IF call.fn = "recv" THEN outstanding \ {c} ELSE outstanding
            /\ swallowed' = IF waits /\ c \in outstanding THEN swallowed \cup {c} ELSE swallowed
            /\ abandoned' = (abandoned \ {c}) \cup (IF waits THEN {call.id} ELSE {})
    <3> HIDE DEF P, c
    <3>1. PICK h \in Fields :
            LET waits == call.fn # "recv" /\ h.call_id # call.id
            IN  /\ outstanding' = IF call.fn = "recv" THEN outstanding \ {h.call_id} ELSE outstanding
                /\ swallowed' = IF waits /\ h.call_id \in outstanding
                                THEN swallowed \cup {h.call_id} ELSE swallowed
                /\ abandoned' = (abandoned \ {h.call_id}) \cup (IF waits THEN {call.id} ELSE {})
      BY Zenon DEF PacketTaken
    <3>2. h.call_id = c
      BY <2>4, Zenon
    <3> QED
      BY <3>1, <3>2, Zenon
  <2>6. ~LastSent(c) /\ c \notin owed /\ \A p \in ToCome : log[p].call_id = c => p = P
    <3>1. Served(c)
      BY <2>2, Zenon DEF Served
    <3>2. ~LastSent(c)
      BY <3>1, Zenon DEF LastSent, Requests, Apart
    <3>3. c \notin owed /\ \A p \in 1 .. Len(log) : log[p].call_id = c => p = P
      BY <2>2, Zenon DEF Requests, Apart
    <3> QED
      BY <3>2, <3>3, Zenon DEF ToCome
  <2>7. \A x : /\ Answered(x)' => Answered(x) /\ x # c
               /\ Answered(x) /\ x # c => Answered(x)'
    BY <1>1, <2>3, <2>6, Zenon DEF Answered
  <2>8. Ids' = Ids /\ (\A x : LastSent(x)' = LastSent(x)) /\ 0 \notin Ids
    BY <1>1 DEF Ids, LastSent
  <2>9. call.id \notin outstanding /\ (call.fn = "recv" => call.id = 0)
    BY Zenon DEF Requests, Numbering
  <2> HIDE DEF P, c
  <2>10. Accounted'
    <3> SUFFICES ASSUME NEW x \in Ids, LastSent(x) \/ x \in owed \/ Answered(x)'
                 PROVE  x \in outstanding' \cup abandoned'
      BY <1>1, <2>8, Zenon DEF Accounted
    <3>1. x # c /\ (LastSent(x) \/ x \in owed \/ Answered(x))
      BY <2>6, <2>7, Zenon
    <3>2. x \in outstanding \cup abandoned \cup {call.id}
      BY <2>1, <3>1, Zenon DEF Ledger, Accounted
    <3> QED
      BY <2>5, <2>8, <2>9, <3>1, <3>2
  <2>11. Waiting'
    <3> SUFFICES ASSUME open, \A p \in 1 .. Len(log) : log[p].whole, NEW x \in outstanding' \ swallowed'
                 PROVE  x \in owed \/ Answered(x)' \/ \E j \in 1 .. Len(c2s) : c2s[j].id = x
      BY <1>1, Zenon DEF Waiting
    <3>1. x \in outstanding \ swallowed /\ x # c
      BY <2>5, <2>9, Zenon
    <3> QED
      BY <2>1, <2>7, <3>1, Zenon DEF Ledger, Waiting
  <2> QED
    BY <1>3, <2>10, <2>11, Zenon DEF Ledger
<1> QED
  BY <1>4, <1>5, Zenon

(* Every step keeps the ledger. *)
LEMMA LedgerStep ==
  ASSUME Types, Types', LogGrows, Parsed, Requests, Distinct, Ledger, [Next]_vars
  PROVE  Distinct' /\ Ledger'
<1> USE DEF client, server, history
<1>1. ASSUME UNCHANGED <<read, s2c, log>> PROVE ToCome' = ToCome /\ Distinct'
  <2>1. Unread' = Unread
    BY <1>1, Zenon DEF Unread
  <2> QED
    BY <1>1, <2>1, Zenon DEF ToCome, Distinct
<1>2. CASE ServerTakes
  BY <1>2, TakesLedger, Zenon
<1>3. CASE \E id \in owed : ServerAnswers(id)
  BY <1>3, AnswersLedger, Zenon
<1>4. CASE PacketTaken
  BY <1>4, TakenLedger, Zenon
<1>5. CASE \E fn \in Fns : Begin(fn)
  <2>1. UNCHANGED <<read, s2c, log>>
    BY <1>5, Zenon DEF Begin
  <2> QED
    BY <1>1, <1>5, <2>1, BeginLedger
<1>6. CASE \E n \in 1 .. 2 : SendSome(n)
  <2>1. UNCHANGED <<read, s2c, log>>
    BY <1>6, Zenon DEF SendSome
  <2> QED
    BY <1>1, <1>6, <2>1, SendLedger
<1>7. CASE SendFails
  <2>1. UNCHANGED <<read, s2c, log>>
    BY <1>7, Zenon DEF SendFails
  <2> QED
    BY <1>1, <1>7, <2>1, SendFailsLedger
<1>8. CASE \/ ServerRejects \/ ServerCloses \/ Connect \/ (\E i \in IntegrityChoices : SetIntegrity(i))
           \/ BeginRecv \/ UNCHANGED vars \/ (HeaderRead /\ pc' = "body")
  <2>1. /\ UNCHANGED <<read, s2c, next_call_id, c2s, owed, log, outstanding, swallowed, blind, abandoned>>
        /\ open' => open
        /\ UNCHANGED call \/ pc = "idle"
    <3>1. CASE ServerRejects \/ ServerCloses
      BY <3>1, Zenon DEF ServerRejects, ServerCloses
    <3>2. CASE Connect
      BY <3>2, Zenon DEF Connect
    <3>3. ASSUME NEW i, SetIntegrity(i)
          PROVE  UNCHANGED <<read, s2c, server, next_call_id, c2s, outstanding, swallowed, blind, abandoned, call>>
      BY <3>3, Zenon DEF SetIntegrity
    <3>4. CASE BeginRecv
      BY <3>4, Zenon DEF BeginRecv
    <3>5. CASE UNCHANGED vars
      BY <3>5, Zenon DEF vars
    <3>6. CASE HeaderRead /\ pc' = "body"
      <4>1. ~Fails
        BY <3>6, Zenon DEF Fails, Return
      <4>2. /\ UNCHANGED <<state, next_call_id, integrity, call, out, server, history, c2s>>
            /\ UNCHANGED <<read, s2c>>
        BY <3>6, <4>1, Zenon DEF HeaderRead
      <4> QED
        BY <4>2, Zenon
    <3> QED
      BY <1>8, <3>1, <3>2, <3>3, <3>4, <3>5, <3>6, Zenon
  <2>2. pc = "idle" => call.id = 0
    BY DEF Types, CallTypes, NoCall
  <2> QED
    BY <1>1, <2>1, <2>2, LedgerKept, Zenon
<1>9. CASE VerifyFails \/ BodyFails \/ ReadEnds \/ ReserveFails \/ (HeaderRead /\ pc' # "body")
  <2>1. Fails /\ UNCHANGED s2c
    BY <1>9, Zenon DEF VerifyFails, BodyFails, ReadEnds, ReserveFails, HeaderRead
  <2>2. /\ UNCHANGED <<next_call_id, c2s, owed, log, outstanding, swallowed, blind, open>>
        /\ abandoned' = IF call.fn = "recv" THEN abandoned ELSE abandoned \cup {call.id}
    BY <2>1, Zenon DEF Fails
  <2>3. abandoned \subseteq abandoned' /\ call.id \in {0, call'.id} \cup abandoned'
    BY <2>2, Zenon DEF Requests, Numbering
  <2>4. ToCome' = ToCome /\ Distinct'
    <3>1. CASE UNCHANGED read
      BY <1>1, <2>1, <2>2, <3>1
    <3>2. CASE ReadEnds \/ ReserveFails
      <4>1. PICK a \in Reserved(read, Need) : read' = a.r
        BY <3>2, Zenon DEF ReadEnds, ReserveFails
      <4>2. Continues(read, read') /\ Available(read') = Available(read)
        BY <4>1, FilledTypes, Zenon
      <4> QED
        BY <2>1, <2>2, <4>2, ReserveSame, SameToCome, Zenon
    <3> QED
      BY <1>9, <3>1, <3>2, Zenon DEF VerifyFails, BodyFails, HeaderRead
  <2> QED
    BY <2>2, <2>3, <2>4, LedgerKept, Zenon
<1>10. CASE \E n \in 1 .. Len(s2c) : ReadFill(n)
  <2>1. PICK n \in 1 .. Len(s2c) : ReadFill(n)
    BY <1>10, Zenon
  <2>2. UNCHANGED <<next_call_id, c2s, owed, log, outstanding, swallowed, blind, abandoned, call, open>>
    BY <2>1, Zenon DEF ReadFill
  <2>3. ToCome' = ToCome /\ Distinct'
    BY <2>1, <2>2, FillSame, SameToCome, Zenon
  <2> QED
    BY <2>2, <2>3, LedgerKept, Zenon
<1> QED
  BY <1>2, <1>3, <1>4, <1>5, <1>6, <1>7, <1>8, <1>9, <1>10, Zenon
  DEF Next, ServerNext, LibraryNext, ResourceNext, ApplicationNext, Fns

-----------------------------------------------------------------------------
(* The inductive invariant of the client. *)
ClientInv == Types /\ Parsed /\ Poison /\ Own /\ Requests /\ Distinct /\ Ledger

(* The client starts in the invariant. *)
LEMMA ClientInit == Init => ClientInv
<1> SUFFICES ASSUME Init PROVE ClientInv
  BY Zenon
<1>1. /\ read.buf = <<>> /\ read.off = 0 /\ DOMAIN read = {"buf", "off", "cap"}
      /\ log = <<>> /\ s2c = <<>> /\ c2s = <<>> /\ out = <<>> /\ Len(log) = 0 /\ Len(c2s) = 0
      /\ Len(s2c) = 0 /\ Len(read.buf) = 0
  BY Zenon DEF Init
<1>2. Types
  <2>1. Streams
    BY <1>1 DEF Streams, Buffer
  <2>2. CallTypes
    BY <1>1 DEF Init, CallTypes, NoCall
  <2>3. header \in [p : 0 .. Len(log), size : Nat]
    BY <1>1 DEF Init, NoHeader
  <2> QED
    BY <2>1, <2>2, <2>3 DEF Types
<1>3. Parsed /\ Poison /\ Own
  BY Zenon DEF Init, Parsed, Poison, Own
<1>4. Requests
  <2>1. Numbering
    BY <1>1 DEF Init, Numbering, Ids, NoCall
  <2>2. Sending /\ Wire /\ Apart
    BY <1>1 DEF Init, Sending, Wire, Apart, Served
  <2> QED
    BY <2>1, <2>2, Zenon DEF Requests
<1>5. Len(Unread) = 0
  <2>1. Available(read) = 0
    BY <1>1 DEF Available
  <2>2. Len(Unread) = Available(read) + Len(s2c)
    BY <1>2, UnreadAt, Zenon
  <2> QED
    BY <1>1, <2>1, <2>2
<1>6. Distinct /\ ToCome = {}
  BY <1>5 DEF Distinct, ToCome
<1>7. Ids = {} /\ outstanding = {}
  BY DEF Init, Ids
<1>8. Ledger
  BY <1>7, Zenon DEF Ledger, Accounted, Waiting
<1> QED
  BY <1>2, <1>3, <1>4, <1>6, <1>8 DEF ClientInv

(* Every step keeps it, and takes no packet after one that failed to verify. *)
LEMMA ClientStep == ClientInv /\ [Next]_vars => ClientInv' /\ (poisoned /\ poisoned' => taken' = taken)
<1> SUFFICES ASSUME ClientInv, [Next]_vars
             PROVE  ClientInv' /\ (poisoned /\ poisoned' => taken' = taken)
  BY Zenon
<1>1. Types /\ Parsed /\ Poison /\ Own /\ Requests /\ Distinct /\ Ledger
  BY Zenon DEF ClientInv
<1>2. Types' /\ LogGrows
  BY <1>1, TypesStep, Zenon
<1>3. Parsed'
  BY <1>1, ParsedStep, Zenon
<1>4. Poison' /\ (poisoned /\ poisoned' => taken' = taken)
  BY <1>1, PoisonStep, Zenon
<1>5. Own'
  BY <1>1, OwnStep, Zenon
<1>6. Requests'
  BY <1>1, RequestsStep, Zenon
<1>7. Distinct' /\ Ledger'
  BY <1>1, <1>2, LedgerStep, Zenon
<1> QED
  BY <1>2, <1>3, <1>4, <1>5, <1>6, <1>7 DEF ClientInv

(* The inductive invariant of the client and of the stream between it and the *)
(* server, for every size of the buffers, the bodies and the pipeline.        *)
THEOREM ClientInvariant == Spec => []ClientInv
BY ClientInit, ClientStep, PTL DEF Spec

(* client_call_id and wirecall_client_ping return 0 only with the response to their *)
(* own request: as long as no packet was taken without an integrity check, the      *)
(* comparison of the call id and verify_ex leave no way to return the bytes of      *)
(* another packet, or of two packets.                                               *)
THEOREM ResponsesAreOwn == Spec => []DeliveredIsOwn
<1>1. ClientInv => DeliveredIsOwn
  BY Zenon DEF ClientInv, Own, DeliveredIsOwn
<1> QED
  BY <1>1, ClientInvariant, PTL

(* As long as no packet was taken without an integrity check, every response on  *)
(* its way to the client is that of exactly one call. And while the connection   *)
(* is open and every packet was queued whole, a call sent with                   *)
(* wirecall_client_send_call_name has its request or its response on the way     *)
(* until wirecall_client_recv_response returns it, or a ping or a call takes it. *)
THEOREM EveryResponseHasACall == Spec => []ResponsesAccounted
<1>1. ClientInv => ResponsesAccounted
  <2> SUFFICES ASSUME ClientInv, ~blind PROVE ResponsesAccounted
    BY Zenon DEF ResponsesAccounted
  <2>1. \A p \in ToCome : log[p].call_id \in Ids
    BY Zenon DEF ClientInv, Requests, Numbering, ToCome
  <2>2. \A p \in ToCome : log[p].call_id \in outstanding \cup abandoned \cup {call.id}
    BY <2>1, Zenon DEF ClientInv, Ledger, Accounted, Answered
  <2>3. \A p, q \in 1 .. Len(log) : log[p].call_id = log[q].call_id => p = q
    BY Zenon DEF ClientInv, Requests, Apart
  <2>4. open /\ (\A p \in 1 .. Len(log) : log[p].whole) =>
          \A id \in outstanding \ swallowed :
            \/ id \in owed
            \/ \E p \in ToCome : log[p].call_id = id
            \/ \E i \in 1 .. Len(c2s) : c2s[i].id = id
    BY Zenon DEF ClientInv, Ledger, Waiting, Answered
  <2> QED
    BY <2>2, <2>3, <2>4, Zenon DEF ResponsesAccounted
<1> QED
  BY <1>1, ClientInvariant, PTL

(* A packet that failed to verify stays at read_off: recv_packet returns before it *)
(* moves read_off, so that no later call returns anything behind it while the      *)
(* settings are the same.                                                          *)
THEOREM PoisonIsFinal == Spec => PoisonSticks
<1>1. ClientInv /\ [Next]_vars => [poisoned /\ poisoned' => taken' = taken]_vars
  BY ClientStep, Zenon
<1> QED
  BY <1>1, ClientInvariant, PTL DEF Spec, PoisonSticks

=============================================================================
