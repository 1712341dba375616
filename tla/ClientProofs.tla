---------------------------- MODULE ClientProofs ----------------------------
(***************************************************************************)
(* The read buffer of the client, for every size of a header, of a body    *)
(* and of the buffer: the types of the state, that no unread byte is lost  *)
(* or moved until a packet is taken, that the header parsed is the one at  *)
(* read_off, that a packet that failed to verify stays there, and that     *)
(* what is delivered is the response to the call. Then the requests: their *)
(* call ids, what is left of one to send, what the server has taken.       *)
(***************************************************************************)
EXTENDS Client, TLAPS

(* What the server queues. *)
Packets == [op : {"response", "error"}, call_id : Nat, size : Nat, whole : BOOLEAN]

(* The cells of packets 1 to n. *)
CellsOf(n) == [p : 1 .. n, i : Nat]

(* A read buffer whose offset is within it, of cells of packets 1 to n. *)
Buffer(r, n) ==
  /\ DOMAIN r = {"buf", "off", "cap"}
  /\ r.buf \in Seq(CellsOf(n))
  /\ r.off \in 0 .. Len(r.buf)

(* The bytes on their way are of packets that were queued. *)
Streams ==
  /\ log \in Seq(Packets)
  /\ Buffer(read, Len(log))
  /\ s2c \in Seq(CellsOf(Len(log)))

(* The first n unread bytes. *)
Front(r, n) == [i \in 1 .. n |-> r.buf[r.off + i]]

(* What memcpy takes at read_off is the front of the unread bytes. *)
LEMMA FrontIsAt ==
  ASSUME Streams, NEW n \in Nat, n <= Available(read)
  PROVE  At(n) = Front(read, n)
BY SMTT(30) DEF Streams, Buffer, Available, At, Front

(* r2 continues r: nothing unread was lost or moved. *)
Continues(r, r2) ==
  /\ Available(r) <= Available(r2)
  /\ \A i \in 1 .. Available(r) : r2.buf[r2.off + i] = r.buf[r.off + i]

(* Moving the unread bytes to the start of the buffer keeps them. *)
LEMMA CompactedContinues ==
  ASSUME NEW m \in Nat, NEW r, Buffer(r, m)
  PROVE  Buffer(Compacted(r), m) /\ Continues(r, Compacted(r)) /\ Available(Compacted(r)) = Available(r)
<1> DEFINE b == SubSeq(r.buf, r.off + 1, Len(r.buf))
<1>1. /\ DOMAIN Compacted(r) = {"buf", "off", "cap"}
      /\ Compacted(r).buf = b /\ Compacted(r).off = 0
  BY Zenon DEF Compacted, Buffer
<1>2. b \in Seq(CellsOf(m)) /\ Len(b) = Len(r.buf) - r.off
  BY DEF Buffer
<1>3. \A i \in 1 .. Len(r.buf) - r.off : b[i] = r.buf[r.off + i]
  BY DEF Buffer
<1> HIDE DEF b
<1> QED
  BY <1>1, <1>2, <1>3 DEF Buffer, Continues, Available

(* So does client_read_reserve, whether it succeeds or fails. *)
LEMMA ReserveContinues ==
  ASSUME NEW m \in Nat, NEW r, Buffer(r, m), NEW need, NEW a \in client_read_reserve(r, need)
  PROVE  Buffer(a.r, m) /\ Continues(r, a.r) /\ Available(a.r) = Available(r)
<1> DEFINE c == Compacted(r)
<1>1. Buffer(c, m) /\ Continues(r, c) /\ Available(c) = Available(r)
  BY CompactedContinues, Zenon
<1> HIDE DEF c
<1>2. ASSUME NEW x
      PROVE  LET d == [c EXCEPT !.cap = x]
             IN  Buffer(d, m) /\ Continues(r, d) /\ Available(d) = Available(r)
  BY <1>1, Zenon DEF Buffer, Continues, Available
<1>3. Continues(r, r)
  BY DEF Continues, Available, Buffer
<1> DEFINE g == [c EXCEPT !.cap = Enough(c.cap, need)]
<1>4. \/ a = [rc |-> 0, r |-> r] \/ a = [rc |-> 0, r |-> c]
      \/ a = [rc |-> 0, r |-> g] \/ a = [rc |-> -1, r |-> c]
  BY Zenon DEF client_read_reserve, c
<1>5. Buffer(g, m) /\ Continues(r, g) /\ Available(g) = Available(r)
  BY <1>2, Zenon
<1> HIDE DEF g
<1>6. a.r \in {r, c, g}
  BY <1>4
<1> QED
  BY <1>1, <1>3, <1>5, <1>6, Zenon

(* Two steps that keep the unread bytes keep them together. *)
LEMMA ContinuesTwice ==
  ASSUME NEW m \in Nat, NEW r, NEW s, NEW t, Buffer(r, m), Buffer(s, m), Buffer(t, m),
         Continues(r, s), Continues(s, t)
  PROVE  Continues(r, t)
BY DEF Continues, Available, Buffer

(* The reservations of one read keep the unread bytes. *)
LEMMA ReservedContinues ==
  ASSUME NEW m \in Nat, NEW r, Buffer(r, m), NEW need, NEW a \in Reserved(r, need)
  PROVE  Buffer(a.r, m) /\ Continues(r, a.r) /\ Available(a.r) = Available(r)
<1>1. PICK b \in client_read_reserve(r, need) :
        a = b \/ a \in client_read_reserve(b.r, b.r.cap + 1)
  BY Zenon DEF Reserved
<1>2. Buffer(b.r, m) /\ Continues(r, b.r) /\ Available(b.r) = Available(r)
  BY ReserveContinues, Zenon
<1>3. CASE a = b
  BY <1>2, <1>3, Zenon
<1>4. CASE a \in client_read_reserve(b.r, b.r.cap + 1)
  <2>1. Buffer(a.r, m) /\ Continues(b.r, a.r) /\ Available(a.r) = Available(b.r)
    BY <1>2, <1>4, ReserveContinues, Zenon
  <2> QED
    BY <1>2, <2>1, ContinuesTwice, Zenon
<1> QED
  BY <1>1, <1>3, <1>4, Zenon

(* Bytes that arrive go behind those that are unread. *)
LEMMA ReceivedContinues ==
  ASSUME NEW m \in Nat, NEW r, Buffer(r, m), NEW s \in Seq(CellsOf(m))
  PROVE  LET r2 == [r EXCEPT !.buf = @ \o s] IN Buffer(r2, m) /\ Continues(r, r2)
<1> DEFINE r2 == [r EXCEPT !.buf = @ \o s]
<1>1. /\ DOMAIN r2 = {"buf", "off", "cap"}
      /\ r2.buf = r.buf \o s /\ r2.off = r.off
  BY Zenon DEF Buffer
<1>2. /\ r.buf \o s \in Seq(CellsOf(m))
      /\ Len(r.buf \o s) = Len(r.buf) + Len(s)
      /\ \A i \in 1 .. Len(r.buf) : (r.buf \o s)[i] = r.buf[i]
  BY DEF Buffer
<1> HIDE DEF r2
<1>3. Buffer(r2, m) /\ Continues(r, r2)
  BY <1>1, <1>2 DEF Buffer, Continues, Available
<1> QED
  BY <1>3, Zenon DEF r2

(* A buffer that continues another has the same front. *)
LEMMA FrontContinues ==
  ASSUME NEW m \in Nat, NEW r, NEW r2, Buffer(r, m), Continues(r, r2), NEW n \in Nat, n <= Available(r)
  PROVE  Front(r2, n) = Front(r, n)
BY DEF Buffer, Continues, Available, Front

-----------------------------------------------------------------------------
(* Types *)

Fns == {"ping", "call", "send", "close"}
RequestCells == [fn : Fns, id : Nat, i : Nat]

CallTypes ==
  /\ pc \in {"idle", "sending", "header", "body"}
  /\ next_call_id \in Nat
  /\ call \in [fn : Fns \cup {"none", "recv"}, id : Nat]
  /\ out \in Seq(RequestCells)
  /\ c2s \in Seq(RequestCells)
  /\ owed \subseteq Nat
  /\ pc = "idle" => call = NoCall
  /\ pc \in {"header", "body"} => call.fn \in {"ping", "call", "recv"}

Types ==
  /\ CallTypes
  /\ header \in [p : 0 .. Len(log), size : Nat]
  /\ Streams

(* A part of a sequence has its type. *)
LEMMA SubSeqType ==
  ASSUME NEW S, NEW s \in Seq(S), NEW m \in Nat \ {0}, NEW n \in 0 .. Len(s)
  PROVE  SubSeq(s, m, n) \in Seq(S)
OBVIOUS

(* A buffer of packets 1 to m is one of packets 1 to n. *)
LEMMA CellsWiden ==
  ASSUME NEW m \in Nat, NEW n \in Nat, m <= n
  PROVE  /\ \A s \in Seq(CellsOf(m)) : s \in Seq(CellsOf(n))
         /\ \A r : Buffer(r, m) => Buffer(r, n)
<1>1. CellsOf(m) \subseteq CellsOf(n)
  BY DEF CellsOf
<1>2. \A s \in Seq(CellsOf(m)) : s \in Seq(CellsOf(n))
  BY <1>1
<1> QED
  BY <1>2, Zenon DEF Buffer

(* The cells of a packet, one by one. *)
LEMMA CellsType ==
  ASSUME NEW m \in Nat, NEW p \in 1 .. m, NEW size \in Nat
  PROVE  /\ Cells(p, size) \in Seq(CellsOf(m))
         /\ Len(Cells(p, size)) = HeaderCells + size
         /\ \A i \in 1 .. HeaderCells + size : Cells(p, size)[i] = [p |-> p, i |-> i]
BY ClientAssumption DEF Cells, CellsOf

(* The cells of a request, one by one. *)
LEMMA RequestType ==
  ASSUME NEW fn \in Fns, NEW id \in Nat
  PROVE  /\ Request(fn, id) \in Seq(RequestCells)
         /\ Len(Request(fn, id)) = IF fn \in {"call", "send"} THEN 2 ELSE 1
         /\ \A i \in 1 .. Len(Request(fn, id)) : Request(fn, id)[i] = [fn |-> fn, id |-> id, i |-> i]
BY DEF Request, RequestCells, Fns

(* Packets are queued behind the others. *)
LogGrows == Len(log) <= Len(log') /\ \A p \in 1 .. Len(log) : log'[p] = log[p]

(* A packet the server queues is the last of log. *)
LEMMA QueueTypes ==
  ASSUME Types, NEW op \in {"response", "error"}, NEW id \in Nat, NEW size \in Nat,
         NEW whole \in BOOLEAN, Queue(op, id, size, whole), UNCHANGED <<read, header>>
  PROVE  /\ Streams'
         /\ header' \in [p : 0 .. Len(log'), size : Nat]
         /\ Len(log') = Len(log) + 1
         /\ log'[Len(log) + 1] = [op |-> op, call_id |-> id, size |-> size, whole |-> whole]
         /\ LogGrows
<1> DEFINE k == [op |-> op, call_id |-> id, size |-> size, whole |-> whole]
<1>1. k \in Packets
  BY Zenon DEF Packets
<1>2. log' = Append(log, k)
  BY Zenon DEF Queue
<1> HIDE DEF k
<1>3. /\ log' \in Seq(Packets) /\ Len(log') = Len(log) + 1 /\ Len(log) \in Nat
      /\ log'[Len(log) + 1] = k /\ \A p \in 1 .. Len(log) : log'[p] = log[p]
  BY <1>1, <1>2 DEF Types, Streams
<1> DEFINE n == Len(log) + 1
           z == IF whole THEN size ELSE 0
<1>4. n \in Nat /\ n \in 1 .. n /\ z \in Nat /\ Len(log) <= n
  BY <1>3
<1>5. Cells(n, z) \in Seq(CellsOf(n))
  BY <1>4, CellsType, Zenon
<1>6. s2c \in Seq(CellsOf(n)) /\ Buffer(read, n)
  BY <1>3, <1>4, CellsWiden, Zenon DEF Types, Streams
<1>7. s2c' = s2c \o Cells(n, z)
  BY Zenon DEF Queue
<1> HIDE DEF n, z
<1>8. s2c' \in Seq(CellsOf(n)) /\ n = Len(log')
  BY <1>3, <1>5, <1>6, <1>7 DEF n
<1>9. header' \in [p : 0 .. Len(log'), size : Nat]
  BY <1>3 DEF Types
<1>10. LogGrows
  BY <1>3 DEF LogGrows
<1> QED
  BY <1>3, <1>6, <1>8, <1>9, <1>10, Zenon DEF Streams, k

(* The server takes a request. *)
LEMMA ServerTakesTypes ==
  ASSUME Types, ServerTakes
  PROVE  Types' /\ LogGrows
<1> DEFINE fn == c2s[1].fn
           id == c2s[1].id
           q == Request(fn, id)
           rest == SubSeq(c2s, Len(q) + 1, Len(c2s))
<1>1. c2s # <<>> /\ c2s \in Seq(RequestCells)
  BY Zenon DEF ServerTakes, Complete, Types, CallTypes
<1>2. fn \in Fns /\ id \in Nat
  <2>1. c2s[1] \in RequestCells
    BY <1>1
  <2> QED
    BY <2>1, Zenon DEF RequestCells
<1>3. Len(q) \in Nat
  BY <1>2, RequestType
<1>4. rest \in Seq(RequestCells)
  <2>1. Len(q) + 1 \in Nat \ {0} /\ Len(c2s) \in 0 .. Len(c2s)
    BY <1>1, <1>3
  <2> QED
    BY <1>1, <2>1, SubSeqType, Zenon
<1>5. /\ c2s' = rest
      /\ \/ Queue("response", id, 0, TRUE) /\ UNCHANGED owed
         \/ UNCHANGED <<owed, log, s2c>>
         \/ owed' = owed \cup {id} /\ UNCHANGED <<log, s2c>>
      /\ UNCHANGED <<pc, next_call_id, call, out, header, read>>
  BY Zenon DEF ServerTakes, client
<1> HIDE DEF fn, id, q, rest
<1>6. CASE Queue("response", id, 0, TRUE) /\ UNCHANGED owed
  <2>1. Streams' /\ header' \in [p : 0 .. Len(log'), size : Nat] /\ LogGrows
    BY <1>2, <1>5, <1>6, QueueTypes, Zenon
  <2>2. CallTypes'
    BY <1>4, <1>5, <1>6, Zenon DEF Types, CallTypes
  <2> QED
    BY <2>1, <2>2, Zenon DEF Types
<1>7. CASE UNCHANGED <<log, s2c>> /\ owed' \subseteq owed \cup {id}
  <2>1. Streams' /\ LogGrows
    BY <1>5, <1>7 DEF Types, Streams, LogGrows
  <2>2. CallTypes'
    BY <1>2, <1>4, <1>5, <1>7 DEF Types, CallTypes
  <2>3. header' \in [p : 0 .. Len(log'), size : Nat]
    BY <1>5, <1>7, Zenon DEF Types
  <2> QED
    BY <2>1, <2>2, <2>3, Zenon DEF Types
<1> QED
  BY <1>5, <1>6, <1>7, Zenon

(* The server answers a request. *)
LEMMA ServerAnswersTypes ==
  ASSUME Types, NEW id \in owed, ServerAnswers(id)
  PROVE  Types' /\ LogGrows
<1>1. PICK op \in {"response", "error"}, size \in BodySizes, whole \in BOOLEAN :
        Queue(op, id, size, whole)
  BY Zenon DEF ServerAnswers
<1>2. id \in Nat /\ size \in Nat
  BY ClientAssumption, Zenon DEF Types, CallTypes
<1>3. UNCHANGED <<pc, next_call_id, call, out, header, read, c2s>> /\ owed' = owed \ {id}
  BY Zenon DEF ServerAnswers, client
<1>4. Streams' /\ header' \in [p : 0 .. Len(log'), size : Nat] /\ LogGrows
  BY <1>1, <1>2, <1>3, QueueTypes, Zenon
<1>5. CallTypes'
  BY <1>3, Zenon DEF Types, CallTypes
<1> QED
  BY <1>4, <1>5, Zenon DEF Types

(* A step that leaves the streams alone. *)
LEMMA StreamsKept ==
  ASSUME Types, UNCHANGED <<log, read, s2c>>
  PROVE  Streams' /\ LogGrows /\ Continues(read, read')
BY DEF Types, Streams, LogGrows, Continues, Buffer, Available

(* A step that leaves the read buffer alone. *)
LEMMA SelfContinues ==
  ASSUME Types, UNCHANGED read
  PROVE  Continues(read, read')
BY DEF Types, Streams, Continues, Buffer, Available

(* A step that leaves all that Types speaks of alone. *)
LEMMA QuietTypes ==
  ASSUME Types, UNCHANGED <<pc, next_call_id, call, out, c2s, owed, header, log, read, s2c>>
  PROVE  Types' /\ LogGrows /\ Continues(read, read')
<1>1. Streams' /\ LogGrows /\ Continues(read, read')
  BY StreamsKept, Zenon
<1>2. CallTypes'
  BY Zenon DEF Types, CallTypes
<1> QED
  BY <1>1, <1>2, Zenon DEF Types

(* A complete header at read_off is of a packet of log. *)
LEMMA FirstType ==
  ASSUME Streams, HeaderCells <= Available(read)
  PROVE  read.buf[read.off + 1].p \in 1 .. Len(log)
<1>1. read.off + 1 \in 1 .. Len(read.buf) /\ read.buf \in Seq(CellsOf(Len(log)))
  BY ClientAssumption DEF Streams, Buffer, Available
<1>2. read.buf[read.off + 1] \in CellsOf(Len(log))
  BY <1>1
<1> QED
  BY <1>2, Zenon DEF CellsOf

(* Taking a packet moves read_off within the buffer. *)
LEMMA ConsumedType ==
  ASSUME Streams, NEW n \in Nat, n <= Available(read)
  PROVE  Buffer(Consumed(read, n), Len(log))
BY DEF Streams, Buffer, Consumed, Available

(* A part of the request is sent. *)
LEMMA SendSomeTypes ==
  ASSUME Types, NEW n, SendSome(n)
  PROVE  Types'
<1>1. UNCHANGED <<log, read, s2c, next_call_id, owed>>
  BY Zenon DEF SendSome, server
<1>2. Streams'
  BY <1>1, StreamsKept, Zenon
<1>3. n \in 1 .. Len(out) /\ out \in Seq(RequestCells) /\ c2s \in Seq(RequestCells)
  BY Zenon DEF SendSome, Types, CallTypes
<1>4. SubSeq(out, 1, n) \in Seq(RequestCells) /\ SubSeq(out, n + 1, Len(out)) \in Seq(RequestCells)
  BY <1>3
<1>5. c2s' \in Seq(RequestCells)
  BY <1>3, <1>4 DEF SendSome
<1>6. <<>> \in Seq(RequestCells) /\ NoCall \in [fn : Fns \cup {"none", "recv"}, id : Nat]
      /\ NoHeader \in [p : 0 .. Len(log), size : Nat]
  BY DEF NoCall, NoHeader, Types, Streams
<1>7. out' \in Seq(RequestCells)
  BY <1>4, <1>6, Zenon DEF SendSome, Return
<1>8. /\ header' \in {header, NoHeader}
      /\ pc = "sending"
      /\ \/ UNCHANGED <<call, pc>>
         \/ UNCHANGED call /\ pc' = "header" /\ call.fn \in {"ping", "call"}
         \/ call' = NoCall /\ pc' = "idle"
  BY Zenon DEF SendSome, Return
<1>9. CallTypes'
  BY <1>1, <1>5, <1>6, <1>7, <1>8, Zenon DEF Types, CallTypes
<1> QED
  BY <1>1, <1>2, <1>6, <1>8, <1>9, Zenon DEF Types

(* A call returns. *)
LEMMA ReturnTypes ==
  ASSUME Types, Return, UNCHANGED <<next_call_id, owed, log, c2s>>, Streams'
  PROVE  Types'
<1>1. CallTypes'
  BY DEF Types, CallTypes, Return, NoCall
<1>2. header' \in [p : 0 .. Len(log'), size : Nat]
  BY DEF Types, Streams, Return, NoHeader
<1> QED
  BY <1>1, <1>2, Zenon DEF Types

(* What a recv puts into the reserved buffer. *)
LEMMA FilledTypes ==
  ASSUME Types, NEW a \in Reserved(read, Need)
  PROVE  /\ Buffer(a.r, Len(log)) /\ Continues(read, a.r) /\ Available(a.r) = Available(read)
         /\ \A n \in 1 .. Len(s2c) : LET r == [a.r EXCEPT !.buf = @ \o SubSeq(s2c, 1, n)]
                                      IN  Buffer(r, Len(log)) /\ Continues(read, r)
<1>1. Len(log) \in Nat /\ Buffer(read, Len(log)) /\ s2c \in Seq(CellsOf(Len(log)))
  BY DEF Types, Streams
<1>2. Buffer(a.r, Len(log)) /\ Continues(read, a.r) /\ Available(a.r) = Available(read)
  BY <1>1, ReservedContinues, Zenon
<1>3. ASSUME NEW n \in 1 .. Len(s2c)
      PROVE  LET r == [a.r EXCEPT !.buf = @ \o SubSeq(s2c, 1, n)]
             IN  Buffer(r, Len(log)) /\ Continues(read, r)
  <2> DEFINE r == [a.r EXCEPT !.buf = @ \o SubSeq(s2c, 1, n)]
  <2>1. SubSeq(s2c, 1, n) \in Seq(CellsOf(Len(log)))
    BY <1>1
  <2>2. Buffer(r, Len(log)) /\ Continues(a.r, r)
    BY <1>1, <1>2, <2>1, ReceivedContinues, Zenon
  <2> HIDE DEF r
  <2>3. Continues(read, r)
    BY <1>1, <1>2, <2>2, ContinuesTwice, Zenon
  <2> QED
    BY <2>2, <2>3, Zenon DEF r
<1> QED
  BY <1>2, <1>3, Zenon

(* Every step keeps the types and what was queued, and loses no unread byte *)
(* unless it takes a packet.                                                *)
LEMMA TypesStep ==
  ASSUME Types, [Next]_vars
  PROVE  Types' /\ LogGrows /\ (Continues(read, read') \/ PacketTaken)
<1> USE DEF client, server, history
<1>1. CASE ServerTakes
  <2>1. UNCHANGED read
    BY <1>1 DEF ServerTakes
  <2> QED
    BY <1>1, <2>1, ServerTakesTypes, SelfContinues
<1>2. CASE ServerRejects \/ ServerCloses \/ UNCHANGED vars
  <2>1. UNCHANGED <<pc, next_call_id, call, out, c2s, owed, header, log, read, s2c>>
    BY <1>2 DEF ServerRejects, ServerCloses, vars
  <2> QED
    BY <2>1, QuietTypes
<1>3. CASE \E id \in owed : ServerAnswers(id)
  <2>1. UNCHANGED read
    BY <1>3 DEF ServerAnswers
  <2> QED
    BY <1>3, <2>1, ServerAnswersTypes, SelfContinues
<1>4. CASE Connect \/ \E i \in IntegrityChoices : SetIntegrity(i)
  <2>1. UNCHANGED <<pc, next_call_id, call, out, c2s, owed, header, log, read, s2c>>
    BY <1>4, Zenon DEF Connect, SetIntegrity
  <2> QED
    BY <2>1, QuietTypes, Zenon
<1>5. CASE \E fn \in Fns : Begin(fn)
  <2>1. PICK fn \in Fns : Begin(fn)
    BY <1>5, Zenon
  <2>2. /\ next_call_id' = next_call_id + 1 /\ call' = [fn |-> fn, id |-> next_call_id]
        /\ out' = Request(fn, next_call_id) /\ pc' = "sending"
        /\ UNCHANGED <<c2s, owed, header, log, read, s2c>>
    BY <2>1, Zenon DEF Begin
  <2>3. next_call_id \in Nat
    BY Zenon DEF Types, CallTypes
  <2>4. Request(fn, next_call_id) \in Seq(RequestCells)
    BY <2>3, RequestType
  <2>5. CallTypes'
    BY <2>2, <2>3, <2>4 DEF Types, CallTypes
  <2>6. Streams' /\ LogGrows /\ Continues(read, read')
    BY <2>2, StreamsKept, Zenon
  <2> QED
    BY <2>2, <2>5, <2>6 DEF Types
<1>6. CASE BeginRecv
  <2>1. /\ call' = [fn |-> "recv", id |-> 0] /\ pc' = "header"
        /\ UNCHANGED <<next_call_id, out, c2s, owed, header, log, read, s2c>>
    BY <1>6, Zenon DEF BeginRecv
  <2>2. CallTypes'
    BY <2>1 DEF Types, CallTypes
  <2>3. Streams' /\ LogGrows /\ Continues(read, read')
    BY <2>1, StreamsKept
  <2> QED
    BY <2>1, <2>2, <2>3, Zenon DEF Types
<1>7. CASE \E n \in 1 .. 2 : SendSome(n)
  <2>1. Types'
    BY <1>7, SendSomeTypes
  <2>2. UNCHANGED <<log, read, s2c>>
    BY <1>7 DEF SendSome
  <2> QED
    BY <2>1, <2>2, StreamsKept
<1>8. CASE SendFails \/ VerifyFails \/ BodyFails
  <2>1. Return /\ UNCHANGED <<next_call_id, owed, log, c2s, read, s2c>>
    BY <1>8 DEF SendFails, VerifyFails, BodyFails, Fails
  <2> QED
    BY <2>1, StreamsKept, ReturnTypes
<1>9. CASE \E n \in 1 .. Len(s2c) : ReadFill(n)
  <2>1. PICK n \in 1 .. Len(s2c) : ReadFill(n)
    BY <1>9
  <2>2. PICK a \in Reserved(read, Need) : read' = [a.r EXCEPT !.buf = @ \o SubSeq(s2c, 1, n)]
    BY <2>1, Zenon DEF ReadFill
  <2>3. UNCHANGED <<pc, next_call_id, call, out, c2s, owed, header, log>>
        /\ s2c' = SubSeq(s2c, n + 1, Len(s2c))
    BY <2>1 DEF ReadFill
  <2>4. Buffer(read', Len(log)) /\ Continues(read, read')
    BY <2>2, FilledTypes, Zenon
  <2>5. s2c \in Seq(CellsOf(Len(log))) /\ log \in Seq(Packets)
    BY DEF Types, Streams
  <2>6. s2c' \in Seq(CellsOf(Len(log)))
    BY <2>3, <2>5
  <2>7. Streams' /\ LogGrows
    BY <2>3, <2>4, <2>5, <2>6 DEF Streams, LogGrows
  <2>8. CallTypes'
    BY <2>3 DEF Types, CallTypes
  <2> QED
    BY <2>3, <2>4, <2>7, <2>8 DEF Types
<1>10. CASE ReadEnds \/ ReserveFails
  <2>1. PICK a \in Reserved(read, Need) : read' = a.r
    BY <1>10 DEF ReadEnds, ReserveFails
  <2>2. Return /\ UNCHANGED <<next_call_id, owed, log, c2s, s2c>>
    BY <1>10 DEF ReadEnds, ReserveFails, Fails
  <2>3. Buffer(read', Len(log)) /\ Continues(read, read')
    BY <2>1, FilledTypes
  <2>4. s2c \in Seq(CellsOf(Len(log))) /\ log \in Seq(Packets)
    BY DEF Types, Streams
  <2>5. Streams' /\ LogGrows
    BY <2>2, <2>3, <2>4, SMTT(30) DEF Streams, LogGrows
  <2> QED
    BY <2>2, <2>3, <2>5, ReturnTypes
<1>11. CASE HeaderRead
  <2>1. CASE Return /\ Fails
    <3>1. UNCHANGED <<next_call_id, owed, log, c2s, read, s2c>>
      BY <1>11, <2>1, Zenon DEF HeaderRead, Fails
    <3> QED
      BY <2>1, <3>1, StreamsKept, ReturnTypes, Zenon
  <2>2. CASE pc' = "body" /\ UNCHANGED <<next_call_id, call, out, owed, log, c2s>>
    <3>1. UNCHANGED <<read, s2c>>
      BY <1>11, Zenon DEF HeaderRead
    <3>2. Streams' /\ LogGrows /\ Continues(read, read')
      BY <2>2, <3>1, StreamsKept, Zenon
    <3>3. CallTypes'
      BY <1>11, <2>2, Zenon DEF Types, CallTypes, HeaderRead
    <3> DEFINE p == read.buf[read.off + 1].p
    <3>4. HeaderCells <= Available(read)
      BY <1>11, ClientAssumption, Zenon DEF HeaderRead, Types, Streams, Buffer, Available
    <3>5. p \in 1 .. Len(log)
      BY <3>4, FirstType, Zenon DEF Types
    <3>6. log[p].size \in Nat
      <4>1. log \in Seq(Packets) /\ Len(log) \in Nat
        BY DEF Types, Streams
      <4> HIDE DEF p
      <4>2. log[p] \in Packets
        BY <3>5, <4>1
      <4> QED
        BY <4>2, Zenon DEF Packets
    <3>7. header' = [p |-> p, size |-> log[p].size] \/ header' \in [p : {0}, size : BodySizes]
          \/ header' = NoHeader
      BY <1>11, Zenon DEF HeaderRead, Fails, Return
    <3> HIDE DEF p
    <3>8. header' \in [p : 0 .. Len(log), size : Nat]
      <4>1. Len(log) \in Nat
        BY DEF Types, Streams
      <4>2. CASE header' = [p |-> p, size |-> log[p].size]
        BY <3>5, <3>6, <4>1, <4>2
      <4>3. CASE header' \in [p : {0}, size : BodySizes]
        <5>1. PICK z \in BodySizes : header' = [p |-> 0, size |-> z]
          BY <4>3, Zenon
        <5>2. z \in Nat
          BY ClientAssumption, Zenon
        <5> QED
          BY <4>1, <5>1, <5>2
      <4>4. CASE header' = NoHeader
        BY <4>1, <4>4 DEF NoHeader
      <4> QED
        BY <3>7, <4>2, <4>3, <4>4
    <3> QED
      BY <2>2, <3>2, <3>3, <3>8, Zenon DEF Types
  <2> QED
    BY <1>11, <2>1, <2>2 DEF HeaderRead, Fails
<1>12. CASE PacketTaken
  <2>1. Return /\ UNCHANGED <<next_call_id, owed, log, c2s, s2c>> /\ read' = Consumed(read, Need)
        /\ Need <= Available(read) /\ Need = HeaderCells + header.size
    BY <1>12, ClientAssumption, Zenon DEF PacketTaken, PacketReady, Need, Available, Types, Streams, Buffer
  <2>2. Need \in Nat
    BY <2>1, ClientAssumption DEF Types
  <2>3. Buffer(read', Len(log))
    BY <2>1, <2>2, ConsumedType, Zenon DEF Types
  <2>4. s2c \in Seq(CellsOf(Len(log))) /\ log \in Seq(Packets)
    BY Zenon DEF Types, Streams
  <2>5. Streams' /\ LogGrows
    BY <2>1, <2>3, <2>4 DEF Streams, LogGrows
  <2> QED
    BY <1>12, <2>1, <2>5, ReturnTypes
<1> QED
  BY <1>1, <1>2, <1>3, <1>4, <1>5, <1>6, <1>7, <1>8, <1>9, <1>10, <1>11, <1>12
  DEF Next, ServerNext, LibraryNext, ResourceNext, ApplicationNext, Fns

-----------------------------------------------------------------------------
(* The packet at read_off *)

(* The packet whose byte is at read_off. *)
First == read.buf[read.off + 1].p

(* The bytes at read_off are a header's. *)
HeaderHere == Front(read, HeaderCells) = Cells(First, 0)

(* While a body is read, header says what the bytes at read_off say. *)
Parsed ==
  pc = "body" =>
    /\ HeaderCells <= Available(read)
    /\ IF HeaderHere THEN header.p = First /\ header.size = log[First].size ELSE header.p = 0

(* The buffer holds what shows that the packet at read_off is not whole. *)
Damaged ==
  /\ HeaderCells <= Available(read)
  /\ \/ ~HeaderHere
     \/ /\ HeaderCells + log[First].size <= Available(read)
        /\ Front(read, HeaderCells + log[First].size) # Cells(First, log[First].size)

(* A packet that failed to verify is at read_off, and shows it. *)
Poison == poisoned => integrity # {} /\ (integrity \subseteq ServerIntegrity => Damaged)

(* Bytes that arrive do not change the packet at read_off. *)
LEMMA FirstContinues ==
  ASSUME Types, Types', Continues(read, read'), LogGrows, HeaderCells <= Available(read)
  PROVE  /\ HeaderCells <= Available(read')
         /\ First \in 1 .. Len(log) /\ First' = First /\ log'[First] = log[First]
         /\ log[First].size \in Nat
         /\ HeaderHere' = HeaderHere
<1>1. Buffer(read, Len(log)) /\ Len(log) \in Nat /\ log \in Seq(Packets)
  BY DEF Types, Streams
<1>2. HeaderCells \in Nat /\ 1 <= HeaderCells /\ Available(read) \in Nat
  BY <1>1, ClientAssumption DEF Buffer, Available
<1>3. 1 \in 1 .. Available(read)
  BY <1>2
<1>4. First' = First
  BY <1>3, Zenon DEF Continues, First
<1>5. First \in 1 .. Len(log)
  BY FirstType, Zenon DEF Types, First
<1>6. log[First] \in Packets /\ log'[First] = log[First]
  BY <1>1, <1>5 DEF LogGrows
<1>7. log[First].size \in Nat
  BY <1>6, Zenon DEF Packets
<1>8. Front(read', HeaderCells) = Front(read, HeaderCells)
  BY <1>1, <1>2, FrontContinues
<1>9. HeaderHere' = HeaderHere
  BY <1>4, <1>8, Zenon DEF HeaderHere
<1>10. HeaderCells <= Available(read')
  <2>1. Available(read') \in Int
    BY DEF Types, Streams, Buffer, Available
  <2> QED
    BY <1>2, <2>1 DEF Continues
<1> QED
  BY <1>4, <1>5, <1>6, <1>7, <1>9, <1>10

(* Nor do they repair a damaged packet. *)
LEMMA DamagedStays ==
  ASSUME Types, Types', Continues(read, read'), LogGrows, Damaged
  PROVE  Damaged'
<1>1. HeaderCells <= Available(read)
  BY Zenon DEF Damaged
<1>2. /\ HeaderCells <= Available(read')
      /\ First' = First /\ log'[First] = log[First] /\ log[First].size \in Nat
      /\ HeaderHere' = HeaderHere
  BY <1>1, FirstContinues, Zenon
<1>3. CASE ~HeaderHere
  BY <1>2, <1>3, Zenon DEF Damaged
<1>4. CASE HeaderHere
  <2> DEFINE n == HeaderCells + log[First].size
  <2>1. n <= Available(read) /\ Front(read, n) # Cells(First, log[First].size)
    BY <1>4, Zenon DEF Damaged
  <2>2. n \in Nat
    BY <1>2, ClientAssumption
  <2>3. Buffer(read, Len(log)) /\ Len(log) \in Nat /\ Buffer(read', Len(log'))
    BY DEF Types, Streams
  <2>4. Front(read', n) = Front(read, n)
    BY <2>1, <2>2, <2>3, FrontContinues
  <2>5. n <= Available(read')
    BY <2>1, <2>2, <2>3 DEF Continues, Available, Buffer
  <2>6. n = HeaderCells + log'[First'].size
    BY <1>2, Zenon
  <2> QED
    BY <1>2, <2>1, <2>4, <2>5, <2>6 DEF Damaged
<1> QED
  BY <1>3, <1>4, Zenon

(* Every step keeps Parsed: header is set again before a body is read. *)
LEMMA ParsedStep ==
  ASSUME Types, Parsed, [Next]_vars
  PROVE  Parsed'
<1>1. Types' /\ LogGrows /\ (Continues(read, read') \/ PacketTaken)
  BY TypesStep, Zenon
<1>2. SUFFICES ASSUME pc' = "body"
               PROVE  Parsed'
  BY Zenon DEF Parsed
<1>3. CASE pc = "body" /\ UNCHANGED header
  <2>1. Continues(read, read')
    BY <1>1, <1>2, Zenon DEF PacketTaken, Return
  <2>2. HeaderCells <= Available(read)
    BY <1>3, Zenon DEF Parsed
  <2>3. /\ HeaderCells <= Available(read')
        /\ First' = First /\ log'[First] = log[First] /\ HeaderHere' = HeaderHere
    BY <1>1, <2>1, <2>2, FirstContinues, Zenon
  <2> QED
    BY <1>3, <2>3, Zenon DEF Parsed
<1>4. CASE HeaderRead
  <2>1. UNCHANGED read /\ Available(read) >= HeaderCells
    BY <1>4, Zenon DEF HeaderRead
  <2>2. HeaderCells <= Available(read) /\ HeaderCells \in Nat
    BY <2>1, ClientAssumption, Zenon DEF Types, Streams, Buffer, Available
  <2>3. UNCHANGED log
    BY <1>2, <1>4, Zenon DEF HeaderRead, server, Fails, Return
  <2>4. At(HeaderCells) = Front(read, HeaderCells)
    BY <2>2, FrontIsAt, Zenon DEF Types
  <2>5. First' = First /\ HeaderHere' = HeaderHere
    BY <2>1, Zenon DEF First, HeaderHere, Front
  <2>6. header' \in IF HeaderHere THEN {[p |-> First, size |-> log[First].size]}
                                  ELSE [p : {0}, size : BodySizes]
    BY <1>2, <1>4, <2>4, Zenon DEF HeaderRead, Fails, Return, HeaderHere, First
  <2>7. IF HeaderHere THEN header'.p = First /\ header'.size = log[First].size
        ELSE header'.p = 0
    BY <2>6
  <2> QED
    BY <2>1, <2>2, <2>3, <2>5, <2>7 DEF Parsed
<1>5. (pc = "body" /\ UNCHANGED header) \/ HeaderRead
  BY <1>2, Zenon DEF Next, ServerNext, LibraryNext, ResourceNext, ApplicationNext, vars, client, ServerTakes,
     ServerRejects, ServerCloses, ServerAnswers, Connect, SetIntegrity, Begin, BeginRecv, SendSome,
     SendFails, ReadFill, ReadEnds, ReserveFails, VerifyFails, BodyFails, PacketTaken, Fails, Return
<1> QED
  BY <1>3, <1>4, <1>5, Zenon

(* A checksum or a digest fails only on a packet that is not whole. *)
LEMMA VerifyFailsDamages ==
  ASSUME Types, Parsed, VerifyFails, integrity \subseteq ServerIntegrity
  PROVE  Damaged
<1>1. /\ pc = "body" /\ Need = HeaderCells + header.size /\ Need <= Available(read)
      /\ HeaderCells <= Available(read) /\ Need \in Nat /\ HeaderCells \in Nat
  BY ClientAssumption
  DEF VerifyFails, PacketReady, Need, Types, Streams, Buffer, Available, Parsed
<1>2. ~Intact
  BY Zenon DEF VerifyFails, Verified
<1>3. At(Need) = Front(read, Need)
  BY <1>1, FrontIsAt, Zenon DEF Types
<1>4. CASE HeaderHere
  <2>1. header.p = First /\ header.size = log[First].size
    BY <1>1, <1>4, Zenon DEF Parsed
  <2>2. First \in 1 .. Len(log) /\ Len(log) \in Nat
    BY <1>1, FirstType DEF Types, Streams, First
  <2>3. Front(read, Need) # Cells(First, log[First].size)
    BY <1>2, <1>3, <2>1, <2>2 DEF Intact
  <2> QED
    BY <1>1, <2>1, <2>3, Zenon DEF Damaged
<1> QED
  BY <1>1, <1>4, Zenon DEF Damaged

(* Once verification failed, the packet at read_off never verifies. *)
LEMMA PoisonedIsNotVerified ==
  ASSUME Types, Parsed, Poison, poisoned
  PROVE  ~(PacketReady /\ Verified)
<1>1. SUFFICES ASSUME PacketReady, Verified PROVE FALSE
  BY Zenon
<1>2. Intact /\ Damaged
  BY <1>1, Zenon DEF Verified, Poison
<1>3. /\ pc = "body" /\ Need = HeaderCells + header.size /\ Need <= Available(read)
      /\ Need \in Nat /\ HeaderCells \in Nat
  BY <1>1, ClientAssumption DEF PacketReady, Need, Types, Streams, Buffer, Available
<1>4. At(Need) = Front(read, Need)
  BY <1>3, FrontIsAt, Zenon DEF Types
<1>5. HeaderHere /\ header.p = First /\ header.size = log[First].size
  BY <1>2, <1>3, Zenon DEF Parsed, Intact
<1> QED
  BY <1>2, <1>3, <1>4, <1>5, Zenon DEF Intact, Damaged

(* Every step keeps Poison, and takes nothing while it lasts. *)
LEMMA PoisonStep ==
  ASSUME Types, Parsed, Poison, [Next]_vars
  PROVE  Poison' /\ (poisoned /\ poisoned' => taken' = taken)
<1>1. Types' /\ LogGrows /\ (Continues(read, read') \/ PacketTaken)
  BY TypesStep, Zenon
<1>2. CASE poisoned' /\ poisoned
  <2>1. ~PacketTaken
    BY <1>2, PoisonedIsNotVerified, Zenon DEF PacketTaken
  <2>2. UNCHANGED <<integrity, taken>>
    BY <1>2, <2>1, Zenon DEF Next, ServerNext, LibraryNext, ResourceNext, ApplicationNext, vars, client,
       history, ServerTakes, ServerRejects, ServerCloses, ServerAnswers, Connect, SetIntegrity, Begin,
       BeginRecv, SendSome, SendFails, ReadFill, ReadEnds, ReserveFails, HeaderRead, VerifyFails,
       BodyFails, Fails
  <2>3. Damaged => Damaged'
    BY <1>1, <2>1, DamagedStays, Zenon
  <2> QED
    BY <1>2, <2>2, <2>3, Zenon DEF Poison
<1>3. CASE poisoned' /\ ~poisoned
  <2>1. VerifyFails
    BY <1>3, Zenon DEF Next, ServerNext, LibraryNext, ResourceNext, ApplicationNext, vars, client,
       history, ServerTakes, ServerRejects, ServerCloses, ServerAnswers, Connect, SetIntegrity, Begin,
       BeginRecv, SendSome, SendFails, ReadFill, ReadEnds, ReserveFails, HeaderRead, PacketTaken,
       BodyFails, Fails
  <2>2. UNCHANGED integrity /\ integrity # {}
    BY <2>1, Zenon DEF VerifyFails, Verified, Fails
  <2>3. integrity \subseteq ServerIntegrity => Damaged'
    BY <1>1, <2>1, VerifyFailsDamages, DamagedStays, Zenon DEF VerifyFails, PacketTaken
  <2> QED
    BY <1>3, <2>2, <2>3, Zenon DEF Poison
<1> QED
  BY <1>2, <1>3, Zenon DEF Poison

-----------------------------------------------------------------------------
(* What is delivered *)

(* What was returned to a call is the response to it. *)
Own ==
  ~blind => \A d \in delivered :
    /\ d.p \in 1 .. Len(log)
    /\ d.intact
    /\ log[d.p].op = "response"
    /\ d.id = log[d.p].call_id

(* Every step keeps Own: a packet is delivered after its fields were compared. *)
LEMMA OwnStep ==
  ASSUME Types, Own, [Next]_vars
  PROVE  Own'
<1>1. Types' /\ LogGrows /\ Len(log) \in Nat /\ Len(log') \in Nat
  BY TypesStep DEF Types, Streams
<1>2. CASE UNCHANGED <<blind, delivered>>
  <2>1. SUFFICES ASSUME ~blind, NEW d \in delivered
                 PROVE  /\ d.p \in 1 .. Len(log') /\ d.intact
                        /\ log'[d.p].op = "response" /\ d.id = log'[d.p].call_id
    BY <1>2, Zenon DEF Own
  <2>2. d.p \in 1 .. Len(log) /\ d.intact /\ log[d.p].op = "response" /\ d.id = log[d.p].call_id
    BY <2>1, Zenon DEF Own
  <2> QED
    BY <1>1, <2>2 DEF LogGrows
<1>3. CASE PacketTaken
  <2>1. SUFFICES ASSUME ~blind', NEW d \in delivered'
                 PROVE  /\ d.p \in 1 .. Len(log) /\ d.intact
                        /\ log[d.p].op = "response" /\ d.id = log[d.p].call_id
    BY <1>3, Zenon DEF Own, PacketTaken, server
  <2>2. ~blind /\ Verified /\ Intact
    BY <1>3, <2>1, Zenon DEF PacketTaken, Verified
  <2>3. CASE d \in delivered
    BY <2>2, <2>3, Zenon DEF Own
  <2>4. CASE d \notin delivered
    <3>1. header.p # 0 /\ header.p \in 1 .. Len(log)
      BY <1>1, <2>2 DEF Intact, Types
    <3>2. PICK h \in Fields :
            /\ Expected(h)
            /\ d = [fn |-> call.fn, id |-> IF call.fn = "recv" THEN h.call_id ELSE call.id,
                    p |-> header.p, intact |-> Intact]
      BY <1>3, <2>4, Zenon DEF PacketTaken
    <3>3. h = [op |-> log[header.p].op, call_id |-> log[header.p].call_id]
      BY <3>1, Zenon DEF Fields
    <3>4. d.id = h.call_id
      <4>1. call.fn \in {"ping", "call", "recv"}
        BY <1>3, Zenon DEF PacketTaken, PacketReady, Types, CallTypes
      <4> QED
        BY <3>2, <4>1, Zenon DEF Expected
    <3> QED
      BY <2>2, <3>1, <3>2, <3>3, <3>4 DEF Expected
  <2> QED
    BY <2>3, <2>4, Zenon
<1>4. UNCHANGED <<blind, delivered>> \/ PacketTaken
  BY Zenon DEF Next, ServerNext, LibraryNext, ResourceNext, ApplicationNext, vars, client,
     history, ServerTakes, ServerRejects, ServerCloses, ServerAnswers, Connect, SetIntegrity, Begin,
     BeginRecv, SendSome, SendFails, ReadFill, ReadEnds, ReserveFails, HeaderRead, VerifyFails,
     BodyFails, Fails
<1> QED
  BY <1>2, <1>3, <1>4, Zenon

-----------------------------------------------------------------------------
(* The requests *)

(* The call ids given out so far. *)
Ids == 1 .. next_call_id - 1

(* The cells of a request. *)
Span(fn) == IF fn \in {"call", "send"} THEN 2 ELSE 1

(* Call ids are taken in turn, and a pipelined call is not the one under way. *)
Numbering ==
  /\ next_call_id >= 1
  /\ call.id \in Ids \cup {0}
  /\ call.fn \in {"none", "recv"} => call.id = 0
  /\ \A j \in 1 .. Len(c2s) : c2s[j].id \in Ids
  /\ owed \subseteq Ids
  /\ \A p \in 1 .. Len(log) : log[p].call_id \in Ids
  /\ outstanding \subseteq Ids
  /\ call.id \notin outstanding

(* What is still to be sent is the end of the request. *)
Sending ==
  pc = "sending" =>
    /\ call.fn \in Fns
    /\ call.id \in Ids
    /\ Len(out) \in 1 .. Span(call.fn)
    /\ \A j \in 1 .. Len(out) :
         out[j] = [fn |-> call.fn, id |-> call.id, i |-> Span(call.fn) - Len(out) + j]

(* No cell of a request is on its way twice. *)
Wire ==
  /\ \A j \in 1 .. Len(c2s) : c2s[j].i \in 1 .. Span(c2s[j].fn)
  /\ \A j, k \in 1 .. Len(c2s) :
       c2s[j].id = c2s[k].id => c2s[j].fn = c2s[k].fn /\ (c2s[j].i = c2s[k].i => j = k)
  /\ \A j \in 1 .. Len(c2s) :
       pc = "sending" /\ c2s[j].id = call.id =>
         c2s[j].fn = call.fn /\ c2s[j].i <= Span(call.fn) - Len(out)

(* The server has taken the request. *)
Served(id) == id \in owed \/ \E p \in 1 .. Len(log) : log[p].call_id = id

(* A request is on its way or was taken, and is answered once. *)
Apart ==
  /\ \A j \in 1 .. Len(c2s) : ~Served(c2s[j].id)
  /\ pc = "sending" => ~Served(call.id)
  /\ \A p \in 1 .. Len(log) : log[p].call_id \notin owed
  /\ \A p, q \in 1 .. Len(log) : log[p].call_id = log[q].call_id => p = q

(* The account of the requests. *)
Requests == Numbering /\ Sending /\ Wire /\ Apart

(* A request has one cell, or two when it has a body. *)
LEMMA RequestCellAt ==
  ASSUME NEW fn \in Fns, NEW id \in Nat
  PROVE  /\ Len(Request(fn, id)) = Span(fn) /\ Span(fn) \in 1 .. 2
         /\ \A i \in 1 .. Span(fn) : Request(fn, id)[i] = [fn |-> fn, id |-> id, i |-> i]
BY RequestType DEF Span

(* A cell on its way is one of a request. *)
LEMMA CellTypes ==
  ASSUME Types, NEW j \in 1 .. Len(c2s)
  PROVE  c2s[j].fn \in Fns /\ c2s[j].id \in Nat /\ c2s[j].i \in Nat
<1>1. c2s[j] \in RequestCells
  BY DEF Types, CallTypes
<1> QED
  BY <1>1, Zenon DEF RequestCells

(* A complete request is the head of the stream, and no cell of it follows. *)
LEMMA CompleteRequest ==
  ASSUME Types, Wire, Complete(c2s)
  PROVE  LET fn == c2s[1].fn
             id == c2s[1].id
             n == Span(fn)
         IN  /\ fn \in Fns /\ id \in Nat /\ n \in 1 .. 2 /\ n <= Len(c2s) /\ Len(Request(fn, id)) = n
             /\ \A j \in 1 .. n : c2s[j].fn = fn /\ c2s[j].id = id /\ c2s[j].i = j
             /\ \A j \in n + 1 .. Len(c2s) : c2s[j].id # id
<1> DEFINE fn == c2s[1].fn
           id == c2s[1].id
           n == Span(fn)
           q == Request(fn, id)
<1>1. c2s \in Seq(RequestCells) /\ c2s # <<>> /\ Len(q) <= Len(c2s) /\ q = SubSeq(c2s, 1, Len(q))
  BY Zenon DEF Types, CallTypes, Complete
<1>2. 1 \in 1 .. Len(c2s) /\ Len(c2s) \in Nat
  BY <1>1
<1>3. fn \in Fns /\ id \in Nat
  BY <1>2, CellTypes, Zenon
<1> HIDE DEF fn, id
<1>4. Len(q) = n /\ n \in 1 .. 2 /\ \A i \in 1 .. n : q[i] = [fn |-> fn, id |-> id, i |-> i]
  BY <1>3, RequestCellAt, Zenon
<1>5. q \in Seq(RequestCells)
  BY <1>3, RequestType, Zenon
<1> HIDE DEF q, n
<1>6. n <= Len(c2s) /\ q = SubSeq(c2s, 1, n)
  BY <1>1, <1>4, Zenon
<1>7. \A j \in 1 .. n : c2s[j] = q[j]
  <2> TAKE j \in 1 .. n
  <2>1. SubSeq(c2s, 1, n)[j] = c2s[j]
    BY <1>1, <1>4, <1>6
  <2> QED
    BY <1>6, <2>1, Zenon
<1>8. \A j \in 1 .. n : c2s[j].fn = fn /\ c2s[j].id = id /\ c2s[j].i = j
  <2> TAKE j \in 1 .. n
  <2>1. c2s[j] = [fn |-> fn, id |-> id, i |-> j]
    BY <1>4, <1>7, Zenon
  <2> QED
    BY <2>1
<1>9. ASSUME NEW j \in n + 1 .. Len(c2s), c2s[j].id = id PROVE FALSE
  <2>1. j \in 1 .. Len(c2s) /\ 1 \in 1 .. n /\ 1 \in 1 .. Len(c2s)
    BY <1>4, <1>2
  <2>2. c2s[j].fn = fn /\ c2s[j].i \in 1 .. n
    BY <1>8, <1>9, <2>1, Zenon DEF Wire, fn, id, n
  <2> DEFINE k == c2s[j].i
  <2>3. k \in 1 .. Len(c2s) /\ c2s[k].id = c2s[j].id /\ c2s[k].i = c2s[j].i
    BY <1>2, <1>4, <1>6, <1>8, <1>9, <2>2
  <2>4. k = j
    BY <2>1, <2>3, Zenon DEF Wire
  <2> QED
    BY <1>4, <2>2, <2>4
<1> QED
  BY <1>3, <1>4, <1>6, <1>8, <1>9, ZenonT(40) DEF fn, id, n, q

(* What ServerTakes leaves of the stream: a cell of another request each. *)
LEMMA TakenRest ==
  ASSUME Types, Wire, ServerTakes
  PROVE  LET id == c2s[1].id
             n == Span(c2s[1].fn)
         IN  /\ Len(c2s') = Len(c2s) - n
             /\ \A j \in 1 .. Len(c2s') : c2s'[j] = c2s[n + j] /\ n + j \in 1 .. Len(c2s)
                                          /\ c2s'[j].id # id
             /\ \A j \in 1 .. Len(c2s) : c2s[j].id # id => j - n \in 1 .. Len(c2s')
                                                           /\ c2s'[j - n] = c2s[j]
<1> DEFINE fn == c2s[1].fn
           id == c2s[1].id
           n == Span(fn)
<1>1. /\ fn \in Fns /\ id \in Nat /\ n \in 1 .. 2 /\ n <= Len(c2s) /\ Len(Request(fn, id)) = n
      /\ \A j \in 1 .. n : c2s[j].fn = fn /\ c2s[j].id = id /\ c2s[j].i = j
      /\ \A j \in n + 1 .. Len(c2s) : c2s[j].id # id
  BY CompleteRequest, Zenon DEF ServerTakes
<1>2. c2s' = SubSeq(c2s, n + 1, Len(c2s)) /\ c2s \in Seq(RequestCells)
  BY <1>1, Zenon DEF ServerTakes, Types, CallTypes
<1> HIDE DEF fn, id, n
<1>3. Len(c2s') = Len(c2s) - n /\ \A j \in 1 .. Len(c2s) - n : c2s'[j] = c2s[n + j]
  BY <1>1, <1>2
<1>4. \A j \in 1 .. Len(c2s') : c2s'[j] = c2s[n + j] /\ n + j \in 1 .. Len(c2s)
                               /\ c2s'[j].id # id
  <2>1. Len(c2s) \in Nat /\ n \in Nat
    BY <1>1, <1>2
  <2>2. \A j \in 1 .. Len(c2s') : /\ j \in 1 .. Len(c2s) - n
                                  /\ n + j \in 1 .. Len(c2s) /\ n + j \in n + 1 .. Len(c2s)
    BY <1>3, <2>1
  <2>3. \A j \in 1 .. Len(c2s') : c2s'[j] = c2s[n + j] /\ n + j \in 1 .. Len(c2s)
    BY <1>3, <2>2, Zenon
  <2>4. \A j \in 1 .. Len(c2s') : c2s[n + j].id # id
    BY <1>1, <2>2, Zenon
  <2> QED
    BY <2>3, <2>4, Zenon
<1>5. ASSUME NEW j \in 1 .. Len(c2s), c2s[j].id # id
      PROVE  j - n \in 1 .. Len(c2s') /\ c2s'[j - n] = c2s[j]
  <2>1. Len(c2s) \in Nat /\ j \notin 1 .. n
    BY <1>1, <1>2, <1>5
  <2>2. j - n \in 1 .. Len(c2s) - n /\ n + (j - n) = j
    BY <1>1, <2>1
  <2> QED
    BY <1>3, <2>2, Zenon
<1> QED
  BY <1>3, <1>4, <1>5, Zenon DEF fn, id, n

-----------------------------------------------------------------------------
(* A step that leaves the requests alone. *)
LEMMA RequestsKept ==
  ASSUME Types, Requests, UNCHANGED <<next_call_id, c2s, owed, log>>,
         outstanding' \subseteq outstanding,
         \/ UNCHANGED <<pc, call, out>>
         \/ pc' # "sending" /\ call' \in {call, NoCall, [fn |-> "recv", id |-> 0]}
  PROVE  Requests'
<1>1. Numbering'
  BY DEF Requests, Numbering, Types, CallTypes, Ids, NoCall
<1>2. Sending' /\ Wire'
  BY ZenonT(40) DEF Requests, Sending, Wire, Ids
<1>3. Apart'
  BY Zenon DEF Requests, Apart, Served
<1> QED
  BY <1>1, <1>2, <1>3, Zenon DEF Requests

(* A new request has an id that was never used. *)
LEMMA BeginRequests ==
  ASSUME Types, Requests, NEW fn \in Fns, Begin(fn)
  PROVE  Requests'
<1>1. /\ next_call_id' = next_call_id + 1 /\ call' = [fn |-> fn, id |-> next_call_id]
      /\ out' = Request(fn, next_call_id) /\ pc' = "sending"
      /\ UNCHANGED <<c2s, owed, log, outstanding>>
  BY Zenon DEF Begin, server, history
<1>2. next_call_id \in Nat /\ next_call_id >= 1
  BY Zenon DEF Types, CallTypes, Requests, Numbering
<1>3. next_call_id \notin Ids /\ Ids \subseteq Ids' /\ next_call_id \in Ids'
  BY <1>1, <1>2 DEF Ids
<1>4. /\ \A j \in 1 .. Len(c2s) : c2s[j].id \in Ids
      /\ owed \subseteq Ids
      /\ \A p \in 1 .. Len(log) : log[p].call_id \in Ids
      /\ outstanding \subseteq Ids
  BY Zenon DEF Requests, Numbering
<1>5. Len(out') = Span(fn) /\ Span(fn) \in 1 .. 2
      /\ \A i \in 1 .. Span(fn) : out'[i] = [fn |-> fn, id |-> next_call_id, i |-> i]
  BY <1>1, <1>2, RequestCellAt, Zenon
<1>6. Numbering'
  <2>1. call'.id = next_call_id /\ call'.fn \notin {"none", "recv"} /\ next_call_id' >= 1
    BY <1>1, <1>2 DEF Fns
  <2>2. next_call_id \notin outstanding
    BY <1>3, <1>4, Zenon
  <2> QED
    BY <1>1, <1>3, <1>4, <2>1, <2>2, Zenon DEF Numbering
<1>7. Sending'
  BY <1>1, <1>3, <1>5 DEF Sending
<1>8. Wire'
  BY <1>1, <1>3, <1>4 DEF Requests, Wire
<1>9. Apart'
  <2>1. ~Served(next_call_id)
    BY <1>3, <1>4, Zenon DEF Served
  <2> QED
    BY <1>1, <2>1, Zenon DEF Requests, Apart, Served
<1> QED
  BY <1>6, <1>7, <1>8, <1>9 DEF Requests

(* The cells sent are new on the wire, and what is left is the rest. *)
LEMMA SendRequests ==
  ASSUME Types, Requests, NEW n, SendSome(n)
  PROVE  Requests'
<1> DEFINE s == Span(call.fn)
           l == Len(out)
           m == Len(c2s)
<1>1. /\ pc = "sending" /\ n \in 1 .. l /\ l \in 1 .. s /\ s \in 1 .. 2 /\ m \in Nat
      /\ call.fn \in Fns /\ call.id \in Ids
      /\ c2s \in Seq(RequestCells) /\ out \in Seq(RequestCells)
  BY DEF SendSome, Types, CallTypes, Requests, Sending, Span
<1>2. \A j \in 1 .. l : /\ out[j].fn = call.fn /\ out[j].id = call.id
                        /\ out[j].i = s - l + j
                        /\ out[j] = [fn |-> call.fn, id |-> call.id, i |-> s - l + j]
  BY <1>1 DEF Requests, Sending
<1>3. UNCHANGED <<next_call_id, owed, log>>
  BY Zenon DEF SendSome, server
<1>4. \/ UNCHANGED c2s
      \/ /\ Len(c2s') = m + n
         /\ \A j \in 1 .. m : c2s'[j] = c2s[j]
         /\ \A j \in m + 1 .. m + n : c2s'[j] = out[j - m] /\ j - m \in 1 .. n
  BY <1>1 DEF SendSome
<1>5. \A j \in 1 .. Len(c2s') :
        \/ j \in 1 .. m /\ c2s'[j] = c2s[j]
        \/ /\ j - m \in 1 .. n
           /\ c2s'[j].fn = call.fn /\ c2s'[j].id = call.id /\ c2s'[j].i = s - l + (j - m)
  <2> TAKE j \in 1 .. Len(c2s')
  <2> HIDE DEF s, l, m
  <2>1. CASE UNCHANGED c2s
    BY <2>1, Zenon DEF m
  <2>2. CASE ~UNCHANGED c2s
    <3>1. j \in 1 .. m \/ j \in m + 1 .. m + n
      BY <1>1, <1>4, <2>2
    <3>2. CASE j \in m + 1 .. m + n
      <4>1. c2s'[j] = out[j - m] /\ j - m \in 1 .. n /\ j - m \in 1 .. l
        BY <1>1, <1>4, <2>2, <3>2
      <4> QED
        BY <1>2, <4>1, Zenon
    <3> QED
      BY <1>4, <2>2, <3>1, <3>2, Zenon
  <2> QED
    BY <2>1, <2>2, Zenon
<1>6. /\ \A j \in 1 .. Len(c2s') : c2s'[j].i \in 1 .. Span(c2s'[j].fn)
      /\ \A j, k \in 1 .. Len(c2s') :
           c2s'[j].id = c2s'[k].id => c2s'[j].fn = c2s'[k].fn /\ (c2s'[j].i = c2s'[k].i => j = k)
      /\ \A j \in 1 .. Len(c2s') :
           c2s'[j].id = call.id => c2s'[j].fn = call.fn /\ c2s'[j].i <= s - l + n
      /\ \A j \in 1 .. Len(c2s') : c2s'[j].id \in Ids /\ ~Served(c2s'[j].id)
  <2>1. /\ \A j \in 1 .. m : c2s[j].i \in 1 .. Span(c2s[j].fn)
        /\ \A j, k \in 1 .. m :
             c2s[j].id = c2s[k].id => c2s[j].fn = c2s[k].fn /\ (c2s[j].i = c2s[k].i => j = k)
        /\ \A j \in 1 .. m : c2s[j].id = call.id => c2s[j].fn = call.fn /\ c2s[j].i <= s - l
        /\ \A j \in 1 .. m : c2s[j].i \in Nat /\ c2s[j].id \in Ids /\ ~Served(c2s[j].id)
        /\ ~Served(call.id)
    BY <1>1, CellTypes, Zenon DEF Requests, Wire, Apart, Numbering
  <2> HIDE DEF s, l, m
  <2>2. ASSUME NEW j \in 1 .. Len(c2s')
        PROVE  /\ c2s'[j].i \in 1 .. Span(c2s'[j].fn)
               /\ c2s'[j].id = call.id => c2s'[j].fn = call.fn /\ c2s'[j].i <= s - l + n
               /\ c2s'[j].id \in Ids /\ ~Served(c2s'[j].id)
    <3>1. CASE j \in 1 .. m /\ c2s'[j] = c2s[j]
      BY <1>1, <2>1, <3>1
    <3>2. CASE /\ j - m \in 1 .. n
               /\ c2s'[j].fn = call.fn /\ c2s'[j].id = call.id /\ c2s'[j].i = s - l + (j - m)
      BY <1>1, <2>1, <3>2 DEF s
    <3> QED
      BY <1>5, <3>1, <3>2, Zenon
  <2>3. ASSUME NEW j \in 1 .. Len(c2s'), NEW k \in 1 .. Len(c2s'), c2s'[j].id = c2s'[k].id
        PROVE  c2s'[j].fn = c2s'[k].fn /\ (c2s'[j].i = c2s'[k].i => j = k)
    <3>1. CASE j \in 1 .. m /\ c2s'[j] = c2s[j] /\ k \in 1 .. m /\ c2s'[k] = c2s[k]
      BY <2>1, <2>3, <3>1
    <3>2. ASSUME NEW a \in 1 .. Len(c2s'), NEW b \in 1 .. Len(c2s'),
                 a \in 1 .. m, c2s'[a] = c2s[a], c2s'[a].id = c2s'[b].id, b - m \in 1 .. n,
                 c2s'[b].fn = call.fn, c2s'[b].id = call.id, c2s'[b].i = s - l + (b - m)
          PROVE  c2s'[a].fn = c2s'[b].fn /\ c2s'[a].i # c2s'[b].i
      BY <1>1, <2>1, <3>2
    <3>3. CASE /\ j - m \in 1 .. n /\ c2s'[j].fn = call.fn /\ c2s'[j].i = s - l + (j - m)
               /\ k - m \in 1 .. n /\ c2s'[k].fn = call.fn /\ c2s'[k].i = s - l + (k - m)
      <4>1. s \in Int /\ l \in Int /\ m \in Int /\ j \in Int /\ k \in Int
        BY <1>1
      <4>2. s - l + (j - m) = s - l + (k - m) => j = k
        BY <4>1
      <4> QED
        BY <3>3, <4>2, Zenon
    <3> QED
      BY <1>5, <2>3, <3>1, <3>2, <3>3, Zenon
  <2> QED
    BY <2>2, <2>3, Zenon
<1>7. Apart' <=> (pc' = "sending" => ~Served(call'.id))
  BY <1>3, <1>6, Zenon DEF Requests, Apart, Served
<1>8. Numbering' <=> /\ call'.id \in Ids \cup {0}
                     /\ call'.fn \in {"none", "recv"} => call'.id = 0
                     /\ outstanding' \subseteq Ids
                     /\ call'.id \notin outstanding'
  BY <1>3, <1>6, Zenon DEF Requests, Numbering, Ids
<1>9. CASE n < l /\ UNCHANGED <<pc, call, outstanding>> /\ out' = SubSeq(out, n + 1, l)
  <2>1. Len(out') = l - n /\ \A j \in 1 .. l - n : out'[j] = out[n + j] /\ n + j \in 1 .. l
    BY <1>1, <1>9
  <2>2. s - l + (n + 0) = s - Len(out') /\ Len(out') \in 1 .. s
        /\ \A j \in 1 .. Len(out') : s - l + (n + j) = s - Len(out') + j
    BY <1>1, <1>9, <2>1
  <2>3. Sending'
    <3>1. ASSUME NEW j \in 1 .. Len(out')
          PROVE  out'[j] = [fn |-> call.fn, id |-> call.id, i |-> s - Len(out') + j]
      <4>1. out'[j] = out[n + j] /\ n + j \in 1 .. l /\ s - l + (n + j) = s - Len(out') + j
        BY <2>1, <2>2
      <4> HIDE DEF s, l
      <4> QED
        BY <1>2, <4>1, Zenon
    <3> QED
      BY <1>1, <1>3, <1>9, <2>2, <3>1, Zenon DEF Sending, Ids
  <2>4. Wire'
    BY <1>1, <1>6, <1>9, <2>2 DEF Wire
  <2>5. Numbering' /\ Apart'
    BY <1>7, <1>8, <1>9, <1>3, Zenon DEF Requests, Numbering, Apart, Served
  <2> QED
    BY <2>3, <2>4, <2>5 DEF Requests
<1>10. CASE \/ pc' = "header" /\ UNCHANGED <<call, outstanding>>
            \/ pc' = "idle" /\ call' = NoCall /\ outstanding' \subseteq outstanding \cup {call.id}
  <2>1. Sending' /\ Wire' /\ Apart'
    BY <1>6, <1>7, <1>10, Zenon DEF Sending, Wire
  <2>2. 0 \notin Ids
    BY DEF Ids
  <2>3. Numbering'
    BY <1>1, <1>8, <1>10, <2>2 DEF Requests, Numbering, NoCall
  <2> QED
    BY <2>1, <2>3, Zenon DEF Requests
<1> QED
  BY <1>1, <1>9, <1>10, Zenon DEF SendSome, Return

(* The server takes a request that is no longer being sent. *)
LEMMA TakesRequests ==
  ASSUME Types, Requests, ServerTakes
  PROVE  Requests'
<1> DEFINE id == c2s[1].id
           n == Span(c2s[1].fn)
<1>1. /\ \A j \in 1 .. Len(c2s') : /\ c2s'[j] = c2s[n + j] /\ n + j \in 1 .. Len(c2s)
                                   /\ c2s'[j].id # id
      /\ n \in 1 .. 2 /\ 1 \in 1 .. Len(c2s) /\ n \in 1 .. Len(c2s) /\ id \in Ids
      /\ c2s[n].id = id /\ c2s[n].i = n /\ c2s[n].fn = c2s[1].fn
  <2>1. Complete(c2s) /\ Wire
    BY Zenon DEF ServerTakes, Requests
  <2>2. /\ n \in 1 .. 2 /\ n <= Len(c2s)
        /\ \A j \in 1 .. n : c2s[j].id = id /\ c2s[j].i = j /\ c2s[j].fn = c2s[1].fn
    BY <2>1, CompleteRequest, Zenon
  <2>3. \A j \in 1 .. Len(c2s') : /\ c2s'[j] = c2s[n + j] /\ n + j \in 1 .. Len(c2s)
                                  /\ c2s'[j].id # id
    BY <2>1, TakenRest, Zenon
  <2>4. n \in 1 .. n /\ 1 \in 1 .. Len(c2s) /\ n \in 1 .. Len(c2s)
    BY <2>2 DEF Types, CallTypes
  <2> HIDE DEF n
  <2> QED
    BY <2>2, <2>3, <2>4, Zenon DEF Requests, Numbering
<1>2. ~Served(id) /\ (pc = "sending" => call.id # id)
  <2>1. ~Served(id)
    BY <1>1, Zenon DEF Requests, Apart
  <2>2. ASSUME pc = "sending", call.id = id PROVE FALSE
    <3>1. c2s[n].fn = call.fn /\ n <= Span(call.fn) - Len(out) /\ Len(out) >= 1 /\ n = Span(call.fn)
          /\ Len(out) \in Nat
      BY <1>1, <2>2 DEF Requests, Wire, Sending, Types, CallTypes
    <3> QED
      BY <1>1, <3>1, SMTT(30)
  <2> QED
    BY <2>1, <2>2, Zenon
<1>3. UNCHANGED <<next_call_id, pc, call, out, outstanding>>
  BY Zenon DEF ServerTakes, client, history
<1>4. /\ log \in Seq(Packets) /\ Len(log) \in Nat
      /\ \/ owed' \subseteq owed \cup {id} /\ UNCHANGED log
         \/ /\ UNCHANGED owed /\ Len(log') = Len(log) + 1
            /\ \A p \in 1 .. Len(log) : log'[p] = log[p]
            /\ log'[Len(log) + 1].call_id = id
  <2>1. log \in Seq(Packets) /\ Len(log) \in Nat
    BY DEF Types, Streams
  <2>2. \/ owed' \subseteq owed \cup {id} /\ UNCHANGED log
        \/ UNCHANGED owed /\ Queue("response", id, 0, TRUE)
    BY Zenon DEF ServerTakes
  <2>3. CASE UNCHANGED owed /\ Queue("response", id, 0, TRUE)
    <3> DEFINE k == [op |-> "response", call_id |-> id, size |-> 0, whole |-> TRUE]
    <3>1. log' = Append(log, k) /\ k.call_id = id
      BY <2>3, Zenon DEF Queue
    <3> HIDE DEF k, id
    <3> QED
      BY <2>1, <2>3, <3>1
  <2> QED
    BY <2>1, <2>2, <2>3, Zenon
<1> HIDE DEF id, n
<1>5. \A x : Served(x)' => Served(x) \/ x = id
  BY <1>4 DEF Served
<1>6. Numbering'
  <2>1. \A j \in 1 .. Len(c2s') : c2s'[j].id \in Ids
    <3> TAKE j \in 1 .. Len(c2s')
    <3> QED
      BY <1>1, Zenon DEF Requests, Numbering
  <2>2. owed' \subseteq Ids
    BY <1>1, <1>4, Zenon DEF Requests, Numbering
  <2>3. \A p \in 1 .. Len(log') : log'[p].call_id \in Ids
    <3>1. \A p \in 1 .. Len(log) : log[p].call_id \in Ids
      BY Zenon DEF Requests, Numbering
    <3> QED
      BY <1>1, <1>4, <3>1
  <2>4. Ids' = Ids
    BY <1>3, Zenon DEF Ids
  <2> QED
    BY <1>3, <2>1, <2>2, <2>3, <2>4, Zenon DEF Requests, Numbering
<1>7. Sending'
  BY <1>3, Zenon DEF Requests, Sending, Ids
<1>8. Wire'
  <2>1. ASSUME NEW j \in 1 .. Len(c2s')
        PROVE  /\ c2s'[j].i \in 1 .. Span(c2s'[j].fn)
               /\ pc' = "sending" /\ c2s'[j].id = call'.id =>
                    c2s'[j].fn = call'.fn /\ c2s'[j].i <= Span(call'.fn) - Len(out')
    <3>1. c2s'[j] = c2s[n + j] /\ n + j \in 1 .. Len(c2s)
      BY <1>1, Zenon
    <3> QED
      BY <1>3, <3>1, Zenon DEF Requests, Wire
  <2>2. ASSUME NEW j \in 1 .. Len(c2s'), NEW k \in 1 .. Len(c2s'), c2s'[j].id = c2s'[k].id
        PROVE  c2s'[j].fn = c2s'[k].fn /\ (c2s'[j].i = c2s'[k].i => j = k)
    <3>1. /\ c2s'[j] = c2s[n + j] /\ n + j \in 1 .. Len(c2s)
          /\ c2s'[k] = c2s[n + k] /\ n + k \in 1 .. Len(c2s)
      BY <1>1, Zenon
    <3>2. n + j = n + k => j = k
      BY <1>1
    <3> QED
      BY <2>2, <3>1, <3>2 DEF Requests, Wire
  <2> QED
    BY <2>1, <2>2, Zenon DEF Wire
<1>9. Apart'
  <2>1. ASSUME NEW j \in 1 .. Len(c2s') PROVE ~Served(c2s[j].id)'
    <3>1. c2s'[j] = c2s[n + j] /\ n + j \in 1 .. Len(c2s) /\ c2s'[j].id # id
      BY <1>1, Zenon
    <3>2. ~Served(c2s'[j].id)
      BY <3>1, Zenon DEF Requests, Apart
    <3> QED
      BY <1>5, <3>1, <3>2, Zenon DEF Served
  <2>2. ASSUME pc' = "sending" PROVE ~Served(call.id)'
    <3>1. ~Served(call.id) /\ call.id # id
      BY <1>2, <1>3, <2>2, Zenon DEF Requests, Apart
    <3> QED
      BY <1>3, <1>5, <3>1, Zenon DEF Served
  <2>3. (\A p \in 1 .. Len(log) : log[p].call_id # id) /\ id \notin owed
    BY <1>2, Zenon DEF Served
  <2>4. \A p \in 1 .. Len(log') : log'[p].call_id \notin owed'
    BY <1>4, <2>3 DEF Requests, Apart
  <2>5. \A p, q \in 1 .. Len(log') : log'[p].call_id = log'[q].call_id => p = q
    <3> TAKE p \in 1 .. Len(log'), q \in 1 .. Len(log')
    <3>1. \A a, b \in 1 .. Len(log) : log[a].call_id = log[b].call_id => a = b
      BY Zenon DEF Requests, Apart
    <3> QED
      BY <1>4, <2>3, <3>1
  <2> QED
    BY <2>1, <2>2, <2>4, <2>5, Zenon DEF Apart
<1> QED
  BY <1>6, <1>7, <1>8, <1>9, Zenon DEF Requests

(* The server answers a request it has taken. *)
LEMMA AnswersRequests ==
  ASSUME Types, Requests, NEW id \in owed, ServerAnswers(id)
  PROVE  Requests'
<1>1. /\ log \in Seq(Packets) /\ Len(log) \in Nat /\ Len(log') = Len(log) + 1
      /\ \A p \in 1 .. Len(log) : log'[p] = log[p]
      /\ log'[Len(log) + 1].call_id = id
      /\ owed' = owed \ {id}
  <2>1. log \in Seq(Packets) /\ Len(log) \in Nat /\ owed' = owed \ {id}
    BY DEF Types, Streams, ServerAnswers
  <2>2. PICK op \in {"response", "error"}, size \in BodySizes, whole \in BOOLEAN :
          log' = Append(log, [op |-> op, call_id |-> id, size |-> size, whole |-> whole])
    BY Zenon DEF ServerAnswers, Queue
  <2> DEFINE k == [op |-> op, call_id |-> id, size |-> size, whole |-> whole]
  <2>3. log' = Append(log, k) /\ k.call_id = id
    BY <2>2, Zenon
  <2> HIDE DEF k
  <2> QED
    BY <2>1, <2>3
<1>2. UNCHANGED <<next_call_id, c2s, pc, call, out, outstanding>>
  BY Zenon DEF ServerAnswers, client, history
<1>3. \A p \in 1 .. Len(log) : log[p].call_id # id
  BY Zenon DEF Requests, Apart
<1>4. Numbering'
  <2>1. \A p \in 1 .. Len(log') : log'[p].call_id \in Ids
    <3>1. id \in Ids /\ \A p \in 1 .. Len(log) : log[p].call_id \in Ids
      BY Zenon DEF Requests, Numbering
    <3> QED
      BY <1>1, <3>1
  <2>2. owed' \subseteq Ids
    BY <1>1, Zenon DEF Requests, Numbering
  <2> QED
    BY <1>2, <2>1, <2>2, Zenon DEF Requests, Numbering, Ids
<1>5. Sending' /\ Wire'
  <2>1. Sending'
    BY <1>2, Zenon DEF Requests, Sending, Ids
  <2>2. Wire'
    BY <1>2, ZenonT(40) DEF Requests, Wire
  <2> QED
    BY <2>1, <2>2, Zenon
<1>6. Apart'
  <2>1. \A x : Served(x)' => Served(x)
    BY <1>1 DEF Served
  <2>2. (\A j \in 1 .. Len(c2s') : ~Served(c2s[j].id)') /\ (pc' = "sending" => ~Served(call.id)')
    BY <1>2, <2>1, Zenon DEF Requests, Apart, Served
  <2>3. \A p \in 1 .. Len(log') : log'[p].call_id \notin owed'
    BY <1>1 DEF Requests, Apart
  <2>4. \A p, q \in 1 .. Len(log') : log'[p].call_id = log'[q].call_id => p = q
    <3> TAKE p \in 1 .. Len(log'), q \in 1 .. Len(log')
    <3>1. \A a, b \in 1 .. Len(log) : log[a].call_id = log[b].call_id => a = b
      BY Zenon DEF Requests, Apart
    <3> QED
      BY <1>1, <1>3, <3>1
  <2> QED
    BY <2>2, <2>3, <2>4, Zenon DEF Apart
<1> QED
  BY <1>4, <1>5, <1>6, Zenon DEF Requests

(* Every step keeps the account of the requests. *)
LEMMA RequestsStep ==
  ASSUME Types, Requests, [Next]_vars
  PROVE  Requests'
<1> USE DEF client, server, history
<1>1. CASE ServerTakes
  BY <1>1, TakesRequests, Zenon
<1>2. CASE \E id \in owed : ServerAnswers(id)
  BY <1>2, AnswersRequests, Zenon
<1>3. CASE \E fn \in Fns : Begin(fn)
  BY <1>3, BeginRequests, Zenon
<1>4. CASE \E n \in 1 .. 2 : SendSome(n)
  BY <1>4, SendRequests, Zenon
<1>5. CASE \/ ServerRejects \/ ServerCloses \/ Connect \/ (\E i \in IntegrityChoices : SetIntegrity(i))
           \/ (\E n \in 1 .. Len(s2c) : ReadFill(n)) \/ UNCHANGED vars
  <2>1. UNCHANGED <<next_call_id, c2s, owed, log, outstanding, pc, call, out>>
    BY <1>5, Zenon DEF ServerRejects, ServerCloses, Connect, SetIntegrity, ReadFill, vars
  <2> QED
    BY <2>1, RequestsKept, Zenon
<1>6. CASE SendFails \/ VerifyFails \/ BodyFails \/ ReadEnds \/ ReserveFails
  <2>1. /\ UNCHANGED <<next_call_id, c2s, owed, log, outstanding>>
        /\ pc' = "idle" /\ call' = NoCall
    BY <1>6, Zenon DEF SendFails, VerifyFails, BodyFails, ReadEnds, ReserveFails, Fails, Return
  <2> QED
    BY <2>1, RequestsKept, Zenon
<1>7. CASE HeaderRead
  <2>1. /\ UNCHANGED <<next_call_id, c2s, owed, log, outstanding>>
        /\ (pc' = "idle" /\ call' = NoCall) \/ (pc' = "body" /\ UNCHANGED call)
    BY <1>7, Zenon DEF HeaderRead, Fails, Return
  <2> QED
    BY <2>1, RequestsKept, Zenon
<1>8. CASE BeginRecv
  <2>1. /\ UNCHANGED <<next_call_id, c2s, owed, log, outstanding>>
        /\ pc' = "header" /\ call' = [fn |-> "recv", id |-> 0]
    BY <1>8, Zenon DEF BeginRecv
  <2> QED
    BY <2>1, RequestsKept, Zenon
<1>9. CASE PacketTaken
  <2>1. /\ UNCHANGED <<next_call_id, c2s, owed, log>> /\ outstanding' \subseteq outstanding
        /\ pc' = "idle" /\ call' = NoCall
    BY <1>9, Zenon DEF PacketTaken, Return
  <2> QED
    BY <2>1, RequestsKept, Zenon
<1> QED
  BY <1>1, <1>2, <1>3, <1>4, <1>5, <1>6, <1>7, <1>8, <1>9, Zenon
  DEF Next, ServerNext, LibraryNext, ResourceNext, ApplicationNext, Fns

=============================================================================
