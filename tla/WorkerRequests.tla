--------------------------- MODULE WorkerRequests ---------------------------
(***************************************************************************)
(* What happens to a request: packets are read in order, each is handled   *)
(* once, and a request waits in one place or is answered. The conjuncts of *)
(* WorkerInv that say so, AnsweredAtMostOnce among them, and the steps     *)
(* that may answer the wrong connection.                                   *)
(***************************************************************************)
EXTENDS WorkerLemmas

(* The packets of the buffer follow those already seen, in order. *)
LEMMA BufferFacts ==
  ASSUME WorkerInv, pc \in {"parse", "return"}, rbuf # <<>>
  PROVE  /\ Len(rbuf) \in Nat /\ Len(rbuf) > 0 /\ Len(Tail(rbuf)) = Len(rbuf) - 1 /\ Len(<<>>) = 0
         /\ Taken(cur.sock) \in Int /\ Len(rbuf) <= Taken(cur.sock)
         /\ Head(rbuf).id = Taken(cur.sock) - Len(rbuf) + 1
         /\ \A i \in 1 .. Len(rbuf) - 1 : Tail(rbuf)[i].id = Taken(cur.sock) - (Len(rbuf) - 1) + i
<1>1. rbuf \in Seq(Packets) BY Zenon DEF WorkerInv, TypeOK
<1>2. /\ Head(rbuf) = rbuf[1] /\ Len(rbuf) \in Nat /\ Len(rbuf) > 0 /\ Len(Tail(rbuf)) = Len(rbuf) - 1
      /\ \A i \in 1 .. Len(rbuf) - 1 : Tail(rbuf)[i] = rbuf[i + 1]
  BY <1>1, HeadTail, Zenon
<1>3. cur.conn # 0 /\ cur.sock \in Socks
  BY Handled, Zenon DEF WorkerInv, Phases, Handling
<1>4. Taken(cur.sock) \in Int
  <2>1. sent[cur.sock] \in 0 .. MaxPackets /\ inbox[cur.sock] \in Seq(Packets)
    BY <1>3, Zenon DEF WorkerInv, TypeOK
  <2>2. sent[cur.sock] \in Int /\ Len(inbox[cur.sock]) \in Nat
    BY <2>1, WorkerAssumptions DEF WorkerAssumptions
  <2> QED BY <2>2 DEF Taken
<1>5. /\ Len(rbuf) <= Taken(cur.sock)
      /\ \A i \in 1 .. Len(rbuf) : rbuf[i].id = Taken(cur.sock) - Len(rbuf) + i
  BY <1>3, Zenon DEF WorkerInv, PacketsInOrder
<1>6. Head(rbuf).id = Taken(cur.sock) - Len(rbuf) + 1
  <2>1. 1 \in 1 .. Len(rbuf) BY <1>2
  <2> QED BY <1>2, <1>5, <2>1, Zenon
<1>7. ASSUME NEW i \in 1 .. Len(rbuf) - 1 PROVE Tail(rbuf)[i].id = Taken(cur.sock) - (Len(rbuf) - 1) + i
  <2>1. i + 1 \in 1 .. Len(rbuf) BY <1>2
  <2>2. rbuf[i + 1].id = Taken(cur.sock) - Len(rbuf) + (i + 1) BY <1>5, <2>1, Zenon
  <2>3. Tail(rbuf)[i] = rbuf[i + 1] BY <1>2, Zenon
  <2> QED BY <1>2, <1>4, <2>2, <2>3
<1> QED BY <1>2, <1>4, <1>5, <1>6, <1>7, Zenon

(* A step that takes a packet, or the whole buffer, off the buffer. *)
LEMMA BufferShrinks ==
  ASSUME WorkerInv, pc \in {"parse", "return"}, rbuf # <<>>, rbuf' = Tail(rbuf) \/ rbuf' = <<>> \/ rbuf' = rbuf,
         UNCHANGED <<sent, inbox, cur>>
  PROVE  PacketsInOrder'
<1>1. PacketsInOrder BY Zenon DEF WorkerInv
<1>2. Taken(cur.sock)' = Taken(cur.sock) /\ \A s \in Socks : Taken(s)' = Taken(s) BY Zenon DEF Taken
<1>3. /\ Len(rbuf) \in Nat /\ Len(rbuf) > 0 /\ Len(Tail(rbuf)) = Len(rbuf) - 1 /\ Len(<<>>) = 0
      /\ Taken(cur.sock) \in Int /\ Len(rbuf) <= Taken(cur.sock)
      /\ \A i \in 1 .. Len(rbuf) - 1 : Tail(rbuf)[i].id = Taken(cur.sock) - (Len(rbuf) - 1) + i
  BY BufferFacts, Zenon
<1>4. /\ Len(rbuf') <= Taken(cur.sock)
      /\ \A i \in 1 .. Len(rbuf') : rbuf'[i].id = Taken(cur.sock) - Len(rbuf') + i
  <2>1. CASE rbuf' = Tail(rbuf) BY <1>3, <2>1
  <2>2. CASE rbuf' = <<>>
    <3>1. \A i \in 1 .. 0 : FALSE OBVIOUS
    <3> QED BY <1>3, <2>2, <3>1
  <2>3. CASE rbuf' = rbuf
    <3>1. cur.conn # 0 BY Zenon DEF WorkerInv, Phases, Handling
    <3> QED BY <1>1, <2>3, <3>1, Zenon DEF PacketsInOrder
  <2> QED BY <2>1, <2>2, <2>3, Zenon
<1> QED BY <1>1, <1>2, <1>4, Zenon DEF PacketsInOrder

(* Packets are read and parsed in the order they were sent. *)
LEMMA PacketsStep == WorkerInv /\ [Next]_vars => PacketsInOrder'
<1> SUFFICES ASSUME WorkerInv, [Next]_vars PROVE PacketsInOrder'
  BY Zenon
<1>0. TypeOK /\ PacketsInOrder BY Zenon DEF WorkerInv
<1> USE DEF clientVars, sharedVars, workerVars, otherVars, parseVars
<1>1. CASE UNCHANGED <<sent, inbox, cur, rbuf>>
  BY <1>0, <1>1, Zenon DEF PacketsInOrder, Taken
<1>2. CASE ConnectionEvent
  <2>1. rbuf = <<>> /\ UNCHANGED <<sent, inbox, rbuf>>
    BY <1>2, Zenon DEF ConnectionEvent, WorkerInv, Phases
  <2>2. PICK e \in batch : e.conn # 0 /\ cur' = e BY <1>2, Zenon DEF ConnectionEvent
  <2>3. e.sock \in Socks
    <3>1. e.conn \in ConnSlots /\ ~conn[e.conn].detached /\ conn[e.conn].sock = e.sock /\ conn[e.conn] \in Connections
      BY <2>2, Zenon DEF WorkerInv, TypeOK, Events, EventsCurrent, EventsNotStale
    <3> QED BY <3>1, Zenon DEF WorkerInv, ConnectionStates, Connections
  <2>4. Len(inbox[e.sock]) <= sent[e.sock] BY <1>0, <2>3, Zenon DEF PacketsInOrder
  <2>5. sent[e.sock] \in Int /\ Len(inbox[e.sock]) \in Int
    BY <1>0, <2>3, WorkerAssumptions DEF TypeOK, WorkerAssumptions
  <2>6. Len(rbuf') = 0 /\ 0 <= Taken(e.sock) /\ \A i \in 1 .. 0 : FALSE
    BY <2>1, <2>4, <2>5 DEF Taken
  <2>7. /\ Len(rbuf') <= Taken(e.sock)
        /\ \A i \in 1 .. Len(rbuf') : rbuf'[i].id = Taken(e.sock) - Len(rbuf') + i
    BY <2>6, Zenon
  <2> QED BY <1>0, <2>1, <2>2, <2>7, Zenon DEF PacketsInOrder, Taken
<1>3. CASE Recv
  <2>0. cur.sock \in Socks /\ conn[cur.conn].sock = cur.sock /\ cur.conn # 0
    BY <1>3, Handled, Zenon DEF Recv, Handling, WorkerInv, Phases
  <2>1. PICK s \in Socks : conn[cur.conn].sock = s /\ cur.sock = s BY <2>0, Zenon
  <2> DEFINE q == inbox[s]
  <2>2. UNCHANGED <<sent, cur>> BY <1>3, Zenon DEF Recv
  <2>3. CASE UNCHANGED <<inbox, rbuf>> BY <1>1, <2>2, <2>3, Zenon
  <2>4. ASSUME NEW n \in 1 .. Len(q), rbuf' = SubSeq(q, 1, n),
               inbox' = [inbox EXCEPT ![s] = SubSeq(q, n + 1, Len(q))]
        PROVE  PacketsInOrder'
    <3> DEFINE t == SubSeq(q, 1, n)
               u == SubSeq(q, n + 1, Len(q))
    <3>1. q \in Seq(Packets) /\ Len(q) \in Nat /\ n \in Nat /\ n <= Len(q) BY <1>0, <2>1 DEF TypeOK
    <3>2. /\ Len(t) = n /\ Len(u) = Len(q) - n
          /\ \A i \in 1 .. n : t[i] = q[i]
          /\ \A i \in 1 .. Len(q) - n : u[i] = q[i + n]
      BY <3>1, SubSeqFacts, SMTT(30)
    <3>3. sent[s] \in Nat /\ Len(q) <= sent[s] /\ \A i \in 1 .. Len(q) : q[i].id = sent[s] - Len(q) + i
      <4>1. sent[s] \in 0 .. MaxPackets BY <1>0, <2>1, Zenon DEF TypeOK
      <4>2. sent[s] \in Nat BY <4>1, WorkerAssumptions DEF WorkerAssumptions
      <4>3. Len(q) <= sent[s] /\ \A i \in 1 .. Len(q) : q[i].id = Taken(s) + i
        BY <1>0, <2>1, Zenon DEF PacketsInOrder
      <4> QED BY <4>2, <4>3, Zenon DEF Taken
    <3>4. rbuf' = t /\ inbox'[s] = u /\ \A x \in Socks : x # s => inbox'[x] = inbox[x]
      BY <1>0, <2>1, <2>4, Zenon DEF TypeOK
    <3> HIDE DEF t, u, q
    <3>5. /\ Len(u) <= sent[s]
          /\ \A i \in 1 .. Len(u) : u[i].id = (sent[s] - Len(u)) + i
      <4>1. ASSUME NEW i \in 1 .. Len(q) - n PROVE u[i].id = (sent[s] - Len(u)) + i
        <5>1. i + n \in 1 .. Len(q) BY <3>1
        <5>2. u[i].id = sent[s] - Len(q) + (i + n) BY <3>2, <3>3, <5>1, Zenon
        <5> QED BY <3>1, <3>2, <3>3, <5>2
      <4> QED BY <3>1, <3>2, <3>3, <4>1
    <3>6. /\ n <= sent[s] - Len(u)
          /\ \A i \in 1 .. n : t[i].id = ((sent[s] - Len(u)) - n) + i
      <4>1. ASSUME NEW i \in 1 .. n PROVE t[i].id = ((sent[s] - Len(u)) - n) + i
        <5>1. i \in 1 .. Len(q) BY <3>1
        <5>2. t[i].id = sent[s] - Len(q) + i BY <3>2, <3>3, <5>1, Zenon
        <5> QED BY <3>1, <3>2, <3>3, <5>2
      <4> QED BY <3>1, <3>2, <3>3, <4>1
    <3>7. cur'.sock = s /\ sent' = sent BY <2>1, <2>2, Zenon
    <3>8. Taken(s)' = sent[s] - Len(u) /\ \A x \in Socks : x # s => Taken(x)' = Taken(x)
      BY <3>4, <3>7, Zenon DEF Taken
    <3>9. ASSUME NEW x \in Socks
          PROVE  /\ Len(inbox'[x]) <= sent'[x]
                 /\ \A i \in 1 .. Len(inbox'[x]) : inbox'[x][i].id = Taken(x)' + i
      <4>1. CASE x = s BY <3>4, <3>5, <3>7, <3>8, <4>1, Zenon
      <4>2. CASE x # s BY <1>0, <3>4, <3>7, <3>8, <4>2, SMTT(30) DEF PacketsInOrder
      <4> QED BY <4>1, <4>2, Zenon
    <3>10. Taken(cur.sock)' = Taken(s)' BY <3>7, Zenon DEF Taken
    <3>11. /\ Len(rbuf') <= Taken(cur.sock)'
           /\ \A i \in 1 .. Len(rbuf') : rbuf'[i].id = Taken(cur.sock)' - Len(rbuf') + i
      BY <3>2, <3>4, <3>6, <3>8, <3>10, SMTT(30)
    <3> QED BY <3>9, <3>11, Zenon DEF PacketsInOrder
  <2> QED BY <1>3, <2>1, <2>3, <2>4, Zenon DEF Recv
<1>4. CASE ParseNow
  BY <1>4, BufferShrinks, Zenon DEF ParseNow, Parsing
<1>5. CASE ParseAsync
  BY <1>5, BufferShrinks, Zenon DEF ParseAsync, Parsing
<1>6. CASE ParseDeferred
  BY <1>6, BufferShrinks, Zenon DEF ParseDeferred, Parsing
<1>7. CASE DeferredFailed
  <2>1. rbuf # <<>> BY <1>7, Zenon DEF DeferredFailed, WorkerInv, Phases
  <2> QED BY <1>7, <2>1, BufferShrinks, Zenon DEF DeferredFailed
<1>8. CASE ParseClose
  BY <1>8, BufferShrinks, Zenon DEF ParseClose, Parsing
<1>9. CASE FinishEvent
  <2>1. cur'.conn = 0 /\ UNCHANGED <<sent, inbox>> BY <1>9, Zenon DEF FinishEvent, NoEvent
  <2> QED BY <1>0, <2>1, Zenon DEF PacketsInOrder, Taken
<1>10. ASSUME NEW s \in Socks, Client(s) PROVE PacketsInOrder'
  <2>1. UNCHANGED <<cur, rbuf>> BY <1>10, Zenon DEF Client
  <2>2. CASE UNCHANGED <<sent, inbox>> BY <1>1, <2>1, <2>2, Zenon
  <2>3. ASSUME NEW p, p.id = sent[s] + 1, sent' = [sent EXCEPT ![s] = @ + 1],
               inbox' = [inbox EXCEPT ![s] = Append(@, p)], p \in Packets
        PROVE  PacketsInOrder'
    <3> DEFINE q == inbox[s]
    <3>1. q \in Seq(Packets) /\ sent[s] \in Nat /\ Len(q) <= sent[s] /\ \A i \in 1 .. Len(q) : q[i].id = (sent[s] - Len(q)) + i
      BY <1>0, WorkerAssumptions DEF PacketsInOrder, Taken, TypeOK, WorkerAssumptions
    <3>2. /\ \A x \in Socks : sent'[x] = IF x = s THEN sent[x] + 1 ELSE sent[x]
          /\ \A x \in Socks : inbox'[x] = IF x = s THEN Append(q, p) ELSE inbox[x]
      BY <1>0, <2>3, Zenon DEF TypeOK
    <3> HIDE DEF q
    <3>3. /\ Len(q) \in Nat /\ Len(Append(q, p)) = Len(q) + 1
          /\ \A i \in 1 .. Len(q) : Append(q, p)[i] = q[i]
          /\ Append(q, p)[Len(q) + 1] = p
      BY <2>3, <3>1, AppendFacts
    <3>4. (sent[s] + 1) - (Len(q) + 1) = sent[s] - Len(q) BY <3>1, <3>3
    <3>5. \A x \in Socks : Taken(x)' = Taken(x) BY <3>2, <3>3, <3>4, Zenon DEF Taken, q
    <3>6. ASSUME NEW i \in 1 .. Len(q) + 1 PROVE Append(q, p)[i].id = (sent[s] - Len(q)) + i
      <4>1. CASE i = Len(q) + 1 BY <2>3, <3>1, <3>3, <4>1
      <4>2. CASE i # Len(q) + 1 BY <3>1, <3>3, <4>2
      <4> QED BY <4>1, <4>2, Zenon
    <3>7. Len(q) + 1 <= sent[s] + 1 BY <3>1, <3>3
    <3>8. Taken(s) = sent[s] - Len(q) BY Zenon DEF Taken, q
    <3>9. ASSUME NEW x \in Socks
          PROVE  /\ Len(inbox'[x]) <= sent'[x]
                 /\ \A i \in 1 .. Len(inbox'[x]) : inbox'[x][i].id = Taken(x)' + i
      <4>1. CASE x = s BY <3>2, <3>3, <3>5, <3>6, <3>7, <3>8, <4>1, Zenon
      <4>2. CASE x # s BY <1>0, <3>2, <3>5, <4>2, Zenon DEF PacketsInOrder
      <4> QED BY <4>1, <4>2, Zenon
    <3>10. cur.conn # 0 => cur.sock \in Socks
      <4>1. cur.conn # 0 => pc \in Handling BY Zenon DEF WorkerInv, Phases
      <4> QED BY <4>1, Handled, Zenon
    <3> QED BY <1>0, <2>1, <3>5, <3>9, <3>10, Zenon DEF PacketsInOrder
  <2>4. ASSUME NEW kind \in Kinds, Send(s, kind) PROVE PacketsInOrder'
    <3> DEFINE p == [kind |-> kind, id |-> sent[s] + 1]
    <3>1. sent[s] + 1 \in 1 .. MaxPackets /\ sent'[s] = sent[s] + 1
      BY <1>0, <2>4, WorkerAssumptions DEF Send, WorkerAssumptions, TypeOK
    <3>2. p \in Packets /\ p.id = sent[s] + 1 BY <3>1, Zenon DEF Packets
    <3>3. sent' = [sent EXCEPT ![s] = @ + 1] /\ inbox' = [inbox EXCEPT ![s] = Append(@, p)]
      BY <2>4, <3>1, Zenon DEF Send
    <3> HIDE DEF p
    <3> QED BY <2>3, <3>2, <3>3, Zenon
  <2> QED BY <1>10, <2>2, <2>4, Zenon DEF Client, HangUp, Backpressure
<1>11. ASSUME \/ Top \/ Poll \/ WakeEvent \/ AddConnection \/ AllAdopted \/ DrainCompleted
              \/ Drained \/ ParseDone \/ EventsDone \/ RunReady \/ RunDone \/ FlushWrites \/ Wake
              \/ Stop \/ Destroy \/ (\E s \in Socks : Accept(s)) \/ (\E d \in CallSlots : Claim(d))
              \/ (\E d \in CallSlots : QueueCompleted(d))
      PROVE  UNCHANGED <<sent, inbox, cur, rbuf>>
  BY <1>11, Zenon DEF Top, Poll, WakeEvent, TakePending, AddConnection, Registered, NotRegistered,
       AllAdopted, TakeCompleted, DrainCompleted, Drained, ParseDone, EventsDone, RunReady, RunDone,
       FlushWrites, Accept, AboutToWake, Claim, QueueCompleted, Wake, Stop, Destroy
<1> HIDE DEF clientVars, sharedVars, workerVars, otherVars, parseVars
<1> QED BY <1>1, <1>2, <1>3, <1>4, <1>5, <1>6, <1>7, <1>8, <1>9, <1>10, <1>11, ZenonT(40) DEF Next,
           Run, Others,
     Terminated, vars, clientVars, sharedVars

(* How many packets have come and how many have been handled are numbers. *)
LEMMA SeenType ==
  ASSUME TypeOK, NEW s \in Socks
  PROVE  Seen(s) \in Int /\ Taken(s) \in Int /\ Len(rbuf) \in Nat
<1>1. sent[s] \in 0 .. MaxPackets /\ inbox[s] \in Seq(Packets) /\ rbuf \in Seq(Packets)
  BY Zenon DEF TypeOK
<1>2. sent[s] \in Int /\ Len(inbox[s]) \in Nat /\ Len(rbuf) \in Nat
  BY <1>1, WorkerAssumptions DEF WorkerAssumptions
<1>3. Unparsed(s) \in Int /\ Taken(s) \in Int BY <1>2 DEF Unparsed, Taken
<1> QED BY <1>2, <1>3 DEF Seen

(* The packet being parsed is the first its client sent that is not seen,   *)
(* so its request is neither answered nor held.                             *)
LEMMA UnseenRequest ==
  ASSUME WorkerInv, pc = "parse", rbuf # <<>>
  PROVE  /\ Request \in Reqs /\ Request[1] = cur.sock /\ cur.sock \in Socks
         /\ Request[2] = Seen(cur.sock) + 1
         /\ answered[Request] = 0
         /\ \A d \in CallSlots : Awaiting(d) => defer[d].req # Request
         /\ \A i \in DOMAIN ready : ready[i].req # Request
<1>1. /\ Request \in Reqs /\ Request = <<cur.sock, Head(rbuf).id>>
  BY ParsedFacts, Zenon
<1>2. cur.sock \in Socks BY Handled, Zenon DEF Handling
<1>3. /\ Len(rbuf) \in Nat /\ Taken(cur.sock) \in Int /\ Head(rbuf).id = Taken(cur.sock) - Len(rbuf) + 1
  BY BufferFacts, Zenon
<1>4. Seen(cur.sock) = Taken(cur.sock) - Len(rbuf) BY Zenon DEF Seen, Unparsed
<1>5. Request[1] = cur.sock /\ Request[2] = Seen(cur.sock) + 1 /\ Seen(cur.sock) \in Int
  BY <1>1, <1>3, <1>4
<1>6. ~(Request[2] <= Seen(Request[1])) BY <1>5
<1>7. answered[Request] = 0
  <2>1. answered[Request] \in Nat BY <1>1, Zenon DEF WorkerInv, TypeOK
  <2>2. ~(answered[Request] > 0) BY <1>1, <1>6, Zenon DEF WorkerInv, RequestsOnce
  <2> QED BY <2>1, <2>2
<1>8. \A d \in CallSlots : Awaiting(d) => defer[d].req # Request
  BY <1>6, Zenon DEF WorkerInv, RequestsOnce
<1>9. \A i \in DOMAIN ready : ready[i].req # Request
  BY <1>6, Zenon DEF WorkerInv, RequestsOnce
<1> QED BY <1>1, <1>2, <1>5, <1>7, <1>8, <1>9, Zenon

(* Parsing a packet, or giving up the buffer, makes its request seen. *)
LEMMA SeenParsed ==
  ASSUME WorkerInv, pc = "parse", rbuf # <<>>, sent' = sent, inbox' = inbox, cur' = cur,
         \/ (pc' = "parse" /\ (rbuf' = Tail(rbuf) \/ rbuf' = <<>>))
         \/ (pc' = "return" /\ rbuf' = rbuf)
  PROVE  /\ \A s \in Socks : Seen(s) \in Int /\ Seen(s)' \in Int /\ Seen(s)' >= Seen(s)
         /\ \A s \in Socks : s = cur.sock => Seen(s)' >= Seen(s) + 1
<1>1. /\ Len(rbuf) \in Nat /\ Len(rbuf) > 0 /\ Len(Tail(rbuf)) = Len(rbuf) - 1 /\ Len(<<>>) = 0
  BY BufferFacts, Zenon
<1>2. ASSUME NEW s \in Socks
      PROVE  /\ Seen(s) \in Int /\ Seen(s)' \in Int /\ Seen(s)' >= Seen(s)
             /\ s = cur.sock => Seen(s)' >= Seen(s) + 1
  <2>1. Taken(s) \in Int BY SeenType, Zenon DEF WorkerInv
  <2>2. Taken(s)' = Taken(s) BY Zenon DEF Taken
  <2>3. CASE s # cur.sock
    <3>1. Unparsed(s) = 0 /\ Unparsed(s)' = 0 BY <2>3, Zenon DEF Unparsed
    <3> QED BY <2>1, <2>2, <2>3, <3>1 DEF Seen
  <2>4. CASE s = cur.sock
    <3>1. Unparsed(s) = Len(rbuf) BY <2>4, Zenon DEF Unparsed
    <3>2. Unparsed(s)' \in Int /\ Unparsed(s)' <= Len(rbuf) - 1
      <4>1. Unparsed(s)' = IF pc' = "return" THEN Len(rbuf') - 1 ELSE Len(rbuf')
        BY <2>4, Zenon DEF Unparsed
      <4> QED BY <1>1, <4>1
    <3> QED BY <1>1, <2>1, <2>2, <3>1, <3>2 DEF Seen
  <2> QED BY <2>3, <2>4, Zenon
<1> QED BY <1>2, Zenon

(* Steps after which no request waits that did not wait before. *)
LEMMA RequestsKept ==
  ASSUME WorkerInv,
         \A s \in Socks : Seen(s) \in Int /\ Seen(s)' \in Int /\ Seen(s)' >= Seen(s),
         \A r \in Reqs : answered'[r] > 0 => answered[r] > 0 \/ r[2] <= Seen(r[1])',
         \A d \in CallSlots : Awaiting(d)' => /\ Awaiting(d) /\ defer'[d].req = defer[d].req
                                               /\ answered'[defer[d].req] = 0,
         \A i \in DOMAIN ready' : /\ answered'[ready'[i].req] = 0
                                   /\ \E j \in DOMAIN ready : ready'[i].req = ready[j].req,
         \A i, j \in DOMAIN ready' : i # j => ready'[i].req # ready'[j].req
  PROVE  RequestsOnce'
<1>1. RequestsOnce BY Zenon DEF WorkerInv
<1>2. \A r \in Reqs : r[1] \in Socks /\ r[2] \in Int BY DEF Reqs
<1>3. \A r \in Reqs : r[2] <= Seen(r[1]) => r[2] <= Seen(r[1])' BY <1>2
<1>4. \A d \in CallSlots : Awaiting(d) => defer[d].req \in Reqs BY AwaitingFacts, Zenon
<1>5. \A i \in DOMAIN ready : ready[i].req \in Reqs
  <2>1. ready \in Seq(Coroutines) BY Zenon DEF WorkerInv, TypeOK
  <2>2. \A i \in DOMAIN ready : ready[i] \in Coroutines BY <2>1, SeqElements, Zenon
  <2> QED BY <2>2, Zenon DEF Coroutines
<1>6. \A r \in Reqs : answered'[r] > 0 => r[2] <= Seen(r[1])' BY <1>1, <1>3, Zenon DEF RequestsOnce
<1>7. ASSUME NEW d \in CallSlots, Awaiting(d)'
      PROVE  (answered[defer[d].req] = 0 /\ defer[d].req[2] <= Seen(defer[d].req[1]))'
  <2>1. PICK q \in Reqs : q = defer'[d].req /\ answered'[q] = 0 /\ q[2] <= Seen(q[1])'
    BY <1>1, <1>3, <1>4, <1>7, Zenon DEF RequestsOnce
  <2> QED BY <2>1, Zenon DEF Seen, Taken, Unparsed
<1>8. ASSUME NEW d \in CallSlots, NEW x \in CallSlots, Awaiting(d)', Awaiting(x)', d # x
      PROVE  defer'[d].req # defer'[x].req
  <2>1. /\ Awaiting(d) /\ defer'[d].req = defer[d].req
        /\ Awaiting(x) /\ defer'[x].req = defer[x].req
    BY <1>8, Zenon
  <2>2. defer[d].req # defer[x].req BY <1>1, <1>8, <2>1, Zenon DEF RequestsOnce
  <2> QED BY <2>1, <2>2, Zenon
<1>9. ASSUME NEW i \in DOMAIN ready'
      PROVE  (answered[ready[i].req] = 0 /\ ready[i].req[2] <= Seen(ready[i].req[1]))'
  <2>1. PICK q \in Reqs : q = ready'[i].req /\ answered'[q] = 0 /\ q[2] <= Seen(q[1])'
    BY <1>1, <1>3, <1>5 DEF RequestsOnce
  <2> QED BY <2>1, Zenon DEF Seen, Taken, Unparsed
<1>10. ASSUME NEW i \in DOMAIN ready', NEW d \in CallSlots, Awaiting(d)'
       PROVE  ready'[i].req # defer'[d].req
  <2>1. PICK j \in DOMAIN ready : ready'[i].req = ready[j].req BY <1>10, Zenon
  <2>2. Awaiting(d) /\ defer'[d].req = defer[d].req BY <1>10, Zenon
  <2>3. ready[j].req # defer[d].req BY <1>1, <2>2, Zenon DEF RequestsOnce
  <2> QED BY <2>1, <2>2, <2>3, Zenon
<1>11. /\ \A d, x \in CallSlots : Awaiting(d)' /\ Awaiting(x)' /\ d # x => defer'[d].req # defer'[x].req
       /\ \A i \in DOMAIN ready' : \A d \in CallSlots : Awaiting(d)' => ready'[i].req # defer'[d].req
  BY <1>8, <1>10, Zenon
<1> QED BY <1>6, <1>7, <1>9, <1>11, Zenon DEF RequestsOnce

(* In particular, steps that answer nothing. *)
LEMMA NothingAnswered ==
  ASSUME WorkerInv,
         \A s \in Socks : Seen(s) \in Int /\ Seen(s)' \in Int /\ Seen(s)' >= Seen(s),
         UNCHANGED <<answered, ready>>,
         \A d \in CallSlots : Awaiting(d)' => Awaiting(d) /\ defer'[d].req = defer[d].req
  PROVE  RequestsOnce'
<1>1. RequestsOnce BY Zenon DEF WorkerInv
<1>2. \A r \in Reqs : answered'[r] > 0 => answered[r] > 0 \/ r[2] <= Seen(r[1])' BY Zenon
<1>3. \A d \in CallSlots : Awaiting(d)' => /\ Awaiting(d) /\ defer'[d].req = defer[d].req
                                            /\ answered'[defer[d].req] = 0
  BY <1>1, Zenon DEF RequestsOnce
<1>4. \A i \in DOMAIN ready' : /\ answered'[ready'[i].req] = 0
                                /\ \E j \in DOMAIN ready : ready'[i].req = ready[j].req
  BY <1>1, Zenon DEF RequestsOnce
<1>5. \A i, j \in DOMAIN ready' : i # j => ready'[i].req # ready'[j].req BY <1>1, ZenonT(40) DEF RequestsOnce
<1> QED BY <1>2, <1>3, <1>4, <1>5, RequestsKept, Zenon

(* A request is unseen, waits in one place, or has been answered. *)
LEMMA RequestsStep == WorkerInv /\ [Next]_vars => RequestsOnce'
<1> SUFFICES ASSUME WorkerInv, [Next]_vars PROVE RequestsOnce'
  BY Zenon
<1>0. TypeOK /\ RequestsOnce BY Zenon DEF WorkerInv
<1> USE DEF clientVars, sharedVars, workerVars, otherVars, parseVars
<1>1. CASE UNCHANGED <<answered, defer, ready, sent, inbox, cur, rbuf, pc>>
  BY <1>0, <1>1, ZenonT(40) DEF RequestsOnce, Seen, Taken, Unparsed, Awaiting
<1>2. CASE Top
  BY <1>0, <1>2, ZenonT(40) DEF Top, RequestsOnce, Seen, Taken, Unparsed, Awaiting
<1>3. CASE Poll
  BY <1>0, <1>3, ZenonT(40) DEF Poll, RequestsOnce, Seen, Taken, Unparsed, Awaiting
<1>4. CASE WakeEvent
  BY <1>0, <1>4, ZenonT(40) DEF WakeEvent, TakePending, RequestsOnce, Seen, Taken, Unparsed, Awaiting
<1>5. CASE AllAdopted
  BY <1>0, <1>5 DEF AllAdopted, TakeCompleted, RequestsOnce, Seen, Taken, Unparsed, Awaiting
<1>6. CASE DrainCompleted
  <2>1. draining # <<>> /\ TypeOK BY <1>0, <1>6, Zenon DEF DrainCompleted
  <2>2. PICK d \in CallSlots : d = Head(draining) /\ Awaiting(d) BY <2>1, DrainedFacts, Zenon
  <2>3. PICK q \in Reqs : q = defer[d].req BY <2>2, AwaitingFacts, Zenon
  <2>4. \A s \in Socks : Seen(s) \in Int /\ Seen(s)' = Seen(s)
    BY <2>1, <1>6, SeenType, Zenon DEF DrainCompleted, Seen, Taken, Unparsed
  <2>5. \A x \in CallSlots : defer'[x] = IF x = d THEN [conn |-> 0, req |-> <<>>, state |-> "free"] ELSE defer[x]
    BY <1>0, <1>6, <2>2, Zenon DEF DrainCompleted, TypeOK
  <2>6. \A r \in Reqs : r # q => answered'[r] = answered[r]
    BY <1>0, <1>6, <2>2, <2>3, Zenon DEF DrainCompleted, Account, TypeOK
  <2>7. q[2] <= Seen(q[1]) /\ q[1] \in Socks /\ q[2] \in Int
    BY <1>0, <2>2, <2>3 DEF RequestsOnce, Reqs
  <2>8. \A r \in Reqs : answered'[r] > 0 => answered[r] > 0 \/ r[2] <= Seen(r[1])'
    BY <2>4, <2>6, <2>7, Zenon
  <2>9. \A x \in CallSlots : Awaiting(x)' => /\ Awaiting(x) /\ defer'[x].req = defer[x].req
                                             /\ answered'[defer[x].req] = 0
    <3>1. ASSUME NEW x \in CallSlots, Awaiting(x)' PROVE x # d /\ Awaiting(x) /\ defer'[x] = defer[x]
      BY <2>5, <3>1 DEF Awaiting
    <3>2. \A x \in CallSlots : Awaiting(x) /\ x # d => answered[defer[x].req] = 0 /\ defer[x].req # q /\ defer[x].req \in Reqs
      BY <1>0, <2>2, <2>3, AwaitingFacts, Zenon DEF RequestsOnce
    <3> QED BY <2>6, <3>1, <3>2, Zenon
  <2>10. ready' = ready BY <1>6, Zenon DEF DrainCompleted
  <2>11. \A i \in DOMAIN ready' : /\ answered'[ready'[i].req] = 0
                                  /\ \E j \in DOMAIN ready : ready'[i].req = ready[j].req
    <3>1. \A i \in DOMAIN ready : answered[ready[i].req] = 0 /\ ready[i].req # q /\ ready[i].req \in Reqs
      <4>1. ready \in Seq(Coroutines) BY <1>0, Zenon DEF TypeOK
      <4>2. \A i \in DOMAIN ready : ready[i] \in Coroutines BY <4>1
      <4> QED BY <1>0, <2>2, <2>3, <4>2, Zenon DEF RequestsOnce, Coroutines
    <3> QED BY <2>6, <2>10, <3>1, Zenon
  <2>12. \A i, j \in DOMAIN ready' : i # j => ready'[i].req # ready'[j].req
    BY <1>0, <2>10 DEF RequestsOnce
  <2>13. \A s \in Socks : Seen(s) \in Int /\ Seen(s)' \in Int /\ Seen(s)' >= Seen(s) BY <2>4, SMTT(30)
  <2> QED BY <2>8, <2>9, <2>11, <2>12, <2>13, RequestsKept, Zenon
<1>7. CASE Drained
  BY <1>0, <1>7 DEF Drained, RequestsOnce, Seen, Taken, Unparsed, Awaiting
<1>8. CASE ConnectionEvent
  <2>1. rbuf = <<>> /\ UNCHANGED <<sent, inbox, rbuf, answered, ready, defer>> /\ pc # "return" /\ pc' # "return" /\ TypeOK
    BY <1>0, <1>8, Zenon DEF ConnectionEvent, WorkerInv, Phases
  <2>2. Len(<<>>) = 0 BY Zenon
  <2>3. \A s \in Socks : Unparsed(s) = 0 /\ Unparsed(s)' = 0 /\ Taken(s)' = Taken(s)
    BY <2>1, <2>2, Zenon DEF Unparsed, Taken
  <2>4. \A s \in Socks : Seen(s) \in Int /\ Seen(s)' \in Int /\ Seen(s)' >= Seen(s)
    BY <2>1, <2>3, SeenType DEF Seen
  <2>5. \A d \in CallSlots : Awaiting(d)' => Awaiting(d) /\ defer'[d].req = defer[d].req
    BY <2>1, Zenon DEF Awaiting
  <2> QED BY <2>1, <2>4, <2>5, NothingAnswered, Zenon
<1>9. CASE Recv
  <2>1. UNCHANGED <<sent, cur, answered, ready, defer>> /\ pc = "recv" /\ pc' # "return" /\ TypeOK /\ rbuf = <<>>
    BY <1>0, <1>9, Zenon DEF Recv, WorkerInv, Phases
  <2>2. conn[cur.conn].sock = cur.sock /\ cur.sock \in Socks BY <2>1, Handled, Zenon DEF Handling
  <2>3. ASSUME NEW s \in Socks PROVE Seen(s) \in Int /\ Seen(s)' = Seen(s)
    <3>0. Seen(s) \in Int BY <2>1, SeenType, Zenon
    <3>1. CASE UNCHANGED <<inbox, rbuf>> BY <2>1, <3>0, <3>1, Zenon DEF Seen, Taken, Unparsed
    <3>2. CASE s # cur.sock
      <4>1. inbox'[s] = inbox[s] BY <1>0, <1>9, <2>2, <3>2, Zenon DEF Recv, TypeOK
      <4> QED BY <2>1, <3>0, <3>2, <4>1, Zenon DEF Seen, Taken, Unparsed
    <3>3. ASSUME s = cur.sock, NEW n \in 1 .. Len(inbox[s]), rbuf' = SubSeq(inbox[s], 1, n),
                 inbox' = [inbox EXCEPT ![s] = SubSeq(@, n + 1, Len(@))]
          PROVE  Seen(s)' = Seen(s)
      <4>1. inbox[s] \in Seq(Packets) /\ sent[s] \in 0 .. MaxPackets /\ n \in Nat BY <1>0 DEF TypeOK
      <4>2. Len(rbuf') = n /\ Len(inbox'[s]) = Len(inbox[s]) - n
        BY <1>0, <3>3, <4>1, SubSeqFacts, SMTT(30) DEF TypeOK
      <4>3. sent[s] \in Int /\ Len(inbox[s]) \in Nat
        BY <4>1, WorkerAssumptions DEF WorkerAssumptions
      <4>4. Len(rbuf) = 0 BY <2>1, Zenon
      <4>5. Unparsed(s) = 0 /\ Unparsed(s)' = n BY <2>1, <3>3, <4>2, <4>4, Zenon DEF Unparsed
      <4>6. Taken(s) = sent[s] - Len(inbox[s]) /\ Taken(s)' = sent[s] - (Len(inbox[s]) - n)
        BY <2>1, <4>2, Zenon DEF Taken
      <4> QED BY <4>1, <4>3, <4>5, <4>6 DEF Seen
    <3> QED BY <1>9, <2>2, <3>0, <3>1, <3>2, <3>3, Zenon DEF Recv
  <2>4. \A d \in CallSlots : Awaiting(d)' => Awaiting(d) /\ defer'[d].req = defer[d].req
    BY <2>1, Zenon DEF Awaiting
  <2>5. \A s \in Socks : Seen(s) \in Int /\ Seen(s)' \in Int /\ Seen(s)' >= Seen(s) BY <2>3
  <2> QED BY <2>1, <2>4, <2>5, NothingAnswered, Zenon
<1>10. CASE ParseNow
  <2>1. pc = "parse" /\ pc' = "parse" /\ rbuf # <<>> /\ UNCHANGED <<sent, inbox, cur, ready, defer>>
        /\ (rbuf' = Tail(rbuf) \/ rbuf' = <<>>)
    BY <1>10, Zenon DEF ParseNow, Parsing
  <2>2. PICK q \in Reqs : q = Request BY <2>1, UnseenRequest, Zenon
  <2>3. /\ \A s \in Socks : Seen(s) \in Int /\ Seen(s)' \in Int /\ Seen(s)' >= Seen(s)
        /\ \A s \in Socks : s = cur.sock => Seen(s)' >= Seen(s) + 1
    BY <2>1, SeenParsed, Zenon
  <2>4. /\ q[1] = cur.sock /\ cur.sock \in Socks /\ q[2] = Seen(cur.sock) + 1
        /\ \A d \in CallSlots : Awaiting(d) => defer[d].req # q
        /\ \A i \in DOMAIN ready : ready[i].req # q
    BY <2>1, <2>2, UnseenRequest, Zenon
  <2>5. q[2] <= Seen(q[1])'
    <3>1. PICK s \in Socks : s = cur.sock BY <2>4, Zenon
    <3>2. Seen(cur.sock) = Seen(s) /\ q[1] = s BY <2>4, <3>1, Zenon
    <3> QED BY <2>3, <2>4, <3>1, <3>2, Zenon
  <2>6. \A r \in Reqs : r # q => answered'[r] = answered[r]
    BY <1>0, <1>10, <2>2, Zenon DEF ParseNow, Account, TypeOK
  <2>7. \A r \in Reqs : answered'[r] > 0 => answered[r] > 0 \/ r[2] <= Seen(r[1])' BY <2>5, <2>6, Zenon
  <2>8. \A x \in CallSlots : Awaiting(x)' => /\ Awaiting(x) /\ defer'[x].req = defer[x].req
                                             /\ answered'[defer[x].req] = 0
    <3>1. \A x \in CallSlots : Awaiting(x)' => Awaiting(x) /\ defer'[x] = defer[x]
      BY <2>1, Zenon DEF Awaiting
    <3>2. \A x \in CallSlots : Awaiting(x) => answered[defer[x].req] = 0 /\ defer[x].req # q /\ defer[x].req \in Reqs
      BY <1>0, <2>4, AwaitingFacts, Zenon DEF RequestsOnce
    <3> QED BY <2>6, <3>1, <3>2, Zenon
  <2>9. \A i \in DOMAIN ready' : /\ answered'[ready'[i].req] = 0
                                 /\ \E j \in DOMAIN ready : ready'[i].req = ready[j].req
    <3>1. \A i \in DOMAIN ready : answered[ready[i].req] = 0 /\ ready[i].req # q /\ ready[i].req \in Reqs
      <4>1. ready \in Seq(Coroutines) BY <1>0, Zenon DEF TypeOK
      <4>2. \A i \in DOMAIN ready : ready[i] \in Coroutines BY <4>1
      <4> QED BY <1>0, <2>4, <4>2, Zenon DEF RequestsOnce, Coroutines
    <3> QED BY <2>1, <2>6, <3>1, Zenon
  <2>10. \A i, j \in DOMAIN ready' : i # j => ready'[i].req # ready'[j].req
    BY <1>0, <2>1 DEF RequestsOnce
  <2>11. \A s \in Socks : Seen(s) \in Int /\ Seen(s)' \in Int /\ Seen(s)' >= Seen(s) BY <2>3, Zenon
  <2> QED BY <2>7, <2>8, <2>9, <2>10, <2>11, RequestsKept, Zenon
<1>11. CASE ParseAsync
  <2>1. pc = "parse" /\ pc' = "parse" /\ rbuf # <<>> /\ UNCHANGED <<sent, inbox, cur, answered, defer>>
        /\ rbuf' = Tail(rbuf) /\ ready \in Seq(Coroutines)
    BY <1>0, <1>11, Zenon DEF ParseAsync, Parsing, TypeOK
  <2>2. PICK q \in Reqs : q = Request BY <2>1, UnseenRequest, Zenon
  <2>3. /\ \A s \in Socks : Seen(s) \in Int /\ Seen(s)' \in Int /\ Seen(s)' >= Seen(s)
        /\ \A s \in Socks : s = cur.sock => Seen(s)' >= Seen(s) + 1
    BY <2>1, SeenParsed, Zenon
  <2>4. /\ q[1] = cur.sock /\ cur.sock \in Socks /\ q[2] = Seen(cur.sock) + 1 /\ answered[q] = 0
        /\ \A d \in CallSlots : Awaiting(d) => defer[d].req # q
        /\ \A i \in DOMAIN ready : ready[i].req # q
    BY <2>1, <2>2, UnseenRequest, Zenon
  <2>5. q[2] <= Seen(q[1])'
    <3>1. PICK s \in Socks : s = cur.sock BY <2>4, Zenon
    <3>2. Seen(cur.sock) = Seen(s) /\ q[1] = s BY <2>4, <3>1, Zenon
    <3> QED BY <2>3, <2>4, <3>1, <3>2, Zenon
  <2>6. /\ Len(ready) \in Nat /\ DOMAIN ready = 1 .. Len(ready) /\ DOMAIN ready' = 1 .. Len(ready) + 1
        /\ \A i \in DOMAIN ready : ready'[i] = ready[i]
        /\ ready'[Len(ready) + 1].req = q
    <3> DEFINE y == [conn |-> cur.conn, req |-> Request, yields |-> 0]
    <3>1. y \in Coroutines /\ y.req = q
      <4>1. cur.conn \in ConnSlots BY <2>1, Handled, Zenon DEF Handling
      <4> QED BY <2>2, <4>1, WorkerAssumptions DEF Coroutines, WorkerAssumptions
    <3>2. ready' = Append(ready, y) BY <1>11, Zenon DEF ParseAsync
    <3> HIDE DEF y
    <3> QED BY <2>1, <3>1, <3>2, AppendFacts
  <2>7. \A i \in DOMAIN ready' : i \in DOMAIN ready \/ i = Len(ready) + 1 BY <2>6
  <2>8. \A r \in Reqs : r[1] \in Socks /\ r[2] \in Int BY DEF Reqs
  <2>9. \A r \in Reqs : r[2] <= Seen(r[1]) => r[2] <= Seen(r[1])' BY <2>3, <2>8
  <2>10. \A d \in CallSlots : Awaiting(d) => defer[d].req \in Reqs BY AwaitingFacts, Zenon
  <2>11. \A i \in DOMAIN ready : ready[i].req \in Reqs
    <3>1. \A i \in DOMAIN ready : ready[i] \in Coroutines BY <2>1
    <3> QED BY <3>1, Zenon DEF Coroutines
  <2>12. \A d \in CallSlots : Awaiting(d)' => Awaiting(d) /\ defer'[d].req = defer[d].req
    BY <2>1, Zenon DEF Awaiting
  <2>13. \A r \in Reqs : answered'[r] > 0 => r[2] <= Seen(r[1])'
    BY <1>0, <2>1, <2>9, Zenon DEF RequestsOnce
  <2>14. ASSUME NEW d \in CallSlots, Awaiting(d)'
         PROVE  (answered[defer[d].req] = 0 /\ defer[d].req[2] <= Seen(defer[d].req[1]))'
    <3>1. PICK r \in Reqs : r = defer'[d].req /\ answered'[r] = 0 /\ r[2] <= Seen(r[1])'
      BY <1>0, <2>1, <2>9, <2>10, <2>12, <2>14, Zenon DEF RequestsOnce
    <3> QED BY <3>1, Zenon DEF Seen, Taken, Unparsed
  <2>15. \A d, x \in CallSlots : Awaiting(d)' /\ Awaiting(x)' /\ d # x => defer'[d].req # defer'[x].req
    BY <1>0, <2>12, ZenonT(40) DEF RequestsOnce
  <2>16. ASSUME NEW i \in DOMAIN ready'
         PROVE  (answered[ready[i].req] = 0 /\ ready[i].req[2] <= Seen(ready[i].req[1]))'
    <3>1. PICK r \in Reqs : r = ready'[i].req /\ answered'[r] = 0 /\ r[2] <= Seen(r[1])'
      BY <1>0, <2>1, <2>4, <2>5, <2>6, <2>7, <2>9, <2>11, ZenonT(30) DEF RequestsOnce
    <3> QED BY <3>1, Zenon DEF Seen, Taken, Unparsed
  <2>17. \A i, j \in DOMAIN ready' : i # j => ready'[i].req # ready'[j].req
    BY <1>0, <2>4, <2>6, <2>7, SMTT(30) DEF RequestsOnce
  <2>18. \A i \in DOMAIN ready' : \A d \in CallSlots : Awaiting(d)' => ready'[i].req # defer'[d].req
    BY <1>0, <2>4, <2>6, <2>7, <2>12, SMTT(30) DEF RequestsOnce
  <2> QED BY <2>13, <2>14, <2>15, <2>16, <2>17, <2>18, Zenon DEF RequestsOnce
<1>12. CASE ParseDeferred
  <2>1. pc = "parse" /\ rbuf # <<>> /\ UNCHANGED <<sent, inbox, cur, answered, ready>>
        /\ ((pc' = "parse" /\ (rbuf' = Tail(rbuf) \/ rbuf' = <<>>)) \/ (pc' = "return" /\ rbuf' = rbuf))
    BY <1>12, Zenon DEF ParseDeferred, Parsing
  <2>2. PICK q \in Reqs : q = Request BY <2>1, UnseenRequest, Zenon
  <2>3. /\ \A s \in Socks : Seen(s) \in Int /\ Seen(s)' \in Int /\ Seen(s)' >= Seen(s)
        /\ \A s \in Socks : s = cur.sock => Seen(s)' >= Seen(s) + 1
    BY <2>1, SeenParsed, Zenon
  <2>4. /\ q[1] = cur.sock /\ cur.sock \in Socks /\ q[2] = Seen(cur.sock) + 1 /\ answered[q] = 0
        /\ \A d \in CallSlots : Awaiting(d) => defer[d].req # q
        /\ \A i \in DOMAIN ready : ready[i].req # q
    BY <2>1, <2>2, UnseenRequest, Zenon
  <2>5. q[2] <= Seen(q[1])'
    <3>1. PICK s \in Socks : s = cur.sock BY <2>4, Zenon
    <3>2. Seen(cur.sock) = Seen(s) /\ q[1] = s BY <2>4, <3>1, Zenon
    <3> QED BY <2>3, <2>4, <3>1, <3>2, Zenon
  <2>6. PICK x \in CallSlots :
          /\ defer'[x].req = q
          /\ \A d \in CallSlots : d # x => defer'[d] = defer[d]
    <3>1. Head(deferFree) \in CallSlots BY <1>0, <1>12, HeadTail, Zenon DEF ParseDeferred, TypeOK
    <3> QED BY <1>0, <1>12, <2>2, <3>1, Zenon DEF ParseDeferred, TypeOK
  <2>8. \A r \in Reqs : r[1] \in Socks /\ r[2] \in Int BY DEF Reqs
  <2>9. \A r \in Reqs : r[2] <= Seen(r[1]) => r[2] <= Seen(r[1])' BY <2>3, <2>8, SMTT(30)
  <2>10. \A d \in CallSlots : Awaiting(d) => defer[d].req \in Reqs BY AwaitingFacts, Zenon
  <2>11. \A i \in DOMAIN ready : ready[i].req \in Reqs
    <3>0. ready \in Seq(Coroutines) BY <1>0, Zenon DEF TypeOK
    <3>1. \A i \in DOMAIN ready : ready[i] \in Coroutines BY <3>0
    <3> QED BY <3>1, Zenon DEF Coroutines
  <2>12. \A d \in CallSlots : Awaiting(d)' => d = x \/ (Awaiting(d) /\ defer'[d].req = defer[d].req)
    BY <2>6, Zenon DEF Awaiting
  <2>13. \A r \in Reqs : answered'[r] > 0 => r[2] <= Seen(r[1])'
    BY <1>0, <2>1, <2>9, Zenon DEF RequestsOnce
  <2>14. ASSUME NEW d \in CallSlots, Awaiting(d)'
         PROVE  (answered[defer[d].req] = 0 /\ defer[d].req[2] <= Seen(defer[d].req[1]))'
    <3>1. PICK r \in Reqs : r = defer'[d].req /\ answered'[r] = 0 /\ r[2] <= Seen(r[1])'
      BY <1>0, <2>1, <2>4, <2>5, <2>6, <2>9, <2>10, <2>12, <2>14, Zenon DEF RequestsOnce
    <3> QED BY <3>1, Zenon DEF Seen, Taken, Unparsed
  <2>15. \A d, y \in CallSlots : Awaiting(d)' /\ Awaiting(y)' /\ d # y => defer'[d].req # defer'[y].req
    BY <1>0, <2>4, <2>6, <2>12, SMTT(30) DEF RequestsOnce
  <2>16. ASSUME NEW i \in DOMAIN ready'
         PROVE  (answered[ready[i].req] = 0 /\ ready[i].req[2] <= Seen(ready[i].req[1]))'
    <3>1. PICK r \in Reqs : r = ready'[i].req /\ answered'[r] = 0 /\ r[2] <= Seen(r[1])'
      BY <1>0, <2>1, <2>9, <2>11, Zenon DEF RequestsOnce
    <3> QED BY <3>1, Zenon DEF Seen, Taken, Unparsed
  <2>17. \A i, j \in DOMAIN ready' : i # j => ready'[i].req # ready'[j].req
    BY <1>0, <2>1, Zenon DEF RequestsOnce
  <2>18. \A i \in DOMAIN ready' : \A d \in CallSlots : Awaiting(d)' => ready'[i].req # defer'[d].req
    BY <1>0, <2>1, <2>4, <2>6, <2>12, SMTT(30) DEF RequestsOnce
  <2> QED BY <2>13, <2>14, <2>15, <2>16, <2>17, <2>18, Zenon DEF RequestsOnce
<1>13. CASE DeferredFailed
  <2>1. pc = "return" /\ pc' = "parse" /\ rbuf # <<>> /\ rbuf' = Tail(rbuf) /\ TypeOK
        /\ UNCHANGED <<sent, inbox, cur, ready, answered>>
    BY <1>0, <1>13, Zenon DEF DeferredFailed, WorkerInv, Phases
  <2>2. Len(rbuf) \in Nat /\ Len(rbuf) > 0 /\ Len(Tail(rbuf)) = Len(rbuf) - 1 BY <2>1, BufferFacts, Zenon
  <2>3. \A s \in Socks : Unparsed(s)' = Unparsed(s) /\ Taken(s)' = Taken(s)
    BY <2>1, <2>2, Zenon DEF Unparsed, Taken
  <2>4. \A s \in Socks : Seen(s) \in Int /\ Seen(s)' \in Int /\ Seen(s)' >= Seen(s)
    <3>1. \A s \in Socks : Seen(s)' = Seen(s) BY <2>3, Zenon DEF Seen
    <3>2. \A s \in Socks : Seen(s) \in Int BY <2>1, SeenType, Zenon
    <3> QED BY <3>1, <3>2
  <2>5. \A d \in CallSlots : Awaiting(d)' => Awaiting(d) /\ defer'[d].req = defer[d].req
    <3>1. PICK x \in CallSlots :
            IF defer[x].state = "held" THEN defer' = [defer EXCEPT ![x].state = "queued"] ELSE UNCHANGED defer
      BY <1>13, Zenon DEF DeferredFailed
    <3>2. CASE defer[x].state # "held" BY <3>1, <3>2, Zenon DEF Awaiting
    <3>3. CASE defer[x].state = "held"
      <4>1. \A d \in CallSlots : d # x => defer'[d] = defer[d] BY <1>0, <3>1, <3>3, Zenon DEF TypeOK
      <4>2. defer'[x] = [defer[x] EXCEPT !.state = "queued"] /\ defer[x] \in Calls
        BY <1>0, <3>1, <3>3, Zenon DEF TypeOK
      <4>3. defer'[x].req = defer[x].req BY <4>2, Zenon DEF Calls
      <4> QED BY <3>3, <4>1, <4>3, Zenon DEF Awaiting
    <3> QED BY <3>2, <3>3, Zenon
  <2> QED BY <2>1, <2>4, <2>5, NothingAnswered, Zenon
<1>14. CASE ParseClose
  <2>1. pc = "parse" /\ pc' = "parse" /\ rbuf # <<>> /\ UNCHANGED <<sent, inbox, cur, ready, defer, answered>>
        /\ (rbuf' = Tail(rbuf) \/ rbuf' = <<>>)
    BY <1>14, Zenon DEF ParseClose, Parsing
  <2>2. \A s \in Socks : Seen(s) \in Int /\ Seen(s)' \in Int /\ Seen(s)' >= Seen(s)
    BY <2>1, SeenParsed, Zenon
  <2>3. \A d \in CallSlots : Awaiting(d)' => Awaiting(d) /\ defer'[d].req = defer[d].req
    BY <2>1, Zenon DEF Awaiting
  <2> QED BY <2>1, <2>2, <2>3, NothingAnswered, Zenon
<1>15. CASE ParseDone
  BY <1>0, <1>15, ZenonT(40) DEF ParseDone, RequestsOnce, Seen, Taken, Unparsed, Awaiting
<1>16. CASE FinishEvent
  <2>1. rbuf = <<>> /\ UNCHANGED <<sent, inbox, rbuf, answered, ready, defer>> /\ pc # "return" /\ pc' # "return" /\ TypeOK
    BY <1>0, <1>16, Zenon DEF FinishEvent, WorkerInv, Phases
  <2>2. Len(<<>>) = 0 BY Zenon
  <2>3. \A s \in Socks : Unparsed(s) = 0 /\ Unparsed(s)' = 0 /\ Taken(s)' = Taken(s)
    BY <2>1, <2>2, Zenon DEF Unparsed, Taken
  <2>4. \A s \in Socks : Seen(s) \in Int /\ Seen(s)' \in Int /\ Seen(s)' >= Seen(s)
    BY <2>1, <2>3, SeenType DEF Seen
  <2>5. \A d \in CallSlots : Awaiting(d)' => Awaiting(d) /\ defer'[d].req = defer[d].req
    BY <2>1, Zenon DEF Awaiting
  <2> QED BY <2>1, <2>4, <2>5, NothingAnswered, Zenon
<1>17. CASE EventsDone
  BY <1>0, <1>17, ZenonT(40) DEF EventsDone, RequestsOnce, Seen, Taken, Unparsed, Awaiting
<1>18. CASE RunReady
  <2>1. /\ ready # <<>> /\ UNCHANGED <<sent, inbox, cur, rbuf, pc, defer>> /\ TypeOK /\ ready \in Seq(Coroutines)
    BY <1>0, <1>18, Zenon DEF RunReady, TypeOK
  <2>2. /\ Head(ready) = ready[1] /\ Head(ready) \in Coroutines /\ Tail(ready) \in Seq(Coroutines)
        /\ Len(ready) \in Nat /\ Len(ready) > 0 /\ DOMAIN ready = 1 .. Len(ready)
        /\ Len(Tail(ready)) = Len(ready) - 1 /\ DOMAIN Tail(ready) = 1 .. Len(ready) - 1
        /\ \A i \in 1 .. Len(ready) - 1 : Tail(ready)[i] = ready[i + 1]
    BY <2>1, HeadTail, Zenon
  <2>3. PICK q \in Reqs : q = ready[1].req BY <2>2, Zenon DEF Coroutines
  <2>4. 1 \in DOMAIN ready BY <2>2
  <2>5. \A s \in Socks : Seen(s) \in Int /\ Seen(s)' \in Int /\ Seen(s)' >= Seen(s) /\ Seen(s)' = Seen(s)
    <3>1. \A s \in Socks : Seen(s)' = Seen(s) BY <2>1, Zenon DEF Seen, Taken, Unparsed
    <3>2. \A s \in Socks : Seen(s) \in Int BY <2>1, SeenType, Zenon
    <3> QED BY <3>1, <3>2
  <2>6. \A i \in DOMAIN ready : ready[i].req \in Reqs
    <3>1. \A i \in DOMAIN ready : ready[i] \in Coroutines BY <2>1, SMTT(30)
    <3> QED BY <3>1, Zenon DEF Coroutines
  <2>7. CASE /\ ready' = Append(Tail(ready), [Head(ready) EXCEPT !.yields = @ + 1]) /\ Head(ready).yields < MaxYields
             /\ answered' = answered
    <3> DEFINE y == [Head(ready) EXCEPT !.yields = @ + 1]
    <3>1. y \in Coroutines /\ y.req = q
      BY <2>2, <2>3, <2>7, WorkerAssumptions, SMTT(30) DEF Coroutines, WorkerAssumptions
    <3> HIDE DEF y
    <3>2. /\ DOMAIN ready' = 1 .. Len(ready)
          /\ \A i \in 1 .. Len(ready) - 1 : ready'[i] = ready[i + 1]
          /\ ready'[Len(ready)] = y
      <4>1. ready' = Append(Tail(ready), y) BY <2>7, Zenon DEF y
      <4>2. /\ DOMAIN Append(Tail(ready), y) = 1 .. Len(Tail(ready)) + 1
            /\ \A i \in 1 .. Len(Tail(ready)) : Append(Tail(ready), y)[i] = Tail(ready)[i]
            /\ Append(Tail(ready), y)[Len(Tail(ready)) + 1] = y
        BY <2>2, <3>1, AppendFacts
      <4>3. Len(Tail(ready)) + 1 = Len(ready) BY <2>2
      <4> QED BY <2>2, <4>1, <4>2, <4>3, Zenon
    <3> DEFINE g(i) == IF i = Len(ready) THEN 1 ELSE i + 1
    <3>3. \A i \in DOMAIN ready' : g(i) \in DOMAIN ready /\ ready'[i].req = ready[g(i)].req
      <4>1. ASSUME NEW i \in 1 .. Len(ready) PROVE g(i) \in 1 .. Len(ready) /\ ready'[i].req = ready[g(i)].req
        <5>1. CASE i = Len(ready) BY <2>2, <2>3, <3>1, <3>2, <5>1, SMTT(30)
        <5>0. i \in Nat /\ i >= 1 /\ i <= Len(ready) /\ Len(ready) \in Nat BY <2>2
        <5>2. CASE i # Len(ready)
          <6>1. i \in 1 .. Len(ready) - 1 /\ i + 1 \in 1 .. Len(ready) BY <5>0, <5>2
          <6> QED BY <3>2, <5>2, <6>1, Zenon
        <5> QED BY <5>1, <5>2, Zenon
      <4> QED BY <2>2, <3>2, <4>1, Zenon
    <3>4. \A i, j \in DOMAIN ready' : i # j => g(i) # g(j) BY <2>2, <3>2, SMTT(30)
    <3> HIDE DEF g
    <3>5. \A i, j \in DOMAIN ready' : i # j => ready'[i].req # ready'[j].req
      BY <1>0, <3>3, <3>4, SMTT(30) DEF RequestsOnce
    <3>6. \A i \in DOMAIN ready' : /\ answered'[ready'[i].req] = 0
                                   /\ \E j \in DOMAIN ready : ready'[i].req = ready[j].req
      BY <1>0, <2>7, <3>3, SMTT(30) DEF RequestsOnce
    <3>7. \A d \in CallSlots : Awaiting(d)' => /\ Awaiting(d) /\ defer'[d].req = defer[d].req
                                               /\ answered'[defer[d].req] = 0
      BY <1>0, <2>1, <2>7, Zenon DEF RequestsOnce, Awaiting
    <3>8. \A r \in Reqs : answered'[r] > 0 => answered[r] > 0 \/ r[2] <= Seen(r[1])' BY <2>7, Zenon
    <3>9. \A s \in Socks : Seen(s) \in Int /\ Seen(s)' \in Int /\ Seen(s)' >= Seen(s) BY <2>5,
                                                                                         Zenon
    <3> QED BY <3>5, <3>6, <3>7, <3>8, <3>9, RequestsKept, Zenon
  <2>8. CASE ready' = Tail(ready) /\ \A r \in Reqs : r # q => answered'[r] = answered[r]
    <3>1. \A i \in DOMAIN ready' : i + 1 \in DOMAIN ready /\ i + 1 # 1 /\ ready'[i] = ready[i + 1]
      BY <2>2, <2>8
    <3>2. \A i, j \in DOMAIN ready' : i # j => i + 1 # j + 1 BY <2>2, <2>8, SMTT(30)
    <3>3. \A i, j \in DOMAIN ready' : i # j => ready'[i].req # ready'[j].req
      BY <1>0, <3>1, <3>2, SMTT(30) DEF RequestsOnce
    <3>4. \A i \in DOMAIN ready : i # 1 => ready[i].req # q /\ answered[ready[i].req] = 0
      BY <1>0, <2>3, <2>4, Zenon DEF RequestsOnce
    <3>5. \A i \in DOMAIN ready' : /\ answered'[ready'[i].req] = 0
                                   /\ \E j \in DOMAIN ready : ready'[i].req = ready[j].req
      BY <2>6, <2>8, <3>1, <3>4, SMTT(30)
    <3>6. \A d \in CallSlots : Awaiting(d)' => /\ Awaiting(d) /\ defer'[d].req = defer[d].req
                                               /\ answered'[defer[d].req] = 0
      <4>1. \A x \in CallSlots : Awaiting(x)' => Awaiting(x) /\ defer'[x] = defer[x]
        BY <2>1, Zenon DEF Awaiting
      <4>2. \A x \in CallSlots : Awaiting(x) => answered[defer[x].req] = 0 /\ defer[x].req # q /\ defer[x].req \in Reqs
        BY <1>0, <2>3, <2>4, AwaitingFacts, Zenon DEF RequestsOnce
      <4> QED BY <2>8, <4>1, <4>2, Zenon
    <3>7. q[2] <= Seen(q[1]) /\ q[1] \in Socks BY <1>0, <2>3, <2>4, Zenon DEF RequestsOnce, Reqs
    <3>8. \A r \in Reqs : answered'[r] > 0 => answered[r] > 0 \/ r[2] <= Seen(r[1])'
      BY <2>5, <2>8, <3>7, Zenon
    <3>9. \A s \in Socks : Seen(s) \in Int /\ Seen(s)' \in Int /\ Seen(s)' >= Seen(s) BY <2>5, Zenon
    <3> QED BY <3>3, <3>5, <3>6, <3>8, <3>9, RequestsKept, Zenon
  <2>9. \/ /\ ready' = Append(Tail(ready), [Head(ready) EXCEPT !.yields = @ + 1]) /\ Head(ready).yields < MaxYields
           /\ answered' = answered
        \/ ready' = Tail(ready) /\ \A r \in Reqs : r # q => answered'[r] = answered[r]
    BY <1>0, <1>18, <2>2, <2>3, SMTT(30) DEF RunReady, Account, TypeOK
  <2> QED BY <2>7, <2>8, <2>9, Zenon
<1>19. CASE RunDone
  BY <1>0, <1>19, SMTT(30) DEF RunDone, TakeCompleted, RequestsOnce, Seen, Taken, Unparsed, Awaiting
<1>20. CASE FlushWrites
  BY <1>0, <1>20, ZenonT(30) DEF FlushWrites, RequestsOnce, Seen, Taken, Unparsed, Awaiting
<1>21. ASSUME NEW s \in Socks, Client(s) PROVE RequestsOnce'
  <2>1. UNCHANGED <<cur, rbuf, pc, answered, ready, defer>> /\ TypeOK BY <1>0, <1>21, Zenon DEF Client
  <2>2. ASSUME NEW x \in Socks PROVE Taken(x)' = Taken(x)
    <3>1. CASE UNCHANGED <<sent, inbox>> BY <3>1, Zenon DEF Taken
    <3>2. ASSUME NEW kind \in Kinds, Send(s, kind) PROVE Taken(x)' = Taken(x)
      <4>1. sent[s] + 1 \in 1 .. MaxPackets /\ sent[s] \in Nat /\ sent'[s] = sent[s] + 1
        BY <1>0, <3>2, WorkerAssumptions, SMTT(30) DEF Send, WorkerAssumptions, TypeOK
      <4> DEFINE p == [kind |-> kind, id |-> sent'[s]]
      <4>2. p \in Packets BY <4>1, Zenon DEF Packets
      <4>3. inbox[s] \in Seq(Packets) BY <1>0 DEF TypeOK
      <4>4. inbox'[s] = Append(inbox[s], p) BY <1>0, <3>2 DEF Send, TypeOK
      <4> HIDE DEF p
      <4>5. Len(inbox[s]) \in Nat /\ Len(inbox'[s]) = Len(inbox[s]) + 1
        BY <4>2, <4>3, <4>4, AppendFacts, SMTT(30)
      <4>6. CASE x = s BY <4>1, <4>5, <4>6, SMTT(30) DEF Taken
      <4>7. CASE x # s
        <5>1. inbox'[x] = inbox[x] /\ sent'[x] = sent[x] BY <1>0, <3>2, <4>7, SMTT(30) DEF Send, TypeOK
        <5> QED BY <5>1, Zenon DEF Taken
      <4> QED BY <4>6, <4>7, Zenon
    <3> QED BY <1>21, <3>1, <3>2, Zenon DEF Client, HangUp, Backpressure
  <2>3. \A x \in Socks : Unparsed(x)' = Unparsed(x) BY <2>1, Zenon DEF Unparsed
  <2>4. \A x \in Socks : Seen(x) \in Int /\ Seen(x)' \in Int /\ Seen(x)' >= Seen(x)
    <3>1. \A x \in Socks : Seen(x)' = Seen(x) BY <2>2, <2>3, Zenon DEF Seen
    <3>2. \A x \in Socks : Seen(x) \in Int BY <2>1, SeenType, Zenon
    <3> QED BY <3>1, <3>2
  <2>5. \A d \in CallSlots : Awaiting(d)' => Awaiting(d) /\ defer'[d].req = defer[d].req
    BY <2>1, Zenon DEF Awaiting
  <2> QED BY <2>1, <2>4, <2>5, NothingAnswered, Zenon
<1>22. ASSUME NEW d \in CallSlots, Claim(d) PROVE RequestsOnce'
  BY <1>0, <1>22, SMTT(30) DEF Claim, RequestsOnce, Seen, Taken, Unparsed, Awaiting
<1>23. ASSUME NEW d \in CallSlots, QueueCompleted(d) PROVE RequestsOnce'
  BY <1>0, <1>23, SMTT(30) DEF QueueCompleted, AboutToWake, RequestsOnce, Seen, Taken, Unparsed,
     Awaiting
<1>24. CASE Destroy
  BY <1>0, <1>24, SMTT(30) DEF Destroy, RequestsOnce, Seen, Taken, Unparsed, Awaiting
<1>25. ASSUME AddConnection \/ Wake \/ Stop \/ (\E s \in Socks : Accept(s))
      PROVE  UNCHANGED <<answered, defer, ready, sent, inbox, cur, rbuf, pc>>
  BY <1>25, Zenon DEF AddConnection, Registered, NotRegistered, Accept, AboutToWake, Wake, Stop
<1> HIDE DEF clientVars, sharedVars, workerVars, otherVars, parseVars
<1> QED BY <1>1, <1>2, <1>3, <1>4, <1>5, <1>6, <1>7, <1>8, <1>9, <1>10, <1>11, <1>12, <1>13, <1>14,
     <1>15, <1>16, <1>17, <1>18, <1>19, <1>20, <1>21, <1>22, <1>23, <1>24, <1>25, Zenon DEF Next, Run,
     Others, Terminated, vars, clientVars, sharedVars

(* Answering an unanswered request answers none twice. *)
LEMMA OneAnswer ==
  ASSUME TypeOK, AnsweredAtMostOnce, NEW q \in Reqs, answered[q] = 0,
         answered' = answered \/ answered' = [answered EXCEPT ![q] = @ + 1]
  PROVE  AnsweredAtMostOnce'
<1>1. CASE answered' = answered BY <1>1, Zenon DEF AnsweredAtMostOnce
<1>2. CASE answered' = [answered EXCEPT ![q] = @ + 1]
  <2>1. \A r \in Reqs : answered'[r] = IF r = q THEN answered[q] + 1 ELSE answered[r]
    BY <1>2, Zenon DEF TypeOK
  <2> QED BY <2>1 DEF AnsweredAtMostOnce
<1> QED BY <1>1, <1>2, Zenon

(* A request that is answered had not been answered. *)
LEMMA AnsweredStep == WorkerInv /\ [Next]_vars => AnsweredAtMostOnce'
<1> SUFFICES ASSUME WorkerInv, [Next]_vars PROVE AnsweredAtMostOnce'
  BY Zenon
<1>0. TypeOK /\ AnsweredAtMostOnce BY Zenon DEF WorkerInv
<1> USE DEF clientVars, sharedVars, workerVars, otherVars, parseVars
<1>1. CASE UNCHANGED <<answered>>
  BY <1>0, <1>1, Zenon DEF AnsweredAtMostOnce
<1>2. CASE DrainCompleted
  <2>1. draining # <<>> BY <1>2, Zenon DEF DrainCompleted
  <2>2. Head(draining) \in CallSlots /\ Awaiting(Head(draining)) /\ defer[Head(draining)].req \in Reqs
    BY <2>1, DrainedFacts, AwaitingFacts, Zenon
  <2>3. answered[defer[Head(draining)].req] = 0 BY <2>2, Zenon DEF WorkerInv, RequestsOnce
  <2> DEFINE q == defer[Head(draining)].req
  <2>4. answered' = answered \/ answered' = [answered EXCEPT ![q] = @ + 1]
    BY <1>2, Zenon DEF DrainCompleted, Account
  <2> HIDE DEF q
  <2> QED BY <1>0, <2>2, <2>3, <2>4, OneAnswer, Zenon DEF q
<1>3. CASE ParseNow
  <2>1. Request \in Reqs /\ answered[Request] = 0
    BY <1>3, UnseenRequest, Zenon DEF ParseNow, Parsing
  <2>2. answered' = answered \/ answered' = [answered EXCEPT ![Request] = @ + 1]
    BY <1>3, Zenon DEF ParseNow, Account
  <2> QED BY <1>0, <2>1, <2>2, OneAnswer, Zenon
<1>4. CASE RunReady
  <2>1. ready # <<>> /\ Head(ready).req \in Reqs BY <1>4, ReadyFacts, Zenon DEF RunReady
  <2>2. answered[Head(ready).req] = 0
    <3>1. ready \in Seq(Coroutines) BY <1>0, Zenon DEF TypeOK
    <3>2. 1 \in DOMAIN ready /\ Head(ready) = ready[1] BY <2>1, <3>1, HeadTail, SMTT(30)
    <3> QED BY <3>2, Zenon DEF WorkerInv, RequestsOnce
  <2>3. answered' = answered \/ answered' = [answered EXCEPT ![Head(ready).req] = @ + 1]
    BY <1>4, Zenon DEF RunReady, Account
  <2> QED BY <1>0, <2>1, <2>2, <2>3, OneAnswer, Zenon
<1>5. ASSUME \/ Top \/ Poll \/ WakeEvent \/ AddConnection \/ AllAdopted \/ Drained
             \/ ConnectionEvent \/ Recv \/ ParseAsync \/ ParseDeferred \/ DeferredFailed
             \/ ParseClose \/ ParseDone \/ FinishEvent \/ EventsDone \/ RunDone \/ FlushWrites
             \/ Wake \/ Stop \/ Destroy \/ (\E s \in Socks : Client(s))
             \/ (\E s \in Socks : Accept(s)) \/ (\E d \in CallSlots : Claim(d))
             \/ (\E d \in CallSlots : QueueCompleted(d))
      PROVE  UNCHANGED <<answered>>
  BY <1>5, Zenon DEF Top, Poll, WakeEvent, TakePending, AddConnection, Registered, NotRegistered,
       AllAdopted, TakeCompleted, Drained, ConnectionEvent, Recv, ParseAsync, ParseDeferred,
       DeferredFailed, ParseClose, ParseDone, FinishEvent, EventsDone, RunDone, FlushWrites, Client,
       Send, HangUp, Backpressure, Accept, AboutToWake, Claim, QueueCompleted, Wake, Stop, Destroy
<1> HIDE DEF clientVars, sharedVars, workerVars, otherVars, parseVars
<1> QED BY <1>1, <1>2, <1>3, <1>4, <1>5, Zenon DEF Next, Run, Others, Terminated, vars, clientVars,
     sharedVars

(* handle_packet answers on the connection the request was read from, and   *)
(* worker_drain_completed on one whose slot the call has kept: only a       *)
(* coroutine's response can go elsewhere.                                   *)
LEMMA MisrouteStep == WorkerInv /\ [Next]_vars => RunReady \/ UNCHANGED misrouted
<1> SUFFICES ASSUME WorkerInv, [Next]_vars PROVE RunReady \/ UNCHANGED misrouted
  BY Zenon
<1>0. TypeOK BY Zenon DEF WorkerInv
<1> USE DEF clientVars, sharedVars, workerVars, otherVars, parseVars
<1>1. CASE UNCHANGED misrouted BY <1>1, Zenon
<1>2. CASE RunReady BY <1>2, Zenon
<1>3. CASE ParseNow
  <2>1. Request[1] = conn[cur.conn].sock BY Zenon DEF Request
  <2> QED BY <1>3, <2>1, Zenon DEF ParseNow, Account
<1>4. CASE DrainCompleted
  <2>1. PICK d \in CallSlots : d = Head(draining) /\ Awaiting(d)
    BY <1>4, DrainedFacts, Zenon DEF DrainCompleted
  <2>2. defer[d].conn \in ConnSlots BY <2>1, AwaitingFacts, Zenon
  <2>3. conn[defer[d].conn] \in Connections BY <1>0, <2>2, Zenon DEF TypeOK
  <2>4. conn[defer[d].conn].sock = defer[d].req[1]
    BY <2>1, Zenon DEF WorkerInv, DeferredPinsConnection, Awaiting
  <2>5. PICK o : /\ o \in QueuePacket(conn[defer[d].conn]) \/ ~o.ok
                 /\ \E left : Account([o.conn EXCEPT !.pending_deferred = left], defer[d].req, o.ok)
    BY <1>4, <2>1, Zenon DEF DrainCompleted
  <2>6. PICK left : Account([o.conn EXCEPT !.pending_deferred = left], defer[d].req, o.ok)
    BY <2>5, Zenon
  <2>7. CASE ~o.ok BY <2>6, <2>7, Zenon DEF Account
  <2>8. CASE o \in QueuePacket(conn[defer[d].conn])
    <3>1. o.conn \in Connections /\ o.conn.sock = conn[defer[d].conn].sock
      BY <2>3, <2>8, QueuePacketFacts, Zenon
    <3>2. [o.conn EXCEPT !.pending_deferred = left].sock = o.conn.sock BY <3>1, Zenon
                                                                          DEF Connections
    <3> QED BY <2>4, <2>6, <3>1, <3>2, Zenon DEF Account
  <2> QED BY <2>5, <2>7, <2>8, Zenon
<1>5. ASSUME \/ Top \/ Poll \/ WakeEvent \/ AddConnection \/ AllAdopted \/ Drained \/ ConnectionEvent
             \/ Recv \/ ParseAsync \/ ParseDeferred \/ DeferredFailed \/ ParseClose \/ ParseDone
             \/ FinishEvent \/ EventsDone \/ RunDone \/ FlushWrites \/ Wake \/ Stop \/ Destroy
             \/ (\E s \in Socks : Client(s) \/ Accept(s))
             \/ (\E d \in CallSlots : Claim(d) \/ QueueCompleted(d))
      PROVE  UNCHANGED misrouted
  BY <1>5, Zenon DEF Top, Poll, WakeEvent, AddConnection, AllAdopted, Drained, ConnectionEvent,
              Recv, ParseAsync, ParseDeferred, DeferredFailed, ParseClose, ParseDone,
              FinishEvent, EventsDone, RunDone, FlushWrites, Wake, Stop, Destroy, Client, Accept,
              Claim, QueueCompleted
<1> HIDE DEF clientVars, sharedVars, workerVars, otherVars, parseVars
<1> QED BY <1>1, <1>2, <1>3, <1>4, <1>5, Zenon DEF Next, Run, Others, Terminated, vars

=============================================================================
