---------------------------- MODULE WorkerLemmas ----------------------------
(***************************************************************************)
(* Lemmas about module Worker: what its operators do to queues,            *)
(* connections and calls where the invariant WorkerInv holds; and the      *)
(* conjuncts of WorkerInv that need no more than these: the types, the     *)
(* points of the loop, the calls and the wake-ups. Then what the steps of  *)
(* worker_run do to one connection, and the conjuncts about connections:   *)
(* their events, their states, their slots in the arena and their sockets. *)
(***************************************************************************)
EXTENDS Worker, TLAPS

(* The head and the rest of a queue. *)
LEMMA HeadTail ==
  ASSUME NEW S, NEW q \in Seq(S), q # <<>>
  PROVE  /\ Head(q) \in S /\ Head(q) = q[1] /\ Tail(q) \in Seq(S)
         /\ Len(q) \in Nat /\ Len(q) > 0 /\ Len(Tail(q)) = Len(q) - 1
         /\ DOMAIN q = 1 .. Len(q) /\ DOMAIN Tail(q) = 1 .. Len(q) - 1
         /\ \A i \in 1 .. Len(q) - 1 : Tail(q)[i] = q[i + 1]
OBVIOUS

(* What a sequence holds. *)
LEMMA SeqElements ==
  ASSUME NEW S, NEW q \in Seq(S)
  PROVE  \A i \in DOMAIN q : q[i] \in S
  OBVIOUS

(* Taking the head off a queue takes its element away, once. *)
LEMMA RangeOfTail ==
  ASSUME NEW S, NEW q \in Seq(S), q # <<>>
  PROVE  /\ Range(q) = {Head(q)} \cup Range(Tail(q))
         /\ IsInjective(q) => IsInjective(Tail(q)) /\ Head(q) \notin Range(Tail(q))
<1>1. /\ Head(q) = q[1] /\ Len(q) \in Nat /\ Len(q) > 0
      /\ DOMAIN q = 1 .. Len(q) /\ DOMAIN Tail(q) = 1 .. Len(q) - 1
      /\ \A i \in 1 .. Len(q) - 1 : Tail(q)[i] = q[i + 1]
  BY HeadTail, Zenon
<1>2. Range(Tail(q)) \subseteq Range(q)
  BY <1>1 DEF Range
<1>3. Range(q) \subseteq {Head(q)} \cup Range(Tail(q))
  <2>1. ASSUME NEW i \in 1 .. Len(q), i # 1 PROVE q[i] \in Range(Tail(q))
    <3>1. i - 1 \in 1 .. Len(q) - 1 /\ (i - 1) + 1 = i BY <1>1, <2>1
    <3>2. Tail(q)[i - 1] = q[i] BY <1>1, <3>1, Zenon
    <3> QED BY <1>1, <3>1, <3>2, Zenon DEF Range
  <2> QED BY <1>1, <2>1, Zenon DEF Range
<1>4. Head(q) \in Range(q) BY <1>1 DEF Range
<1>5. IsInjective(q) => IsInjective(Tail(q)) BY <1>1 DEF IsInjective
<1>6. IsInjective(q) => Head(q) \notin Range(Tail(q)) BY <1>1 DEF IsInjective, Range
<1> QED BY <1>2, <1>3, <1>4, <1>5, <1>6, Zenon

(* The queue after an element was added at its end. *)
LEMMA AppendFacts ==
  ASSUME NEW S, NEW q \in Seq(S), NEW x \in S
  PROVE  /\ Append(q, x) \in Seq(S) /\ Append(q, x) # <<>>
         /\ Len(q) \in Nat /\ Len(Append(q, x)) = Len(q) + 1
         /\ DOMAIN q = 1 .. Len(q) /\ DOMAIN Append(q, x) = 1 .. Len(q) + 1
         /\ \A i \in 1 .. Len(q) : Append(q, x)[i] = q[i]
         /\ Append(q, x)[Len(q) + 1] = x
OBVIOUS

(* Adding an element keeps a queue without repetitions if it is new. *)
LEMMA RangeOfAppend ==
  ASSUME NEW S, NEW q \in Seq(S), NEW x \in S
  PROVE  /\ Range(Append(q, x)) = Range(q) \cup {x}
         /\ IsInjective(q) /\ x \notin Range(q) => IsInjective(Append(q, x))
<1>1. /\ Len(q) \in Nat /\ DOMAIN q = 1 .. Len(q) /\ DOMAIN Append(q, x) = 1 .. Len(q) + 1
      /\ \A i \in 1 .. Len(q) : Append(q, x)[i] = q[i]
      /\ Append(q, x)[Len(q) + 1] = x
  BY AppendFacts
<1>2. \A i \in 1 .. Len(q) + 1 : i \in 1 .. Len(q) \/ i = Len(q) + 1 BY <1>1
<1>3. Range(Append(q, x)) = Range(q) \cup {x}
  BY <1>1, <1>2 DEF Range
<1>4. IsInjective(q) /\ x \notin Range(q) => IsInjective(Append(q, x))
  BY <1>1, <1>2 DEF Range, IsInjective
<1> QED BY <1>3, <1>4, Zenon

(* The same for an element put at the front, as on a free list. *)
LEMMA PushFacts ==
  ASSUME NEW S, NEW q \in Seq(S), NEW x \in S
  PROVE  /\ <<x>> \o q \in Seq(S)
         /\ Range(<<x>> \o q) = Range(q) \cup {x}
         /\ IsInjective(q) /\ x \notin Range(q) => IsInjective(<<x>> \o q)
<1> DEFINE p == <<x>> \o q
<1>1. /\ p \in Seq(S) /\ Len(q) \in Nat /\ Len(p) = Len(q) + 1 /\ DOMAIN q = 1 .. Len(q)
      /\ DOMAIN p = 1 .. Len(q) + 1 /\ p[1] = x
      /\ \A i \in 2 .. Len(q) + 1 : p[i] = q[i - 1]
  OBVIOUS
<1>2. \A i \in 1 .. Len(q) : i + 1 \in 2 .. Len(q) + 1 /\ p[i + 1] = q[i] BY <1>1
<1>3. \A i \in 1 .. Len(q) + 1 : i = 1 \/ (i \in 2 .. Len(q) + 1 /\ i - 1 \in 1 .. Len(q)) BY <1>1
<1> HIDE DEF p
<1>4. Range(p) = Range(q) \cup {x}
  <2>1. ASSUME NEW i \in DOMAIN p PROVE p[i] \in Range(q) \cup {x}
    BY <1>1, <1>3, Zenon DEF Range
  <2>2. ASSUME NEW i \in DOMAIN q PROVE \E j \in DOMAIN p : p[j] = q[i]
    <3>1. i + 1 \in DOMAIN p /\ p[i + 1] = q[i] BY <1>1, <1>2
    <3> QED BY <3>1, Zenon
  <2>3. \E j \in DOMAIN p : p[j] = x BY <1>1
  <2> QED BY <2>1, <2>2, <2>3 DEF Range
<1>5. ASSUME IsInjective(q), x \notin Range(q) PROVE IsInjective(p)
  <2>1. ASSUME NEW i \in DOMAIN p, NEW j \in DOMAIN p, p[i] = p[j] PROVE i = j
    <3>1. i \in 1 .. Len(q) + 1 /\ j \in 1 .. Len(q) + 1 BY <1>1, Zenon
    <3>2. CASE i = 1
      BY <1>1, <1>3, <1>5, <2>1, <3>1, <3>2, Zenon DEF Range
    <3>3. CASE j = 1
      BY <1>1, <1>3, <1>5, <2>1, <3>1, <3>3, Zenon DEF Range
    <3>4. CASE i # 1 /\ j # 1
      <4>1. i - 1 \in DOMAIN q /\ j - 1 \in DOMAIN q /\ p[i] = q[i - 1] /\ p[j] = q[j - 1]
        BY <1>1, <1>3, <3>1, <3>4, Zenon
      <4>2. i - 1 = j - 1 BY <1>5, <2>1, <4>1, Zenon DEF IsInjective
      <4> QED BY <4>2, <3>1, <1>1
    <3> QED BY <3>2, <3>3, <3>4, Zenon
  <2> QED BY <2>1, Zenon DEF IsInjective
<1> QED BY <1>1, <1>4, <1>5, Zenon DEF p

(* Each point of the loop starts with what the ones before it must have finished. *)
LEMMA PhasesStep == WorkerInv /\ [Next]_vars => Phases'
<1> SUFFICES ASSUME WorkerInv, [Next]_vars PROVE Phases'
  BY Zenon
<1>0. TypeOK /\ Phases BY Zenon DEF WorkerInv
<1> USE DEF clientVars, sharedVars, workerVars, otherVars, parseVars
<1>1. CASE UNCHANGED <<batch, cur, rbuf, adopting, draining, ready, pc>>
  BY <1>0, <1>1, Zenon DEF Phases, InBatch, Handling
<1>2. CASE Top
  BY <1>0, <1>2, Zenon DEF Top, Phases, InBatch, Handling
<1>3. CASE Poll
  BY <1>0, <1>3, Zenon DEF Poll, Phases, InBatch, Handling
<1>4. CASE WakeEvent
  BY <1>0, <1>4, Zenon DEF WakeEvent, TakePending, Phases, InBatch, Handling
<1>5. CASE AddConnection
  BY <1>0, <1>5, Zenon DEF AddConnection, Registered, NotRegistered, Phases, InBatch, Handling
<1>6. CASE AllAdopted
  BY <1>0, <1>6, Zenon DEF AllAdopted, TakeCompleted, Phases, InBatch, Handling
<1>7. CASE DrainCompleted
  BY <1>0, <1>7, Zenon DEF DrainCompleted, Phases, InBatch, Handling
<1>8. CASE Drained
  BY <1>0, <1>8, Zenon DEF Drained, Phases, InBatch, Handling
<1>9. CASE ConnectionEvent
  BY <1>0, <1>9, Zenon DEF ConnectionEvent, Phases, InBatch, Handling
<1>10. CASE Recv
  BY <1>0, <1>10, Zenon DEF Recv, Phases, InBatch, Handling
<1>11. CASE ParseNow
  BY <1>0, <1>11, Zenon DEF ParseNow, Parsing, Phases, InBatch, Handling
<1>12. CASE ParseAsync
  <2>1. rbuf \in Seq(Packets)
    BY <1>0, Zenon DEF TypeOK
  <2>2. Head(rbuf) \in Packets BY <2>1, <1>12 DEF ParseAsync, Parsing
  <2>3. "async" \in Kinds BY <2>2, <1>12, Zenon DEF ParseAsync, Parsing, Packets
  <2> QED BY <1>0, <1>12, <2>3, Zenon DEF ParseAsync, Parsing, Phases, InBatch, Handling
<1>13. CASE ParseDeferred
  BY <1>0, <1>13, Zenon DEF ParseDeferred, Parsing, Phases, InBatch, Handling
<1>14. CASE DeferredFailed
  BY <1>0, <1>14, Zenon DEF DeferredFailed, Phases, InBatch, Handling
<1>15. CASE ParseClose
  BY <1>0, <1>15, Zenon DEF ParseClose, Parsing, Phases, InBatch, Handling
<1>16. CASE ParseDone
  BY <1>0, <1>16, Zenon DEF ParseDone, Phases, InBatch, Handling
<1>17. CASE FinishEvent
  BY <1>0, <1>17, Zenon DEF FinishEvent, Phases, InBatch, Handling, NoEvent
<1>18. CASE EventsDone
  BY <1>0, <1>18, Zenon DEF EventsDone, Phases, InBatch, Handling
<1>19. CASE RunReady
  BY <1>0, <1>19, Zenon DEF RunReady, Phases, InBatch, Handling
<1>20. CASE RunDone
  BY <1>0, <1>20, Zenon DEF RunDone, TakeCompleted, Phases, InBatch, Handling
<1>21. CASE FlushWrites
  BY <1>0, <1>21, Zenon DEF FlushWrites, Phases, InBatch, Handling
<1>22. CASE Destroy
  BY <1>0, <1>22, Zenon DEF Destroy, Phases, InBatch, Handling
<1>23. ASSUME \/ Wake \/ Stop \/ (\E s \in Socks : Client(s)) \/ (\E s \in Socks : Accept(s))
              \/ (\E d \in CallSlots : Claim(d)) \/ (\E d \in CallSlots : QueueCompleted(d))
      PROVE  UNCHANGED <<batch, cur, rbuf, adopting, draining, ready, pc>>
  BY <1>23, Zenon DEF Client, Send, HangUp, Backpressure, Accept, AboutToWake, Claim, QueueCompleted, Wake,
       Stop
<1> HIDE DEF clientVars, sharedVars, workerVars, otherVars, parseVars
<1> QED BY <1>1, <1>2, <1>3, <1>4, <1>5, <1>6, <1>7, <1>8, <1>9, <1>10, <1>11, <1>12, <1>13, <1>14,
     <1>15, <1>16, <1>17, <1>18, <1>19, <1>20, <1>21, <1>22, <1>23, Zenon DEF Next, Run, Others,
     Terminated, vars, clientVars, sharedVars

(* The batch keeps one event per connection and direction. *)
LEMMA EventsWellFormedStep == WorkerInv /\ [Next]_vars => EventsWellFormed'
<1> SUFFICES ASSUME WorkerInv, [Next]_vars PROVE EventsWellFormed'
  BY Zenon
<1>0. TypeOK /\ EventsWellFormed BY Zenon DEF WorkerInv
<1> USE DEF clientVars, sharedVars, workerVars, otherVars, parseVars
<1>1. CASE UNCHANGED <<batch, cur>>
  BY <1>0, <1>1, Zenon DEF EventsWellFormed
<1>2. CASE Poll
  <2>0. cur = NoEvent BY <1>2, Zenon DEF WorkerInv, Phases, Poll, Handling
  <2> DEFINE W == [NoEvent EXCEPT !.flags = {"WAKE"}]
  <2>1. W.conn = 0 /\ W.flags = {"WAKE"} BY Zenon DEF NoEvent
  <2>2. ASSUME NEW e \in batch'
        PROVE  e = W \/ \E c \in ConnSlots : e \in EventsOf(c)
    <3> DEFINE A == {x \in ConnSlots : ~conn[x].detached}
    <3>1. batch' = (UNION {EventsOf(c) : c \in A}) \cup (IF wake THEN {W} ELSE {}) BY <1>2, Zenon DEF Poll
    <3>2. A \subseteq ConnSlots BY Zenon
    <3> HIDE DEF A, W
    <3>3. e \in (IF wake THEN {W} ELSE {}) => e = W BY Zenon
    <3> QED BY <2>2, <3>1, <3>2, <3>3, Zenon
  <2>3. ASSUME NEW c \in ConnSlots, NEW e \in EventsOf(c)
        PROVE  /\ e.conn = c /\ e.conn # 0 /\ "WAKE" \notin e.flags
               /\ SplitEvents => e.flags \in {{"READ"}, {"WRITE"}}
               /\ ~SplitEvents => e = [conn |-> c, sock |-> conn[c].sock, flags |-> ReadyFlags(c)]
    <3>1. ReadyFlags(c) \subseteq {"READ", "WRITE"} BY Zenon DEF ReadyFlags
    <3>2. c # 0 BY DEF ConnSlots
    <3>3. CASE SplitEvents
      <4>1. PICK f \in ReadyFlags(c) : e = [conn |-> c, sock |-> conn[c].sock, flags |-> {f}]
        BY <2>3, <3>3, Zenon DEF EventsOf
      <4> QED BY <3>1, <3>2, <3>3, <4>1, Zenon
    <3>4. CASE ~SplitEvents
      <4>1. e = [conn |-> c, sock |-> conn[c].sock, flags |-> ReadyFlags(c)]
        BY <2>3, <3>4, Zenon DEF EventsOf
      <4> QED BY <3>1, <3>2, <3>4, <4>1, Zenon
    <3> QED BY <3>3, <3>4, Zenon
  <2>4. cur' = NoEvent /\ NoEvent.conn = 0 /\ NoEvent.flags = {}
    BY <2>0, <1>2, Zenon DEF Poll, NoEvent
  <2> HIDE DEF W
  <2>5. \A e \in batch' : IF e.conn = 0 THEN e.flags = {"WAKE"} ELSE "WAKE" \notin e.flags
    BY <2>1, <2>2, <2>3, Zenon
  <2>6. \A e \in batch' \cup {cur'} : SplitEvents /\ e.conn # 0 => e.flags \in {{"READ"}, {"WRITE"}}
    BY <2>1, <2>2, <2>3, <2>4, Zenon
  <2>7. \A e1, e2 \in batch' \cup {cur'} : ~SplitEvents /\ e1.conn = e2.conn /\ e1.conn # 0 => e1 = e2
    BY <2>1, <2>2, <2>3, <2>4
  <2>8. cur' \notin batch' BY <2>4, <2>5, Zenon
  <2> QED BY <2>5, <2>6, <2>7, <2>8, Zenon DEF EventsWellFormed
<1>3. CASE WakeEvent
  BY <1>0, <1>3, Zenon DEF WakeEvent, TakePending, EventsWellFormed
<1>4. CASE ConnectionEvent
  BY <1>0, <1>4, Zenon DEF ConnectionEvent, EventsWellFormed
<1>5. CASE FinishEvent
  <2>1. cur' = NoEvent /\ NoEvent.conn = 0 /\ NoEvent.flags = {} /\ batch' = batch
    BY <1>5, Zenon DEF FinishEvent, NoEvent
  <2> QED BY <1>0, <2>1, Zenon DEF EventsWellFormed
<1>6. ASSUME \/ Top \/ AddConnection \/ AllAdopted \/ DrainCompleted \/ Drained \/ Recv \/ ParseNow
             \/ ParseAsync \/ ParseDeferred \/ DeferredFailed \/ ParseClose \/ ParseDone
             \/ EventsDone \/ RunReady \/ RunDone \/ FlushWrites \/ Wake \/ Stop \/ Destroy
             \/ (\E s \in Socks : Client(s)) \/ (\E s \in Socks : Accept(s))
             \/ (\E d \in CallSlots : Claim(d)) \/ (\E d \in CallSlots : QueueCompleted(d))
      PROVE  UNCHANGED <<batch, cur>>
  BY <1>6, Zenon DEF Top, AddConnection, Registered, NotRegistered, AllAdopted, TakeCompleted,
       DrainCompleted, Drained, Recv, ParseNow, ParseAsync, ParseDeferred, DeferredFailed,
       ParseClose, ParseDone, EventsDone, RunReady, RunDone, FlushWrites, Client, Send, HangUp,
       Backpressure, Accept, AboutToWake, Claim, QueueCompleted, Wake, Stop, Destroy
<1> HIDE DEF clientVars, sharedVars, workerVars, otherVars, parseVars
<1> QED BY <1>1, <1>2, <1>3, <1>4, <1>5, <1>6, Zenon DEF Next, Run, Others, Terminated, vars, clientVars,
     sharedVars

(* What is handed over stays announced by a wake until the worker looks. *)
LEMMA WakesStep == WorkerInv /\ [Next]_vars => HandOverWakes'
<1> SUFFICES ASSUME WorkerInv, [Next]_vars PROVE HandOverWakes'
  BY Zenon
<1>0. TypeOK /\ HandOverWakes BY Zenon DEF WorkerInv
<1> USE DEF clientVars, sharedVars, workerVars, otherVars, parseVars
<1>1. CASE UNCHANGED <<pending, completed, stopping, wake, wakers, batch, pc>>
  BY <1>0, <1>1, Zenon DEF HandOverWakes, Woken
<1>2. CASE Top
  BY <1>0, <1>2, Zenon DEF Top, HandOverWakes, Woken
<1>3. CASE Poll
  <2>1. wake => \E e \in batch' : "WAKE" \in e.flags
    <3> DEFINE W == [NoEvent EXCEPT !.flags = {"WAKE"}]
    <3>1. wake => W \in batch' BY <1>3, Zenon DEF Poll
    <3>2. "WAKE" \in W.flags BY Zenon DEF NoEvent
    <3> HIDE DEF W
    <3> QED BY <3>1, <3>2, Zenon
  <2>2. batch = {} BY <1>3, Zenon DEF WorkerInv, Phases, Poll, InBatch, Handling
  <2> QED BY <1>0, <1>3, <2>1, <2>2, Zenon DEF Poll, HandOverWakes, Woken
<1>4. CASE WakeEvent
  BY <1>0, <1>4, Zenon DEF WakeEvent, TakePending, HandOverWakes, Woken
<1>5. CASE AllAdopted
  BY <1>0, <1>5, Zenon DEF AllAdopted, TakeCompleted, HandOverWakes, Woken
<1>6. CASE Drained
  BY <1>0, <1>6, Zenon DEF Drained, HandOverWakes, Woken
<1>7. CASE ConnectionEvent
  <2>1. PICK e \in batch : e.conn # 0 /\ batch' = batch \ {e} BY <1>7, Zenon DEF ConnectionEvent
  <2>2. "WAKE" \notin e.flags BY <2>1, Zenon DEF WorkerInv, EventsWellFormed
  <2>3. pc' # "poll" /\ pc = "events" /\ UNCHANGED <<pending, completed, wake, wakers>>
    BY <1>7, Zenon DEF ConnectionEvent
  <2> QED BY <1>0, <2>1, <2>2, <2>3, Zenon DEF HandOverWakes, Woken
<1>8. CASE Recv
  BY <1>0, <1>8, Zenon DEF Recv, HandOverWakes, Woken
<1>9. CASE ParseDeferred
  BY <1>0, <1>9, Zenon DEF ParseDeferred, Parsing, HandOverWakes, Woken
<1>10. CASE DeferredFailed
  BY <1>0, <1>10, Zenon DEF DeferredFailed, HandOverWakes, Woken
<1>11. CASE ParseDone
  BY <1>0, <1>11, Zenon DEF ParseDone, HandOverWakes, Woken
<1>12. CASE FinishEvent
  BY <1>0, <1>12, Zenon DEF FinishEvent, HandOverWakes, Woken
<1>13. CASE EventsDone
  BY <1>0, <1>13, Zenon DEF EventsDone, HandOverWakes, Woken
<1>14. CASE RunDone
  BY <1>0, <1>14, Zenon DEF RunDone, TakeCompleted, HandOverWakes, Woken
<1>15. CASE FlushWrites
  BY <1>0, <1>15, Zenon DEF FlushWrites, HandOverWakes, Woken
<1>16. ASSUME NEW s \in Socks, Accept(s) PROVE HandOverWakes'
  <2>1. wakers \in Nat BY <1>0, Zenon DEF TypeOK
  <2>2. UNCHANGED <<completed, stopping, batch, pc, wake>> BY <1>16, Zenon DEF Accept
  <2>3. CASE wakers' = wakers + 1
    <3>1. wakers' > 0 BY <2>1, <2>3
    <3> QED BY <1>0, <2>2, <3>1, Zenon DEF HandOverWakes, Woken
  <2>4. CASE UNCHANGED <<pending, wakers>> BY <1>0, <2>2, <2>4, Zenon DEF HandOverWakes, Woken
  <2> QED BY <1>16, <2>3, <2>4, Zenon DEF Accept, AboutToWake
<1>17. ASSUME NEW d \in CallSlots, QueueCompleted(d) PROVE HandOverWakes'
  <2>1. wakers \in Nat BY <1>0, Zenon DEF TypeOK
  <2>2. wakers' > 0 BY <2>1, <1>17 DEF QueueCompleted, AboutToWake
  <2> QED BY <2>2, Zenon DEF HandOverWakes, Woken
<1>18. CASE Wake
  BY <1>0, <1>18, Zenon DEF Wake, HandOverWakes, Woken
<1>19. CASE Stop
  <2>1. wakers \in Nat BY <1>0, Zenon DEF TypeOK
  <2>2. wakers' > 0 BY <2>1, <1>19 DEF Stop, AboutToWake
  <2> QED BY <2>2, Zenon DEF HandOverWakes, Woken
<1>20. CASE Destroy
  BY <1>0, <1>20, Zenon DEF Destroy, HandOverWakes, Woken
<1>21. ASSUME \/ AddConnection \/ DrainCompleted \/ ParseNow \/ ParseAsync \/ ParseClose \/ RunReady
              \/ (\E s \in Socks : Client(s)) \/ (\E d \in CallSlots : Claim(d))
      PROVE  UNCHANGED <<pending, completed, stopping, wake, wakers, batch, pc>>
  BY <1>21, Zenon DEF AddConnection, Registered, NotRegistered, DrainCompleted, ParseNow,
     ParseAsync,
       ParseClose, RunReady, Client, Send, HangUp, Backpressure, Claim
<1> HIDE DEF clientVars, sharedVars, workerVars, otherVars, parseVars
<1> QED BY <1>1, <1>2, <1>3, <1>4, <1>5, <1>6, <1>7, <1>8, <1>9, <1>10, <1>11, <1>12, <1>13, <1>14,
     <1>15, <1>16, <1>17, <1>18, <1>19, <1>20, <1>21, Zenon DEF Next, Run, Others, Terminated, vars,
     clientVars, sharedVars

(* What queue_packet does to a connection. *)
LEMMA QueuePacketFacts ==
  ASSUME NEW k \in Connections, NEW o \in QueuePacket(k)
  PROVE  /\ o.ok \in BOOLEAN /\ o.conn \in Connections
         /\ o.conn.sock = k.sock /\ o.conn.closing = k.closing /\ o.conn.detached = k.detached
         /\ o.conn.write = k.write /\ o.conn.pending_deferred = k.pending_deferred
         /\ k.detached => ~o.ok /\ o.conn = k
         /\ o.conn.unsent >= k.unsent
         /\ k.queued => o.conn.queued
         /\ ~AllocMayFail => o.conn.queued \/ o.conn = k
<1>1. CASE o = [ok |-> FALSE, conn |-> k] /\ (k.detached \/ AllocMayFail)
  BY <1>1 DEF Connections
<1>2. CASE ~k.detached /\ o = [ok |-> TRUE, conn |-> [k EXCEPT !.unsent = @ + 1, !.queued = TRUE]]
  <2>1. o.conn = [k EXCEPT !.unsent = @ + 1, !.queued = TRUE] BY <1>2, Zenon
  <2>2. ~k.detached /\ o.ok \in BOOLEAN BY <1>2, Zenon
  <2>3. k.unsent \in Nat /\ k.unsent + 1 \in Nat BY DEF Connections
  <2>4. o.conn \in Connections BY <2>1, <2>3, Zenon DEF Connections
  <2>5. /\ o.conn.sock = k.sock /\ o.conn.closing = k.closing /\ o.conn.detached = k.detached
        /\ o.conn.write = k.write /\ o.conn.pending_deferred = k.pending_deferred
        /\ o.conn.unsent = k.unsent + 1 /\ o.conn.queued
    BY <2>1, Zenon DEF Connections
  <2>6. o.conn.unsent >= k.unsent BY <2>3, <2>5
  <2>7. QED BY <2>2, <2>4, <2>5, <2>6, Zenon
<1>3. CASE ~k.detached /\ AllocMayFail /\ o = [ok |-> FALSE, conn |-> [k EXCEPT !.unsent = @ + 1]]
  <2>1. o.conn \in Connections BY <1>3 DEF Connections
  <2>2. QED BY <1>3, <2>1 DEF Connections
<1> QED BY <1>1, <1>2, <1>3, Zenon DEF QueuePacket

(* What connection_write does to an open connection. *)
LEMMA ConnectionWriteFacts ==
  ASSUME NEW k \in Connections, NEW r \in ConnectionWrite(k)
  PROVE  /\ r \in Connections
         /\ r.sock = k.sock /\ r.detached = k.detached /\ r.queued = k.queued
         /\ r.pending_deferred = k.pending_deferred
         /\ r.unsent <= k.unsent
         /\ k.closing => r.closing
         /\ r.closing => k.closing \/ r.unsent > 0
         /\ r.write => r.unsent > 0
         /\ r.unsent > 0 => r.write \/ r.closing
<1>1. CASE k.unsent = 0 /\ r = [k EXCEPT !.write = FALSE]
  <2>1. r \in Connections BY <1>1, Zenon DEF Connections
  <2>2. QED BY <1>1, <2>1 DEF Connections
<1>2. CASE k.unsent # 0 /\ r = [k EXCEPT !.closing = TRUE]
  <2>1. r \in Connections BY <1>2, Zenon DEF Connections
  <2>2. QED BY <1>2, <2>1 DEF Connections
<1>3. CASE \E n \in 1 .. k.unsent : r = WantWrite([k EXCEPT !.unsent = n])
  <2>1. PICK n \in 1 .. k.unsent : r = WantWrite([k EXCEPT !.unsent = n]) BY <1>3, Zenon
  <2>2. n \in Nat /\ n > 0 /\ n <= k.unsent BY DEF Connections
  <2>3. [k EXCEPT !.unsent = n] \in Connections BY <2>2, Zenon DEF Connections
  <2>4. r \in Connections BY <2>1, <2>3, Zenon DEF WantWrite, Connections
  <2>5. QED BY <2>1, <2>2, <2>4, Zenon DEF WantWrite, Connections
<1>4. CASE r = [k EXCEPT !.unsent = 0, !.write = FALSE]
  <2>1. r \in Connections BY <1>4, Zenon DEF Connections
  <2>2. QED BY <1>4, <2>1 DEF Connections
<1> QED BY <1>1, <1>2, <1>3, <1>4, Zenon DEF ConnectionWrite

(* The assignments to the fields of a connection. *)
LEMMA ClosingFacts ==
  ASSUME NEW k \in Connections, NEW b \in BOOLEAN
  PROVE  LET r == [k EXCEPT !.closing = b]
         IN /\ r \in Connections /\ r.closing = b
            /\ r.sock = k.sock /\ r.detached = k.detached /\ r.unsent = k.unsent
            /\ r.queued = k.queued /\ r.write = k.write
            /\ r.pending_deferred = k.pending_deferred
<1>1. [k EXCEPT !.closing = b] \in Connections BY Zenon DEF Connections
<1> QED BY <1>1, Zenon DEF Connections

(* A connection whose count of deferred calls is set. *)
LEMMA PendingFacts ==
  ASSUME NEW k \in Connections, NEW n \in Nat
  PROVE  LET r == [k EXCEPT !.pending_deferred = n]
         IN /\ r \in Connections /\ r.pending_deferred = n
            /\ r.sock = k.sock /\ r.detached = k.detached /\ r.unsent = k.unsent
            /\ r.queued = k.queued /\ r.write = k.write /\ r.closing = k.closing
<1>1. [k EXCEPT !.pending_deferred = n] \in Connections BY Zenon DEF Connections
<1> QED BY <1>1, Zenon DEF Connections

(* A connection taken off the list of queued writes. *)
LEMMA UnqueuedFacts ==
  ASSUME NEW k \in Connections
  PROVE  LET r == [k EXCEPT !.queued = FALSE]
         IN /\ r \in Connections /\ r.queued = FALSE
            /\ r.sock = k.sock /\ r.detached = k.detached /\ r.unsent = k.unsent
            /\ r.closing = k.closing /\ r.write = k.write
            /\ r.pending_deferred = k.pending_deferred
<1>1. [k EXCEPT !.queued = FALSE] \in Connections BY Zenon DEF Connections
<1> QED BY <1>1, Zenon DEF Connections

(* A connection that connection_destroy has detached. *)
LEMMA DetachedFacts ==
  ASSUME NEW k \in Connections
  PROVE  LET r == [k EXCEPT !.detached = TRUE, !.unsent = 0, !.queued = FALSE, !.write = FALSE]
         IN /\ r \in Connections /\ r.detached = TRUE /\ r.unsent = 0 /\ r.queued = FALSE /\ r.write = FALSE
            /\ r.sock = k.sock /\ r.closing = k.closing
            /\ r.pending_deferred = k.pending_deferred
<1>1. [k EXCEPT !.detached = TRUE, !.unsent = 0, !.queued = FALSE, !.write = FALSE] \in Connections
  BY Zenon DEF Connections
<1> QED BY <1>1, Zenon DEF Connections

(* A slot as worker_add_connection leaves it, registered or not. *)
LEMMA AdoptedFacts ==
  ASSUME NEW s \in Socks
  PROVE  LET r == [Unused EXCEPT !.sock = s, !.detached = FALSE]
             n == [Unused EXCEPT !.sock = s]
         IN /\ r \in Connections /\ r.sock = s /\ r.detached = FALSE
            /\ r.closing = FALSE /\ r.unsent = 0 /\ r.queued = FALSE /\ r.write = FALSE
            /\ r.pending_deferred = 0
            /\ n \in Connections /\ n.sock = s /\ n.detached = TRUE
            /\ n.closing = FALSE /\ n.unsent = 0 /\ n.queued = FALSE /\ n.write = FALSE
            /\ n.pending_deferred = 0
  BY Zenon DEF Connections, Unused

(* A slot of the arena no connection has used yet. *)
LEMMA UnusedType == Unused \in Connections
  BY Zenon DEF Connections, Unused

(* The connection whose event is handled. *)
LEMMA Handled ==
  ASSUME WorkerInv, pc \in Handling
  PROVE  /\ cur.conn \in ConnSlots /\ conn[cur.conn] \in Connections
         /\ ~conn[cur.conn].detached /\ conn[cur.conn].sock = cur.sock /\ cur.sock \in Socks
<1>1. cur \in Events /\ cur.conn # 0 /\ conn \in [ConnSlots -> Connections]
  BY Zenon DEF WorkerInv, TypeOK, Phases
<1>2. cur.conn \in ConnSlots /\ cur.sock \in Socks \cup {NoSock}
  BY <1>1, Zenon DEF Events
<1>3. ~conn[cur.conn].detached /\ conn[cur.conn].sock = cur.sock
  BY <1>1, Zenon DEF WorkerInv, EventsCurrent
<1>4. conn[cur.conn].sock # NoSock
  BY <1>2, <1>3, Zenon DEF WorkerInv, ConnectionStates
<1> QED BY <1>1, <1>2, <1>3, <1>4, Zenon

(* The packet being parsed and its request. *)
LEMMA ParsedFacts ==
  ASSUME WorkerInv, pc \in {"parse", "return"}, rbuf # <<>>
  PROVE  /\ Request \in Reqs /\ Head(rbuf) \in Packets /\ Tail(rbuf) \in Seq(Packets)
         /\ Request = <<cur.sock, Head(rbuf).id>> /\ Head(rbuf).id \in 1 .. MaxPackets
<1>1. cur.sock \in Socks /\ conn[cur.conn].sock = cur.sock
  BY Handled, Zenon DEF Handling
<1>2. rbuf \in Seq(Packets) BY Zenon DEF WorkerInv, TypeOK
<1>3. Head(rbuf) \in Packets /\ Tail(rbuf) \in Seq(Packets) BY <1>2
<1>4. Head(rbuf).id \in 1 .. MaxPackets BY <1>3, Zenon DEF Packets
<1> QED BY <1>1, <1>3, <1>4, Zenon DEF Request, Reqs

(* A deferred call that is not free. *)
LEMMA AwaitingFacts ==
  ASSUME WorkerInv, NEW d \in CallSlots, Awaiting(d)
  PROVE  /\ defer[d].conn \in ConnSlots /\ defer[d].req \in Reqs
         /\ conn[defer[d].conn] \in Connections /\ conn[defer[d].conn].sock = defer[d].req[1]
<1>1. defer[d] \in Calls /\ defer[d].conn # 0 /\ defer[d].req # <<>> /\ conn \in [ConnSlots -> Connections]
  BY Zenon DEF WorkerInv, TypeOK, CallsAccounted, Awaiting
<1>2. defer[d].conn \in ConnSlots /\ defer[d].req \in Reqs
  BY <1>1, Zenon DEF Calls
<1>3. conn[defer[d].conn].sock = defer[d].req[1]
  BY Zenon DEF WorkerInv, DeferredPinsConnection, Awaiting
<1> QED BY <1>1, <1>2, <1>3, Zenon

(* The call worker_drain_completed takes is one that was completed. *)
LEMMA DrainedFacts ==
  ASSUME WorkerInv, draining # <<>>
  PROVE  /\ Head(draining) \in CallSlots /\ Tail(draining) \in Seq(CallSlots)
         /\ Awaiting(Head(draining)) /\ defer[Head(draining)].state = "queued"
<1>1. draining \in Seq(CallSlots) BY Zenon DEF WorkerInv, TypeOK
<1>2. Head(draining) \in CallSlots /\ Tail(draining) \in Seq(CallSlots) BY <1>1
<1>3. Head(draining) \in Range(draining) BY <1>1, RangeOfTail
<1>4. defer[Head(draining)].state = "queued" BY <1>2, <1>3, Zenon DEF WorkerInv, CallsAccounted
<1> QED BY <1>2, <1>4, Zenon DEF Awaiting

(* The coroutine run_ready resumes. *)
LEMMA ReadyFacts ==
  ASSUME WorkerInv, ready # <<>>
  PROVE  /\ Head(ready) \in Coroutines /\ Tail(ready) \in Seq(Coroutines)
         /\ Head(ready).conn \in ConnSlots /\ Head(ready).req \in Reqs /\ conn[Head(ready).conn] \in Connections
<1>1. ready \in Seq(Coroutines) /\ conn \in [ConnSlots -> Connections] BY Zenon DEF WorkerInv, TypeOK
<1>2. Head(ready) \in Coroutines /\ Tail(ready) \in Seq(Coroutines) BY <1>1
<1> QED BY <1>1, <1>2, Zenon DEF Coroutines

(* A deferred call that has been freed. *)
LEMMA FreeCall == [conn |-> 0, req |-> <<>>, state |-> "free"] \in Calls
  BY Zenon DEF Calls

(* The two parts a read takes from the packets that have arrived. *)
LEMMA SubSeqFacts ==
  ASSUME NEW S, NEW q \in Seq(S), NEW n \in 1 .. Len(q)
  PROVE  /\ SubSeq(q, 1, n) \in Seq(S) /\ Len(SubSeq(q, 1, n)) = n
         /\ SubSeq(q, n + 1, Len(q)) \in Seq(S) /\ Len(SubSeq(q, n + 1, Len(q))) = Len(q) - n
         /\ \A i \in 1 .. n : SubSeq(q, 1, n)[i] = q[i]
         /\ \A i \in 1 .. Len(q) - n : SubSeq(q, n + 1, Len(q))[i] = q[i + n]
OBVIOUS

(* A call that is handed over for completion: it was held or claimed. *)
LEMMA QueuedCall ==
  ASSUME WorkerInv, NEW d \in CallSlots, defer[d].state \in {"held", "claimed"},
         defer' = [defer EXCEPT ![d].state = "queued"], completed' = Append(completed, d),
         UNCHANGED <<draining, deferFree>>
  PROVE  CallsAccounted'
<1>1. /\ defer \in [CallSlots -> Calls] /\ completed \in Seq(CallSlots) /\ CallsAccounted
  BY Zenon DEF WorkerInv, TypeOK
<1> DEFINE q == [defer[d] EXCEPT !.state = "queued"]
<1>2. q.state = "queued" /\ q.conn = defer[d].conn /\ q.req = defer[d].req BY <1>1, Zenon DEF Calls
<1>3. \A x \in CallSlots : defer'[x] = IF x = d THEN q ELSE defer[x] BY <1>1, Zenon
<1> HIDE DEF q
<1>4. d \notin Range(completed) /\ d \notin Range(draining) BY <1>1, Zenon DEF CallsAccounted
<1>5. Range(completed') = Range(completed) \cup {d} /\ IsInjective(completed')
  BY <1>1, <1>4, RangeOfAppend DEF CallsAccounted
<1>6. ASSUME NEW x \in CallSlots
      PROVE  /\ defer'[x].state # "free" => defer'[x].conn # 0 /\ defer'[x].req # <<>>
             /\ defer'[x].state = "queued" <=> x \in Range(completed') \cup Range(draining')
  BY <1>1, <1>2, <1>3, <1>5 DEF CallsAccounted
<1>7. \A i \in DOMAIN deferFree : deferFree[i] \in CallSlots /\ deferFree[i] # d
  BY <1>1 DEF CallsAccounted, WorkerInv, TypeOK
<1>8. \A i \in DOMAIN deferFree' : defer'[deferFree'[i]].state = "free"
  BY <1>1, <1>3, <1>7, Zenon DEF CallsAccounted
<1> QED BY <1>1, <1>4, <1>5, <1>6, <1>8 DEF CallsAccounted

(* The list of completed calls is taken when none is left of the last one. *)
LEMMA TakenCalls ==
  ASSUME WorkerInv, TakeCompleted, draining = <<>>, UNCHANGED <<defer, deferFree>>
  PROVE  CallsAccounted'
<1>1. Range(<<>>) = {} /\ IsInjective(<<>>) BY DEF Range, IsInjective
<1>2. CallsAccounted BY Zenon DEF WorkerInv
<1>3. draining' = completed /\ completed' = <<>> BY Zenon DEF TakeCompleted
<1> QED BY <1>1, <1>2, <1>3, Zenon DEF CallsAccounted

(* A deferred call is free, held, or in one queue. *)
LEMMA CallsStep == WorkerInv /\ [Next]_vars => CallsAccounted'
<1> SUFFICES ASSUME WorkerInv, [Next]_vars PROVE CallsAccounted'
  BY Zenon
<1>0. TypeOK /\ CallsAccounted BY Zenon DEF WorkerInv
<1> USE DEF clientVars, sharedVars, workerVars, otherVars, parseVars
<1>1. CASE UNCHANGED <<defer, completed, draining, deferFree>>
  BY <1>0, <1>1, Zenon DEF CallsAccounted
<1>2. CASE AllAdopted
  <2>1. draining = <<>> BY <1>2, Zenon DEF WorkerInv, Phases, AllAdopted
  <2> QED BY <1>2, <2>1, TakenCalls, Zenon DEF AllAdopted
<1>3. CASE DrainCompleted
  <2> DEFINE d == Head(draining)
             f == [conn |-> 0, req |-> <<>>, state |-> "free"]
  <2>1. d \in CallSlots /\ defer[d].state = "queued" /\ draining # <<>>
    BY <1>3, DrainedFacts, Zenon DEF DrainCompleted
  <2>2. Range(draining) = {d} \cup Range(Tail(draining)) /\ IsInjective(Tail(draining)) /\ d \notin Range(Tail(draining))
    BY <1>0, <2>1, RangeOfTail, Zenon DEF CallsAccounted, TypeOK
  <2>3. \A x \in CallSlots : defer'[x] = IF x = d THEN f ELSE defer[x]
    BY <1>0, <1>3, Zenon DEF DrainCompleted, TypeOK
  <2>4. draining' = Tail(draining) /\ completed' = completed /\ deferFree' = <<d>> \o deferFree
    BY <1>3, Zenon DEF DrainCompleted
  <2>5. f.state = "free" BY Zenon
  <2> HIDE DEF d, f
  <2>6. d \notin Range(deferFree) BY <1>0, <2>1, Zenon DEF CallsAccounted, Range
  <2>7. Range(deferFree') = Range(deferFree) \cup {d} /\ IsInjective(deferFree')
    BY <1>0, <2>1, <2>4, <2>6, PushFacts DEF CallsAccounted, TypeOK
  <2>8. \A x \in Range(deferFree) : x \in CallSlots /\ defer[x].state = "free"
    BY <1>0 DEF CallsAccounted, Range, TypeOK
  <2>9. \A x \in Range(deferFree') : defer'[x].state = "free"
    BY <2>1, <2>3, <2>5, <2>7, <2>8, Zenon
  <2>10. \A i \in DOMAIN deferFree' : defer'[deferFree'[i]].state = "free" BY <2>9, Zenon DEF Range
  <2> QED BY <1>0, <2>1, <2>2, <2>3, <2>4, <2>5, <2>7, <2>10, ZenonT(30) DEF CallsAccounted
<1>4. CASE ParseDeferred
  <2> DEFINE d == Head(deferFree)
             h == [conn |-> cur.conn, req |-> Request, state |-> "held"]
  <2>1. deferFree # <<>> /\ deferFree' = Tail(deferFree) /\ UNCHANGED <<completed, draining>>
    BY <1>4, Zenon DEF ParseDeferred
  <2>2. /\ Range(deferFree) = {d} \cup Range(Tail(deferFree)) /\ d \notin Range(Tail(deferFree))
        /\ IsInjective(Tail(deferFree)) /\ d \in CallSlots
    BY <1>0, <2>1, RangeOfTail, HeadTail, Zenon DEF CallsAccounted, TypeOK
  <2>3. \A x \in Range(deferFree) : x \in CallSlots /\ defer[x].state = "free"
    BY <1>0 DEF CallsAccounted, Range, TypeOK
  <2>4. \A x \in CallSlots : defer'[x] = IF x = d THEN h ELSE defer[x]
    BY <1>0, <1>4, Zenon DEF ParseDeferred, TypeOK
  <2>5. h.state = "held" /\ h.conn # 0 /\ h.req # <<>>
    <3>1. cur.conn # 0 BY <1>4, Zenon DEF ParseDeferred, Parsing, WorkerInv, Phases, Handling
    <3>2. Request # <<>> BY Zenon DEF Request
    <3> QED BY <3>1, <3>2, Zenon
  <2> HIDE DEF d, h
  <2>6. \A i \in DOMAIN deferFree' : defer'[deferFree'[i]].state = "free"
    <3>1. \A x \in Range(deferFree') : defer'[x].state = "free" BY <2>1, <2>2, <2>3, <2>4, Zenon
    <3> QED BY <3>1, Zenon DEF Range
  <2>7. defer[d].state = "free" BY <2>2, <2>3, Zenon
  <2> QED BY <1>0, <2>1, <2>2, <2>4, <2>5, <2>6, <2>7, ZenonT(40) DEF CallsAccounted
<1>5. CASE DeferredFailed
  <2>1. PICK d \in CallSlots :
          IF defer[d].state = "held"
            THEN defer' = [defer EXCEPT ![d].state = "queued"] /\ completed' = Append(completed, d)
            ELSE UNCHANGED <<defer, completed>>
    BY <1>5, Zenon DEF DeferredFailed
  <2>2. UNCHANGED <<draining, deferFree>> BY <1>5, Zenon DEF DeferredFailed
  <2>3. CASE defer[d].state = "held" BY <2>1, <2>2, <2>3, QueuedCall, Zenon
  <2>4. CASE defer[d].state # "held" BY <1>1, <2>1, <2>2, <2>4, Zenon
  <2> QED BY <2>3, <2>4, Zenon
<1>6. CASE RunDone
  <2>1. draining = <<>> BY <1>6, Zenon DEF WorkerInv, Phases, RunDone
  <2> QED BY <1>6, <2>1, TakenCalls, Zenon DEF RunDone
<1>7. ASSUME NEW d \in CallSlots, Claim(d) PROVE CallsAccounted'
  BY <1>0, <1>7 DEF Claim, CallsAccounted
<1>8. ASSUME NEW d \in CallSlots, QueueCompleted(d) PROVE CallsAccounted'
  BY <1>8, QueuedCall, Zenon DEF QueueCompleted
<1>9. CASE Destroy
  <2>1. draining' = <<>> /\ completed' = <<>> /\ deferFree' = <<>>
    BY <1>9, Zenon DEF Destroy, WorkerInv, Phases
  <2>2. Range(<<>>) = {} /\ IsInjective(<<>>) /\ DOMAIN <<>> = {} BY DEF Range, IsInjective
  <2>3. \A d \in CallSlots : defer'[d].state = "free" BY <1>9, Zenon DEF Destroy
  <2> QED BY <2>1, <2>2, <2>3, Zenon DEF CallsAccounted
<1>10. ASSUME \/ Top \/ Poll \/ WakeEvent \/ AddConnection \/ Drained \/ ConnectionEvent \/ Recv
              \/ ParseNow \/ ParseAsync \/ ParseClose \/ ParseDone \/ FinishEvent \/ EventsDone
              \/ RunReady \/ FlushWrites \/ Wake \/ Stop \/ (\E s \in Socks : Client(s))
              \/ (\E s \in Socks : Accept(s))
      PROVE  UNCHANGED <<defer, completed, draining, deferFree>>
  BY <1>10, Zenon DEF Top, Poll, WakeEvent, TakePending, AddConnection, Registered,
     NotRegistered, Drained,
       ConnectionEvent, Recv, ParseNow, ParseAsync, ParseClose, ParseDone, FinishEvent, EventsDone,
       RunReady, FlushWrites, Client, Send, HangUp, Backpressure, Accept, AboutToWake, Wake, Stop
<1> HIDE DEF clientVars, sharedVars, workerVars, otherVars, parseVars
<1> QED BY <1>1, <1>2, <1>3, <1>4, <1>5, <1>6, <1>7, <1>8, <1>9, <1>10, Zenon DEF Next, Run, Others,
     Terminated, vars, clientVars, sharedVars

(* connection_destroy keeps the types of what it changes. *)
LEMMA DestroyType ==
  ASSUME TypeOK, NEW c \in ConnSlots, NEW k \in Connections, ConnectionDestroy(c, k)
  PROVE  /\ conn' \in [ConnSlots -> Connections] /\ connFree' \in Seq(ConnSlots)
         /\ fd' \in [Socks -> {"backlog", "pending", "open", "closed"}]
<1>1. PICK j \in Connections :
        j = [k EXCEPT !.detached = TRUE, !.unsent = 0, !.queued = FALSE, !.write = FALSE]
  BY DetachedFacts, Zenon
<1>2. <<c>> \o connFree \in Seq(ConnSlots)
  BY PushFacts, Zenon DEF TypeOK
<1>3. /\ conn' = [conn EXCEPT ![c] = j]
      /\ connFree' \in {<<c>> \o connFree, connFree}
      /\ fd' \in {fd, [fd EXCEPT ![k.sock] = "closed"]}
  BY <1>1, Zenon DEF ConnectionDestroy
<1>4. /\ conn \in [ConnSlots -> Connections] /\ connFree \in Seq(ConnSlots)
      /\ fd \in [Socks -> {"backlog", "pending", "open", "closed"}]
  BY Zenon DEF TypeOK
<1> QED BY <1>1, <1>2, <1>3, <1>4, Zenon

(* maybe_close keeps the types of what it changes. *)
LEMMA MaybeCloseType ==
  ASSUME TypeOK, NEW c \in ConnSlots, NEW k \in Connections, MaybeClose(c, k)
  PROVE  /\ conn' \in [ConnSlots -> Connections] /\ connFree' \in Seq(ConnSlots)
         /\ fd' \in [Socks -> {"backlog", "pending", "open", "closed"}]
<1>1. CASE ConnectionDestroy(c, k) BY <1>1, DestroyType, Zenon
<1>2. CASE conn' = [conn EXCEPT ![c] = k] /\ UNCHANGED <<fd, connFree>>
  BY <1>2, Zenon DEF TypeOK
<1> QED BY <1>1, <1>2, Zenon DEF MaybeClose

(* Every step of the loop, of the clients and of other threads keeps the types. *)
LEMMA TypeStep == WorkerInv /\ [Next]_vars => TypeOK'
<1> SUFFICES ASSUME WorkerInv, [Next]_vars PROVE TypeOK'
  BY Zenon
<1> USE DEF clientVars, sharedVars, workerVars, otherVars, parseVars
<1>0. TypeOK BY Zenon DEF WorkerInv
<1>a. /\ conn \in [ConnSlots -> Connections] /\ connFree \in Seq(ConnSlots)
      /\ fd \in [Socks -> {"backlog", "pending", "open", "closed"}]
  BY <1>0, Zenon DEF TypeOK
<1>b. /\ defer \in [CallSlots -> Calls] /\ deferFree \in Seq(CallSlots)
      /\ completed \in Seq(CallSlots) /\ draining \in Seq(CallSlots)
      /\ wake \in BOOLEAN /\ wakers \in Nat
  BY <1>0, Zenon DEF TypeOK
<1>c. /\ inbox \in [Socks -> Seq(Packets)] /\ rbuf \in Seq(Packets) /\ ready \in Seq(Coroutines)
      /\ answered \in [Reqs -> Nat] /\ misrouted \subseteq Reqs
  BY <1>0, Zenon DEF TypeOK
<1>d. ASSUME NEW k, NEW req \in Reqs, NEW ok, Account(k, req, ok)
      PROVE  answered' \in [Reqs -> Nat] /\ misrouted' \subseteq Reqs
  BY <1>c, <1>d DEF Account
<1>1. CASE Top \/ Drained \/ ParseDone \/ EventsDone
  <2>1. pc' \in Labels BY <1>1, Zenon DEF Top, Drained, ParseDone, EventsDone, Labels
  <2>2. CASE Top BY <1>0, <2>1, <2>2, Zenon DEF Top, TypeOK
  <2>3. CASE Drained BY <1>0, <2>1, <2>3, Zenon DEF Drained, TypeOK
  <2>4. CASE ParseDone BY <1>0, <2>1, <2>4, Zenon DEF ParseDone, TypeOK
  <2>5. CASE EventsDone BY <1>0, <2>1, <2>5, Zenon DEF EventsDone, TypeOK
  <2> QED BY <1>1, <2>2, <2>3, <2>4, <2>5, Zenon
<1>21. CASE WakeEvent
  BY <1>0, <1>21, SMTT(30) DEF WakeEvent, TakePending, Labels, TypeOK
<1>22. CASE AllAdopted
  BY <1>0, <1>22, SMTT(30) DEF AllAdopted, TakeCompleted, Labels, TypeOK
<1>23. CASE RunDone
  BY <1>0, <1>23 DEF RunDone, TakeCompleted, Labels, TypeOK
<1>2. CASE Poll
  <2>1. batch' \subseteq Events
    <3>1. ASSUME NEW c \in ConnSlots PROVE EventsOf(c) \subseteq Events
      <4>1. conn[c].sock \in Socks \cup {NoSock} BY <1>a, Zenon DEF Connections
      <4>2. ReadyFlags(c) \subseteq {"READ", "WRITE", "WAKE"} BY Zenon DEF ReadyFlags
      <4>3. \A f \in SUBSET {"READ", "WRITE", "WAKE"} : [conn |-> c, sock |-> conn[c].sock, flags |-> f] \in Events
        BY <4>1, Zenon DEF Events
      <4> QED BY <4>2, <4>3, Zenon DEF EventsOf
    <3>2. [NoEvent EXCEPT !.flags = {"WAKE"}] \in Events BY Zenon DEF NoEvent, Events
    <3>3. ASSUME NEW e \in batch' PROVE e \in Events
      <4> DEFINE attached == {x \in ConnSlots : ~conn[x].detached}
      <4>1. batch' = (UNION {EventsOf(c) : c \in attached})
                     \cup (IF wake THEN {[NoEvent EXCEPT !.flags = {"WAKE"}]} ELSE {})
        BY <1>2, Zenon DEF Poll
      <4>2. attached \subseteq ConnSlots BY Zenon
      <4> HIDE DEF attached
      <4>3. ASSUME e \in UNION {EventsOf(c) : c \in attached} PROVE e \in Events
        BY <3>1, <4>2, <4>3, Zenon
      <4>4. e \in (IF wake THEN {[NoEvent EXCEPT !.flags = {"WAKE"}]} ELSE {}) => e \in Events
        BY <3>2, Zenon
      <4> QED BY <3>3, <4>1, <4>3, <4>4, Zenon
    <3> QED BY <3>3, Zenon
  <2>2. /\ wake' = FALSE /\ pc' = "events"
        /\ UNCHANGED <<otherVars, fd, wakers, pending, completed, conn, connFree, defer, deferFree,
                       ready, cur, rbuf, adopting, draining, answered, misrouted>>
    BY <1>2, Zenon DEF Poll
  <2> QED BY <1>0, <2>1, <2>2, Zenon DEF Labels, TypeOK
<1>3. CASE AddConnection
  <2>1. adopting \in Seq(Socks) /\ adopting # <<>> BY <1>0, <1>3, Zenon DEF AddConnection, TypeOK
  <2>2. PICK s : s = Head(adopting) /\ s \in Socks BY <2>1
  <2>3. Tail(adopting) \in Seq(Socks) BY <2>1
  <2>4. connFree # <<>> => Head(connFree) \in ConnSlots /\ Tail(connFree) \in Seq(ConnSlots)
    BY <1>a
  <2>5. /\ [Unused EXCEPT !.sock = s, !.detached = FALSE] \in Connections
        /\ [Unused EXCEPT !.sock = s] \in Connections
    BY <2>2, AdoptedFacts, Zenon
  <2>6. \/ fd' = [fd EXCEPT ![s] = "closed"] /\ UNCHANGED <<conn, connFree>>
        \/ connFree # <<>> /\ Registered(Head(connFree), s)
        \/ connFree # <<>> /\ NotRegistered(Head(connFree), s)
    BY <1>3, <2>2, Zenon DEF AddConnection
  <2>7. /\ conn' \in [ConnSlots -> Connections] /\ connFree' \in Seq(ConnSlots)
        /\ fd' \in [Socks -> {"backlog", "pending", "open", "closed"}]
    <3>1. PICK k \in Connections : k = [Unused EXCEPT !.sock = s, !.detached = FALSE] BY <2>5, Zenon
    <3>2. PICK j \in Connections : j = [Unused EXCEPT !.sock = s] BY <2>5, Zenon
    <3>3. CASE fd' = [fd EXCEPT ![s] = "closed"] /\ UNCHANGED <<conn, connFree>>
      BY <1>a, <2>2, <3>3, Zenon
    <3>4. CASE connFree # <<>> /\ Registered(Head(connFree), s)
      <4>1. /\ conn' = [conn EXCEPT ![Head(connFree)] = k]
            /\ connFree' = Tail(connFree) /\ fd' = [fd EXCEPT ![s] = "open"]
        BY <3>1, <3>4, Zenon DEF Registered
      <4> QED BY <1>a, <2>2, <2>4, <3>4, <4>1, Zenon
    <3>5. CASE connFree # <<>> /\ NotRegistered(Head(connFree), s)
      <4>1. /\ conn' = [conn EXCEPT ![Head(connFree)] = j]
            /\ connFree' = connFree /\ fd' = [fd EXCEPT ![s] = "closed"]
        BY <3>2, <3>5, Zenon DEF NotRegistered
      <4> QED BY <1>a, <2>2, <2>4, <3>5, <4>1, Zenon
    <3> QED BY <2>6, <3>3, <3>4, <3>5, Zenon
  <2>8. /\ adopting' = Tail(adopting)
        /\ UNCHANGED <<otherVars, wake, wakers, pending, completed, defer, deferFree, ready, batch,
                       cur, rbuf, draining, pc, answered, misrouted>>
    BY <1>3, Zenon DEF AddConnection
  <2> QED BY <1>0, <2>3, <2>7, <2>8, Zenon DEF TypeOK
<1>4. CASE DrainCompleted
  <2>1. PICK d \in CallSlots, c \in ConnSlots :
          d = Head(draining) /\ c = defer[d].conn /\ defer[d].req \in Reqs
    <3>1. draining # <<>> BY <1>4, Zenon DEF DrainCompleted
    <3> QED BY <3>1, DrainedFacts, AwaitingFacts, Zenon
  <2>2. conn[c] \in Connections /\ Tail(draining) \in Seq(CallSlots)
    <3>1. draining # <<>> BY <1>4, Zenon DEF DrainCompleted
    <3> QED BY <1>a, <1>b, <3>1
  <2> DEFINE left == IF conn[c].pending_deferred > 0 THEN conn[c].pending_deferred - 1 ELSE 0
  <2>3. PICK o : /\ o \in IF ~conn[c].detached /\ ~conn[c].closing THEN QueuePacket(conn[c])
                          ELSE {[ok |-> FALSE, conn |-> conn[c]]}
                 /\ Account([o.conn EXCEPT !.pending_deferred = left], defer[d].req, o.ok)
                 /\ IF [o.conn EXCEPT !.pending_deferred = left].detached /\ left = 0
                      THEN ConnectionDestroy(c, [o.conn EXCEPT !.pending_deferred = left])
                      ELSE /\ conn' = [conn EXCEPT ![c] = [o.conn EXCEPT !.pending_deferred = left]]
                           /\ UNCHANGED <<fd, connFree>>
    BY <1>4, <2>1, Zenon DEF DrainCompleted
  <2>4. left \in Nat BY <2>2 DEF Connections
  <2>5. o.conn \in Connections
    BY <2>2, <2>3, QueuePacketFacts
  <2> HIDE DEF left
  <2>6. PICK k \in Connections : k = [o.conn EXCEPT !.pending_deferred = left]
    BY <2>4, <2>5, PendingFacts, Zenon
  <2>7. /\ Account(k, defer[d].req, o.ok)
        /\ \/ ConnectionDestroy(c, k)
           \/ conn' = [conn EXCEPT ![c] = k] /\ UNCHANGED <<fd, connFree>>
    BY <2>3, <2>6, Zenon
  <2>8. answered' \in [Reqs -> Nat] /\ misrouted' \subseteq Reqs
    BY <1>d, <2>1, <2>7, Zenon
  <2>9. /\ conn' \in [ConnSlots -> Connections] /\ connFree' \in Seq(ConnSlots)
        /\ fd' \in [Socks -> {"backlog", "pending", "open", "closed"}]
    <3>1. CASE ConnectionDestroy(c, k) BY <1>0, <3>1, DestroyType, Zenon
    <3>2. CASE conn' = [conn EXCEPT ![c] = k] /\ UNCHANGED <<fd, connFree>>
      BY <1>a, <3>2, Zenon
    <3> QED BY <2>7, <3>1, <3>2, Zenon
  <2>10. defer' \in [CallSlots -> Calls] /\ deferFree' \in Seq(CallSlots)
    <3>1. /\ defer' = [defer EXCEPT ![d] = [conn |-> 0, req |-> <<>>, state |-> "free"]]
          /\ deferFree' = <<d>> \o deferFree
      BY <1>4, <2>1, Zenon DEF DrainCompleted
    <3>2. <<d>> \o deferFree \in Seq(CallSlots) BY <1>b, PushFacts, Zenon
    <3> QED BY <1>b, <3>1, <3>2, FreeCall
  <2>11. /\ draining' = Tail(draining)
         /\ UNCHANGED <<otherVars, wake, wakers, pending, completed, ready, batch, cur, rbuf,
                        adopting, pc>>
    BY <1>4, Zenon DEF DrainCompleted
  <2> QED BY <1>0, <2>2, <2>8, <2>9, <2>10, <2>11, Zenon DEF TypeOK
<1>5. CASE ConnectionEvent
  BY <1>0, <1>5, Zenon DEF ConnectionEvent, Labels, TypeOK
<1>6. CASE Recv
  <2>1. PICK c \in ConnSlots, s \in Socks : c = cur.conn /\ s = conn[c].sock
    BY <1>6, Handled, Zenon DEF Recv, Handling
  <2>2. PICK k \in Connections : k = [conn[c] EXCEPT !.closing = TRUE]
    BY <1>a, <2>1, ClosingFacts, Zenon
  <2>3. \/ /\ \E n \in 1 .. Len(inbox[s]) :
                /\ rbuf' = SubSeq(inbox[s], 1, n)
                /\ inbox' = [inbox EXCEPT ![s] = SubSeq(inbox[s], n + 1, Len(inbox[s]))]
           /\ UNCHANGED conn
        \/ conn' = [conn EXCEPT ![c] = k] /\ UNCHANGED <<inbox, rbuf>>
        \/ UNCHANGED <<inbox, rbuf, conn>>
    BY <1>6, <2>1, <2>2, Zenon DEF Recv
  <2>4. /\ pc' \in {"parse", "finish"}
        /\ UNCHANGED <<sent, peer, blocked, fd, sharedVars, connFree, defer, deferFree, ready,
                       batch, cur, adopting, draining, answered, misrouted>>
    BY <1>6, Zenon DEF Recv
  <2>5. /\ inbox' \in [Socks -> Seq(Packets)] /\ rbuf' \in Seq(Packets)
        /\ conn' \in [ConnSlots -> Connections]
    <3>1. CASE /\ \E n \in 1 .. Len(inbox[s]) :
                    /\ rbuf' = SubSeq(inbox[s], 1, n)
                    /\ inbox' = [inbox EXCEPT ![s] = SubSeq(inbox[s], n + 1, Len(inbox[s]))]
               /\ UNCHANGED conn
      <4>1. PICK n \in 1 .. Len(inbox[s]) :
              /\ rbuf' = SubSeq(inbox[s], 1, n)
              /\ inbox' = [inbox EXCEPT ![s] = SubSeq(inbox[s], n + 1, Len(inbox[s]))]
        BY <3>1, Zenon
      <4>2. /\ SubSeq(inbox[s], 1, n) \in Seq(Packets)
            /\ SubSeq(inbox[s], n + 1, Len(inbox[s])) \in Seq(Packets)
        <5>1. inbox[s] \in Seq(Packets) BY <1>c, Zenon
        <5> QED BY <5>1, SubSeqFacts, Zenon
      <4> QED BY <1>a, <1>c, <3>1, <4>1, <4>2
    <3>2. CASE conn' = [conn EXCEPT ![c] = k] /\ UNCHANGED <<inbox, rbuf>>
      BY <1>a, <1>c, <3>2, Zenon
    <3>3. CASE UNCHANGED <<inbox, rbuf, conn>> BY <1>a, <1>c, <3>3, Zenon
    <3> QED BY <2>3, <3>1, <3>2, <3>3, Zenon
  <2> QED BY <1>0, <2>4, <2>5, Zenon DEF Labels, TypeOK
<1>7. CASE ParseNow
  <2>1. cur.conn \in ConnSlots /\ conn[cur.conn] \in Connections
    BY <1>7, Handled, Zenon DEF ParseNow, Parsing, Handling
  <2>2. Request \in Reqs /\ Tail(rbuf) \in Seq(Packets)
    BY <1>7, ParsedFacts, Zenon DEF ParseNow, Parsing
  <2>3. PICK o \in QueuePacket(conn[cur.conn]), failed \in BOOLEAN :
          /\ conn' = [conn EXCEPT ![cur.conn] = [o.conn EXCEPT !.closing = @ \/ failed]]
          /\ rbuf' = IF failed THEN <<>> ELSE Tail(rbuf)
          /\ Account(conn[cur.conn], Request, o.ok)
    BY <1>7, Zenon DEF ParseNow
  <2>4. PICK k \in Connections : k = [o.conn EXCEPT !.closing = @ \/ failed]
    <3>1. o.conn \in Connections BY <2>1, QueuePacketFacts, Zenon
    <3>2. (o.conn.closing \/ failed) \in BOOLEAN BY <2>3, Zenon
    <3> QED BY <3>1, <3>2, ClosingFacts, Zenon
  <2>5. conn' = [conn EXCEPT ![cur.conn] = k] BY <2>3, <2>4, Zenon
  <2>6. conn' \in [ConnSlots -> Connections] BY <1>a, <2>1, <2>5, Zenon
  <2>7. rbuf' \in Seq(Packets) BY <2>2, <2>3
  <2>8. answered' \in [Reqs -> Nat] /\ misrouted' \subseteq Reqs
    BY <1>d, <2>2, <2>3, Zenon
  <2>9. UNCHANGED <<parseVars, defer, deferFree, ready, pc>> BY <1>7, Zenon DEF ParseNow
  <2> QED BY <1>0, <2>6, <2>7, <2>8, <2>9, Zenon DEF TypeOK
<1>8. CASE ParseAsync
  <2>1. cur.conn \in ConnSlots
    BY <1>8, Handled, Zenon DEF ParseAsync, Parsing, Handling
  <2>2. Request \in Reqs /\ Tail(rbuf) \in Seq(Packets)
    BY <1>8, ParsedFacts, Zenon DEF ParseAsync, Parsing
  <2>3. [conn |-> cur.conn, req |-> Request, yields |-> 0] \in Coroutines
    BY <2>1, <2>2, WorkerAssumptions DEF Coroutines, WorkerAssumptions
  <2> QED BY <1>0, <1>8, <2>2, <2>3, SMTT(30) DEF ParseAsync, TypeOK
<1>9. CASE ParseDeferred
  <2>1. cur.conn \in ConnSlots /\ conn[cur.conn] \in Connections
    BY <1>9, Handled, Zenon DEF ParseDeferred, Parsing, Handling
  <2>2. Request \in Reqs /\ Tail(rbuf) \in Seq(Packets)
    BY <1>9, ParsedFacts, Zenon DEF ParseDeferred, Parsing
  <2>3. Head(deferFree) \in CallSlots /\ Tail(deferFree) \in Seq(CallSlots)
    BY <1>b, <1>9 DEF ParseDeferred
  <2>4. [conn |-> cur.conn, req |-> Request, state |-> "held"] \in Calls
    BY <2>1, <2>2, Zenon DEF Calls
  <2>5. CountDeferred(conn[cur.conn]) \in Connections
    <3>1. conn[cur.conn].pending_deferred + 1 \in Nat BY <2>1 DEF Connections
    <3> QED BY <2>1, <3>1, PendingFacts, Zenon DEF CountDeferred
  <2>6. /\ defer' = [defer EXCEPT ![Head(deferFree)] =
                       [conn |-> cur.conn, req |-> Request, state |-> "held"]]
        /\ deferFree' = Tail(deferFree)
        /\ conn' = [conn EXCEPT ![cur.conn] = CountDeferred(conn[cur.conn])]
        /\ rbuf' \in {rbuf, Tail(rbuf)} /\ pc' \in {"parse", "return"}
        /\ UNCHANGED <<parseVars, ready, answered, misrouted>>
    BY <1>9, Zenon DEF ParseDeferred
  <2>7. defer' \in [CallSlots -> Calls] BY <1>b, <2>3, <2>4, <2>6, Zenon
  <2>8. conn' \in [ConnSlots -> Connections] BY <1>a, <2>1, <2>5, <2>6, Zenon
  <2>9. rbuf' \in Seq(Packets) BY <1>c, <2>2, <2>6, Zenon
  <2> QED BY <1>0, <2>3, <2>6, <2>7, <2>8, <2>9, Zenon DEF Labels, TypeOK
<1>10. CASE DeferredFailed
  <2>1. Tail(rbuf) \in Seq(Packets)
    BY <1>10, ParsedFacts, Zenon DEF DeferredFailed, WorkerInv, Phases
  <2>2. defer' \in [CallSlots -> Calls] /\ completed' \in Seq(CallSlots) /\ wake' \in BOOLEAN
    <3>1. PICK d \in CallSlots :
            \/ /\ defer' = [defer EXCEPT ![d].state = "queued"]
               /\ completed' = Append(completed, d)
               /\ wake' = TRUE
            \/ UNCHANGED <<defer, completed, wake>>
      BY <1>10, Zenon DEF DeferredFailed
    <3>2. Append(completed, d) \in Seq(CallSlots) BY <1>b, AppendFacts, Zenon
    <3>3. [defer[d] EXCEPT !.state = "queued"] \in Calls BY <1>b, Zenon DEF Calls
    <3> QED BY <1>b, <3>1, <3>2, <3>3, Zenon
  <2>3. /\ rbuf' = Tail(rbuf) /\ pc' = "parse"
        /\ UNCHANGED <<otherVars, fd, wakers, pending, conn, connFree, deferFree, ready, batch,
                       cur, adopting, draining, answered, misrouted>>
    BY <1>10, Zenon DEF DeferredFailed
  <2> QED BY <1>0, <2>1, <2>2, <2>3, Zenon DEF Labels, TypeOK
<1>11. CASE ParseClose
  <2>1. cur.conn \in ConnSlots /\ conn[cur.conn] \in Connections
    BY <1>11, Handled, Zenon DEF ParseClose, Parsing, Handling
  <2>2. Tail(rbuf) \in Seq(Packets)
    BY <1>11, ParsedFacts, Zenon DEF ParseClose, Parsing
  <2>3. PICK k \in Connections : k = [conn[cur.conn] EXCEPT !.closing = TRUE]
    BY <2>1, ClosingFacts, Zenon
  <2>4. /\ conn' = [conn EXCEPT ![cur.conn] = k]
        /\ rbuf' \in {<<>>, Tail(rbuf)}
        /\ UNCHANGED <<parseVars, defer, deferFree, ready, pc, answered, misrouted>>
    BY <1>11, <2>3, Zenon DEF ParseClose
  <2>5. conn' \in [ConnSlots -> Connections] BY <1>a, <2>1, <2>3, <2>4, Zenon
  <2>6. <<>> \in Seq(Packets) OBVIOUS
  <2>7. rbuf' \in Seq(Packets) BY <2>2, <2>4, <2>6, Zenon
  <2> QED BY <1>0, <2>4, <2>5, <2>7, Zenon DEF TypeOK
<1>12. CASE FinishEvent
  <2>1. cur.conn \in ConnSlots /\ conn[cur.conn] \in Connections
    BY <1>12, Handled, Zenon DEF FinishEvent, Handling
  <2>2. PICK k \in Connections : MaybeClose(cur.conn, k)
    <3>1. \E k \in ConnectionWrite(conn[cur.conn]) \cup {conn[cur.conn]} : MaybeClose(cur.conn, k)
      BY <1>12, Zenon DEF FinishEvent
    <3> QED BY <2>1, <3>1, ConnectionWriteFacts, Zenon
  <2>3. conn' \in [ConnSlots -> Connections] /\ connFree' \in Seq(ConnSlots)
        /\ fd' \in [Socks -> {"backlog", "pending", "open", "closed"}]
    BY <1>0, <2>1, <2>2, MaybeCloseType, Zenon
  <2>4. NoEvent \in Events BY Zenon DEF NoEvent, Events
  <2>5. /\ cur' = NoEvent /\ pc' = "events"
        /\ UNCHANGED <<clientVars, sharedVars, defer, deferFree, ready, batch, rbuf, adopting,
                       draining, answered, misrouted>>
    BY <1>12, Zenon DEF FinishEvent
  <2> QED BY <1>0, <2>3, <2>4, <2>5, Zenon DEF Labels, TypeOK
<1>13. CASE RunReady
  <2>1. PICK call : call = Head(ready) BY Zenon
  <2>2. /\ call \in Coroutines /\ Tail(ready) \in Seq(Coroutines)
        /\ call.conn \in ConnSlots /\ call.req \in Reqs /\ conn[call.conn] \in Connections
    BY <1>13, <2>1, ReadyFacts, Zenon DEF RunReady
  <2>3. UNCHANGED <<clientVars, fd, sharedVars, connFree, defer, deferFree, batch, cur, rbuf,
                    adopting, draining, pc>>
    BY <1>13, Zenon DEF RunReady
  <2>4. CASE /\ call.yields < MaxYields
             /\ ready' = Append(Tail(ready), [call EXCEPT !.yields = @ + 1])
             /\ UNCHANGED <<conn, answered, misrouted>>
    <3>0. call.yields + 1 \in 0 .. MaxYields
      BY <2>2, <2>4, WorkerAssumptions DEF Coroutines, WorkerAssumptions
    <3>1. [call EXCEPT !.yields = @ + 1] \in Coroutines BY <2>2, <3>0, Zenon DEF Coroutines
    <3>2. ready' \in Seq(Coroutines) BY <2>2, <2>4, <3>1
    <3> QED BY <1>0, <2>3, <2>4, <3>2, Zenon DEF TypeOK
  <2>5. ASSUME NEW o \in QueuePacket(conn[call.conn]), conn' = [conn EXCEPT ![call.conn] = o.conn],
               Account(conn[call.conn], call.req, o.ok), ready' = Tail(ready)
        PROVE  TypeOK'
    <3>1. o.conn \in Connections BY <2>2, QueuePacketFacts, Zenon
    <3>2. conn' \in [ConnSlots -> Connections] BY <1>a, <2>2, <2>5, <3>1, Zenon
    <3>3. answered' \in [Reqs -> Nat] /\ misrouted' \subseteq Reqs
      BY <1>d, <2>2, <2>5, Zenon
    <3> QED BY <1>0, <2>2, <2>3, <2>5, <3>2, <3>3, Zenon DEF TypeOK
  <2> QED BY <1>13, <2>1, <2>4, <2>5, Zenon DEF RunReady
<1>14. CASE FlushWrites
  <2>1. \/ \E c \in ConnSlots, k \in Connections : MaybeClose(c, k)
        \/ UNCHANGED <<conn, connFree, fd>>
    <3>1. \/ \E c \in ConnSlots :
               \E k \in ConnectionWrite([conn[c] EXCEPT !.queued = FALSE])
                          \cup {[conn[c] EXCEPT !.queued = FALSE]} : MaybeClose(c, k)
          \/ UNCHANGED <<conn, connFree, fd>>
      BY <1>14, Zenon DEF FlushWrites
    <3>2. ASSUME NEW c \in ConnSlots PROVE [conn[c] EXCEPT !.queued = FALSE] \in Connections
      BY <1>a, UnqueuedFacts, Zenon
    <3>3. \A c \in ConnSlots : ConnectionWrite([conn[c] EXCEPT !.queued = FALSE]) \subseteq Connections
      BY <3>2, ConnectionWriteFacts, Zenon
    <3> QED BY <3>1, <3>2, <3>3, Zenon
  <2>2. /\ conn' \in [ConnSlots -> Connections] /\ connFree' \in Seq(ConnSlots)
        /\ fd' \in [Socks -> {"backlog", "pending", "open", "closed"}]
    BY <1>0, <1>a, <2>1, MaybeCloseType, Zenon
  <2>3. /\ pc' \in {pc, "top"}
        /\ UNCHANGED <<clientVars, sharedVars, defer, deferFree, ready, batch, cur, rbuf,
                       adopting, draining, answered, misrouted>>
    BY <1>14, Zenon DEF FlushWrites
  <2> QED BY <1>0, <2>2, <2>3, Zenon DEF Labels, TypeOK
<1>15. ASSUME NEW s \in Socks, Client(s) PROVE TypeOK'
  <2>0. UNCHANGED <<fd, sharedVars, conn, connFree, defer, deferFree, ready, batch, cur, rbuf,
                    adopting, draining, pc, answered, misrouted>>
    BY <1>15, Zenon DEF Client
  <2>1. CASE \E kind \in Kinds : Send(s, kind)
    <3>1. PICK kind \in Kinds : Send(s, kind) BY <2>1, Zenon
    <3>2. sent \in [Socks -> 0 .. MaxPackets] BY <1>0, Zenon DEF TypeOK
    <3>3. sent[s] + 1 \in 1 .. MaxPackets
      BY <3>1, <3>2, WorkerAssumptions DEF Send, WorkerAssumptions
    <3>4. sent' \in [Socks -> 0 .. MaxPackets] /\ sent'[s] = sent[s] + 1
      BY <3>1, <3>2, <3>3 DEF Send
    <3>5. [kind |-> kind, id |-> sent'[s]] \in Packets BY <3>3, <3>4, Zenon DEF Packets
    <3>6. inbox' \in [Socks -> Seq(Packets)] BY <1>c, <3>1, <3>5 DEF Send
    <3>7. UNCHANGED <<peer, blocked>> BY <3>1, Zenon DEF Send
    <3> QED BY <1>0, <2>0, <3>4, <3>6, <3>7, Zenon DEF TypeOK
  <2>2. CASE \E how \in {"fin", "reset"} : HangUp(s, how)
    BY <1>0, <2>0, <2>2, Zenon DEF HangUp, TypeOK
  <2>3. CASE Backpressure(s)
    BY <1>0, <2>0, <2>3, Zenon DEF Backpressure, TypeOK
  <2> QED BY <1>15, <2>1, <2>2, <2>3, Zenon DEF Client
<1>16. ASSUME NEW s \in Socks, Accept(s) PROVE TypeOK'
  <2>1. fd' \in [Socks -> {"backlog", "pending", "open", "closed"}] BY <1>a, <1>16, Zenon DEF Accept
  <2>2. wakers' \in Nat BY <1>b, <1>16 DEF Accept, AboutToWake
  <2>3. pending' \in Seq(Socks)
    <3>1. pending \in Seq(Socks) BY <1>0, Zenon DEF TypeOK
    <3>2. Append(pending, s) \in Seq(Socks) BY <3>1, AppendFacts, Zenon
    <3> QED BY <1>16, <3>1, <3>2, Zenon DEF Accept
  <2>4. UNCHANGED <<clientVars, wake, completed, stopping, defer, workerVars>>
    BY <1>16, Zenon DEF Accept
  <2> QED BY <1>0, <2>1, <2>2, <2>3, <2>4, Zenon DEF TypeOK
<1>17. ASSUME NEW d \in CallSlots, Claim(d) \/ QueueCompleted(d) PROVE TypeOK'
  <2>1. \A v \in {"claimed", "queued"} : [defer[d] EXCEPT !.state = v] \in Calls
    BY <1>b, Zenon DEF Calls
  <2>2. defer' \in [CallSlots -> Calls] BY <1>b, <1>17, <2>1, Zenon DEF Claim, QueueCompleted
  <2>3. CASE Claim(d)
    <3>1. UNCHANGED <<clientVars, fd, sharedVars, workerVars>> BY <2>3, Zenon DEF Claim
    <3> QED BY <1>0, <2>2, <3>1, Zenon DEF TypeOK
  <2>4. CASE QueueCompleted(d)
    <3>1. wakers' \in Nat BY <1>b, <2>4 DEF QueueCompleted, AboutToWake
    <3>2. completed' \in Seq(CallSlots) BY <1>b, <2>4, AppendFacts, Zenon DEF QueueCompleted
    <3>3. UNCHANGED <<clientVars, fd, wake, pending, stopping, workerVars>>
      BY <2>4, Zenon DEF QueueCompleted
    <3> QED BY <1>0, <2>2, <3>1, <3>2, <3>3, Zenon DEF TypeOK
  <2> QED BY <1>17, <2>3, <2>4, Zenon
<1>18. CASE Wake
  <2>1. wakers' \in Nat BY <1>b, <1>18 DEF Wake
  <2> QED BY <1>0, <1>18, <2>1, Zenon DEF Wake, TypeOK
<1>24. CASE Stop
  <2>1. wakers' \in Nat BY <1>b, <1>24, SMTT(30) DEF Stop, AboutToWake
  <2> QED BY <1>0, <1>24, <2>1, Zenon DEF Stop, TypeOK
<1>19. CASE Destroy
  <2>1. /\ conn' \in [ConnSlots -> Connections] /\ connFree' \in Seq(ConnSlots)
        /\ defer' \in [CallSlots -> Calls] /\ deferFree' \in Seq(CallSlots)
        /\ fd' \in [Socks -> {"backlog", "pending", "open", "closed"}]
    <3>1. /\ fd' = [s \in Socks |-> IF s \in WorkerSockets THEN "closed" ELSE fd[s]]
          /\ conn' = [c \in ConnSlots |-> Unused]
          /\ defer' = [d \in CallSlots |-> [conn |-> 0, req |-> <<>>, state |-> "free"]]
          /\ connFree' = <<>> /\ deferFree' = <<>>
      BY <1>19, Zenon DEF Destroy
    <3>2. conn' \in [ConnSlots -> Connections] BY <3>1, UnusedType, Zenon
    <3>3. defer' \in [CallSlots -> Calls] BY <3>1, FreeCall, Zenon
    <3>4. fd' \in [Socks -> {"backlog", "pending", "open", "closed"}] BY <1>a, <3>1, Zenon
    <3>5. connFree' \in Seq(ConnSlots) /\ deferFree' \in Seq(CallSlots) BY <3>1
    <3> QED BY <3>2, <3>3, <3>4, <3>5, Zenon
  <2> QED BY <1>0, <1>19, <2>1, SMTT(30) DEF Destroy, Labels, TypeOK
<1>20. CASE UNCHANGED vars
  BY <1>0, <1>20, Zenon DEF vars, TypeOK
<1> QED BY <1>1, <1>2, <1>3, <1>4, <1>5, <1>6, <1>7, <1>8, <1>9, <1>10, <1>11, <1>12, <1>13, <1>14,
           <1>15, <1>16, <1>17, <1>18, <1>19, <1>20, <1>21,
           <1>22, <1>23, <1>24, ZenonT(30) DEF Next, Run, Others, Terminated

-----------------------------------------------------------------------------
(* A call that is not free is counted by its connection. *)
CallsCounted == \A d \in CallSlots : Awaiting(d) => conn[defer[d].conn].pending_deferred > 0

(* What reading, handling and answering packets does to a connection: it    *)
(* stays attached or detached, and nothing that waits to be sent is lost.   *)
Grown(c, k) ==
  /\ c \in ConnSlots /\ conn[c] \in Connections /\ k \in Connections
  /\ conn' = [conn EXCEPT ![c] = k]
  /\ k.sock = conn[c].sock /\ k.detached = conn[c].detached /\ k.write = conn[c].write
  /\ k.unsent >= conn[c].unsent
  /\ conn[c].queued => k.queued
  /\ conn[c].closing => k.closing
  /\ k.closing => conn[c].closing \/ cur.conn = c
  /\ conn[c].detached => k.unsent = conn[c].unsent /\ k.queued = conn[c].queued
                         /\ (k.pending_deferred = 0 <=> conn[c].pending_deferred = 0)
  /\ ~AllocMayFail => k.queued \/ k.unsent = conn[c].unsent
  /\ pc' \notin {"top", "poll", "recv", "exit", "destroyed"}
  /\ UNCHANGED <<connFree, fd, batch, cur, adopting, pending>>

(* connection_read only may mark its connection closing. *)
LEMMA RecvGrows ==
  ASSUME WorkerInv, Recv
  PROVE  \E k : Grown(cur.conn, k) /\ k.pending_deferred = conn[cur.conn].pending_deferred
<1> DEFINE c == cur.conn
<1>1. c \in ConnSlots /\ conn[c] \in Connections /\ conn \in [ConnSlots -> Connections]
  BY Handled, ZenonT(30) DEF Recv, Handling, WorkerInv, TypeOK
<1>2. /\ UNCHANGED <<connFree, fd, batch, cur, adopting, pending>>
      /\ pc' \notin {"top", "poll", "recv", "exit", "destroyed"}
  BY Zenon DEF Recv, sharedVars
<1>3. conn[c].unsent >= conn[c].unsent BY <1>1 DEF Connections
<1>4. CASE UNCHANGED conn
  <2>1. conn' = [conn EXCEPT ![c] = conn[c]] BY <1>1, <1>4, Zenon
  <2>2. Grown(c, conn[c]) BY <1>1, <1>2, <1>3, <2>1, Zenon DEF Grown
  <2> QED BY <2>2, Zenon
<1>5. CASE conn' = [conn EXCEPT ![c].closing = TRUE]
  <2> DEFINE k == [conn[c] EXCEPT !.closing = TRUE]
  <2>1. conn' = [conn EXCEPT ![c] = k] BY <1>5, Zenon
  <2>2. /\ k \in Connections /\ k.closing
        /\ k.sock = conn[c].sock /\ k.detached = conn[c].detached /\ k.unsent = conn[c].unsent
        /\ k.queued = conn[c].queued /\ k.write = conn[c].write
        /\ k.pending_deferred = conn[c].pending_deferred
    BY <1>1, ClosingFacts, Zenon
  <2> HIDE DEF k
  <2>3. Grown(c, k) BY <1>1, <1>2, <1>3, <2>1, <2>2, Zenon DEF Grown
  <2> QED BY <2>2, <2>3, Zenon
<1>6. UNCHANGED conn \/ conn' = [conn EXCEPT ![c].closing = TRUE]
  BY Zenon DEF Recv
<1> QED BY <1>4, <1>5, <1>6, Zenon

(* A packet that closes the connection changes nothing else of it. *)
LEMMA ParseCloseGrows ==
  ASSUME WorkerInv, ParseClose
  PROVE  \E k : Grown(cur.conn, k) /\ k.pending_deferred = conn[cur.conn].pending_deferred
<1> DEFINE c == cur.conn
           k == [conn[c] EXCEPT !.closing = TRUE]
<1>1. c \in ConnSlots /\ conn[c] \in Connections
  BY Handled, Zenon DEF ParseClose, Parsing, Handling
<1>2. /\ UNCHANGED <<connFree, fd, batch, cur, adopting, pending>>
      /\ pc' \notin {"top", "poll", "recv", "exit", "destroyed"}
  BY Zenon DEF ParseClose, Parsing, parseVars
<1>3. conn[c].unsent >= conn[c].unsent BY <1>1 DEF Connections
<1>4. conn' = [conn EXCEPT ![c] = k] BY Zenon DEF ParseClose
<1>5. /\ k \in Connections /\ k.closing
      /\ k.sock = conn[c].sock /\ k.detached = conn[c].detached /\ k.unsent = conn[c].unsent
      /\ k.queued = conn[c].queued /\ k.write = conn[c].write
      /\ k.pending_deferred = conn[c].pending_deferred
  BY <1>1, ClosingFacts, Zenon
<1> HIDE DEF k
<1>6. Grown(c, k) BY <1>1, <1>2, <1>3, <1>4, <1>5, Zenon DEF Grown
<1> QED BY <1>5, <1>6, Zenon

(* A response of handle_packet only grows what its connection has to send. *)
LEMMA ParseNowGrows ==
  ASSUME WorkerInv, ParseNow
  PROVE  \E k : Grown(cur.conn, k) /\ k.pending_deferred = conn[cur.conn].pending_deferred
<1> DEFINE c == cur.conn
<1>1. c \in ConnSlots /\ conn[c] \in Connections
  BY Handled, Zenon DEF ParseNow, Parsing, Handling
<1>2. /\ UNCHANGED <<connFree, fd, batch, cur, adopting, pending>>
      /\ pc' \notin {"top", "poll", "recv", "exit", "destroyed"}
  BY Zenon DEF ParseNow, Parsing, parseVars
<1>3. PICK o \in QueuePacket(conn[c]), failed \in BOOLEAN :
        conn' = [conn EXCEPT ![c] = [o.conn EXCEPT !.closing = @ \/ failed]]
  BY Zenon DEF ParseNow
<1>4. /\ o.conn \in Connections
      /\ o.conn.sock = conn[c].sock /\ o.conn.closing = conn[c].closing /\ o.conn.detached = conn[c].detached
      /\ o.conn.write = conn[c].write /\ o.conn.pending_deferred = conn[c].pending_deferred
      /\ conn[c].detached => o.conn = conn[c]
      /\ o.conn.unsent >= conn[c].unsent
      /\ conn[c].queued => o.conn.queued
      /\ ~AllocMayFail => o.conn.queued \/ o.conn = conn[c]
  BY <1>1, QueuePacketFacts, Zenon
<1> DEFINE b == o.conn.closing \/ failed
           k == [o.conn EXCEPT !.closing = b]
<1>5. b \in BOOLEAN BY Zenon
<1>6. conn' = [conn EXCEPT ![c] = k] BY <1>3, Zenon
<1>7. /\ k \in Connections /\ k.closing = b
      /\ k.sock = o.conn.sock /\ k.detached = o.conn.detached /\ k.unsent = o.conn.unsent
      /\ k.queued = o.conn.queued /\ k.write = o.conn.write
      /\ k.pending_deferred = o.conn.pending_deferred
  BY <1>4, <1>5, ClosingFacts, Zenon
<1>8. conn[c].closing => k.closing BY <1>4, <1>7, Zenon
<1> HIDE DEF k, b
<1>9. Grown(c, k) BY <1>1, <1>2, <1>4, <1>6, <1>7, <1>8, Zenon DEF Grown
<1> QED BY <1>4, <1>7, <1>9, Zenon

(* handle_deferred_call only counts the call. *)
LEMMA ParseDeferredGrows ==
  ASSUME WorkerInv, ParseDeferred
  PROVE  \E k : Grown(cur.conn, k) /\ k.pending_deferred = conn[cur.conn].pending_deferred + 1
<1> DEFINE c == cur.conn
           n == conn[c].pending_deferred + 1
           k == [conn[c] EXCEPT !.pending_deferred = n]
<1>1. c \in ConnSlots /\ conn[c] \in Connections /\ ~conn[c].detached
  BY Handled, Zenon DEF ParseDeferred, Parsing, Handling
<1>2. /\ UNCHANGED <<connFree, fd, batch, cur, adopting, pending>>
      /\ pc' \notin {"top", "poll", "recv", "exit", "destroyed"}
  BY Zenon DEF ParseDeferred, Parsing, parseVars
<1>3. conn[c].unsent >= conn[c].unsent /\ n \in Nat BY <1>1 DEF Connections
<1>4. conn' = [conn EXCEPT ![c] = k] BY Zenon DEF ParseDeferred, CountDeferred
<1>5. /\ k \in Connections /\ k.closing = conn[c].closing
      /\ k.sock = conn[c].sock /\ k.detached = conn[c].detached /\ k.unsent = conn[c].unsent
      /\ k.queued = conn[c].queued /\ k.write = conn[c].write
      /\ k.pending_deferred = n
  BY <1>1, <1>3, PendingFacts, Zenon
<1> HIDE DEF k
<1>6. Grown(c, k) BY <1>1, <1>2, <1>3, <1>4, <1>5, Zenon DEF Grown
<1> QED BY <1>5, <1>6, Zenon

(* The response of a coroutine only grows what a connection has to send. *)
LEMMA RunReadyGrows ==
  ASSUME WorkerInv, RunReady
  PROVE  \E c, k : Grown(c, k) /\ k.pending_deferred = conn[c].pending_deferred
<1> DEFINE c == Head(ready).conn
<1>1. c \in ConnSlots /\ conn[c] \in Connections /\ conn \in [ConnSlots -> Connections]
  BY ReadyFacts, Zenon DEF RunReady, WorkerInv, TypeOK
<1>2. /\ UNCHANGED <<connFree, fd, batch, cur, adopting, pending>>
      /\ pc' \notin {"top", "poll", "recv", "exit", "destroyed"}
  BY Zenon DEF RunReady, sharedVars
<1>3. conn[c].unsent >= conn[c].unsent BY <1>1 DEF Connections
<1>4. CASE UNCHANGED conn
  <2>1. conn' = [conn EXCEPT ![c] = conn[c]] BY <1>1, <1>4, Zenon
  <2> HIDE DEF c
  <2>2. Grown(c, conn[c]) BY <1>1, <1>2, <1>3, <2>1, Zenon DEF Grown
  <2> QED BY <2>2, Zenon
<1>5. CASE \E o \in QueuePacket(conn[c]) : conn' = [conn EXCEPT ![c] = o.conn]
  <2>1. PICK o \in QueuePacket(conn[c]) : conn' = [conn EXCEPT ![c] = o.conn] BY <1>5, Zenon
  <2> HIDE DEF c
  <2>2. /\ o.conn \in Connections
        /\ o.conn.sock = conn[c].sock /\ o.conn.closing = conn[c].closing /\ o.conn.detached = conn[c].detached
        /\ o.conn.write = conn[c].write /\ o.conn.pending_deferred = conn[c].pending_deferred
        /\ conn[c].detached => o.conn = conn[c]
        /\ o.conn.unsent >= conn[c].unsent
        /\ conn[c].queued => o.conn.queued
        /\ ~AllocMayFail => o.conn.queued \/ o.conn = conn[c]
    BY <1>1, <2>1, QueuePacketFacts, Zenon
  <2>3. Grown(c, o.conn) BY <1>1, <1>2, <2>1, <2>2, Zenon DEF Grown
  <2> QED BY <2>2, <2>3, Zenon
<1> QED BY <1>4, <1>5, Zenon DEF RunReady

(* A drained call leaves its connection as it grew, or frees the slot of a  *)
(* detached connection with its last call.                                  *)
Retired(c, k) ==
  /\ c \in ConnSlots /\ conn[c] \in Connections /\ conn[c].detached /\ conn[c].pending_deferred > 0
  /\ k = [conn[c] EXCEPT !.detached = TRUE, !.unsent = 0, !.queued = FALSE, !.write = FALSE,
                         !.pending_deferred = 0]
  /\ conn' = [conn EXCEPT ![c] = k]
  /\ connFree' = <<c>> \o connFree
  /\ UNCHANGED <<fd, pc, batch, cur, adopting, pending>>

(* worker_drain_completed grows what an attached connection has to send, or *)
(* uncounts the call of a detached one and frees the slot with the last.    *)
LEMMA DrainGrowsOrRetires ==
  ASSUME WorkerInv, CallsCounted, DrainCompleted
  PROVE  LET c == defer[Head(draining)].conn
         IN \E k : /\ k.pending_deferred = conn[c].pending_deferred - 1
                   /\ Grown(c, k) \/ Retired(c, k)
<1> DEFINE d == Head(draining)
           c == defer[d].conn
           left == IF conn[c].pending_deferred > 0 THEN conn[c].pending_deferred - 1 ELSE 0
<1>1. d \in CallSlots /\ Awaiting(d)
  BY DrainedFacts, Zenon DEF DrainCompleted
<1>2. c \in ConnSlots /\ conn[c] \in Connections /\ conn[c].pending_deferred > 0
  BY <1>1, AwaitingFacts, Zenon DEF CallsCounted
<1>3. conn[c].pending_deferred \in Nat /\ left = conn[c].pending_deferred - 1 /\ left \in Nat
  BY <1>2, SMTT(30) DEF Connections
<1>4. PICK o \in IF ~conn[c].detached /\ ~conn[c].closing THEN QueuePacket(conn[c])
                 ELSE {[ok |-> FALSE, conn |-> conn[c]]} :
        LET k == [o.conn EXCEPT !.pending_deferred = left]
        IN IF k.detached /\ left = 0
             THEN ConnectionDestroy(c, k)
             ELSE conn' = [conn EXCEPT ![c] = k] /\ UNCHANGED <<fd, connFree>>
  BY ZenonT(30) DEF DrainCompleted
<1>5. /\ UNCHANGED <<pc, batch, cur, adopting, pending>>
      /\ pc' \notin {"top", "poll", "recv", "exit", "destroyed"}
  BY Zenon DEF DrainCompleted
<1> DEFINE k == [o.conn EXCEPT !.pending_deferred = left]
<1> HIDE DEF c, left
<1>6. /\ o.conn \in Connections
      /\ o.conn.sock = conn[c].sock /\ o.conn.closing = conn[c].closing /\ o.conn.detached = conn[c].detached
      /\ o.conn.write = conn[c].write
      /\ conn[c].detached => o.conn = conn[c]
      /\ o.conn.unsent >= conn[c].unsent
      /\ conn[c].queued => o.conn.queued
      /\ ~AllocMayFail => o.conn.queued \/ o.conn = conn[c]
  <2>1. CASE o \in QueuePacket(conn[c]) BY <1>2, <2>1, QueuePacketFacts
  <2>2. CASE o = [ok |-> FALSE, conn |-> conn[c]] BY <1>2, <2>2 DEF Connections
  <2> QED BY <1>4, <2>1, <2>2, Zenon
<1>7. /\ k \in Connections /\ k.closing = o.conn.closing /\ k.sock = o.conn.sock /\ k.detached = o.conn.detached
      /\ k.unsent = o.conn.unsent /\ k.queued = o.conn.queued /\ k.write = o.conn.write
      /\ k.pending_deferred = left
  BY <1>3, <1>6, PendingFacts, Zenon
<1>8. CASE k.detached /\ left = 0
  <2> DEFINE r == [conn[c] EXCEPT !.detached = TRUE, !.unsent = 0, !.queued = FALSE, !.write = FALSE,
                                  !.pending_deferred = 0]
  <2>1. ConnectionDestroy(c, k) BY <1>4, <1>8, Zenon
  <2>2. o.conn = conn[c] /\ conn[c].detached BY <1>6, <1>7, <1>8, Zenon
  <2>3. r = [k EXCEPT !.detached = TRUE, !.unsent = 0, !.queued = FALSE, !.write = FALSE]
    BY <1>2, <1>8, <2>2, Zenon DEF Connections
  <2>4. Freeable(k) BY <1>7, <1>8, Zenon DEF Freeable
  <2>5. r.pending_deferred = conn[c].pending_deferred - 1 BY <1>2, <1>3, <1>8, Zenon DEF Connections
  <2> HIDE DEF k, r
  <2>6. conn' = [conn EXCEPT ![c] = r] /\ fd' = fd /\ connFree' = <<c>> \o connFree
    BY <1>8, <2>1, <2>3, <2>4, Zenon DEF ConnectionDestroy
  <2>7. Retired(c, r) BY <1>2, <1>5, <2>2, <2>6, Zenon DEF Retired, r
  <2> QED BY <2>5, <2>7, Zenon DEF c
<1>9. CASE ~(k.detached /\ left = 0)
  <2>1. conn' = [conn EXCEPT ![c] = k] /\ UNCHANGED <<fd, connFree>> BY <1>4, <1>9, Zenon
  <2> HIDE DEF k
  <2>2. Grown(c, k) BY <1>2, <1>3, <1>5, <1>6, <1>7, <1>9, <2>1 DEF Grown
  <2> QED BY <1>3, <1>7, <2>2, Zenon DEF c
<1> QED BY <1>8, <1>9, Zenon

(* What connection_write and maybe_close leave of an attached connection:   *)
(* if it stays, whatever it still has to send will be sent.                 *)
Written(c, k) ==
  /\ c \in ConnSlots /\ conn[c] \in Connections /\ k \in Connections /\ ~conn[c].detached
  /\ conn' = [conn EXCEPT ![c] = k]
  /\ k.sock = conn[c].sock /\ ~k.detached /\ k.pending_deferred = conn[c].pending_deferred
  /\ k.closing => k.unsent > 0
  /\ k.write => k.unsent > 0
  /\ k.queued => conn[c].queued
  /\ ~AllocMayFail /\ k.unsent > 0 /\ ~k.closing => k.write \/ k.queued
  /\ UNCHANGED <<connFree, fd>>

Closed(c, k) ==
  /\ c \in ConnSlots /\ conn[c] \in Connections /\ k \in Connections /\ ~conn[c].detached
  /\ conn' = [conn EXCEPT ![c] = k]
  /\ k.detached /\ k.unsent = 0 /\ ~k.queued /\ ~k.write
  /\ k.sock = conn[c].sock /\ k.pending_deferred = conn[c].pending_deferred
  /\ fd' = [fd EXCEPT ![conn[c].sock] = "closed"]
  /\ connFree' = IF k.pending_deferred = 0 THEN <<c>> \o connFree ELSE connFree

(* maybe_close leaves the connection as written, or destroys it. *)
LEMMA MaybeCloseFacts ==
  ASSUME NEW c \in ConnSlots, conn[c] \in Connections, ~conn[c].detached,
         NEW r \in Connections, r.sock = conn[c].sock, ~r.detached,
         r.pending_deferred = conn[c].pending_deferred,
         r.write => r.unsent > 0,
         r.queued => conn[c].queued,
         ~AllocMayFail /\ r.unsent > 0 /\ ~r.closing => r.write \/ r.queued,
         MaybeClose(c, r)
  PROVE  \/ Written(c, r)
         \/ r.closing /\ r.unsent = 0 /\ \E k : Closed(c, k)
<1>0. r.unsent \in Nat BY Zenon DEF Connections
<1>1. CASE r.closing /\ r.unsent = 0
  <2> DEFINE k == [r EXCEPT !.detached = TRUE, !.unsent = 0, !.queued = FALSE, !.write = FALSE]
  <2>1. ConnectionDestroy(c, r) BY <1>1, Zenon DEF MaybeClose, Flushed
  <2>2. k \in Connections /\ k.detached /\ k.unsent = 0 /\ ~k.queued /\ ~k.write
        /\ k.sock = r.sock /\ k.pending_deferred = r.pending_deferred
    BY DetachedFacts, Zenon
  <2>3. /\ conn' = [conn EXCEPT ![c] = k] /\ fd' = [fd EXCEPT ![conn[c].sock] = "closed"]
        /\ connFree' = IF r.pending_deferred = 0 THEN <<c>> \o connFree ELSE connFree
    BY <2>1, Zenon DEF ConnectionDestroy, Freeable
  <2> HIDE DEF k
  <2>4. Closed(c, k) BY <2>2, <2>3, Zenon DEF Closed
  <2> QED BY <1>1, <2>4, Zenon
<1>2. CASE ~(r.closing /\ r.unsent = 0)
  <2>1. conn' = [conn EXCEPT ![c] = r] /\ UNCHANGED <<fd, connFree>>
    BY <1>2, Zenon DEF MaybeClose, Flushed
  <2>2. r.closing => r.unsent > 0 BY <1>0, <1>2
  <2> QED BY <2>1, <2>2, Zenon DEF Written
<1> QED BY <1>1, <1>2, Zenon

(* The end of an event writes its connection, and closes it if it is flushed. *)
LEMMA FinishWritesOrCloses ==
  ASSUME WorkerInv, FinishEvent
  PROVE  \/ \E k : Written(cur.conn, k) /\ ("WRITE" \notin cur.flags => k = conn[cur.conn])
         \/ (\E k : Closed(cur.conn, k)) /\ \A e \in batch : e.conn # cur.conn
<1> DEFINE c == cur.conn
<1>1. c \in ConnSlots /\ c # 0 /\ conn[c] \in Connections /\ ~conn[c].detached /\ conn[c].sock = cur.sock
  BY Handled, Zenon DEF FinishEvent, Handling, WorkerInv, Phases
<1>2. /\ conn[c].write => conn[c].unsent > 0
      /\ ~AllocMayFail /\ conn[c].unsent > 0 /\ ~conn[c].closing => conn[c].write \/ conn[c].queued
      /\ conn[c].unsent \in Nat
  BY <1>1, Zenon DEF WorkerInv, ConnectionStates, Connections
<1>3. PICK r \in IF "WRITE" \in cur.flags /\ ~conn[c].closing THEN ConnectionWrite(conn[c]) ELSE {conn[c]} :
        MaybeClose(c, r)
  BY Zenon DEF FinishEvent
<1>4. /\ r \in Connections /\ r.sock = conn[c].sock /\ ~r.detached
      /\ r.pending_deferred = conn[c].pending_deferred
      /\ r.write => r.unsent > 0
      /\ r.queued => conn[c].queued
      /\ ~AllocMayFail /\ r.unsent > 0 /\ ~r.closing => r.write \/ r.queued
      /\ "WRITE" \notin cur.flags => r = conn[c]
      /\ r.closing /\ r.unsent = 0 => r = conn[c]
  <2>1. CASE r = conn[c] BY <1>1, <1>2, <2>1, Zenon
  <2>2. CASE r \in ConnectionWrite(conn[c]) /\ "WRITE" \in cur.flags /\ ~conn[c].closing
    BY <1>1, <2>2, ConnectionWriteFacts
  <2> QED BY <1>3, <2>1, <2>2, Zenon
<1>5. Written(c, r) \/ (r.closing /\ r.unsent = 0 /\ \E k : Closed(c, k))
  BY <1>1, <1>3, <1>4, MaybeCloseFacts, Zenon
<1>6. ASSUME r.closing, r.unsent = 0, NEW e \in batch, e.conn = c PROVE FALSE
  <2>1. conn[c].unsent = 0 BY <1>4, <1>6, Zenon
  <2>2. e \in Events /\ cur \in Events /\ e # cur BY <1>6, Zenon DEF WorkerInv, TypeOK, EventsWellFormed
  <2>3. CASE SplitEvents
    <3>1. e.flags \in {{"READ"}, {"WRITE"}} /\ cur.flags \in {{"READ"}, {"WRITE"}}
      BY <1>1, <1>6, <2>3, Zenon DEF WorkerInv, EventsWellFormed
    <3>2. "WRITE" \notin e.flags /\ "WRITE" \notin cur.flags
      BY <1>1, <1>2, <1>6, <2>1, <2>3 DEF WorkerInv, EventsCurrent
    <3>3. e.flags = {"READ"} /\ cur.flags = {"READ"} BY <3>1, <3>2, Zenon
    <3>4. e.sock = cur.sock BY <1>1, <1>6, Zenon DEF WorkerInv, EventsCurrent, EventsNotStale
    <3> QED BY <1>6, <2>2, <3>3, <3>4 DEF Events
  <2>4. CASE ~SplitEvents
    BY <1>1, <1>6, <2>2, <2>4 DEF WorkerInv, EventsWellFormed
  <2> QED BY <2>3, <2>4, Zenon
<1> QED BY <1>4, <1>5, <1>6, Zenon

(* So does worker_flush_writes, for each connection queued for writing. *)
LEMMA FlushWritesOrCloses ==
  ASSUME WorkerInv, FlushWrites
  PROVE  /\ batch = {} /\ cur = NoEvent
         /\ \/ UNCHANGED <<conn, connFree, fd>> /\ (\A c \in ConnSlots : ~conn[c].queued) /\ pc' = "top"
            \/ \E c, k : (Written(c, k) \/ Closed(c, k)) /\ pc' = "flush"
<1>1. batch = {} /\ cur = NoEvent
  BY Zenon DEF WorkerInv, Phases, FlushWrites, InBatch, Handling
<1>2. ASSUME NEW c \in ConnSlots, conn[c].queued, pc' = pc,
             NEW r \in (LET k0 == [conn[c] EXCEPT !.queued = FALSE]
                        IN IF k0.unsent > 0 THEN ConnectionWrite(k0) ELSE {k0}), MaybeClose(c, r)
      PROVE  \E k : (Written(c, k) \/ Closed(c, k)) /\ pc' = "flush"
  <2> DEFINE k0 == [conn[c] EXCEPT !.queued = FALSE]
  <2>1. conn[c] \in Connections BY Zenon DEF WorkerInv, TypeOK
  <2>2. /\ ~conn[c].detached
        /\ conn[c].write => conn[c].unsent > 0
    BY <1>2, Zenon DEF WorkerInv, ConnectionStates
  <2>3. /\ k0 \in Connections /\ ~k0.queued /\ k0.sock = conn[c].sock /\ ~k0.detached
        /\ k0.unsent = conn[c].unsent /\ k0.write = conn[c].write
        /\ k0.pending_deferred = conn[c].pending_deferred
    BY <2>1, <2>2, UnqueuedFacts
  <2>4. r \in IF k0.unsent > 0 THEN ConnectionWrite(k0) ELSE {k0} BY <1>2, Zenon
  <2> HIDE DEF k0
  <2>5. /\ r \in Connections /\ r.sock = conn[c].sock /\ ~r.detached
        /\ r.pending_deferred = conn[c].pending_deferred
        /\ r.write => r.unsent > 0
        /\ r.queued => conn[c].queued
        /\ ~AllocMayFail /\ r.unsent > 0 /\ ~r.closing => r.write \/ r.queued
    <3>1. CASE r = k0 /\ ~(k0.unsent > 0) BY <2>2, <2>3, <3>1
    <3>2. CASE r \in ConnectionWrite(k0) BY <2>3, <3>2, ConnectionWriteFacts
    <3> QED BY <2>4, <3>1, <3>2, Zenon
  <2>6. Written(c, r) \/ \E k : Closed(c, k)
    BY <1>2, <2>1, <2>2, <2>5, MaybeCloseFacts, Zenon
  <2>7. pc' = "flush" BY <1>2, Zenon DEF FlushWrites
  <2> QED BY <2>6, <2>7
<1> QED BY <1>1, <1>2, Zenon DEF FlushWrites

(* The slot worker_add_connection takes and the socket it is for. *)
LEMMA AddedFacts ==
  ASSUME WorkerInv, AddConnection
  PROVE  /\ Head(adopting) \in Socks /\ fd[Head(adopting)] = "pending"
         /\ Range(adopting) = {Head(adopting)} \cup Range(Tail(adopting))
         /\ Head(adopting) \notin Range(Tail(adopting)) /\ Head(adopting) \notin Range(pending)
         /\ IsInjective(Tail(adopting))
         /\ \A x \in ConnSlots : ~conn[x].detached => conn[x].sock # Head(adopting)
         /\ connFree # <<>> =>
              /\ Head(connFree) \in ConnSlots /\ conn[Head(connFree)].detached
              /\ conn[Head(connFree)].pending_deferred = 0
              /\ IsInjective(Tail(connFree))
              /\ Range(connFree) = {Head(connFree)} \cup Range(Tail(connFree))
              /\ Head(connFree) \notin Range(Tail(connFree))
<1>1. adopting \in Seq(Socks) /\ adopting # <<>> /\ connFree \in Seq(ConnSlots) /\ pc = "adopt"
  BY Zenon DEF AddConnection, WorkerInv, TypeOK
<1>2. /\ Head(adopting) \in Socks
      /\ Range(adopting) = {Head(adopting)} \cup Range(Tail(adopting))
      /\ IsInjective(Tail(adopting))
      /\ Head(adopting) \notin Range(Tail(adopting)) /\ Head(adopting) \notin Range(pending)
  BY <1>1, HeadTail, RangeOfTail DEF WorkerInv, HandedOverOnce
<1>3. fd[Head(adopting)] = "pending" BY <1>2, Zenon DEF WorkerInv, SocketsOwned
<1>4. \A x \in ConnSlots : ~conn[x].detached => conn[x].sock # Head(adopting)
  BY <1>2, <1>3, Zenon DEF WorkerInv, SocketsOwned
<1>5. ASSUME connFree # <<>>
      PROVE  /\ Head(connFree) \in ConnSlots /\ conn[Head(connFree)].detached
             /\ conn[Head(connFree)].pending_deferred = 0
             /\ IsInjective(Tail(connFree))
             /\ Range(connFree) = {Head(connFree)} \cup Range(Tail(connFree))
             /\ Head(connFree) \notin Range(Tail(connFree))
  <2>1. /\ IsInjective(connFree)
        /\ Range(connFree) = {c \in ConnSlots : conn[c].detached /\ conn[c].pending_deferred = 0}
    BY <1>1, Zenon DEF WorkerInv, ArenaAccounted
  <2>2. Range(connFree) = {Head(connFree)} \cup Range(Tail(connFree))
        /\ IsInjective(Tail(connFree)) /\ Head(connFree) \notin Range(Tail(connFree))
    BY <1>1, <1>5, <2>1, RangeOfTail, Zenon
  <2> QED BY <2>1, <2>2, Zenon
<1> QED BY <1>2, <1>3, <1>4, <1>5, Zenon

(* A socket is handed over once. *)
LEMMA HandedOverStep == WorkerInv /\ [Next]_vars => HandedOverOnce'
<1> SUFFICES ASSUME WorkerInv, [Next]_vars PROVE HandedOverOnce'
  BY Zenon
<1>0. TypeOK /\ HandedOverOnce BY Zenon DEF WorkerInv
<1> USE DEF clientVars, sharedVars, workerVars, otherVars, parseVars
<1>1. CASE UNCHANGED <<pending, adopting>>
  BY <1>0, <1>1, Zenon DEF HandedOverOnce
<1>2. CASE WakeEvent
  <2>1. Range(<<>>) = {} /\ IsInjective(<<>>) BY DEF Range, IsInjective
  <2> QED BY <1>0, <1>2, <2>1, Zenon DEF WakeEvent, TakePending, HandedOverOnce
<1>3. CASE AddConnection
  <2>1. adopting' = Tail(adopting) /\ pending' = pending BY <1>3, Zenon DEF AddConnection
  <2> QED BY <1>0, <1>3, <2>1, AddedFacts, Zenon DEF HandedOverOnce
<1>4. ASSUME NEW s \in Socks, Accept(s) PROVE HandedOverOnce'
  <2>1. s \notin Range(pending) /\ s \notin Range(adopting)
    BY <1>4, Zenon DEF Accept, WorkerInv, SocketsOwned
  <2>2. adopting' = adopting BY <1>4, Zenon DEF Accept
  <2>3. pending' = pending \/ pending' = Append(pending, s) BY <1>4, Zenon DEF Accept
  <2>4. Range(Append(pending, s)) = Range(pending) \cup {s} /\ IsInjective(Append(pending, s))
    BY <1>0, <2>1, RangeOfAppend DEF HandedOverOnce, TypeOK
  <2> QED BY <1>0, <2>1, <2>2, <2>3, <2>4, Zenon DEF HandedOverOnce
<1>5. CASE Destroy
  <2>1. Range(<<>>) = {} /\ IsInjective(<<>>) BY DEF Range, IsInjective
  <2> QED BY <1>0, <1>5, <2>1, Zenon DEF Destroy, HandedOverOnce
<1>6. ASSUME \/ Top \/ Poll \/ AllAdopted \/ DrainCompleted \/ Drained \/ ConnectionEvent \/ Recv
             \/ ParseNow \/ ParseAsync \/ ParseDeferred \/ DeferredFailed \/ ParseClose \/ ParseDone
             \/ FinishEvent \/ EventsDone \/ RunReady \/ RunDone \/ FlushWrites \/ Wake \/ Stop
             \/ (\E s \in Socks : Client(s)) \/ (\E d \in CallSlots : Claim(d))
             \/ (\E d \in CallSlots : QueueCompleted(d))
      PROVE  UNCHANGED <<pending, adopting>>
  BY <1>6, Zenon DEF Top, Poll, AllAdopted, TakeCompleted, DrainCompleted, Drained,
     ConnectionEvent, Recv,
       ParseNow, ParseAsync, ParseDeferred, DeferredFailed, ParseClose, ParseDone, FinishEvent,
       EventsDone, RunReady, RunDone, FlushWrites, Client, Send, HangUp, Backpressure, Claim,
       QueueCompleted, AboutToWake, Wake, Stop
<1> HIDE DEF clientVars, sharedVars, workerVars, otherVars, parseVars
<1> QED BY <1>1, <1>2, <1>3, <1>4, <1>5, <1>6, Zenon DEF Next, Run, Others, Terminated, vars, clientVars,
     sharedVars

(* A connection that grew stays the one its events name. *)
LEMMA GrownEvents == ASSUME WorkerInv, NEW c, NEW k, Grown(c, k) PROVE EventsCurrent'
<1>1. EventsCurrent /\ batch \subseteq Events /\ cur \in Events /\ conn \in [ConnSlots -> Connections]
  BY Zenon DEF WorkerInv, TypeOK
<1>2. /\ \A x \in ConnSlots : /\ conn'[x].detached = conn[x].detached /\ conn'[x].sock = conn[x].sock
                              /\ conn[x].unsent > 0 => conn'[x].unsent > 0
      /\ UNCHANGED <<batch, cur>>
  <2>1. \A x \in ConnSlots : conn'[x] = IF x = c THEN k ELSE conn[x] BY <1>1, Zenon DEF Grown
  <2>2. \A x \in ConnSlots : conn[x].unsent \in Nat BY <1>1, Zenon DEF Connections
  <2>3. k.unsent \in Nat /\ k.unsent >= conn[c].unsent /\ c \in ConnSlots
    BY Zenon DEF Grown, Connections
  <2> QED BY <2>1, <2>2, <2>3 DEF Grown
<1>3. \A e \in batch \cup {cur} : e.conn # 0 => e.conn \in ConnSlots BY <1>1, Zenon DEF Events
<1>4. \A e \in batch \cup {cur} : SplitEvents /\ "WRITE" \in e.flags => e.conn # 0
  BY DEF WorkerInv, EventsWellFormed, Phases, NoEvent
<1> QED BY <1>1, <1>2, <1>3, <1>4, Zenon DEF EventsCurrent, EventsNotStale

(* No event of the batch, nor the one being handled, loses its connection. *)
LEMMA EventsCurrentStep == WorkerInv /\ CallsCounted /\ [Next]_vars => EventsCurrent'
<1> SUFFICES ASSUME WorkerInv, CallsCounted, [Next]_vars PROVE EventsCurrent'
  BY Zenon
<1>0. TypeOK /\ EventsCurrent BY Zenon DEF WorkerInv
<1> USE DEF clientVars, sharedVars, workerVars, otherVars, parseVars
<1>1. CASE UNCHANGED <<batch, cur, conn>>
  BY <1>0, <1>1, Zenon DEF EventsCurrent, EventsNotStale
<1>2. CASE Poll
  <2>0. cur = NoEvent /\ NoEvent.conn = 0 /\ NoEvent.flags = {}
    BY <1>2, Zenon DEF WorkerInv, Phases, Poll, Handling, NoEvent
  <2> DEFINE W == [NoEvent EXCEPT !.flags = {"WAKE"}]
             A == {x \in ConnSlots : ~conn[x].detached}
  <2>1. W.conn = 0 /\ W.flags = {"WAKE"} BY Zenon DEF NoEvent
  <2>2. ASSUME NEW e \in batch'
        PROVE  e = W \/ \E c \in A : e \in EventsOf(c)
    <3>1. batch' = (UNION {EventsOf(c) : c \in A}) \cup (IF wake THEN {W} ELSE {}) BY <1>2, Zenon DEF Poll
    <3> HIDE DEF A, W
    <3>3. e \in (IF wake THEN {W} ELSE {}) => e = W BY Zenon
    <3> QED BY <2>2, <3>1, <3>3, Zenon
  <2>3. ASSUME NEW c \in A, NEW e \in EventsOf(c)
        PROVE  /\ e.conn = c /\ e.sock = conn[c].sock /\ ~conn[c].detached
               /\ SplitEvents /\ "WRITE" \in e.flags => conn[c].unsent > 0
    <3>0. c \in ConnSlots /\ ~conn[c].detached BY Zenon
    <3> HIDE DEF A
    <3>1. SplitEvents /\ "WRITE" \in ReadyFlags(c) => conn[c].write
      BY Zenon DEF ReadyFlags
    <3>2. conn[c].write => conn[c].unsent > 0 BY <3>0, Zenon DEF WorkerInv, ConnectionStates
    <3>3. CASE SplitEvents
      <4>1. PICK f \in ReadyFlags(c) : e = [conn |-> c, sock |-> conn[c].sock, flags |-> {f}]
        BY <2>3, <3>3, Zenon DEF EventsOf
      <4> QED BY <3>0, <3>1, <3>2, <3>3, <4>1, Zenon
    <3>4. CASE ~SplitEvents
      <4>1. e = [conn |-> c, sock |-> conn[c].sock, flags |-> ReadyFlags(c)]
        BY <2>3, <3>4, Zenon DEF EventsOf
      <4> QED BY <3>0, <3>4, <4>1, Zenon
    <3> QED BY <3>3, <3>4, Zenon
  <2>4. cur' = NoEvent /\ conn' = conn BY <2>0, <1>2, Zenon DEF Poll
  <2> HIDE DEF W, A
  <2> QED BY <2>0, <2>1, <2>2, <2>3, <2>4, SMTT(30) DEF EventsCurrent, EventsNotStale
<1>3. CASE WakeEvent
  BY <1>0, <1>3, Zenon DEF WakeEvent, TakePending, EventsCurrent, EventsNotStale
<1>4. CASE AddConnection
  <2>1. connFree # <<>> => Head(connFree) \in ConnSlots /\ conn[Head(connFree)].detached
    BY <1>4, AddedFacts, Zenon
  <2>2. /\ UNCHANGED <<batch, cur>>
        /\ \A x \in ConnSlots : ~conn[x].detached => conn'[x] = conn[x]
    BY <1>0, <1>4, <2>1, Zenon DEF AddConnection, Registered, NotRegistered, TypeOK
  <2>3. \A e \in batch \cup {cur} : e.conn # 0 => e.conn \in ConnSlots BY <1>0, Zenon DEF Events, TypeOK
  <2>4. \A e \in batch \cup {cur} : SplitEvents /\ "WRITE" \in e.flags => e.conn # 0
    BY DEF WorkerInv, EventsWellFormed, Phases, NoEvent
  <2> QED BY <1>0, <2>2, <2>3, <2>4, Zenon DEF EventsCurrent, EventsNotStale
<1>5. CASE DrainCompleted
  <2>1. CASE \E c, k : Grown(c, k) BY <2>1, GrownEvents, Zenon
  <2>2. CASE \E c, k : Retired(c, k)
    <3>1. PICK c, k : Retired(c, k) BY <2>2, Zenon
    <3>2. /\ UNCHANGED <<batch, cur>>
          /\ \A x \in ConnSlots : ~conn[x].detached => conn'[x] = conn[x]
      BY <1>0, <3>1, Zenon DEF Retired, TypeOK
    <3>3. \A e \in batch \cup {cur} : e.conn # 0 => e.conn \in ConnSlots BY <1>0, Zenon DEF Events, TypeOK
    <3>4. \A e \in batch \cup {cur} : SplitEvents /\ "WRITE" \in e.flags => e.conn # 0
      BY DEF WorkerInv, EventsWellFormed, Phases, NoEvent
    <3> QED BY <1>0, <3>2, <3>3, <3>4, Zenon DEF EventsCurrent, EventsNotStale
  <2> QED BY <1>5, <2>1, <2>2, DrainGrowsOrRetires, Zenon
<1>6. CASE ConnectionEvent
  BY <1>0, <1>6 DEF ConnectionEvent, EventsCurrent, EventsNotStale
<1>7. CASE Recv
  BY <1>7, RecvGrows, GrownEvents, Zenon
<1>8. CASE ParseNow
  BY <1>8, ParseNowGrows, GrownEvents, Zenon
<1>9. CASE ParseDeferred
  BY <1>9, ParseDeferredGrows, GrownEvents, Zenon
<1>10. CASE ParseClose
  BY <1>10, ParseCloseGrows, GrownEvents, Zenon
<1>11. CASE FinishEvent
  <2>1. batch' = batch /\ cur' = NoEvent /\ NoEvent.conn = 0 /\ NoEvent.flags = {}
    BY <1>11, Zenon DEF FinishEvent, NoEvent
  <2>2. \A e \in batch : e.conn # 0 => e.conn \in ConnSlots BY <1>0, Zenon DEF Events, TypeOK
  <2>3. \A e \in batch : SplitEvents /\ "WRITE" \in e.flags => e.conn # 0
    BY Zenon DEF WorkerInv, EventsWellFormed
  <2>4. cur.conn \in ConnSlots /\ cur.conn # 0 /\ conn[cur.conn].sock = cur.sock
    BY <1>11, Handled, Zenon DEF FinishEvent, Handling, WorkerInv, Phases
  <2>5. CASE \E k : Written(cur.conn, k) /\ ("WRITE" \notin cur.flags => k = conn[cur.conn])
    <3>1. PICK k : Written(cur.conn, k) /\ ("WRITE" \notin cur.flags => k = conn[cur.conn]) BY <2>5, Zenon
    <3>2. \A x \in ConnSlots : conn'[x] = IF x = cur.conn THEN k ELSE conn[x]
      BY <1>0, <3>1, Zenon DEF Written, TypeOK
    <3>3. \A x \in ConnSlots : conn'[x].sock = conn[x].sock /\ conn'[x].detached = conn[x].detached
      BY <3>1, <3>2, Zenon DEF Written, Connections
    <3>4. ASSUME NEW e \in batch, SplitEvents, "WRITE" \in e.flags, e.conn = cur.conn PROVE k = conn[cur.conn]
      <4>1. e \in Events /\ cur \in Events /\ e # cur
        BY <1>0, Zenon DEF WorkerInv, TypeOK, EventsWellFormed
      <4>2. e.flags \in {{"READ"}, {"WRITE"}} /\ cur.flags \in {{"READ"}, {"WRITE"}}
        BY <2>4, <3>4, Zenon DEF WorkerInv, EventsWellFormed
      <4>3. e.sock = cur.sock BY <1>0, <2>4, <3>4, Zenon DEF EventsCurrent, EventsNotStale
      <4>4. "WRITE" \in cur.flags => e = cur BY <3>4, <4>1, <4>2, <4>3, SMTT(30) DEF Events
      <4> QED BY <3>1, <4>1, <4>4, Zenon
    <3> QED BY <1>0, <2>1, <2>2, <2>3, <3>2, <3>3, <3>4, Zenon DEF EventsCurrent, EventsNotStale
  <2>6. CASE (\E k : Closed(cur.conn, k)) /\ \A e \in batch : e.conn # cur.conn
    <3>1. \A x \in ConnSlots : x # cur.conn => conn'[x] = conn[x] BY <1>0, <2>6 DEF Closed, TypeOK
    <3> QED BY <1>0, <2>1, <2>2, <2>3, <2>6, <3>1, Zenon DEF EventsCurrent, EventsNotStale
  <2> QED BY <1>11, <2>5, <2>6, FinishWritesOrCloses, Zenon
<1>12. CASE RunReady
  BY <1>12, RunReadyGrows, GrownEvents, Zenon
<1>13. CASE FlushWrites
  <2>1. batch' = {} /\ cur' = NoEvent /\ NoEvent.conn = 0 /\ NoEvent.flags = {}
    BY <1>13, FlushWritesOrCloses, Zenon DEF FlushWrites, NoEvent
  <2> QED BY <2>1, Zenon DEF EventsCurrent, EventsNotStale
<1>14. CASE Destroy
  <2>1. batch' = {} /\ cur' = NoEvent /\ NoEvent.conn = 0 /\ NoEvent.flags = {}
    BY <1>14, Zenon DEF Destroy, WorkerInv, Phases, InBatch, Handling, NoEvent
  <2> QED BY <2>1, Zenon DEF EventsCurrent, EventsNotStale
<1>15. ASSUME \/ Top \/ AllAdopted \/ Drained \/ ParseAsync \/ DeferredFailed \/ ParseDone
              \/ EventsDone \/ RunDone \/ Wake \/ Stop \/ (\E s \in Socks : Client(s))
              \/ (\E s \in Socks : Accept(s)) \/ (\E d \in CallSlots : Claim(d))
              \/ (\E d \in CallSlots : QueueCompleted(d))
      PROVE  UNCHANGED <<batch, cur, conn>>
  BY <1>15, Zenon DEF Top, AllAdopted, TakeCompleted, Drained, ParseAsync, DeferredFailed, ParseDone,
       EventsDone, RunDone, Client, Send, HangUp, Backpressure, Accept, AboutToWake, Claim,
       QueueCompleted, Wake, Stop
<1> HIDE DEF clientVars, sharedVars, workerVars, otherVars, parseVars
<1> QED BY <1>1, <1>2, <1>3, <1>4, <1>5, <1>6, <1>7, <1>8, <1>9, <1>10, <1>11, <1>12, <1>13, <1>14,
     <1>15, Zenon DEF Next, Run, Others, Terminated, vars, clientVars, sharedVars

(* A connection that grew is queued for writing or closes. *)
LEMMA GrownStates == ASSUME WorkerInv, NEW c, NEW k, Grown(c, k) PROVE ConnectionStates'
<1>1. ConnectionStates /\ conn \in [ConnSlots -> Connections] BY Zenon DEF WorkerInv, TypeOK
<1>2. \A x \in ConnSlots : conn'[x] = IF x = c THEN k ELSE conn[x] BY <1>1, Zenon DEF Grown
<1>3. \A x \in ConnSlots : conn[x].unsent \in Nat BY <1>1, Zenon DEF Connections
<1>4. k.unsent \in Nat /\ k.unsent >= conn[c].unsent /\ c \in ConnSlots BY Zenon DEF Grown, Connections
<1>5. pc' \notin {"top", "poll", "recv", "exit", "destroyed"} /\ cur' = cur BY Zenon DEF Grown
<1>6. ASSUME NEW x \in ConnSlots, x # c
      PROVE  /\ ~conn[x]'.detached => conn[x]'.sock # NoSock
             /\ conn[x]'.detached => conn[x]'.unsent = 0 /\ ~conn[x]'.queued
             /\ conn[x]'.write => conn[x]'.unsent > 0
             /\ ~conn[x]'.detached /\ conn[x]'.closing /\ conn[x]'.unsent = 0 => cur'.conn = x /\ pc' # "recv"
             /\ conn[x]'.queued => pc' \notin {"top", "poll", "exit"}
             /\ ~AllocMayFail /\ conn[x]'.unsent > 0 /\ ~conn[x]'.closing => conn[x]'.write \/ conn[x]'.queued
  BY <1>1, <1>2, <1>5, <1>6, Zenon DEF ConnectionStates
<1>7. /\ ~k.detached => k.sock # NoSock
      /\ k.detached => k.unsent = 0 /\ ~k.queued
      /\ k.write => k.unsent > 0
      /\ ~k.detached /\ k.closing /\ k.unsent = 0 => cur.conn = c
      /\ ~AllocMayFail /\ k.unsent > 0 /\ ~k.closing => k.write \/ k.queued
  BY <1>1, <1>3, <1>4 DEF Grown, ConnectionStates
<1> QED BY <1>2, <1>4, <1>5, <1>6, <1>7 DEF ConnectionStates

(* What a connection has to send, and who will send it, stay consistent. *)
LEMMA ConnectionStatesStep == WorkerInv /\ CallsCounted /\ [Next]_vars => ConnectionStates'
<1> SUFFICES ASSUME WorkerInv, CallsCounted, [Next]_vars PROVE ConnectionStates'
  BY Zenon
<1>0. TypeOK /\ ConnectionStates BY Zenon DEF WorkerInv
<1> USE DEF clientVars, sharedVars, workerVars, otherVars, parseVars
<1>1. CASE UNCHANGED <<conn, cur, pc>>
  BY <1>0, <1>1, Zenon DEF ConnectionStates
<1>2. CASE Top
  BY <1>0, <1>2, Zenon DEF Top, ConnectionStates
<1>3. CASE Poll
  BY <1>0, <1>3, Zenon DEF Poll, ConnectionStates
<1>4. CASE WakeEvent
  BY <1>0, <1>4, Zenon DEF WakeEvent, TakePending, ConnectionStates
<1>5. CASE AddConnection
  <2> DEFINE a == [Unused EXCEPT !.sock = Head(adopting), !.detached = FALSE]
             b == [Unused EXCEPT !.sock = Head(adopting)]
  <2>1. Head(adopting) \in Socks /\ NoSock \notin Socks
        /\ (connFree # <<>> => Head(connFree) \in ConnSlots)
    BY <1>5, AddedFacts, WorkerAssumptions, Zenon DEF WorkerAssumptions
  <2>2. /\ a \in Connections /\ a.sock # NoSock
        /\ ~a.detached /\ ~a.closing /\ a.unsent = 0 /\ ~a.queued /\ ~a.write
        /\ b \in Connections /\ b.detached
        /\ ~b.closing /\ b.unsent = 0 /\ ~b.queued /\ ~b.write
    BY <2>1, AdoptedFacts, ZenonT(30)
  <2>3. \/ UNCHANGED conn
        \/ connFree # <<>> /\ conn' = [conn EXCEPT ![Head(connFree)] = a]
        \/ connFree # <<>> /\ conn' = [conn EXCEPT ![Head(connFree)] = b]
    BY <1>5, Zenon DEF AddConnection, Registered, NotRegistered
  <2> HIDE DEF a, b
  <2>4. \A x \in ConnSlots : conn'[x] = conn[x] \/ conn'[x] = a \/ conn'[x] = b
    BY <1>0, <2>1, <2>3, Zenon DEF TypeOK
  <2>5. UNCHANGED <<cur, pc>> BY <1>5, Zenon DEF AddConnection
  <2> QED BY <1>0, <2>2, <2>4, <2>5 DEF ConnectionStates
<1>6. CASE AllAdopted
  BY <1>0, <1>6, Zenon DEF AllAdopted, TakeCompleted, ConnectionStates
<1>7. CASE DrainCompleted
  <2>1. CASE \E c, k : Grown(c, k) BY <2>1, GrownStates, Zenon
  <2>2. CASE \E c, k : Retired(c, k)
    <3>1. PICK c, k : Retired(c, k) BY <2>2, Zenon
    <3>2. c \in ConnSlots /\ conn[c] \in Connections /\ k.detached /\ k.unsent = 0 /\ ~k.queued /\ ~k.write
      BY <3>1, Zenon DEF Retired, Connections
    <3>3. UNCHANGED <<cur, pc>> /\ \A x \in ConnSlots : conn'[x] = IF x = c THEN k ELSE conn[x]
      BY <1>0, <3>1, Zenon DEF Retired, TypeOK
    <3> QED BY <1>0, <3>2, <3>3 DEF ConnectionStates
  <2> QED BY <1>7, <2>1, <2>2, DrainGrowsOrRetires, Zenon
<1>8. CASE Drained
  BY <1>0, <1>8, Zenon DEF Drained, ConnectionStates
<1>9. CASE ConnectionEvent
  <2>1. cur.conn = 0 BY <1>9, Zenon DEF ConnectionEvent, WorkerInv, Phases, Handling
  <2>2. PICK e \in batch : /\ e.conn # 0 /\ cur' = e
                           /\ pc' = IF "READ" \in e.flags /\ ~conn[e.conn].closing THEN "recv" ELSE "finish"
    BY <1>9, Zenon DEF ConnectionEvent
  <2>3. conn' = conn BY <1>9, Zenon DEF ConnectionEvent
  <2>4. 0 \notin ConnSlots BY DEF ConnSlots
  <2> QED BY <1>0, <2>1, <2>2, <2>3, <2>4, Zenon DEF ConnectionStates
<1>10. CASE Recv
  BY <1>10, RecvGrows, GrownStates, Zenon
<1>11. CASE ParseNow
  BY <1>11, ParseNowGrows, GrownStates, Zenon
<1>12. CASE ParseDeferred
  BY <1>12, ParseDeferredGrows, GrownStates, Zenon
<1>13. CASE DeferredFailed
  BY <1>0, <1>13, Zenon DEF DeferredFailed, ConnectionStates
<1>14. CASE ParseClose
  BY <1>14, ParseCloseGrows, GrownStates, Zenon
<1>15. CASE ParseDone
  BY <1>0, <1>15, Zenon DEF ParseDone, ConnectionStates
<1>16. CASE FinishEvent
  <2>1. pc' = "events" /\ pc = "finish" BY <1>16, Zenon DEF FinishEvent
  <2>2. PICK k : Written(cur.conn, k) \/ Closed(cur.conn, k) BY <1>16, FinishWritesOrCloses, Zenon
  <2>3. cur.conn \in ConnSlots /\ \A x \in ConnSlots : conn'[x] = IF x = cur.conn THEN k ELSE conn[x]
    BY <1>0, <2>2 DEF Written, Closed, TypeOK
  <2>4. conn[cur.conn].sock # NoSock BY <1>0, <2>2, Zenon DEF Written, Closed, ConnectionStates
  <2>5. /\ ~k.detached => k.sock # NoSock
        /\ k.detached => k.unsent = 0 /\ ~k.queued
        /\ k.write => k.unsent > 0
        /\ ~k.detached /\ k.closing => k.unsent > 0
        /\ ~AllocMayFail /\ k.unsent > 0 /\ ~k.closing => k.write \/ k.queued
    <3>1. CASE Written(cur.conn, k) BY <2>4, <3>1, Zenon DEF Written
    <3>2. CASE Closed(cur.conn, k) BY <3>2 DEF Closed
    <3> QED BY <2>2, <3>1, <3>2, Zenon
  <2>6. k.unsent \in Nat BY <2>2, Zenon DEF Written, Closed, Connections
  <2> QED BY <1>0, <2>1, <2>3, <2>5, <2>6, SMTT(30) DEF ConnectionStates
<1>17. CASE EventsDone
  BY <1>0, <1>17, Zenon DEF EventsDone, ConnectionStates
<1>18. CASE RunReady
  BY <1>18, RunReadyGrows, GrownStates, Zenon
<1>19. CASE RunDone
  BY <1>0, <1>19, Zenon DEF RunDone, TakeCompleted, ConnectionStates
<1>20. CASE FlushWrites
  <2>1. cur' = cur /\ cur.conn = 0 /\ pc = "flush"
    BY <1>20, FlushWritesOrCloses DEF FlushWrites, NoEvent
  <2>2. CASE UNCHANGED <<conn, connFree, fd>> /\ (\A c \in ConnSlots : ~conn[c].queued) /\ pc' = "top"
    BY <1>0, <2>1, <2>2, Zenon DEF ConnectionStates
  <2>3. ASSUME NEW c, NEW k, Written(c, k) \/ Closed(c, k), pc' = "flush" PROVE ConnectionStates'
    <3>1. c \in ConnSlots /\ \A x \in ConnSlots : conn'[x] = IF x = c THEN k ELSE conn[x]
      BY <1>0, <2>3, Zenon DEF Written, Closed, TypeOK
    <3>2. conn[c].sock # NoSock BY <1>0, <2>3, Zenon DEF Written, Closed, ConnectionStates
    <3>3. /\ ~k.detached => k.sock # NoSock
          /\ k.detached => k.unsent = 0 /\ ~k.queued
          /\ k.write => k.unsent > 0
          /\ ~k.detached /\ k.closing => k.unsent > 0
          /\ ~AllocMayFail /\ k.unsent > 0 /\ ~k.closing => k.write \/ k.queued
      <4>1. CASE Written(c, k) BY <3>2, <4>1, Zenon DEF Written
      <4>2. CASE Closed(c, k) BY <4>2 DEF Closed
      <4> QED BY <2>3, <4>1, <4>2, Zenon
    <3>4. k.unsent \in Nat BY <2>3, Zenon DEF Written, Closed, Connections
    <3> QED BY <1>0, <2>1, <2>3, <3>1, <3>3, <3>4, SMTT(30) DEF ConnectionStates
  <2> QED BY <1>20, <2>2, <2>3, FlushWritesOrCloses, Zenon
<1>21. CASE Destroy
  <2>1. \A c \in ConnSlots : conn'[c] = Unused BY <1>21, Zenon DEF Destroy
  <2> QED BY <2>1 DEF ConnectionStates, Unused
<1>22. ASSUME \/ ParseAsync \/ Wake \/ Stop \/ (\E s \in Socks : Client(s))
              \/ (\E s \in Socks : Accept(s)) \/ (\E d \in CallSlots : Claim(d))
              \/ (\E d \in CallSlots : QueueCompleted(d))
      PROVE  UNCHANGED <<conn, cur, pc>>
  BY <1>22, Zenon DEF ParseAsync, Client, Send, HangUp, Backpressure, Accept, AboutToWake, Claim,
       QueueCompleted, Wake, Stop
<1> HIDE DEF clientVars, sharedVars, workerVars, otherVars, parseVars
<1> QED BY <1>1, <1>2, <1>3, <1>4, <1>5, <1>6, <1>7, <1>8, <1>9, <1>10, <1>11, <1>12, <1>13, <1>14,
     <1>15, <1>16, <1>17, <1>18, <1>19, <1>20, <1>21, <1>22, Zenon DEF Next, Run, Others, Terminated, vars,
     clientVars, sharedVars

(* A connection that grew is not freed. *)
LEMMA GrownArena ==
  ASSUME WorkerInv, NEW c, NEW k, Grown(c, k), pc # "destroyed"
  PROVE  ArenaAccounted'
<1>1. ArenaAccounted /\ conn \in [ConnSlots -> Connections] BY Zenon DEF WorkerInv, TypeOK
<1>2. \A x \in ConnSlots : conn'[x] = IF x = c THEN k ELSE conn[x] BY <1>1, Zenon DEF Grown
<1>3. \A x \in ConnSlots : (conn'[x].detached /\ conn'[x].pending_deferred = 0)
                            <=> (conn[x].detached /\ conn[x].pending_deferred = 0)
  BY <1>2, Zenon DEF Grown
<1>4. connFree' = connFree BY Zenon DEF Grown
<1> QED BY <1>1, <1>3, <1>4, Zenon DEF ArenaAccounted

(* A connection that was written keeps its slot. *)
LEMMA WrittenArena ==
  ASSUME WorkerInv, NEW c, NEW k, Written(c, k), pc # "destroyed"
  PROVE  ArenaAccounted'
<1>1. ArenaAccounted /\ conn \in [ConnSlots -> Connections] BY Zenon DEF WorkerInv, TypeOK
<1>2. \A x \in ConnSlots : conn'[x] = IF x = c THEN k ELSE conn[x] BY <1>1, Zenon DEF Written
<1>3. \A x \in ConnSlots : (conn'[x].detached /\ conn'[x].pending_deferred = 0)
                            <=> (conn[x].detached /\ conn[x].pending_deferred = 0)
  BY <1>2, Zenon DEF Written
<1>4. connFree' = connFree BY Zenon DEF Written
<1> QED BY <1>1, <1>3, <1>4, Zenon DEF ArenaAccounted

(* A connection that was closed gives its slot back, unless calls refer to it. *)
LEMMA ClosedArena ==
  ASSUME WorkerInv, NEW c, NEW k, Closed(c, k), pc # "destroyed"
  PROVE  ArenaAccounted'
<1>1. ArenaAccounted /\ conn \in [ConnSlots -> Connections] /\ connFree \in Seq(ConnSlots)
  BY Zenon DEF WorkerInv, TypeOK
<1>2. \A x \in ConnSlots : conn'[x] = IF x = c THEN k ELSE conn[x] BY <1>1, Zenon DEF Closed
<1>3. c \in ConnSlots /\ ~conn[c].detached /\ k.detached BY Zenon DEF Closed
<1>4. c \notin Range(connFree) BY <1>1, <1>3, Zenon DEF ArenaAccounted
<1>5. CASE k.pending_deferred = 0
  <2>1. connFree' = <<c>> \o connFree BY <1>5, Zenon DEF Closed
  <2>2. Range(connFree') = Range(connFree) \cup {c} /\ IsInjective(connFree')
    BY <1>1, <1>3, <1>4, <2>1, PushFacts DEF ArenaAccounted
  <2> QED BY <1>1, <1>2, <1>3, <1>5, <2>2, Zenon DEF ArenaAccounted
<1>6. CASE k.pending_deferred # 0
  <2>1. connFree' = connFree BY <1>6, Zenon DEF Closed
  <2> QED BY <1>1, <1>2, <1>3, <1>6, <2>1, Zenon DEF ArenaAccounted
<1> QED BY <1>5, <1>6, Zenon

(* The free list stays exactly the slots without a connection. *)
LEMMA ArenaStep == WorkerInv /\ CallsCounted /\ [Next]_vars => ArenaAccounted'
<1> SUFFICES ASSUME WorkerInv, CallsCounted, [Next]_vars PROVE ArenaAccounted'
  BY Zenon
<1>0. TypeOK /\ ArenaAccounted BY Zenon DEF WorkerInv
<1> USE DEF clientVars, sharedVars, workerVars, otherVars, parseVars
<1>1. CASE UNCHANGED <<connFree, conn, pc>>
  BY <1>0, <1>1, Zenon DEF ArenaAccounted
<1>2. CASE Top
  BY <1>0, <1>2, Zenon DEF Top, ArenaAccounted
<1>3. CASE Poll
  BY <1>0, <1>3, Zenon DEF Poll, ArenaAccounted
<1>4. CASE WakeEvent
  BY <1>0, <1>4, Zenon DEF WakeEvent, TakePending, ArenaAccounted
<1>5. CASE AddConnection
  <2>0. pc # "destroyed" BY <1>5, Zenon DEF AddConnection
  <2>1. CASE UNCHANGED <<conn, connFree>> BY <1>0, <2>0, <2>1, Zenon DEF ArenaAccounted
  <2>2. CASE connFree # <<>> /\ Registered(Head(connFree), Head(adopting))
    <3> DEFINE r == [Unused EXCEPT !.sock = Head(adopting), !.detached = FALSE]
               c == Head(connFree)
    <3>1. c \in ConnSlots /\ ~r.detached BY <1>5, <2>2, AddedFacts, AdoptedFacts, Zenon
    <3>2. connFree' = Tail(connFree) /\ \A x \in ConnSlots : conn'[x] = IF x = c THEN r ELSE conn[x]
      BY <1>0, <2>2, Zenon DEF Registered, TypeOK
    <3>3. /\ IsInjective(Tail(connFree)) /\ c \notin Range(Tail(connFree))
          /\ Range(connFree) = {c} \cup Range(Tail(connFree))
      BY <1>5, <2>2, AddedFacts, Zenon
    <3> HIDE DEF r, c
    <3>4. Range(Tail(connFree)) = {x \in ConnSlots : conn'[x].detached /\ conn'[x].pending_deferred = 0}
      BY <1>0, <2>0, <3>1, <3>2, <3>3, Zenon DEF ArenaAccounted
    <3> QED BY <3>2, <3>3, <3>4, Zenon DEF ArenaAccounted
  <2>3. CASE connFree # <<>> /\ NotRegistered(Head(connFree), Head(adopting))
    <3> DEFINE r == [Unused EXCEPT !.sock = Head(adopting)]
               c == Head(connFree)
    <3>1. c \in ConnSlots /\ r.detached /\ r.pending_deferred = 0 /\ conn[c].detached /\ conn[c].pending_deferred = 0
      BY <1>5, <2>3, AddedFacts, AdoptedFacts, Zenon
    <3>2. connFree' = connFree /\ \A x \in ConnSlots : conn'[x] = IF x = c THEN r ELSE conn[x]
      BY <1>0, <2>3, Zenon DEF NotRegistered, TypeOK
    <3> HIDE DEF r, c
    <3>3. \A x \in ConnSlots : (conn'[x].detached /\ conn'[x].pending_deferred = 0)
                                <=> (conn[x].detached /\ conn[x].pending_deferred = 0)
      BY <3>1, <3>2, Zenon
    <3> QED BY <1>0, <2>0, <3>2, <3>3, Zenon DEF ArenaAccounted
  <2> QED BY <1>5, <2>1, <2>2, <2>3, Zenon DEF AddConnection
<1>6. CASE AllAdopted
  BY <1>0, <1>6, Zenon DEF AllAdopted, TakeCompleted, ArenaAccounted
<1>7. CASE DrainCompleted
  <2>0. pc # "destroyed" BY <1>7, Zenon DEF DrainCompleted
  <2>1. CASE \E c, k : Grown(c, k) BY <2>0, <2>1, GrownArena, Zenon
  <2>2. CASE \E c, k : Retired(c, k)
    <3>1. PICK c, k : Retired(c, k) BY <2>2, Zenon
    <3>2. /\ c \in ConnSlots /\ conn[c] \in Connections /\ conn[c].pending_deferred > 0
          /\ k.detached /\ k.pending_deferred = 0
      BY <3>1, Zenon DEF Retired, Connections
    <3>3. connFree' = <<c>> \o connFree /\ \A x \in ConnSlots : conn'[x] = IF x = c THEN k ELSE conn[x]
      BY <1>0, <3>1, Zenon DEF Retired, TypeOK
    <3>4. c \notin Range(connFree) BY <1>0, <2>0, <3>2, SMTT(30) DEF ArenaAccounted
    <3>5. Range(connFree') = Range(connFree) \cup {c} /\ IsInjective(connFree')
      BY <1>0, <2>0, <3>2, <3>3, <3>4, PushFacts, SMTT(30) DEF TypeOK, ArenaAccounted
    <3> QED BY <1>0, <2>0, <3>2, <3>3, <3>5 DEF ArenaAccounted
  <2> QED BY <1>7, <2>1, <2>2, DrainGrowsOrRetires, Zenon
<1>8. CASE Drained
  BY <1>0, <1>8, Zenon DEF Drained, ArenaAccounted
<1>9. CASE ConnectionEvent
  BY <1>0, <1>9, Zenon DEF ConnectionEvent, ArenaAccounted
<1>10. CASE Recv
  BY <1>10, RecvGrows, GrownArena, Zenon DEF Recv
<1>11. CASE ParseNow
  BY <1>11, ParseNowGrows, GrownArena, Zenon DEF ParseNow, Parsing
<1>12. CASE ParseDeferred
  BY <1>12, ParseDeferredGrows, GrownArena, Zenon DEF ParseDeferred, Parsing
<1>13. CASE DeferredFailed
  BY <1>0, <1>13, Zenon DEF DeferredFailed, ArenaAccounted
<1>14. CASE ParseClose
  BY <1>14, ParseCloseGrows, GrownArena, Zenon DEF ParseClose, Parsing
<1>15. CASE ParseDone
  BY <1>0, <1>15, Zenon DEF ParseDone, ArenaAccounted
<1>16. CASE FinishEvent
  <2>1. pc # "destroyed" BY <1>16, Zenon DEF FinishEvent
  <2> QED BY <1>16, <2>1, FinishWritesOrCloses, WrittenArena, ClosedArena, Zenon
<1>17. CASE EventsDone
  BY <1>0, <1>17, Zenon DEF EventsDone, ArenaAccounted
<1>18. CASE RunReady
  BY <1>18, RunReadyGrows, GrownArena, Zenon DEF RunReady
<1>19. CASE RunDone
  BY <1>0, <1>19, Zenon DEF RunDone, TakeCompleted, ArenaAccounted
<1>20. CASE FlushWrites
  <2>1. pc # "destroyed" BY <1>20, Zenon DEF FlushWrites
  <2>2. CASE UNCHANGED <<conn, connFree, fd>> BY <1>0, <2>1, <2>2, Zenon DEF ArenaAccounted
  <2> QED BY <1>20, <2>1, <2>2, FlushWritesOrCloses, WrittenArena, ClosedArena, Zenon
<1>21. CASE Destroy
  BY <1>0, <1>21, Zenon DEF Destroy, ArenaAccounted
<1>22. ASSUME \/ ParseAsync \/ Wake \/ Stop \/ (\E s \in Socks : Client(s))
              \/ (\E s \in Socks : Accept(s)) \/ (\E d \in CallSlots : Claim(d))
              \/ (\E d \in CallSlots : QueueCompleted(d))
      PROVE  UNCHANGED <<connFree, conn, pc>>
  BY <1>22, Zenon DEF ParseAsync, Client, Send, HangUp, Backpressure, Accept, AboutToWake, Claim,
       QueueCompleted, Wake, Stop
<1> HIDE DEF clientVars, sharedVars, workerVars, otherVars, parseVars
<1> QED BY <1>1, <1>2, <1>3, <1>4, <1>5, <1>6, <1>7, <1>8, <1>9, <1>10, <1>11, <1>12, <1>13, <1>14,
     <1>15, <1>16, <1>17, <1>18, <1>19, <1>20, <1>21, <1>22, ZenonT(40) DEF Next, Run, Others, Terminated, vars,
     clientVars, sharedVars

(* A connection that grew keeps its socket. *)
LEMMA GrownSockets == ASSUME WorkerInv, NEW c, NEW k, Grown(c, k) PROVE SocketsOwned'
<1>1. SocketsOwned /\ conn \in [ConnSlots -> Connections] BY Zenon DEF WorkerInv, TypeOK
<1>2. \A x \in ConnSlots : conn'[x] = IF x = c THEN k ELSE conn[x] BY <1>1, Zenon DEF Grown
<1>3. \A x \in ConnSlots : conn'[x].detached = conn[x].detached /\ conn'[x].sock = conn[x].sock
  BY <1>2, Zenon DEF Grown
<1>4. pc' # "destroyed" /\ UNCHANGED <<fd, adopting, pending>> BY Zenon DEF Grown
<1> QED BY <1>1, <1>3, <1>4 DEF SocketsOwned

(* A connection that was written keeps its socket. *)
LEMMA WrittenSockets ==
  ASSUME WorkerInv, NEW c, NEW k, Written(c, k), pc' # "destroyed", UNCHANGED <<pending, adopting>>
  PROVE  SocketsOwned'
<1>1. SocketsOwned /\ conn \in [ConnSlots -> Connections] BY Zenon DEF WorkerInv, TypeOK
<1>2. \A x \in ConnSlots : conn'[x] = IF x = c THEN k ELSE conn[x] BY <1>1, Zenon DEF Written
<1>3. \A x \in ConnSlots : conn'[x].detached = conn[x].detached /\ conn'[x].sock = conn[x].sock
  BY <1>2, Zenon DEF Written, Connections
<1>4. fd' = fd BY Zenon DEF Written
<1> QED BY <1>1, <1>3, <1>4 DEF SocketsOwned

(* A connection that was closed gives up its socket, which no other one has. *)
LEMMA ClosedSockets ==
  ASSUME WorkerInv, NEW c, NEW k, Closed(c, k), pc' # "destroyed", UNCHANGED <<pending, adopting>>
  PROVE  SocketsOwned'
<1>1. SocketsOwned /\ ConnectionStates /\ conn \in [ConnSlots -> Connections]
      /\ fd \in [Socks -> {"backlog", "pending", "open", "closed"}]
  BY Zenon DEF WorkerInv, TypeOK
<1>2. \A x \in ConnSlots : conn'[x] = IF x = c THEN k ELSE conn[x] BY <1>1, Zenon DEF Closed
<1>3. c \in ConnSlots /\ ~conn[c].detached /\ k.detached BY Zenon DEF Closed
<1> DEFINE s == conn[c].sock
<1>4. s \in Socks BY <1>1, <1>3, Zenon DEF ConnectionStates, Connections
<1>5. fd[s] = "open" BY <1>1, <1>3, <1>4, Zenon DEF SocketsOwned
<1>6. \A x \in Socks : fd'[x] = IF x = s THEN "closed" ELSE fd[x] BY <1>1, Zenon DEF Closed
<1>7. \A x \in ConnSlots : x # c /\ ~conn[x].detached => conn[x].sock # s
  BY <1>1, <1>3, Zenon DEF SocketsOwned
<1> HIDE DEF s
<1>8. ASSUME NEW x \in Socks
      PROVE  /\ fd'[x] = "open" <=> \E y \in ConnSlots : ~conn'[y].detached /\ conn'[y].sock = x
             /\ fd'[x] = "pending" <=> x \in Range(pending') \cup Range(adopting')
  <2>1. CASE x = s BY <1>1, <1>2, <1>3, <1>4, <1>5, <1>6, <1>7, <2>1, Zenon DEF SocketsOwned
  <2>2. CASE x # s BY <1>1, <1>2, <1>3, <1>6, <2>2 DEF SocketsOwned, s
  <2> QED BY <2>1, <2>2, Zenon
<1>9. \A c1, c2 \in ConnSlots :
       c1 # c2 /\ ~conn'[c1].detached /\ ~conn'[c2].detached => conn'[c1].sock # conn'[c2].sock
  BY <1>1, <1>2, <1>3 DEF SocketsOwned
<1> QED BY <1>8, <1>9, Zenon DEF SocketsOwned

(* A socket keeps exactly one owner. *)
LEMMA SocketsStep == WorkerInv /\ CallsCounted /\ [Next]_vars => SocketsOwned'
<1> SUFFICES ASSUME WorkerInv, CallsCounted, [Next]_vars PROVE SocketsOwned'
  BY Zenon
<1>0. TypeOK /\ SocketsOwned BY Zenon DEF WorkerInv
<1> USE DEF clientVars, sharedVars, workerVars, otherVars, parseVars
<1>1. CASE UNCHANGED <<fd, conn, pending, adopting, pc>>
  BY <1>0, <1>1, Zenon DEF SocketsOwned
<1>2. CASE Top
  BY <1>0, <1>2, Zenon DEF Top, SocketsOwned
<1>3. CASE Poll
  BY <1>0, <1>3, Zenon DEF Poll, SocketsOwned
<1>4. CASE WakeEvent
  <2>1. adopting = <<>> BY <1>4, Zenon DEF WorkerInv, Phases, WakeEvent
  <2>2. Range(<<>>) = {} BY DEF Range
  <2>3. pc' # "destroyed" /\ UNCHANGED <<fd, conn>> /\ adopting' = pending /\ pending' = <<>>
    BY <1>4, Zenon DEF WakeEvent, TakePending
  <2> QED BY <1>0, <2>1, <2>2, <2>3, Zenon DEF SocketsOwned
<1>5. CASE AddConnection
  <2> DEFINE s == Head(adopting)
             c == Head(connFree)
             a == [Unused EXCEPT !.sock = s, !.detached = FALSE]
             b == [Unused EXCEPT !.sock = s]
  <2>1. /\ s \in Socks /\ fd[s] = "pending" /\ Range(adopting) = {s} \cup Range(Tail(adopting))
        /\ s \notin Range(Tail(adopting)) /\ s \notin Range(pending)
        /\ \A x \in ConnSlots : ~conn[x].detached => conn[x].sock # s
    BY <1>5, AddedFacts, Zenon
  <2>2. connFree # <<>> => c \in ConnSlots /\ conn[c].detached BY <1>5, AddedFacts, Zenon
  <2>3. a.sock = s /\ ~a.detached /\ b.detached BY <2>1, AdoptedFacts, Zenon
  <2>4. /\ pc' # "destroyed" /\ adopting' = Tail(adopting) /\ pending' = pending
    BY <1>5, Zenon DEF AddConnection
  <2>5. ASSUME \A x \in Socks : fd'[x] = IF x = s THEN "closed" ELSE fd[x],
               \A x \in ConnSlots : conn'[x] = conn[x] \/ (conn[x].detached /\ conn'[x].detached)
        PROVE  SocketsOwned'
    <3> HIDE DEF s
    <3>1. ASSUME NEW x \in Socks
          PROVE  /\ fd'[x] = "open" <=> \E y \in ConnSlots : ~conn'[y].detached /\ conn'[y].sock = x
                 /\ fd'[x] = "pending" <=> x \in Range(pending') \cup Range(adopting')
      <4>1. CASE x = s BY <1>0, <2>1, <2>4, <2>5, <4>1, Zenon DEF SocketsOwned
      <4>2. CASE x # s BY <1>0, <2>1, <2>4, <2>5, <4>2, SMTT(30) DEF SocketsOwned
      <4> QED BY <4>1, <4>2, Zenon
    <3>2. \A c1, c2 \in ConnSlots :
           c1 # c2 /\ ~conn'[c1].detached /\ ~conn'[c2].detached => conn'[c1].sock # conn'[c2].sock
      BY <1>0, <2>5 DEF SocketsOwned
    <3> QED BY <2>4, <3>1, <3>2, Zenon DEF SocketsOwned
  <2>6. CASE fd' = [fd EXCEPT ![s] = "closed"] /\ UNCHANGED <<conn, connFree>>
    BY <1>0, <2>5, <2>6, Zenon DEF TypeOK
  <2>7. CASE connFree # <<>> /\ NotRegistered(c, s)
    <3>1. /\ \A x \in Socks : fd'[x] = IF x = s THEN "closed" ELSE fd[x]
          /\ \A x \in ConnSlots : conn'[x] = IF x = c THEN b ELSE conn[x]
      BY <1>0, <2>7, Zenon DEF NotRegistered, TypeOK
    <3> HIDE DEF s, c, b
    <3>2. \A x \in ConnSlots : conn'[x] = conn[x] \/ (conn[x].detached /\ conn'[x].detached)
      BY <2>2, <2>3, <2>7, <3>1, Zenon
    <3> QED BY <2>5, <3>1, <3>2, Zenon
  <2>8. CASE connFree # <<>> /\ Registered(c, s)
    <3>1. /\ \A x \in Socks : fd'[x] = IF x = s THEN "open" ELSE fd[x]
          /\ \A x \in ConnSlots : conn'[x] = IF x = c THEN a ELSE conn[x]
      BY <1>0, <2>8, Zenon DEF Registered, TypeOK
    <3> HIDE DEF s, c, a
    <3>2. ASSUME NEW x \in Socks
          PROVE  /\ fd'[x] = "open" <=> \E y \in ConnSlots : ~conn'[y].detached /\ conn'[y].sock = x
                 /\ fd'[x] = "pending" <=> x \in Range(pending') \cup Range(adopting')
      <4>1. CASE x = s BY <1>0, <2>1, <2>2, <2>3, <2>4, <2>8, <3>1, <4>1, SMTT(30) DEF SocketsOwned
      <4>2. CASE x # s BY <1>0, <2>1, <2>2, <2>3, <2>4, <2>8, <3>1, <4>2, SMTT(30) DEF SocketsOwned
      <4> QED BY <4>1, <4>2, Zenon
    <3>3. \A c1, c2 \in ConnSlots :
           c1 # c2 /\ ~conn'[c1].detached /\ ~conn'[c2].detached => conn'[c1].sock # conn'[c2].sock
      BY <1>0, <2>1, <2>3, <3>1, SMTT(30) DEF SocketsOwned
    <3> QED BY <2>4, <3>2, <3>3, Zenon DEF SocketsOwned
  <2> QED BY <1>5, <2>6, <2>7, <2>8, Zenon DEF AddConnection
<1>6. CASE AllAdopted
  BY <1>0, <1>6, Zenon DEF AllAdopted, TakeCompleted, SocketsOwned
<1>7. CASE DrainCompleted
  <2>1. CASE \E c, k : Grown(c, k) BY <2>1, GrownSockets, Zenon
  <2>2. CASE \E c, k : Retired(c, k)
    <3>1. PICK c, k : Retired(c, k) BY <2>2, Zenon
    <3>2. c \in ConnSlots /\ conn[c] \in Connections /\ conn[c].detached /\ k.detached
      BY <3>1, Zenon DEF Retired, Connections
    <3>3. UNCHANGED <<fd, pc, adopting, pending>> /\ \A x \in ConnSlots : conn'[x] = IF x = c THEN k ELSE conn[x]
      BY <1>0, <3>1, Zenon DEF Retired, TypeOK
    <3> QED BY <1>0, <3>2, <3>3 DEF SocketsOwned
  <2> QED BY <1>7, <2>1, <2>2, DrainGrowsOrRetires, Zenon
<1>8. CASE Drained
  BY <1>0, <1>8, Zenon DEF Drained, SocketsOwned
<1>9. CASE ConnectionEvent
  BY <1>0, <1>9, SMTT(30) DEF ConnectionEvent, SocketsOwned
<1>10. CASE Recv
  BY <1>10, RecvGrows, GrownSockets, Zenon
<1>11. CASE ParseNow
  BY <1>11, ParseNowGrows, GrownSockets, Zenon
<1>12. CASE ParseDeferred
  BY <1>12, ParseDeferredGrows, GrownSockets, Zenon
<1>13. CASE DeferredFailed
  BY <1>0, <1>13, Zenon DEF DeferredFailed, SocketsOwned
<1>14. CASE ParseClose
  BY <1>14, ParseCloseGrows, GrownSockets, Zenon
<1>15. CASE ParseDone
  BY <1>0, <1>15, Zenon DEF ParseDone, SocketsOwned
<1>16. CASE FinishEvent
  <2>1. pc' # "destroyed" /\ UNCHANGED <<pending, adopting>> BY <1>16, Zenon DEF FinishEvent
  <2> QED BY <1>16, <2>1, FinishWritesOrCloses, WrittenSockets, ClosedSockets, Zenon
<1>17. CASE EventsDone
  BY <1>0, <1>17, Zenon DEF EventsDone, SocketsOwned
<1>18. CASE RunReady
  BY <1>18, RunReadyGrows, GrownSockets, Zenon
<1>19. CASE RunDone
  BY <1>0, <1>19, Zenon DEF RunDone, TakeCompleted, SocketsOwned
<1>20. CASE FlushWrites
  <2>1. pc' # "destroyed" /\ UNCHANGED <<pending, adopting>> BY <1>20, Zenon DEF FlushWrites
  <2>2. CASE UNCHANGED <<conn, connFree, fd>> BY <1>0, <2>1, <2>2, Zenon DEF SocketsOwned
  <2> QED BY <1>20, <2>1, <2>2, FlushWritesOrCloses, WrittenSockets, ClosedSockets, Zenon
<1>21. ASSUME NEW s \in Socks, Accept(s) PROVE SocketsOwned'
  <2>1. UNCHANGED <<conn, adopting, pc>> /\ fd[s] = "backlog" /\ pc # "destroyed"
    BY <1>21, Zenon DEF Accept
  <2>2. CASE fd' = [fd EXCEPT ![s] = "pending"] /\ pending' = Append(pending, s)
    <3>1. Range(pending') = Range(pending) \cup {s} BY <1>0, <2>2, RangeOfAppend DEF TypeOK
    <3>2. \A x \in Socks : fd'[x] = IF x = s THEN "pending" ELSE fd[x] BY <1>0, <2>2, Zenon DEF TypeOK
    <3> QED BY <1>0, <2>1, <3>1, <3>2, Zenon DEF SocketsOwned
  <2>3. CASE fd' = [fd EXCEPT ![s] = "closed"] /\ pending' = pending
    <3>2. \A x \in Socks : fd'[x] = IF x = s THEN "closed" ELSE fd[x] BY <1>0, <2>3, Zenon DEF TypeOK
    <3> QED BY <1>0, <2>1, <2>3, <3>2, SMTT(30) DEF SocketsOwned
  <2> QED BY <1>21, <2>2, <2>3, Zenon DEF Accept
<1>22. CASE Destroy
  <2>1. adopting = <<>> BY <1>22 DEF WorkerInv, Phases, Destroy
  <2>2. Range(<<>>) = {} BY DEF Range
  <2>3. \A s \in Socks : fd'[s] = IF s \in WorkerSockets THEN "closed" ELSE fd[s]
    BY <1>22, Zenon DEF Destroy
  <2>4. \A c \in ConnSlots : conn'[c].detached BY <1>22, Zenon DEF Destroy, Unused
  <2>5. pending' = <<>> /\ adopting' = <<>> BY <1>22, <2>1, Zenon DEF Destroy
  <2>6. \A s \in Socks : s \notin WorkerSockets => fd[s] # "open" /\ fd[s] # "pending"
    BY <1>0, <2>1, <2>2, SMTT(30) DEF SocketsOwned, WorkerSockets, AttachedSockets
  <2>7. \A s \in Socks : fd'[s] \in {"backlog", "closed"} BY <1>0, <2>3, <2>6, Zenon DEF TypeOK
  <2> QED BY <2>2, <2>4, <2>5, <2>7, Zenon DEF SocketsOwned
<1>23. ASSUME \/ ParseAsync \/ Wake \/ Stop \/ (\E s \in Socks : Client(s))
              \/ (\E d \in CallSlots : Claim(d)) \/ (\E d \in CallSlots : QueueCompleted(d))
      PROVE  UNCHANGED <<fd, conn, pending, adopting, pc>>
  BY <1>23, Zenon DEF ParseAsync, Client, Send, HangUp, Backpressure, Claim, QueueCompleted, AboutToWake,
       Wake, Stop
<1> HIDE DEF clientVars, sharedVars, workerVars, otherVars, parseVars
<1> QED BY <1>1, <1>2, <1>3, <1>4, <1>5, <1>6, <1>7, <1>8, <1>9, <1>10, <1>11, <1>12, <1>13, <1>14,
     <1>15, <1>16, <1>17, <1>18, <1>19, <1>20, <1>21, <1>22, <1>23, ZenonT(40) DEF Next, Run, Others,
     Terminated, vars, clientVars, sharedVars

=============================================================================
