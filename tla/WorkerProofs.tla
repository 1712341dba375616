---------------------------- MODULE WorkerProofs ----------------------------
(***************************************************************************)
(* The invariant of a worker's event loop. Its last conjunct, the calls    *)
(* that pin their connection, is about cardinalities. WorkerInv is kept    *)
(* conjunct by conjunct, with one case for each action that can disturb    *)
(* the conjunct; the safety properties of module Worker follow from it.    *)
(***************************************************************************)
EXTENDS WorkerRequests, FiniteSetTheorems

(* The deferred calls of a connection can be counted. *)
LEMMA CallsFinite == \A c : IsFiniteSet({d \in CallSlots : defer[d].state # "free" /\ defer[d].conn = c})
<1>1. IsFiniteSet(CallSlots)
  <2>1. 1 \in Int /\ DeferCap \in Int BY WorkerAssumptions DEF WorkerAssumptions
  <2>2. IsFiniteSet(1 .. DeferCap) BY <2>1, FS_Interval, Zenon
  <2> QED BY <2>2, Zenon DEF CallSlots
<1>2. ASSUME NEW c PROVE IsFiniteSet({d \in CallSlots : defer[d].state # "free" /\ defer[d].conn = c})
  <2>1. {d \in CallSlots : defer[d].state # "free" /\ defer[d].conn = c} \subseteq CallSlots BY Zenon
  <2> QED BY <1>1, <2>1, FS_Subset, Zenon
<1> QED BY <1>2, Zenon

(* A deferred call that is not free is counted by its connection. *)
LEMMA Counted == WorkerInv => CallsCounted
<1> SUFFICES ASSUME WorkerInv, NEW d \in CallSlots, Awaiting(d)
             PROVE  conn[defer[d].conn].pending_deferred > 0
  BY Zenon DEF CallsCounted
<1> DEFINE c == defer[d].conn
           S == {x \in CallSlots : defer[x].state # "free" /\ defer[x].conn = c}
<1>1. c \in ConnSlots /\ conn[c] \in Connections BY AwaitingFacts, Zenon
<1>2. conn[c].pending_deferred = Cardinality(S)
  BY <1>1, Zenon DEF WorkerInv, DeferredPinsConnection
<1>3. d \in S BY Zenon DEF Awaiting
<1>4. IsFiniteSet(S) BY CallsFinite, Zenon
<1>5. Cardinality(S) # 0 /\ Cardinality(S) \in Nat BY <1>3, <1>4, FS_EmptySet, FS_CardinalityType, ZenonT(40)
<1> QED BY <1>2, <1>5

(* Steps that leave a connection's socket and its count alone. *)
LEMMA PinsKept ==
  ASSUME WorkerInv, UNCHANGED defer,
         \A x \in ConnSlots : /\ conn'[x].pending_deferred = conn[x].pending_deferred
                               /\ conn'[x].sock = conn[x].sock
  PROVE  DeferredPinsConnection'
<1>1. DeferredPinsConnection BY Zenon DEF WorkerInv
<1>2. \A d \in CallSlots : defer[d].state # "free" => defer[d].conn \in ConnSlots
  BY AwaitingFacts, Zenon DEF Awaiting
<1> QED BY <1>1, <1>2, Zenon DEF DeferredPinsConnection

(* A connection that grew keeps its calls and their count. *)
LEMMA GrownPins ==
  ASSUME WorkerInv, NEW c, NEW k, Grown(c, k), k.pending_deferred = conn[c].pending_deferred, UNCHANGED defer
  PROVE  DeferredPinsConnection'
<1>1. conn \in [ConnSlots -> Connections] BY Zenon DEF WorkerInv, TypeOK
<1>2. \A x \in ConnSlots : conn'[x] = IF x = c THEN k ELSE conn[x] BY <1>1, Zenon DEF Grown
<1> QED BY <1>2, PinsKept, Zenon DEF Grown

(* So does one that was written or closed. *)
LEMMA WrittenPins ==
  ASSUME WorkerInv, NEW c, NEW k, Written(c, k) \/ Closed(c, k), UNCHANGED defer
  PROVE  DeferredPinsConnection'
<1>1. conn \in [ConnSlots -> Connections] BY Zenon DEF WorkerInv, TypeOK
<1>2. \A x \in ConnSlots : conn'[x] = IF x = c THEN k ELSE conn[x] BY <1>1, Zenon DEF Written, Closed
<1>3. k.sock = conn[c].sock /\ k.pending_deferred = conn[c].pending_deferred BY Zenon DEF Written, Closed
<1> QED BY <1>2, <1>3, PinsKept, Zenon

(* Claiming or completing a call changes no count. *)
LEMMA StatePins ==
  ASSUME WorkerInv, NEW d \in CallSlots, defer[d].state # "free", NEW v, v \in {"claimed", "queued"},
         defer' = [defer EXCEPT ![d].state = v], UNCHANGED conn
  PROVE  DeferredPinsConnection'
<1>1. defer \in [CallSlots -> Calls] /\ DeferredPinsConnection BY Zenon DEF WorkerInv, TypeOK
<1> DEFINE q == [defer[d] EXCEPT !.state = v]
<1>2. q.state = v /\ q.conn = defer[d].conn /\ q.req = defer[d].req BY <1>1, Zenon DEF Calls
<1>3. \A x \in CallSlots : defer'[x] = IF x = d THEN q ELSE defer[x] BY <1>1, Zenon
<1> HIDE DEF q
<1>4. \A x \in CallSlots : /\ defer'[x].conn = defer[x].conn /\ defer'[x].req = defer[x].req
                            /\ defer'[x].state # "free" <=> defer[x].state # "free"
  BY <1>2, <1>3, Zenon
<1>5. \A c : {x \in CallSlots : defer'[x].state # "free" /\ defer'[x].conn = c}
            = {x \in CallSlots : defer[x].state # "free" /\ defer[x].conn = c}
  BY <1>4, SMTT(30)
<1> QED BY <1>1, <1>4, <1>5, SMTT(30) DEF DeferredPinsConnection

(* The count of a connection stays the number of its deferred calls. *)
LEMMA PinsStep == WorkerInv /\ [Next]_vars => DeferredPinsConnection'
<1> SUFFICES ASSUME WorkerInv, [Next]_vars PROVE DeferredPinsConnection'
  BY Zenon
<1>0. TypeOK /\ DeferredPinsConnection BY Zenon DEF WorkerInv
<1> USE DEF clientVars, sharedVars, workerVars, otherVars, parseVars
<1>1. CASE UNCHANGED <<conn, defer>>
  BY <1>0, <1>1, Zenon DEF DeferredPinsConnection
<1>2. CASE AddConnection
  <2>1. defer' = defer BY <1>2, Zenon DEF AddConnection
  <2>2. CASE conn' = conn BY <1>1, <2>1, <2>2, Zenon
  <2>3. ASSUME connFree # <<>>, NEW r, r.pending_deferred = 0, conn' = [conn EXCEPT ![Head(connFree)] = r]
        PROVE  DeferredPinsConnection'
    <3> DEFINE c == Head(connFree)
    <3>1. c \in ConnSlots /\ conn[c].pending_deferred = 0 BY <1>2, <2>3, AddedFacts, Zenon
    <3>2. \A x \in ConnSlots : conn'[x] = IF x = c THEN r ELSE conn[x] BY <1>0, <2>3, Zenon DEF TypeOK
    <3> HIDE DEF c
    <3>3. \A d \in CallSlots : defer[d].state # "free" => defer[d].conn \in ConnSlots /\ defer[d].conn # c
      <4>1. ASSUME NEW d \in CallSlots, defer[d].state # "free"
            PROVE  defer[d].conn \in ConnSlots /\ conn[defer[d].conn].pending_deferred > 0
        BY <4>1, Counted, AwaitingFacts, Zenon DEF CallsCounted, Awaiting
      <4> QED BY <3>1, <4>1
    <3>4. \A x \in ConnSlots : conn'[x].pending_deferred = conn[x].pending_deferred
      BY <2>3, <3>1, <3>2, Zenon
    <3>5. \A d \in CallSlots : defer[d].state # "free" => conn'[defer[d].conn] = conn[defer[d].conn]
      BY <3>2, <3>3, Zenon
    <3> QED BY <1>0, <2>1, <3>4, <3>5, ZenonT(40) DEF DeferredPinsConnection
  <2>4. Head(adopting) \in Socks BY <1>2, AddedFacts, Zenon
  <2>5. /\ [Unused EXCEPT !.sock = Head(adopting), !.detached = FALSE].pending_deferred = 0
        /\ [Unused EXCEPT !.sock = Head(adopting)].pending_deferred = 0
    BY <2>4, AdoptedFacts, Zenon
  <2> QED BY <1>2, <2>2, <2>3, <2>5, ZenonT(40) DEF AddConnection, Registered, NotRegistered
<1>3. CASE DrainCompleted
  <2> DEFINE d == Head(draining)
             f == [conn |-> 0, req |-> <<>>, state |-> "free"]
             y == defer[d].conn
  <2>1. d \in CallSlots /\ Awaiting(d) /\ y \in ConnSlots
    BY <1>3, DrainedFacts, AwaitingFacts, ZenonT(40) DEF DrainCompleted
  <2>2. PICK k : k.pending_deferred = conn[y].pending_deferred - 1 /\ (Grown(y, k) \/ Retired(y, k))
    BY <1>3, Counted, DrainGrowsOrRetires, ZenonT(40)
  <2>3. /\ \A x \in ConnSlots : conn'[x] = IF x = y THEN k ELSE conn[x]
        /\ k.sock = conn[y].sock
    <3>1. CASE Grown(y, k) BY <1>0, <3>1, Zenon DEF Grown, TypeOK
    <3>2. CASE Retired(y, k) BY <1>0, <3>2, Zenon DEF Retired, TypeOK, Connections
    <3> QED BY <2>2, <3>1, <3>2, Zenon
  <2>4. \A x \in CallSlots : defer'[x] = IF x = d THEN f ELSE defer[x]
    BY <1>0, <1>3, Zenon DEF DrainCompleted, TypeOK
  <2>5. f.state = "free" BY Zenon
  <2> HIDE DEF d, f
  <2>6. \A x \in CallSlots : defer'[x].state # "free" => conn'[defer'[x].conn].sock = defer'[x].req[1]
    <3>1. ASSUME NEW x \in CallSlots, defer'[x].state # "free" PROVE conn'[defer'[x].conn].sock = defer'[x].req[1]
      <4>1. defer'[x] = defer[x] /\ Awaiting(x) BY <2>4, <2>5, <3>1, Zenon DEF Awaiting
      <4>2. defer[x].conn \in ConnSlots /\ conn[defer[x].conn].sock = defer[x].req[1]
        BY <4>1, AwaitingFacts, Zenon
      <4> QED BY <2>3, <4>1, <4>2, Zenon
    <3> QED BY <3>1, Zenon
  <2>7. ASSUME NEW c \in ConnSlots
        PROVE  conn'[c].pending_deferred = Cardinality({x \in CallSlots : defer'[x].state # "free" /\ defer'[x].conn = c})
    <3> DEFINE S == {x \in CallSlots : defer[x].state # "free" /\ defer[x].conn = c}
               T == {x \in CallSlots : defer'[x].state # "free" /\ defer'[x].conn = c}
    <3>1. conn[c].pending_deferred = Cardinality(S) BY <1>0, Zenon DEF DeferredPinsConnection
    <3>2. CASE c # y
      <4>1. S = T BY <2>4, <2>5, <3>2, Zenon
      <4> QED BY <2>3, <3>1, <3>2, <4>1, Zenon
    <3>3. CASE c = y
      <4>1. T = S \ {d} /\ d \in S BY <2>1, <2>4, <2>5, <3>3, Zenon DEF Awaiting
      <4>2. IsFiniteSet(S) BY CallsFinite, Zenon
      <4>3. Cardinality(T) = Cardinality(S) - 1 BY <4>1, <4>2, FS_RemoveElement, Zenon
      <4> QED BY <2>2, <2>3, <3>1, <3>3, <4>3, Zenon
    <3> QED BY <3>2, <3>3, Zenon
  <2> QED BY <2>6, <2>7, Zenon DEF DeferredPinsConnection
<1>4. CASE Recv
  BY <1>4, RecvGrows, GrownPins, Zenon DEF Recv
<1>5. CASE ParseNow
  BY <1>5, ParseNowGrows, GrownPins, Zenon DEF ParseNow
<1>6. CASE ParseDeferred
  <2> DEFINE d == Head(deferFree)
             h == [conn |-> cur.conn, req |-> Request, state |-> "held"]
             y == cur.conn
  <2>1. d \in CallSlots /\ defer[d].state = "free"
    <3>1. deferFree # <<>> /\ deferFree \in Seq(CallSlots) BY <1>0, <1>6, Zenon DEF ParseDeferred, TypeOK
    <3>2. 1 \in DOMAIN deferFree /\ d = deferFree[1] /\ d \in CallSlots BY <3>1
    <3> QED BY <3>2, Zenon DEF WorkerInv, CallsAccounted
  <2>2. PICK k : k.pending_deferred = conn[y].pending_deferred + 1 /\ Grown(y, k)
    BY <1>6, ParseDeferredGrows, Zenon
  <2>3. y \in ConnSlots /\ \A x \in ConnSlots : conn'[x] = IF x = y THEN k ELSE conn[x]
    BY <1>0, <2>2, Zenon DEF Grown, TypeOK
  <2>4. \A x \in CallSlots : defer'[x] = IF x = d THEN h ELSE defer[x]
    BY <1>0, <1>6, Zenon DEF ParseDeferred, TypeOK
  <2>5. h.state = "held" /\ h.conn = y /\ h.req[1] = conn[y].sock
    BY Zenon DEF Request
  <2> HIDE DEF d, h, y
  <2>6. \A x \in CallSlots : defer'[x].state # "free" => conn'[defer'[x].conn].sock = defer'[x].req[1]
    <3>0. \A x \in ConnSlots : conn'[x].sock = conn[x].sock BY <2>2, <2>3, Zenon DEF Grown
    <3>1. ASSUME NEW x \in CallSlots, defer'[x].state # "free" PROVE conn'[defer'[x].conn].sock = defer'[x].req[1]
      <4>1. CASE x = d BY <2>3, <2>4, <2>5, <3>0, <4>1, Zenon
      <4>2. CASE x # d
        <5>1. defer'[x] = defer[x] /\ Awaiting(x) BY <2>4, <3>1, <4>2, Zenon DEF Awaiting
        <5>2. defer[x].conn \in ConnSlots /\ conn[defer[x].conn].sock = defer[x].req[1]
          BY <5>1, AwaitingFacts, Zenon
        <5> QED BY <3>0, <5>1, <5>2, Zenon
      <4> QED BY <4>1, <4>2, Zenon
    <3> QED BY <3>1, Zenon
  <2>7. ASSUME NEW c \in ConnSlots
        PROVE  conn'[c].pending_deferred = Cardinality({x \in CallSlots : defer'[x].state # "free" /\ defer'[x].conn = c})
    <3> DEFINE S == {x \in CallSlots : defer[x].state # "free" /\ defer[x].conn = c}
               T == {x \in CallSlots : defer'[x].state # "free" /\ defer'[x].conn = c}
    <3>1. conn[c].pending_deferred = Cardinality(S) BY <1>0, Zenon DEF DeferredPinsConnection
    <3>2. CASE c # y
      <4>1. S = T BY <2>1, <2>4, <2>5, <3>2, Zenon
      <4> QED BY <2>3, <3>1, <3>2, <4>1, Zenon
    <3>3. CASE c = y
      <4>1. T = S \cup {d} /\ d \notin S BY <2>1, <2>4, <2>5, <3>3, ZenonT(40)
      <4>2. IsFiniteSet(S) BY CallsFinite, Zenon
      <4>3. Cardinality(T) = Cardinality(S) + 1 BY <4>1, <4>2, FS_AddElement, Zenon
      <4> QED BY <2>2, <2>3, <3>1, <3>3, <4>3, Zenon
    <3> QED BY <3>2, <3>3, Zenon
  <2> QED BY <2>6, <2>7, Zenon DEF DeferredPinsConnection
<1>7. CASE DeferredFailed
  <2>1. PICK d \in CallSlots :
          IF defer[d].state = "held"
            THEN defer' = [defer EXCEPT ![d].state = "queued"]
            ELSE UNCHANGED defer
    BY <1>7, Zenon DEF DeferredFailed
  <2>2. UNCHANGED conn BY <1>7, Zenon DEF DeferredFailed
  <2>3. CASE defer[d].state = "held" BY <2>1, <2>2, <2>3, StatePins, ZenonT(40)
  <2>4. CASE defer[d].state # "held" BY <1>1, <2>1, <2>2, <2>4, ZenonT(40)
  <2> QED BY <2>3, <2>4, Zenon
<1>8. CASE ParseClose
  BY <1>8, ParseCloseGrows, GrownPins, Zenon DEF ParseClose
<1>9. CASE FinishEvent
  BY <1>9, FinishWritesOrCloses, WrittenPins, Zenon DEF FinishEvent
<1>10. CASE RunReady
  BY <1>10, RunReadyGrows, GrownPins, Zenon DEF RunReady
<1>11. CASE FlushWrites
  <2>1. defer' = defer BY <1>11, Zenon DEF FlushWrites
  <2>2. CASE UNCHANGED conn BY <1>1, <2>1, <2>2, Zenon
  <2> QED BY <1>11, <2>1, <2>2, FlushWritesOrCloses, WrittenPins, Zenon
<1>12. ASSUME NEW d \in CallSlots, Claim(d) PROVE DeferredPinsConnection'
  BY <1>12, StatePins, Zenon DEF Claim
<1>13. ASSUME NEW d \in CallSlots, QueueCompleted(d) PROVE DeferredPinsConnection'
  BY <1>13, StatePins, ZenonT(30) DEF QueueCompleted
<1>14. CASE Destroy
  <2>1. \A d \in CallSlots : defer'[d].state = "free" BY <1>14, Zenon DEF Destroy
  <2>2. \A c \in ConnSlots : conn'[c].pending_deferred = 0 BY <1>14, Zenon DEF Destroy, Unused
  <2>3. \A c : {d \in CallSlots : defer'[d].state # "free" /\ defer'[d].conn = c} = {} BY <2>1, Zenon
  <2>4. Cardinality({}) = 0 BY FS_EmptySet, Zenon
  <2> QED BY <2>1, <2>2, <2>3, <2>4, Zenon DEF DeferredPinsConnection
<1>15. ASSUME \/ Top \/ Poll \/ WakeEvent \/ AllAdopted \/ Drained \/ ConnectionEvent \/ ParseAsync
              \/ ParseDone \/ EventsDone \/ RunDone \/ Wake \/ Stop \/ (\E s \in Socks : Client(s))
              \/ (\E s \in Socks : Accept(s))
      PROVE  UNCHANGED <<conn, defer>>
  BY <1>15, Zenon DEF Top, Poll, WakeEvent, TakePending, AllAdopted, TakeCompleted, Drained,
       ConnectionEvent, ParseAsync, ParseDone, EventsDone, RunDone, Client, Send, HangUp,
       Backpressure, Accept, AboutToWake, Wake, Stop
<1> HIDE DEF clientVars, sharedVars, workerVars, otherVars, parseVars
<1> QED BY <1>1, <1>2, <1>3, <1>4, <1>5, <1>6, <1>7, <1>8, <1>9, <1>10, <1>11, <1>12, <1>13, <1>14,
     <1>15, ZenonT(40) DEF Next, Run, Others, Terminated, vars, clientVars, sharedVars

(* worker_init establishes the invariant. *)
LEMMA WorkerInvInit == Init => WorkerInv
<1> SUFFICES ASSUME Init PROVE WorkerInv
  BY Zenon
<1>1. TypeOK
  <2>1. /\ inbox \in [Socks -> Seq(Packets)] /\ sent \in [Socks -> 0 .. MaxPackets]
        /\ peer \in [Socks -> {"open", "fin", "reset"}] /\ blocked \in [Socks -> BOOLEAN]
        /\ fd \in [Socks -> {"backlog", "pending", "open", "closed"}]
    BY WorkerAssumptions DEF Init, WorkerAssumptions
  <2>2. wake \in BOOLEAN /\ wakers \in Nat /\ stopping \in BOOLEAN BY Zenon DEF Init
  <2>9. /\ pending \in Seq(Socks) /\ completed \in Seq(CallSlots)
        /\ ready \in Seq(Coroutines) /\ rbuf \in Seq(Packets)
        /\ adopting \in Seq(Socks) /\ draining \in Seq(CallSlots)
    <3>1. ASSUME NEW S PROVE <<>> \in Seq(S) OBVIOUS
    <3>2. /\ pending = <<>> /\ completed = <<>> /\ ready = <<>> /\ rbuf = <<>>
          /\ adopting = <<>> /\ draining = <<>>
      BY Zenon DEF Init
    <3> QED BY <3>1, <3>2, Zenon
  <2>3. conn \in [ConnSlots -> Connections] BY UnusedType, Zenon DEF Init
  <2>4. defer \in [CallSlots -> Calls] BY FreeCall, Zenon DEF Init
  <2>5. connFree \in Seq(ConnSlots) /\ deferFree \in Seq(CallSlots)
    <3>1. ConnCap \in Nat /\ DeferCap \in Nat BY WorkerAssumptions, Zenon DEF WorkerAssumptions
    <3>2. ASSUME NEW n \in Nat PROVE [i \in 1 .. n |-> i] \in Seq(1 .. n) OBVIOUS
    <3>3. connFree = [c \in 1 .. ConnCap |-> c] /\ deferFree = [d \in 1 .. DeferCap |-> d]
      BY Zenon DEF Init, ConnSlots, CallSlots
    <3> QED BY <3>1, <3>2, <3>3, Zenon DEF ConnSlots, CallSlots
  <2>6. batch \subseteq Events /\ cur \in Events BY Zenon DEF Init, Events, NoEvent
  <2>7. pc \in Labels BY Zenon DEF Init, Labels
  <2>8. answered \in [Reqs -> Nat] /\ misrouted \subseteq Reqs BY Zenon DEF Init
  <2> QED BY <2>1, <2>2, <2>3, <2>4, <2>5, <2>6, <2>7, <2>8, <2>9, ZenonT(40) DEF TypeOK
<1>2. Phases BY Zenon DEF Init, Phases, NoEvent, Handling, InBatch
<1>3. EventsWellFormed BY DEF Init, EventsWellFormed, NoEvent
<1>4. EventsCurrent BY DEF Init, EventsCurrent, EventsNotStale, NoEvent
<1>5. \A c \in ConnSlots : conn[c] = Unused BY Zenon DEF Init
<1>6. \A d \in CallSlots : defer[d].state = "free" BY Zenon DEF Init
<1>7. ConnectionStates BY <1>5 DEF ConnectionStates, Unused
<1>8. ArenaAccounted
  <2>1. ConnCap \in Nat /\ connFree = [c \in ConnSlots |-> c]
    BY WorkerAssumptions, Zenon DEF Init, WorkerAssumptions
  <2>2. IsInjective(connFree) /\ Range(connFree) = ConnSlots BY <2>1, Zenon DEF IsInjective, Range
  <2>3. ConnSlots = {c \in ConnSlots : conn[c].detached /\ conn[c].pending_deferred = 0}
    BY <1>5 DEF Unused
  <2> QED BY <2>2, <2>3, Zenon DEF ArenaAccounted
<1>9. SocketsOwned
  <2>1. Range(pending) = {} /\ Range(adopting) = {} BY DEF Init, Range
  <2>2. \A s \in Socks : fd[s] = "backlog" BY Zenon DEF Init
  <2>3. pc = "top" BY Zenon DEF Init
  <2> QED BY <1>5, <2>1, <2>2, <2>3, SMTT(30) DEF SocketsOwned, Unused
<1>10. HandedOverOnce BY DEF Init, HandedOverOnce, IsInjective, Range
<1>11. CallsAccounted
  <2>1. /\ Range(completed) = {} /\ Range(draining) = {} /\ IsInjective(completed) /\ IsInjective(draining)
    BY DEF Init, Range, IsInjective
  <2>2. deferFree = [d \in CallSlots |-> d] BY Zenon DEF Init
  <2>3. IsInjective(deferFree) /\ \A i \in DOMAIN deferFree : deferFree[i] \in CallSlots
    BY <2>2, Zenon DEF IsInjective
  <2> QED BY <1>6, <2>1, <2>3, Zenon DEF CallsAccounted
<1>12. DeferredPinsConnection
  <2>1. \A c \in ConnSlots : {d \in CallSlots : defer[d].state # "free" /\ defer[d].conn = c} = {}
    BY <1>6, Zenon
  <2>2. Cardinality({}) = 0 BY FS_EmptySet, Zenon
  <2>3. \A c \in ConnSlots : conn[c].pending_deferred = 0 BY <1>5 DEF Unused
  <2> QED BY <1>6, <2>1, <2>2, <2>3, Zenon DEF DeferredPinsConnection
<1>13. HandOverWakes BY Zenon DEF Init, HandOverWakes
<1>14. PacketsInOrder
  <2>1. cur.conn = 0 BY Zenon DEF Init, NoEvent
  <2>2. \A s \in Socks : inbox[s] = <<>> /\ sent[s] = 0 BY Zenon DEF Init
  <2>3. Len(<<>>) = 0 BY Zenon
  <2> QED BY <2>1, <2>2, <2>3 DEF PacketsInOrder
<1>15. RequestsOnce
  <2>1. \A r \in Reqs : answered[r] = 0 BY Zenon DEF Init
  <2>2. DOMAIN ready = {} BY DEF Init
  <2> QED BY <1>6, <2>1, <2>2 DEF RequestsOnce, Awaiting
<1>16. AnsweredAtMostOnce BY DEF Init, AnsweredAtMostOnce
<1> QED BY <1>1, <1>2, <1>3, <1>4, <1>7, <1>8, <1>9, <1>10, <1>11, <1>12, <1>13, <1>14, <1>15,
           <1>16, ZenonT(40)
        DEF WorkerInv

(* Every step keeps it. *)
LEMMA WorkerInvNext == WorkerInv /\ [Next]_vars => WorkerInv'
BY Counted, TypeStep, PhasesStep, EventsWellFormedStep, EventsCurrentStep, ConnectionStatesStep, ArenaStep,
   SocketsStep, HandedOverStep, CallsStep, PinsStep, WakesStep, PacketsStep, RequestsStep,
   AnsweredStep, ZenonT(40) DEF WorkerInv

(* The inductive invariant of a worker: its arenas, queues, events, sockets and *)
(* wake-ups fit together at every step of worker_run, for any number of sockets, *)
(* slots, calls and packets, whatever fails.                                *)
THEOREM WorkerInvariant == Spec => []WorkerInv
BY WorkerInvInit, WorkerInvNext, PTL DEF Spec

(* No request is answered twice, whether its handler, a foreign thread      *)
(* (wirecall_deferred_complete) or the error path of handle_deferred_call   *)
(* finishes it.                                                             *)
THEOREM AnsweredOnce == Spec => []AnsweredAtMostOnce
<1>1. WorkerInv => AnsweredAtMostOnce BY ZenonT(40) DEF WorkerInv
<1> QED BY <1>1, WorkerInvariant, PTL

(* pending_deferred is exact, and connection_destroy never frees a slot that a *)
(* deferred call still refers to.                                           *)
THEOREM CallsPinConnections == Spec => []DeferredPinsConnection
<1>1. WorkerInv => DeferredPinsConnection BY Zenon DEF WorkerInv
<1> QED BY <1>1, WorkerInvariant, PTL

(* No event of a batch names a connection that an earlier event of the batch *)
(* destroyed in worker_run.                                                 *)
THEOREM NoStaleEvents == Spec => []EventsNotStale
<1>1. WorkerInv => EventsNotStale BY ZenonT(40) DEF WorkerInv, EventsCurrent
<1> QED BY <1>1, WorkerInvariant, PTL

(* Neither worker_add_connection, connection_destroy nor worker_drain_completed *)
(* leaks a slot or a socket or gives one back twice, and worker_destroy leaves *)
(* none open.                                                               *)
THEOREM NoLeaks == Spec => []NothingLeaks
<1>1. WorkerInv => NothingLeaks BY ZenonT(40) DEF WorkerInv, NothingLeaks
<1> QED BY <1>1, WorkerInvariant, PTL

(* The worker never goes to poll with something handed over and no wake on its *)
(* way (worker_enqueue_connection, worker_queue_completed, wirecall_server_stop). *)
THEOREM WakesAreKept == Spec => []NoLostWake
<1>1. WorkerInv => NoLostWake
  BY Zenon DEF WorkerInv, Phases, InBatch, Handling, HandOverWakes, Woken, NoLostWake
<1> QED BY <1>1, WorkerInvariant, PTL

(* Unless an append to a write buffer fails, the worker goes to poll only with *)
(* every response sent or waiting for a WRITE event (worker_flush_writes,   *)
(* connection_write). A failed append may leave a header that nobody sends. *)
THEOREM FlushedBeforeSleep == ~AllocMayFail /\ Spec => []IdleIsFlushed
<1>1. ~AllocMayFail /\ WorkerInv => IdleIsFlushed
  <2> SUFFICES ASSUME ~AllocMayFail, WorkerInv, pc = "poll" PROVE IdleIsFlushed
    BY Zenon DEF IdleIsFlushed
  <2>1. ready = <<>> /\ cur.conn = 0 BY ZenonT(40) DEF WorkerInv, Phases, InBatch, Handling
  <2>2. ASSUME NEW c \in ConnSlots, ~conn[c].detached
        PROVE  /\ ~conn[c].queued
               /\ conn[c].unsent > 0 /\ ~conn[c].closing => conn[c].write
               /\ conn[c].closing => conn[c].unsent > 0
    <3>1. ConnectionStates BY Zenon DEF WorkerInv
    <3>2. conn[c] \in Connections BY Zenon DEF WorkerInv, TypeOK
    <3>3. conn[c].unsent \in Nat BY <3>2, Zenon DEF Connections
    <3>4. c # 0 BY DEF ConnSlots
    <3> QED BY <2>1, <2>2, <3>1, <3>3, <3>4, SMTT(30) DEF ConnectionStates
  <2> QED BY <2>1, <2>2, ZenonT(40) DEF IdleIsFlushed
<1>2. CASE ~AllocMayFail BY <1>1, <1>2, WorkerInvariant, PTL
<1> QED BY <1>2, Zenon

(* A response goes to another connection than its request came from only when *)
(* on_call_done queues it for a coroutine: for calls answered at once and for *)
(* deferred calls it never does.                                            *)
THEOREM OnlyCoroutinesMisroute == Spec => [][RunReady \/ UNCHANGED misrouted]_vars
BY MisrouteStep, WorkerInvariant, PTL DEF Spec

(* So where no route is asynchronous, every response is queued on the connection *)
(* its request came from.                                                   *)
THEOREM AnswersRequester == "async" \notin Kinds /\ Spec => []ResponseToRequester
<1>1. Init => ResponseToRequester BY Zenon DEF Init, ResponseToRequester
<1>2. "async" \notin Kinds /\ WorkerInv /\ ResponseToRequester /\ [Next]_vars => ResponseToRequester'
  <2> SUFFICES ASSUME "async" \notin Kinds, WorkerInv, ResponseToRequester, [Next]_vars
               PROVE  ResponseToRequester'
    BY Zenon
  <2>1. ready = <<>> BY Zenon DEF WorkerInv, Phases
  <2>2. ~RunReady BY <2>1, Zenon DEF RunReady
  <2> QED BY <2>2, MisrouteStep, ZenonT(40) DEF ResponseToRequester
<1>3. CASE "async" \notin Kinds
  <2>1. WorkerInv /\ ResponseToRequester /\ [Next]_vars => ResponseToRequester' BY <1>2, <1>3, Zenon
  <2> QED BY <1>1, <2>1, WorkerInvariant, PTL DEF Spec
<1> QED BY <1>3, Zenon

=============================================================================
