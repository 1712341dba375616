------------------------------- MODULE Worker -------------------------------
(***************************************************************************)
(* One worker of the server (src/server.c): the event loop that reads       *)
(* packets, runs handlers, queues responses and flushes them, together with *)
(* the threads that talk to it: the worker that accepts connections, the    *)
(* foreign threads that complete deferred calls, the caller of server_stop, *)
(* and the clients at the other end of the sockets.                         *)
(*                                                                         *)
(* Connections and deferred calls live in fixed arenas (include/arena.h)    *)
(* whose slots are reused last-in first-out, and are referred to by slot.   *)
(***************************************************************************)
EXTENDS Integers, Sequences, FiniteSets, Functions

CONSTANTS
  Socks,        \* accepted sockets, one per client connection
  NoSock,
  ConnCap,      \* capacity of the connection arena
  DeferCap,     \* capacity of the deferred arena
  CallCap,      \* capacity of the scheduler's call arena
  Kinds,        \* the packets clients send: a subset of PacketKinds
  MaxPackets,   \* packets per client (bound)
  MaxYields,    \* yields per coroutine (bound)
  SplitEvents,  \* the backend reports READ and WRITE as two events (kqueue)
  AllocMayFail, \* the allocator hook may return NULL
  MayBlock,     \* a client may stop reading
  MayStop       \* server_stop may be called

(* "now": answered by handle_packet itself (ping, sync routes, unknown      *)
(* procedures, unsupported operations, malformed payloads).                 *)
PacketKinds == {"now", "async", "deferred", "disconnect", "bad"}

ASSUME WorkerAssumptions ==
  /\ NoSock \notin Socks
  /\ ConnCap \in Nat /\ DeferCap \in Nat /\ CallCap \in Nat
  /\ Kinds \subseteq PacketKinds
  /\ MaxPackets \in Nat /\ MaxYields \in Nat
  /\ {SplitEvents, AllocMayFail, MayBlock, MayStop} \subseteq BOOLEAN

ConnSlots == 1 .. ConnCap
CallSlots == 1 .. DeferCap
Reqs      == Socks \X (1 .. MaxPackets)

VARIABLES
  \* the kernel and the clients
  inbox,     \* per socket: packets sent and not yet received
  sent,      \* per socket: packets sent so far
  peer,      \* per socket: "open", "fin" or "reset"
  blocked,   \* per socket: the send buffer is full
  fd,        \* per socket: "backlog", "pending", "open", "closed"
  wake,      \* the wake descriptor is readable
  wakers,    \* threads that have queued something and are about to wake
  \* shared with other threads
  pending,   \* pending_head: sockets handed to this worker
  completed, \* completed_head: deferred calls to be answered
  stopping,
  \* the worker's own
  conn,      \* connection arena
  connFree,  \* its free list
  defer,     \* deferred arena
  deferFree, \* its free list
  ready,     \* the scheduler's ready queue
  batch,     \* events of this poll not yet handled
  cur, rbuf, \* the event being handled, the packets read and not yet parsed
  adopting,  \* the sockets being added
  draining,  \* the completed calls being answered
  pc,
  \* history
  answered,  \* how many responses were queued for each request
  misrouted  \* requests whose response was queued on another connection

clientVars == <<inbox, sent, peer, blocked>>
sharedVars == <<wake, wakers, pending, completed, stopping>>
vars == <<clientVars, fd, sharedVars, conn, connFree, defer, deferFree, ready, batch, cur,
          rbuf, adopting, draining, pc, answered, misrouted>>

NoEvent == [conn |-> 0, sock |-> NoSock, flags |-> {}]

Packets == [kind : Kinds, id : 1 .. MaxPackets]

Connections ==
  [sock : Socks \cup {NoSock}, closing : BOOLEAN, detached : BOOLEAN, unsent : Nat,
   queued : BOOLEAN, write : BOOLEAN, pending_deferred : Nat]

Calls == [conn : {0} \cup ConnSlots, req : Reqs \cup {<<>>},
          state : {"free", "held", "claimed", "queued"}]

Coroutines == [conn : ConnSlots, req : Reqs, yields : 0 .. MaxYields]

Events == [conn : {0} \cup ConnSlots, sock : Socks \cup {NoSock},
           flags : SUBSET {"READ", "WRITE", "WAKE"}]

Labels == {"top", "poll", "events", "recv", "parse", "return", "finish", "adopt", "drain", "run",
           "last", "flush", "exit", "destroyed"}

TypeOK ==
  /\ inbox \in [Socks -> Seq(Packets)]
  /\ sent \in [Socks -> 0 .. MaxPackets]
  /\ peer \in [Socks -> {"open", "fin", "reset"}]
  /\ blocked \in [Socks -> BOOLEAN]
  /\ fd \in [Socks -> {"backlog", "pending", "open", "closed"}]
  /\ wake \in BOOLEAN /\ wakers \in Nat
  /\ pending \in Seq(Socks) /\ completed \in Seq(CallSlots)
  /\ stopping \in BOOLEAN
  /\ conn \in [ConnSlots -> Connections] /\ connFree \in Seq(ConnSlots)
  /\ defer \in [CallSlots -> Calls] /\ deferFree \in Seq(CallSlots)
  /\ ready \in Seq(Coroutines)
  /\ batch \subseteq Events /\ cur \in Events
  /\ rbuf \in Seq(Packets)
  /\ adopting \in Seq(Socks) /\ draining \in Seq(CallSlots)
  /\ pc \in Labels
  /\ answered \in [Reqs -> Nat]
  /\ misrouted \subseteq Reqs

Unused == [sock |-> NoSock, closing |-> FALSE, detached |-> TRUE, unsent |-> 0,
           queued |-> FALSE, write |-> FALSE, pending_deferred |-> 0]

(* worker_init, and clients whose connections wait to be accepted. *)
Init ==
  /\ inbox = [s \in Socks |-> <<>>]
  /\ sent = [s \in Socks |-> 0]
  /\ peer = [s \in Socks |-> "open"]
  /\ blocked = [s \in Socks |-> FALSE]
  /\ fd = [s \in Socks |-> "backlog"]
  /\ wake = FALSE /\ wakers = 0
  /\ pending = <<>> /\ completed = <<>> /\ stopping = FALSE
  /\ conn = [c \in ConnSlots |-> Unused]
  /\ connFree = [c \in ConnSlots |-> c]
  /\ defer = [d \in CallSlots |-> [conn |-> 0, req |-> <<>>, state |-> "free"]]
  /\ deferFree = [d \in CallSlots |-> d]
  /\ ready = <<>>
  /\ batch = {} /\ cur = NoEvent /\ rbuf = <<>>
  /\ adopting = <<>> /\ draining = <<>>
  /\ pc = "top"
  /\ answered = [r \in Reqs |-> 0]
  /\ misrouted = {}

-----------------------------------------------------------------------------
(* Helpers on a connection k = conn[c]; each returns the set of states the  *)
(* call can leave the connection in.                                        *)

(* queue_packet: -1 on a detached connection. An append that fails leaves   *)
(* nothing in the write buffer, or the header without its payload.          *)
QueuePacket(k) ==
  IF k.detached
    THEN {[ok |-> FALSE, conn |-> k]}
    ELSE {[ok |-> TRUE, conn |-> [k EXCEPT !.unsent = @ + 1, !.queued = TRUE]]}
         \cup IF AllocMayFail
                THEN {[ok |-> FALSE, conn |-> k],
                      [ok |-> FALSE, conn |-> [k EXCEPT !.unsent = @ + 1]]}
                ELSE {}

(* What the caller of queue_packet has queued: a response to req on k. *)
Account(k, req, ok) ==
  /\ answered' = IF ok THEN [answered EXCEPT ![req] = @ + 1] ELSE answered
  /\ misrouted' = IF ok /\ k.sock # req[1] THEN misrouted \cup {req} ELSE misrouted

(* Mutant: a send that would block does not ask for WRITE events. *)
KeepInterests(k) == k

(* connection_set_interests(READ | WRITE). *)
WantWrite(k) == [k EXCEPT !.write = TRUE]

ConnectionWrite(k) ==
  IF k.unsent = 0 THEN {[k EXCEPT !.write = FALSE]}
  ELSE IF peer[k.sock] = "reset" THEN {[k EXCEPT !.closing = TRUE]}
  ELSE IF blocked[k.sock]
    THEN {WantWrite([k EXCEPT !.unsent = n]) : n \in 1 .. k.unsent}
    ELSE {[k EXCEPT !.unsent = 0, !.write = FALSE]}

(* Mutant: the slot is freed while deferred calls refer to it. *)
FreeableAtOnce(k) == TRUE

(* The last test of connection_destroy. *)
Freeable(k) == k.pending_deferred = 0

(* connection_destroy: a connection with deferred calls outstanding keeps   *)
(* its slot until the last of them has been drained.                        *)
ConnectionDestroy(c, k) ==
  /\ fd' = IF k.detached THEN fd ELSE [fd EXCEPT ![k.sock] = "closed"]
  /\ conn' = [conn EXCEPT ![c] = [k EXCEPT !.detached = TRUE, !.unsent = 0,
                                           !.queued = FALSE, !.write = FALSE]]
  /\ connFree' = IF Freeable(k) THEN <<c>> \o connFree ELSE connFree

(* Mutant: a closing connection is destroyed with bytes still to send. *)
FlushedOrNot(k) == TRUE

Flushed(k) == k.unsent = 0

MaybeClose(c, k) ==
  IF k.closing /\ Flushed(k)
    THEN ConnectionDestroy(c, k)
    ELSE conn' = [conn EXCEPT ![c] = k] /\ UNCHANGED <<fd, connFree>>

-----------------------------------------------------------------------------
(* The clients and the kernel. *)

Live(s) == fd[s] # "closed" /\ peer[s] # "reset"

Send(s, kind) ==
  /\ Live(s) /\ peer[s] = "open" /\ sent[s] < MaxPackets
  /\ sent' = [sent EXCEPT ![s] = @ + 1]
  /\ inbox' = [inbox EXCEPT ![s] = Append(@, [kind |-> kind, id |-> sent'[s]])]
  /\ UNCHANGED <<peer, blocked>>

HangUp(s, how) ==
  /\ Live(s) /\ peer[s] # how
  /\ peer' = [peer EXCEPT ![s] = how]
  /\ UNCHANGED <<inbox, sent, blocked>>

(* The socket's send buffer fills up or drains. *)
Backpressure(s) ==
  /\ MayBlock /\ Live(s) /\ fd[s] = "open"
  /\ blocked' = [blocked EXCEPT ![s] = ~@]
  /\ UNCHANGED <<inbox, sent, peer>>

Client(s) ==
  /\ \/ \E kind \in Kinds : Send(s, kind)
     \/ \E how \in {"fin", "reset"} : HangUp(s, how)
     \/ Backpressure(s)
  /\ UNCHANGED <<fd, sharedVars, conn, connFree, defer, deferFree, ready, batch, cur, rbuf,
                 adopting, draining, pc, answered, misrouted>>

-----------------------------------------------------------------------------
(* Other threads. *)

workerVars == <<conn, connFree, deferFree, ready, batch, cur, rbuf, adopting, draining, pc,
                answered, misrouted>>

(* Mutant: the caller does not wake the worker. *)
ForgetToWake == UNCHANGED wakers

(* The caller goes on to call wirecall_backend_wake. *)
AboutToWake == wakers' = wakers + 1

(* accept_ready on worker 0 and worker_enqueue_connection. The wake comes   *)
(* after the mutex is released.                                             *)
Accept(s) ==
  /\ fd[s] = "backlog" /\ pc # "destroyed"
  /\ \/ /\ fd' = [fd EXCEPT ![s] = "pending"]
        /\ pending' = Append(pending, s)
        /\ AboutToWake
     \/ /\ AllocMayFail
        /\ fd' = [fd EXCEPT ![s] = "closed"]
        /\ UNCHANGED <<pending, wakers>>
  /\ UNCHANGED <<clientVars, wake, completed, stopping, defer, workerVars>>

(* wirecall_deferred_complete or _fail on a foreign thread: the exchange of *)
(* `completed`, then worker_queue_completed.                                *)
Claim(d) ==
  /\ defer[d].state = "held"
  /\ defer' = [defer EXCEPT ![d].state = "claimed"]
  /\ UNCHANGED <<clientVars, fd, sharedVars, workerVars>>

(* Mutant: the completing thread does not wake the worker. *)
QueueQuietly(d) ==
  /\ defer[d].state = "claimed"
  /\ defer' = [defer EXCEPT ![d].state = "queued"]
  /\ completed' = Append(completed, d)
  /\ UNCHANGED <<clientVars, fd, wake, wakers, pending, stopping, workerVars>>

QueueCompleted(d) ==
  /\ defer[d].state = "claimed"
  /\ defer' = [defer EXCEPT ![d].state = "queued"]
  /\ completed' = Append(completed, d)
  /\ AboutToWake
  /\ UNCHANGED <<clientVars, fd, wake, pending, stopping, workerVars>>

(* wirecall_backend_wake by any of the threads above. *)
Wake ==
  /\ wakers > 0
  /\ wakers' = wakers - 1
  /\ wake' = TRUE
  /\ UNCHANGED <<clientVars, fd, pending, completed, stopping, defer, workerVars>>

(* wirecall_server_stop. *)
Stop ==
  /\ MayStop /\ ~stopping
  /\ stopping' = TRUE
  /\ AboutToWake
  /\ UNCHANGED <<clientVars, fd, wake, pending, completed, defer, workerVars>>

-----------------------------------------------------------------------------
(* worker_run. *)

otherVars == <<clientVars, stopping>>

Top ==
  /\ pc = "top"
  /\ pc' = IF stopping THEN "exit" ELSE "poll"
  /\ UNCHANGED <<clientVars, fd, sharedVars, conn, connFree, defer, deferFree, ready, batch,
                 cur, rbuf, adopting, draining, answered, misrouted>>

(* The readiness the backend reports for a connection. io_uring also flags  *)
(* a socket in error as writable.                                           *)
ReadyFlags(c) ==
  LET s == conn[c].sock IN
  (IF inbox[s] # <<>> \/ peer[s] # "open" THEN {"READ"} ELSE {})
  \cup (IF \/ conn[c].write /\ (~blocked[s] \/ peer[s] = "reset")
           \/ peer[s] = "reset" /\ ~SplitEvents
          THEN {"WRITE"} ELSE {})

EventsOf(c) ==
  LET flags == ReadyFlags(c)
      event(f) == [conn |-> c, sock |-> conn[c].sock, flags |-> f]
  IN IF SplitEvents THEN {event({f}) : f \in flags}
     ELSE {event(flags)} \ {event({})}

Poll ==
  /\ pc = "poll"
  /\ batch' = (UNION {EventsOf(c) : c \in {x \in ConnSlots : ~conn[x].detached}})
              \cup (IF wake THEN {[NoEvent EXCEPT !.flags = {"WAKE"}]} ELSE {})
  /\ batch' # {}
  /\ wake' = FALSE
  /\ pc' = "events"
  /\ UNCHANGED <<otherVars, fd, wakers, pending, completed, conn, connFree, defer, deferFree,
                 ready, cur, rbuf, adopting, draining, answered, misrouted>>

(* The mutex-protected parts of worker_drain_pending and of                 *)
(* worker_drain_completed: each takes its whole list.                       *)
TakePending ==
  /\ adopting' = pending
  /\ pending' = <<>>

TakeCompleted ==
  /\ draining' = completed
  /\ completed' = <<>>

(* worker_drain_pending, then worker_drain_completed. *)
WakeEvent ==
  /\ pc = "events"
  /\ \E e \in batch :
       /\ "WAKE" \in e.flags
       /\ batch' = batch \ {e}
  /\ TakePending
  /\ pc' = "adopt"
  /\ UNCHANGED <<otherVars, fd, wake, wakers, completed, conn, connFree, defer, deferFree, ready,
                 cur, rbuf, draining, answered, misrouted>>

Registered(c, s) ==
  /\ conn' = [conn EXCEPT ![c] = [Unused EXCEPT !.sock = s, !.detached = FALSE]]
  /\ connFree' = Tail(connFree)
  /\ fd' = [fd EXCEPT ![s] = "open"]

(* Mutant: a failed registration leaves the slot allocated. *)
SlotLeaks(c, s) ==
  /\ conn' = [conn EXCEPT ![c] = [Unused EXCEPT !.sock = s]]
  /\ connFree' = Tail(connFree)
  /\ fd' = [fd EXCEPT ![s] = "closed"]

(* Mutant: a failed registration does not close the socket. *)
SocketLeaks(c, s) ==
  /\ conn' = [conn EXCEPT ![c] = [Unused EXCEPT !.sock = s]]
  /\ connFree' = connFree
  /\ fd' = [fd EXCEPT ![s] = "open"]

(* wirecall_backend_register failed: connection_destroy gives back the slot *)
(* and closes the socket.                                                   *)
NotRegistered(c, s) ==
  /\ conn' = [conn EXCEPT ![c] = [Unused EXCEPT !.sock = s]]
  /\ connFree' = connFree
  /\ fd' = [fd EXCEPT ![s] = "closed"]

(* worker_add_connection for the next socket of the list; a full arena      *)
(* closes it.                                                               *)
AddConnection ==
  /\ pc = "adopt" /\ adopting # <<>>
  /\ LET s == Head(adopting) IN
     \/ /\ connFree = <<>>
        /\ fd' = [fd EXCEPT ![s] = "closed"]
        /\ UNCHANGED <<conn, connFree>>
     \/ connFree # <<>> /\ Registered(Head(connFree), s)
     \/ AllocMayFail /\ connFree # <<>> /\ NotRegistered(Head(connFree), s)
  /\ adopting' = Tail(adopting)
  /\ UNCHANGED <<otherVars, wake, wakers, pending, completed, defer, deferFree, ready, batch, cur,
                 rbuf, draining, pc, answered, misrouted>>

AllAdopted ==
  /\ pc = "adopt" /\ adopting = <<>>
  /\ TakeCompleted
  /\ pc' = "drain"
  /\ UNCHANGED <<otherVars, fd, wake, wakers, pending, adopting, conn, connFree, defer, deferFree,
                 ready, batch, cur, rbuf, answered, misrouted>>

(* One call of worker_drain_completed; the connection of a detached caller  *)
(* is released with its last call.                                          *)
DrainCompleted ==
  /\ pc \in {"drain", "last"} /\ draining # <<>>
  /\ LET d == Head(draining)
         c == defer[d].conn
     IN /\ \E o \in IF ~conn[c].detached /\ ~conn[c].closing
                      THEN QueuePacket(conn[c])
                      ELSE {[ok |-> FALSE, conn |-> conn[c]]} :
             LET left == IF conn[c].pending_deferred > 0 THEN conn[c].pending_deferred - 1 ELSE 0
                 k    == [o.conn EXCEPT !.pending_deferred = left]
             IN /\ Account(k, defer[d].req, o.ok)
                /\ IF k.detached /\ left = 0
                     THEN ConnectionDestroy(c, k)
                     ELSE conn' = [conn EXCEPT ![c] = k] /\ UNCHANGED <<fd, connFree>>
        /\ defer' = [defer EXCEPT ![d] = [conn |-> 0, req |-> <<>>, state |-> "free"]]
        /\ deferFree' = <<d>> \o deferFree
  /\ draining' = Tail(draining)
  /\ UNCHANGED <<otherVars, wake, wakers, pending, completed, ready, batch, cur, rbuf,
                 adopting, pc>>

Drained ==
  /\ pc \in {"drain", "last"} /\ draining = <<>>
  /\ pc' = IF pc = "drain" THEN "events" ELSE "flush"
  /\ UNCHANGED <<clientVars, fd, sharedVars, conn, connFree, defer, deferFree, ready, batch,
                 cur, rbuf, adopting, draining, answered, misrouted>>

ConnectionEvent ==
  /\ pc = "events"
  /\ \E e \in batch :
       /\ e.conn # 0
       /\ batch' = batch \ {e}
       /\ cur' = e
       /\ pc' = IF "READ" \in e.flags /\ ~conn[e.conn].closing THEN "recv" ELSE "finish"
  /\ UNCHANGED <<clientVars, fd, sharedVars, conn, connFree, defer, deferFree, ready, rbuf,
                 adopting, draining, answered, misrouted>>

(* connection_read: one recv returns any number of the packets that have    *)
(* arrived.                                                                 *)
Recv ==
  /\ pc = "recv"
  /\ LET c == cur.conn
         s == conn[c].sock
     IN \/ /\ inbox[s] # <<>> /\ peer[s] # "reset"
           /\ \E n \in 1 .. Len(inbox[s]) :
                /\ rbuf' = SubSeq(inbox[s], 1, n)
                /\ inbox' = [inbox EXCEPT ![s] = SubSeq(@, n + 1, Len(@))]
           /\ pc' = "parse"
           /\ UNCHANGED conn
        \/ /\ peer[s] = "reset" \/ (inbox[s] = <<>> /\ peer[s] = "fin") \/ AllocMayFail
           /\ conn' = [conn EXCEPT ![c].closing = TRUE]
           /\ pc' = "finish"
           /\ UNCHANGED <<inbox, rbuf>>
        \/ /\ inbox[s] = <<>> /\ peer[s] = "open"
           /\ pc' = "finish"
           /\ UNCHANGED <<inbox, rbuf, conn>>
  /\ UNCHANGED <<sent, peer, blocked, fd, sharedVars, connFree, defer, deferFree, ready,
                 batch, cur, adopting, draining, answered, misrouted>>

(* parse_available and handle_packet on the first packet of the buffer. *)
Parsing(kinds) == pc = "parse" /\ rbuf # <<>> /\ Head(rbuf).kind \in kinds
Request == <<conn[cur.conn].sock, Head(rbuf).id>>
parseVars == <<otherVars, fd, connFree, batch, cur, adopting, draining, wake, wakers, pending,
               completed>>

(* A response queued by handle_packet itself. When queueing it fails the    *)
(* connection closes and the rest of the buffer is not parsed; `done` of a  *)
(* call that scheduler_submit finished at once ignores the failure.         *)
ParseNow ==
  /\ Parsing({"now", "async", "deferred"})
  /\ \/ Head(rbuf).kind = "now" \/ AllocMayFail
     \/ Head(rbuf).kind = "async" /\ Len(ready) = CallCap
     \/ Head(rbuf).kind = "deferred" /\ deferFree = <<>>
  /\ \E o \in QueuePacket(conn[cur.conn]) :
     \E ignored \in {FALSE} \cup {Head(rbuf).kind = "async" /\ Len(ready) < CallCap} :
       LET failed == ~o.ok /\ ~ignored IN
       /\ conn' = [conn EXCEPT ![cur.conn] = [o.conn EXCEPT !.closing = @ \/ failed]]
       /\ rbuf' = IF failed THEN <<>> ELSE Tail(rbuf)
       /\ Account(conn[cur.conn], Request, o.ok)
  /\ UNCHANGED <<parseVars, defer, deferFree, ready, pc>>

(* wirecall_scheduler_submit. *)
ParseAsync ==
  /\ Parsing({"async"}) /\ Len(ready) < CallCap
  /\ ready' = Append(ready, [conn |-> cur.conn, req |-> Request, yields |-> 0])
  /\ rbuf' = Tail(rbuf)
  /\ UNCHANGED <<parseVars, conn, defer, deferFree, pc, answered, misrouted>>

(* Mutant: the call is counted the wrong way. *)
CountDown(k) == [k EXCEPT !.pending_deferred = @ - 1]

(* Mutant: the call is not counted. *)
Uncounted(k) == k

(* conn->pending_deferred++ *)
CountDeferred(k) == [k EXCEPT !.pending_deferred = @ + 1]

(* handle_deferred_call up to the handler's return. The handler has handed  *)
(* the call to another thread, and returns 0 or an error.                   *)
ParseDeferred ==
  /\ Parsing({"deferred"}) /\ deferFree # <<>>
  /\ defer' = [defer EXCEPT ![Head(deferFree)] =
                 [conn |-> cur.conn, req |-> Request, state |-> "held"]]
  /\ deferFree' = Tail(deferFree)
  /\ conn' = [conn EXCEPT ![cur.conn] = CountDeferred(@)]
  /\ \/ rbuf' = Tail(rbuf) /\ pc' = "parse"
     \/ pc' = "return" /\ UNCHANGED rbuf
  /\ UNCHANGED <<parseVars, ready, answered, misrouted>>

(* Mutant: the error is answered at once, whether or not the call completes. *)
FailedAnswersNow ==
  /\ pc = "return"
  /\ \E o \in QueuePacket(conn[cur.conn]) :
       /\ conn' = [conn EXCEPT ![cur.conn] = o.conn]
       /\ Account(conn[cur.conn], Request, o.ok)
  /\ rbuf' = Tail(rbuf)
  /\ pc' = "parse"
  /\ UNCHANGED <<otherVars, fd, sharedVars, connFree, defer, deferFree, ready, batch, cur,
                 adopting, draining>>

(* The handler returned an error: fail the call unless it was completed. *)
DeferredFailed ==
  /\ pc = "return"
  /\ \E d \in CallSlots :
       /\ defer[d].req = Request
       /\ IF defer[d].state = "held"
            THEN /\ defer' = [defer EXCEPT ![d].state = "queued"]
                 /\ completed' = Append(completed, d)
                 /\ wake' = TRUE
            ELSE UNCHANGED <<defer, completed, wake>>
  /\ rbuf' = Tail(rbuf)
  /\ pc' = "parse"
  /\ UNCHANGED <<otherVars, fd, wakers, pending, conn, connFree, deferFree, ready, batch, cur,
                 adopting, draining, answered, misrouted>>

(* DISCONNECT leaves the rest of the buffer to be parsed; a header or a     *)
(* checksum that does not verify does not.                                  *)
ParseClose ==
  /\ Parsing({"disconnect", "bad"})
  /\ conn' = [conn EXCEPT ![cur.conn].closing = TRUE]
  /\ rbuf' = IF Head(rbuf).kind = "bad" THEN <<>> ELSE Tail(rbuf)
  /\ UNCHANGED <<parseVars, defer, deferFree, ready, pc, answered, misrouted>>

ParseDone ==
  /\ pc = "parse" /\ rbuf = <<>>
  /\ pc' = IF conn[cur.conn].closing THEN "finish" ELSE "recv"
  /\ UNCHANGED <<parseVars, conn, defer, deferFree, ready, rbuf, answered, misrouted>>

(* The rest of a connection's event: connection_write and maybe_close. *)
FinishEvent ==
  /\ pc = "finish"
  /\ \E k \in IF "WRITE" \in cur.flags /\ ~conn[cur.conn].closing
                THEN ConnectionWrite(conn[cur.conn])
                ELSE {conn[cur.conn]} :
       MaybeClose(cur.conn, k)
  /\ cur' = NoEvent
  /\ pc' = "events"
  /\ UNCHANGED <<clientVars, sharedVars, defer, deferFree, ready, batch, rbuf, adopting, draining,
                 answered, misrouted>>

EventsDone ==
  /\ pc = "events" /\ batch = {}
  /\ pc' = "run"
  /\ UNCHANGED <<clientVars, fd, sharedVars, conn, connFree, defer, deferFree, ready, batch,
                 cur, rbuf, adopting, draining, answered, misrouted>>

(* wirecall_scheduler_run_ready: a coroutine yields and goes to the back of *)
(* the queue, or finishes and on_call_done queues its response.             *)
RunReady ==
  /\ pc = "run" /\ ready # <<>>
  /\ LET call == Head(ready) IN
     \/ /\ call.yields < MaxYields
        /\ ready' = Append(Tail(ready), [call EXCEPT !.yields = @ + 1])
        /\ UNCHANGED <<conn, answered, misrouted>>
     \/ /\ \E o \in QueuePacket(conn[call.conn]) :
             /\ conn' = [conn EXCEPT ![call.conn] = o.conn]
             /\ Account(conn[call.conn], call.req, o.ok)
        /\ ready' = Tail(ready)
  /\ UNCHANGED <<clientVars, fd, sharedVars, connFree, defer, deferFree, batch, cur, rbuf,
                 adopting, draining, pc>>

RunDone ==
  /\ pc = "run" /\ ready = <<>>
  /\ TakeCompleted
  /\ pc' = "last"
  /\ UNCHANGED <<otherVars, fd, wake, wakers, pending, conn, connFree, defer, deferFree, ready,
                 batch, cur, rbuf, adopting, answered, misrouted>>

(* worker_flush_writes. *)
FlushWrites ==
  /\ pc = "flush"
  /\ \/ \E c \in ConnSlots :
          /\ conn[c].queued
          /\ LET k0 == [conn[c] EXCEPT !.queued = FALSE] IN
             \E k \in IF k0.unsent > 0 THEN ConnectionWrite(k0) ELSE {k0} : MaybeClose(c, k)
          /\ UNCHANGED pc
     \/ /\ \A c \in ConnSlots : ~conn[c].queued
        /\ pc' = "top"
        /\ UNCHANGED <<conn, connFree, fd>>
  /\ UNCHANGED <<clientVars, sharedVars, defer, deferFree, ready, batch, cur, rbuf,
                 adopting, draining, answered, misrouted>>

AttachedSockets == {conn[c].sock : c \in {x \in ConnSlots : ~conn[x].detached}}

(* The sockets worker_destroy closes. *)
WorkerSockets == AttachedSockets \cup Range(pending)

(* worker_destroy, once the thread has been joined. The embedder owes that  *)
(* no thread still holds a deferred call.                                   *)
Destroy ==
  /\ pc = "exit" /\ wakers = 0
  /\ \A d \in CallSlots : defer[d].state \in {"free", "queued"}
  /\ fd' = [s \in Socks |-> IF s \in WorkerSockets THEN "closed" ELSE fd[s]]
  /\ conn' = [c \in ConnSlots |-> Unused]
  /\ defer' = [d \in CallSlots |-> [conn |-> 0, req |-> <<>>, state |-> "free"]]
  /\ connFree' = <<>> /\ deferFree' = <<>>
  /\ pending' = <<>> /\ completed' = <<>> /\ ready' = <<>>
  /\ pc' = "destroyed"
  /\ UNCHANGED <<otherVars, wake, wakers, batch, cur, rbuf, adopting, draining, answered,
                 misrouted>>

Run == \/ Top \/ Poll \/ WakeEvent \/ AddConnection \/ AllAdopted \/ DrainCompleted \/ Drained
       \/ ConnectionEvent \/ Recv \/ ParseNow \/ ParseAsync \/ ParseDeferred \/ DeferredFailed
       \/ ParseClose \/ ParseDone \/ FinishEvent \/ EventsDone \/ RunReady \/ RunDone \/ FlushWrites

Others == \/ \E s \in Socks : Client(s) \/ Accept(s)
          \/ \E d \in CallSlots : Claim(d) \/ QueueCompleted(d)
          \/ Wake \/ Stop

Terminated == pc = "destroyed" /\ UNCHANGED vars

Next == Run \/ Others \/ Destroy \/ Terminated

Spec == Init /\ [][Next]_vars

(* The threads run, foreign threads complete the calls they hold, and the   *)
(* server is destroyed once it has stopped. Clients need do nothing.        *)
FairSpec ==
  /\ Spec
  /\ WF_vars(Run) /\ WF_vars(Wake) /\ WF_vars(Destroy)
  /\ \A d \in CallSlots : WF_vars(Claim(d)) /\ WF_vars(QueueCompleted(d))

-----------------------------------------------------------------------------
(* Properties. *)

(* A response is queued only on the connection its request came from. The  *)
(* connection is named by its arena slot from handle_packet to the          *)
(* response, across any number of iterations of the loop, while other      *)
(* connections close and reuse slots.                                       *)
ResponseToRequester == misrouted = {}

(* No request is answered twice, whether its handler, a foreign thread or   *)
(* the error path of handle_deferred_call completes it first.               *)
AnsweredAtMostOnce == \A r \in Reqs : answered[r] <= 1

(* pending_deferred counts the connection's deferred calls exactly, and a   *)
(* slot is not reused while a call refers to it: what connection_destroy    *)
(* and worker_drain_completed rely on to free a detached connection.        *)
DeferredPinsConnection ==
  /\ \A c \in ConnSlots :
       conn[c].pending_deferred =
         Cardinality({d \in CallSlots : defer[d].state # "free" /\ defer[d].conn = c})
  /\ \A d \in CallSlots :
       defer[d].state # "free" => conn[defer[d].conn].sock = defer[d].req[1]

(* The connection arena's free list holds each slot without a connection    *)
(* once: no slot leaks and none is freed twice, over any sequence of        *)
(* closes, deferred completions and reuse.                                  *)
ArenaAccounted ==
  pc # "destroyed" =>
    /\ IsInjective(connFree)
    /\ Range(connFree) = {c \in ConnSlots : conn[c].detached /\ conn[c].pending_deferred = 0}

(* Every open socket belongs to exactly one attached connection and every   *)
(* handed-over socket is in the pending list, so each is closed by exactly  *)
(* one path; after worker_destroy none is left.                             *)
SocketsOwned ==
  /\ \A s \in Socks :
       /\ fd[s] = "open" <=> \E c \in ConnSlots : ~conn[c].detached /\ conn[c].sock = s
       /\ fd[s] = "pending" <=> s \in Range(pending) \cup Range(adopting)
  /\ \A c1, c2 \in ConnSlots :
       c1 # c2 /\ ~conn[c1].detached /\ ~conn[c2].detached => conn[c1].sock # conn[c2].sock
  /\ pc = "destroyed" => \A s \in Socks : fd[s] \in {"backlog", "closed"}

(* Hence neither a slot nor a socket leaks or is given back twice, whatever *)
(* fails between taking the one and registering the other.                  *)
NothingLeaks == ArenaAccounted /\ SocketsOwned

(* An event still to be handled names a connection that is attached and is  *)
(* the one the backend reported: destroying a connection while the batch is *)
(* processed never leaves a later event pointing at its slot.               *)
EventsNotStale ==
  \A e \in batch : e.conn # 0 => ~conn[e.conn].detached /\ conn[e.conn].sock = e.sock

(* When the worker is about to block, whatever other threads have handed it *)
(* has made the wake descriptor readable or is about to: no hand-over is    *)
(* missed between the last drain and the poll.                              *)
NoLostWake ==
  pc = "poll" /\ (pending # <<>> \/ completed # <<>> \/ stopping) => wake \/ wakers > 0

(* When the worker is about to block, no response waits without someone to  *)
(* send it: the scheduler is empty, no connection is queued for writing, an *)
(* open one with unsent bytes has WRITE interest, and a closing one with    *)
(* nothing to send is gone.                                                 *)
IdleIsFlushed ==
  pc = "poll" =>
    /\ ready = <<>>
    /\ \A c \in ConnSlots :
         ~conn[c].detached =>
           /\ ~conn[c].queued
           /\ conn[c].unsent > 0 /\ ~conn[c].closing => conn[c].write
           /\ conn[c].closing => conn[c].unsent > 0

(* What another thread hands to the worker is taken, however that races     *)
(* with the loop going to sleep: a deferred call that was completed is      *)
(* drained and its slot freed, a socket is adopted or closed.               *)
HandedOverIsTaken ==
  /\ \A d \in CallSlots : defer[d].state = "queued" ~> defer[d].state = "free"
  /\ \A s \in Socks : fd[s] = "pending" ~> fd[s] # "pending"

(* wirecall_server_stop ends the worker even while it sleeps in poll. *)
StopTerminates == stopping ~> pc = "destroyed"

-----------------------------------------------------------------------------
(* The inductive invariant behind the safety properties. *)

(* An event of a connection is being handled; the batch is being handled. *)
Handling == {"recv", "parse", "return", "finish"}
InBatch  == {"events", "adopt", "drain"} \cup Handling

(* What each point of the loop has finished with. *)
Phases ==
  /\ batch # {} => pc \in InBatch
  /\ cur.conn # 0 <=> pc \in Handling
  /\ cur.conn = 0 => cur = NoEvent
  /\ rbuf # <<>> => pc \in {"parse", "return"}
  /\ pc = "return" => rbuf # <<>>
  /\ adopting # <<>> => pc = "adopt"
  /\ draining # <<>> => pc \in {"drain", "last"}
  /\ ready # <<>> => pc \in InBatch \cup {"run"}
  /\ "async" \notin Kinds => ready = <<>>

(* An event is of the wake descriptor or of a connection. The backend       *)
(* reports a connection once, or once to read and once to write.            *)
EventsWellFormed ==
  /\ \A e \in batch : IF e.conn = 0 THEN e.flags = {"WAKE"} ELSE "WAKE" \notin e.flags
  /\ \A e \in batch \cup {cur} :
       SplitEvents /\ e.conn # 0 => e.flags \in {{"READ"}, {"WRITE"}}
  /\ \A e1, e2 \in batch \cup {cur} :
       ~SplitEvents /\ e1.conn = e2.conn /\ e1.conn # 0 => e1 = e2
  /\ cur \notin batch

(* The event being handled is not stale either, and where a READ event of   *)
(* the same connection may follow a WRITE event there is something to send, *)
(* so that handling the one does not destroy the connection of the other.   *)
EventsCurrent ==
  /\ EventsNotStale
  /\ cur.conn # 0 => ~conn[cur.conn].detached /\ conn[cur.conn].sock = cur.sock
  /\ \A e \in batch \cup {cur} :
       SplitEvents /\ "WRITE" \in e.flags => conn[e.conn].unsent > 0

(* Only an attached connection has anything to send or asks for WRITE, and  *)
(* one that closes with nothing to send is the one whose event is handled.  *)
ConnectionStates ==
  \A c \in ConnSlots :
    /\ ~conn[c].detached => conn[c].sock # NoSock
    /\ conn[c].detached => conn[c].unsent = 0 /\ ~conn[c].queued
    /\ conn[c].write => conn[c].unsent > 0
    /\ ~conn[c].detached /\ conn[c].closing /\ conn[c].unsent = 0 =>
         cur.conn = c /\ pc # "recv"
    /\ conn[c].queued => pc \notin {"top", "poll", "exit"}
    /\ ~AllocMayFail /\ conn[c].unsent > 0 /\ ~conn[c].closing =>
         conn[c].write \/ conn[c].queued

(* No socket is twice among those handed over. *)
HandedOverOnce ==
  /\ IsInjective(pending) /\ IsInjective(adopting)
  /\ Range(pending) \cap Range(adopting) = {}

(* A deferred call is on the free list, held by a thread or on its way to   *)
(* the worker, in one place.                                                *)
CallsAccounted ==
  /\ \A d \in CallSlots :
       /\ defer[d].state # "free" => defer[d].conn # 0 /\ defer[d].req # <<>>
       /\ defer[d].state = "queued" <=> d \in Range(completed) \cup Range(draining)
  /\ \A i \in DOMAIN deferFree : defer[deferFree[i]].state = "free"
  /\ IsInjective(deferFree) /\ IsInjective(completed) /\ IsInjective(draining)
  /\ Range(completed) \cap Range(draining) = {}

(* Whoever hands something over wakes the worker, or a wake is on its way.  *)
Woken == wake \/ wakers > 0
HandOverWakes ==
  /\ pending # <<>> => Woken \/ \E e \in batch : "WAKE" \in e.flags
  /\ completed # <<>> => Woken \/ pc = "adopt" \/ \E e \in batch : "WAKE" \in e.flags
  /\ stopping /\ pc = "poll" => Woken

(* Packets are numbered in the order they are sent; Seen(s) of them have    *)
(* been handled.                                                            *)
Taken(s) == sent[s] - Len(inbox[s])
Unparsed(s) == IF cur.sock # s THEN 0 ELSE IF pc = "return" THEN Len(rbuf) - 1 ELSE Len(rbuf)
Seen(s) == Taken(s) - Unparsed(s)

PacketsInOrder ==
  /\ \A s \in Socks :
       /\ Len(inbox[s]) <= sent[s]
       /\ \A i \in 1 .. Len(inbox[s]) : inbox[s][i].id = Taken(s) + i
  /\ cur.conn # 0 =>
       /\ Len(rbuf) <= Taken(cur.sock)
       /\ \A i \in 1 .. Len(rbuf) : rbuf[i].id = Taken(cur.sock) - Len(rbuf) + i

(* A request is unseen, held once, or answered. *)
Awaiting(d) == defer[d].state # "free"
RequestsOnce ==
  /\ \A r \in Reqs : answered[r] > 0 => r[2] <= Seen(r[1])
  /\ \A d \in CallSlots : Awaiting(d) => /\ answered[defer[d].req] = 0
                                         /\ defer[d].req[2] <= Seen(defer[d].req[1])
  /\ \A d, x \in CallSlots : Awaiting(d) /\ Awaiting(x) /\ d # x => defer[d].req # defer[x].req
  /\ \A i \in DOMAIN ready : /\ answered[ready[i].req] = 0
                             /\ ready[i].req[2] <= Seen(ready[i].req[1])
  /\ \A i, j \in DOMAIN ready : i # j => ready[i].req # ready[j].req
  /\ \A i \in DOMAIN ready : \A d \in CallSlots : Awaiting(d) => ready[i].req # defer[d].req

WorkerInv ==
  /\ TypeOK /\ Phases /\ EventsWellFormed /\ EventsCurrent /\ ConnectionStates
  /\ ArenaAccounted /\ SocketsOwned /\ HandedOverOnce /\ CallsAccounted
  /\ DeferredPinsConnection /\ HandOverWakes /\ PacketsInOrder /\ RequestsOnce
  /\ AnsweredAtMostOnce

=============================================================================
