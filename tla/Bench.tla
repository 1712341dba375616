-------------------------------- MODULE Bench --------------------------------
(***************************************************************************)
(* The benchmark program src/demos/bench.c: client threads that meet at a  *)
(* gate after their warm-up, measure calls one by one or pipelined, and    *)
(* write latencies into one array; the main thread that starts the server, *)
(* opens or aborts the gate, joins the threads, stops the server and dumps *)
(* the trace.                                                              *)
(*                                                                         *)
(* The server is up or not: while it is, the calls of a connection are     *)
(* answered in order (its route is not async); once stop_server returned,  *)
(* every call fails.                                                       *)
(***************************************************************************)
EXTENDS Trace, Sequences, FiniteSets

CONSTANTS
  Args,          \* command lines: [total, clients, warmup, pipeline]
  Clients,       \* the client threads of the largest command line, from 0
  Server,        \* the server's thread, as a recorder
  MayFail        \* whether calls, allocations and thread creations may fail

VARIABLES
  args,
  main, mi,      \* the main thread's place and its loop index
  rpc,           \* the server runs
  offset,        \* main's running latency offset
  gate,          \* [ready, total, start, abort]
  failed,        \* main's flag
  w,             \* per client: its worker_args and the state of worker_main
  latencies,     \* how often each element was written
  stats          \* what wirecall_trace_dump has read

benchVars == <<args, main, mi, rpc, offset, gate, failed, w, latencies, stats>>
vars == <<traceVars, benchVars>>

NotStarted ==
  [pc |-> "none", started |-> FALSE, failed |-> FALSE, requests |-> 0, warmup |-> 0,
   offset |-> 0, sent |-> 0, received |-> 0, next_id |-> 1, call_ids |-> <<>>, calls |-> <<>>]

Init ==
  /\ TraceInit
  /\ args \in Args
  /\ main = "alloc" /\ mi = 0 /\ rpc = FALSE /\ offset = 0
  /\ gate = [ready |-> 0, total |-> 0, start |-> FALSE, abort |-> FALSE]
  /\ failed = FALSE
  /\ w = [i \in Clients |-> NotStarted]
  /\ latencies = [n \in 0 .. args.total - 1 |-> 0]
  /\ stats = Zero

clients == IF args.clients > args.total THEN args.total ELSE args.clients

(* A total is split evenly, the first clients take one more each. *)
Share(total, i) == total \div clients + (IF i < total % clients THEN 1 ELSE 0)

-----------------------------------------------------------------------------
(* worker_main, on the thread of client i *)

At(i, p) == w[i].pc = p /\ rec[i].pc = "idle"

(* The thread goes on at p with failed set, or not. *)
Goes(i, p) == w' = [w EXCEPT ![i].pc = p]
FailsTo(i, p) == w' = [w EXCEPT ![i].pc = p, ![i].failed = TRUE]

Unmoved == UNCHANGED <<args, main, mi, rpc, offset, failed, stats>>

(* Connect, set_integrity and the payload; a failure announces itself. *)
Connect(i) ==
  /\ At(i, "connect")
  /\ \/ rpc /\ Goes(i, "warmup")
     \/ (MayFail \/ ~rpc) /\ FailsTo(i, "late")
  /\ UNCHANGED <<gate, latencies, traceVars>> /\ Unmoved

(* One call of the warm-up; it takes a call id. *)
WarmUp(i) ==
  /\ At(i, "warmup")
  /\ IF w[i].next_id > w[i].warmup THEN Goes(i, "gate")
     ELSE \/ rpc /\ w' = [w EXCEPT ![i].next_id = @ + 1]
          \/ (MayFail \/ ~rpc) /\ FailsTo(i, "late")
  /\ UNCHANGED <<gate, latencies, traceVars>> /\ Unmoved

(* gate_ready_and_wait, from the place it is called at to the wait. *)
Announce(i) ==
  /\ At(i, "gate") \/ At(i, "late")
  /\ gate' = [gate EXCEPT !.ready = @ + 1]
  /\ Goes(i, IF w[i].pc = "gate" THEN "wait" ELSE "latewait")
  /\ UNCHANGED <<latencies, traceVars>> /\ Unmoved

(* Mutant of Pass: the wait ends with the start only. *)
PassOnStart(i) ==
  /\ At(i, "wait") \/ At(i, "latewait")
  /\ gate.start
  /\ Goes(i, IF w[i].pc = "latewait" THEN "exited"
             ELSE IF args.pipeline <= 1 THEN "calls" ELSE "arrays")
  /\ UNCHANGED <<gate, latencies, traceVars>> /\ Unmoved

Pass(i) ==
  /\ At(i, "wait") \/ At(i, "latewait")
  /\ gate.start \/ gate.abort
  /\ IF w[i].pc = "latewait" THEN Goes(i, "exited")
     ELSE IF gate.abort THEN FailsTo(i, "exited")
     ELSE Goes(i, IF args.pipeline <= 1 THEN "calls" ELSE "arrays")
  /\ UNCHANGED <<gate, latencies, traceVars>> /\ Unmoved

(* The element of the array that request n of client i is written to. *)
Written(i, n) == [latencies EXCEPT ![w[i].offset + n] = @ + 1]

(* Without a pipeline: one call after the other. *)
Call(i) ==
  /\ At(i, "calls")
  /\ IF w[i].received = w[i].requests
     THEN Goes(i, "exited") /\ UNCHANGED <<latencies, traceVars>>
     ELSE \/ /\ rpc
             /\ latencies' = Written(i, w[i].received)
             /\ w' = [w EXCEPT ![i].received = @ + 1]
             /\ TraceCall(i)
          \/ /\ MayFail \/ ~rpc
             /\ FailsTo(i, "exited")
             /\ UNCHANGED <<latencies, traceVars>>
  /\ UNCHANGED gate /\ Unmoved

Arrays(i) ==
  /\ At(i, "arrays")
  /\ \/ w' = [w EXCEPT ![i].pc = "fill", ![i].call_ids = [s \in 0 .. args.pipeline - 1 |-> 0]]
     \/ MayFail /\ FailsTo(i, "exited")
  /\ UNCHANGED <<gate, latencies, traceVars>> /\ Unmoved

(* A pipelined call is sent: its id goes to the slot id % pipeline. *)
SendsTo(i, p) ==
  LET id == w[i].next_id IN
  w' = [w EXCEPT ![i].pc = p, ![i].next_id = id + 1, ![i].sent = @ + 1,
                 ![i].calls = Append(@, id), ![i].call_ids[id % args.pipeline] = id]

(* Mutant of Room: one call too many. *)
RoomForOneMore(i) == w[i].sent - w[i].received <= args.pipeline

Room(i) == w[i].sent - w[i].received < args.pipeline

Fill(i) ==
  /\ At(i, "fill")
  /\ IF w[i].sent < w[i].requests /\ Room(i)
     THEN \/ rpc /\ SendsTo(i, "fill")
          \/ (MayFail \/ ~rpc) /\ FailsTo(i, "exited")
     ELSE Goes(i, "recv")
  /\ UNCHANGED <<gate, latencies, traceVars>> /\ Unmoved

(* A response is received and found in its slot. *)
Receive(i) ==
  /\ At(i, "recv")
  /\ IF w[i].received = w[i].requests
     THEN Goes(i, "exited") /\ UNCHANGED <<latencies, traceVars>>
     ELSE \/ /\ rpc
             /\ LET id == Head(w[i].calls) IN
                IF w[i].call_ids[id % args.pipeline] # id
                THEN FailsTo(i, "exited") /\ UNCHANGED latencies
                ELSE /\ latencies' = Written(i, w[i].received)
                     /\ w' = [w EXCEPT ![i].pc = "next", ![i].received = @ + 1,
                                       ![i].calls = Tail(@)]
             /\ TraceCall(i)
          \/ /\ MayFail \/ ~rpc
             /\ FailsTo(i, "exited")
             /\ UNCHANGED <<latencies, traceVars>>
  /\ UNCHANGED gate /\ Unmoved

SendNext(i) ==
  /\ At(i, "next")
  /\ IF w[i].sent < w[i].requests
     THEN \/ rpc /\ SendsTo(i, "recv")
          \/ (MayFail \/ ~rpc) /\ FailsTo(i, "exited")
     ELSE Goes(i, "recv")
  /\ UNCHANGED <<gate, latencies, traceVars>> /\ Unmoved

ClientNext(i) ==
  \/ Connect(i) \/ WarmUp(i) \/ Announce(i) \/ Pass(i)
  \/ Call(i) \/ Arrays(i) \/ Fill(i) \/ Receive(i) \/ SendNext(i)
  \/ Recording(i) /\ UNCHANGED benchVars

-----------------------------------------------------------------------------
(* main *)

Main(p, q) == main = p /\ main' = q

Alloc ==
  /\ Main("alloc", "server") \/ (MayFail /\ Main("alloc", "end"))
  /\ UNCHANGED <<args, mi, rpc, offset, gate, failed, w, latencies, stats, traceVars>>

StartServer ==
  /\ \/ Main("server", "create") /\ rpc' = TRUE
     \/ MayFail /\ Main("server", "end") /\ UNCHANGED rpc
  /\ UNCHANGED <<args, mi, offset, gate, failed, w, latencies, stats, traceVars>>

(* The arguments of client mi, in either case. *)
NewClient(started) ==
  [NotStarted EXCEPT !.pc = IF started THEN "connect" ELSE "none", !.started = started,
                     !.failed = ~started, !.requests = Share(args.total, mi),
                     !.warmup = Share(args.warmup, mi), !.offset = offset]

(* Mutant of NextOffset: the remainder is forgotten. *)
NextOffsetBase == offset + args.total \div clients

NextOffset == offset + Share(args.total, mi)

CreateClient ==
  /\ Main("create", IF mi + 1 = clients THEN "ready" ELSE "create")
  /\ mi' = IF mi + 1 = clients THEN 0 ELSE mi + 1
  /\ offset' = NextOffset
  /\ \E started \in IF MayFail THEN BOOLEAN ELSE {TRUE} : w' = [w EXCEPT ![mi] = NewClient(started)]
  /\ UNCHANGED <<args, rpc, gate, failed, latencies, stats, traceVars>>

Started == Cardinality({i \in Clients : w[i].started})

(* gate_wait_ready returns when all are ready, or when a wait timed out     *)
(* after 15 seconds, even if the last client got ready meanwhile.           *)
WaitReady ==
  /\ Main("ready", IF gate.ready >= Started THEN "check" ELSE "waiting")
  /\ gate' = [gate EXCEPT !.total = Started]
  /\ UNCHANGED <<args, mi, rpc, offset, failed, w, latencies, stats, traceVars>>

AllReady ==
  /\ Main("waiting", "check")
  /\ gate.ready >= gate.total
  /\ UNCHANGED <<args, mi, rpc, offset, gate, failed, w, latencies, stats, traceVars>>

Timeout ==
  /\ Main("waiting", "stopearly")
  /\ gate' = [gate EXCEPT !.abort = TRUE]
  /\ failed' = TRUE
  /\ UNCHANGED <<args, mi, rpc, offset, w, latencies, stats, traceVars>>

SomeFailed == \E i \in Clients : w[i].failed

CheckReady ==
  /\ Main("check", IF SomeFailed THEN "stopearly" ELSE "reset")
  /\ failed' = SomeFailed
  /\ gate' = [gate EXCEPT !.abort = @ \/ SomeFailed]
  /\ UNCHANGED <<args, mi, rpc, offset, w, latencies, stats, traceVars>>

(* Index mi runs over the fields of the counter. *)
Fields == <<"count", "total", "max">>
NextField == mi' = (mi + 1) % 3

TraceReset ==
  /\ Main("reset", IF mi = 2 THEN "enable" ELSE "reset")
  /\ NextField
  /\ ResetField(Fields[mi + 1])
  /\ UNCHANGED <<args, rpc, offset, gate, failed, w, latencies, stats>>

TraceOn ==
  /\ Main("enable", "start")
  /\ SetEnabled(TRUE)
  /\ UNCHANGED <<args, mi, rpc, offset, gate, failed, w, latencies, stats>>

GateStart ==
  /\ Main("start", "join")
  /\ gate' = [gate EXCEPT !.start = TRUE]
  /\ UNCHANGED <<args, mi, rpc, offset, failed, w, latencies, stats, traceVars>>

JoinClient ==
  /\ Main("join", IF mi + 1 = clients THEN "off" ELSE "join")
  /\ w[mi].started => At(mi, "exited")
  /\ mi' = IF mi + 1 = clients THEN 0 ELSE mi + 1
  /\ failed' = (failed \/ w[mi].failed)
  /\ UNCHANGED <<args, rpc, offset, gate, w, latencies, stats, traceVars>>

TraceOff ==
  /\ Main("off", "stop")
  /\ SetEnabled(FALSE)
  /\ UNCHANGED <<args, mi, rpc, offset, gate, failed, w, latencies, stats>>

(* stop_server joins the server's thread; the second call finds rpc NULL. *)
StopServer ==
  /\ Main("stopearly", "join") \/ Main("stop", IF failed THEN "end" ELSE "dump")
  /\ rpc => rec[Server].pc = "idle"
  /\ rpc' = FALSE
  /\ UNCHANGED <<args, mi, offset, gate, failed, w, latencies, stats, traceVars>>

(* The report ends with wirecall_trace_dump. *)
TraceDump ==
  /\ Main("dump", IF mi = 2 THEN "done" ELSE "dump")
  /\ NextField
  /\ stats' = [stats EXCEPT ![Fields[mi + 1]] = counter[Fields[mi + 1]]]
  /\ UNCHANGED <<args, rpc, offset, gate, failed, w, latencies, traceVars>>

MainNext ==
  \/ Alloc \/ StartServer \/ CreateClient \/ WaitReady \/ AllReady \/ Timeout \/ CheckReady
  \/ TraceReset \/ TraceOn \/ GateStart \/ JoinClient \/ TraceOff \/ StopServer \/ TraceDump

(* The server's threads record while they run. *)
ServerBegins == rpc /\ TraceBegin(Server) /\ UNCHANGED benchVars
ServerRecords == (TraceEnd(Server) \/ Recording(Server)) /\ UNCHANGED benchVars

Next == MainNext \/ ServerBegins \/ ServerRecords \/ \E i \in Clients : ClientNext(i)

(* Every thread is scheduled, the server answers while it runs, and the     *)
(* wait of gate_wait_ready times out if it has to.                          *)
Spec ==
  /\ Init /\ [][Next]_vars
  /\ WF_vars(MainNext) /\ WF_vars(ServerRecords)
  /\ \A i \in Clients : WF_vars(ClientNext(i))

-----------------------------------------------------------------------------
(* The clients write disjoint parts of the array of latencies, and when the *)
(* benchmark reports success every element has been written.                *)
LatenciesComplete ==
  /\ \A n \in DOMAIN latencies : latencies[n] <= 1
  /\ main \in {"dump", "done"} => \A n \in DOMAIN latencies : latencies[n] = 1

(* The slot of every call that was sent and not answered holds its id, from *)
(* whatever id the warm-up left off: the window and the order of responses  *)
(* keep two such calls from sharing a slot.                                 *)
SlotsHoldOutstanding ==
  \A i \in Clients : \A n \in 1 .. Len(w[i].calls) :
    w[i].call_ids[w[i].calls[n] % args.pipeline] = w[i].calls[n]

(* The statistics dumped are those of everything recorded since tracing was *)
(* switched on, no more and no less: no thread is recording while the       *)
(* counters are reset field by field or read field by field.                *)
StatsExact == main = "done" => stats = recorded

(* The benchmark ends: no client waits at the gate for ever and no join     *)
(* waits for ever, whichever thread, connection or call failed and whether  *)
(* or not the wait for the clients timed out.                               *)
BenchEnds == <>(main \in {"done", "end"})

=============================================================================
