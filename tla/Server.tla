------------------------------- MODULE Server -------------------------------
(***************************************************************************)
(* The life of a server (src/src/server.c): the program's main thread      *)
(* makes it, binds, listens, runs and destroys it, as the demos do; the    *)
(* worker threads run until they are stopped; wirecall_server_stop runs in *)
(* a signal handler, on whichever of these threads takes the signal.       *)
(*                                                                         *)
(* Of a worker's loop only what crosses threads is here: the wake, the     *)
(* accepting worker 0 and the sockets it hands over. Module Worker has the *)
(* rest.                                                                   *)
(***************************************************************************)
EXTENDS Integers, Sequences

CONSTANTS
  MaxWorkers,     \* WIRECALL_MAX_WORKERS
  Socks,          \* clients that connect
  Addresses,      \* number of addresses getaddrinfo returns
  MaxListeners,   \* WIRECALL_MAX_LISTENERS
  Ports,          \* port numbers
  CounterMod,     \* next_worker wraps: 2^32 in the code
  MayFail,        \* system calls and allocations may fail
  PollMayFail     \* wirecall_backend_poll may fail

ASSUME MaxWorkersAssumption == MaxWorkers \in Nat \ {0}
ASSUME CounterModAssumption == CounterMod \in Nat \ {0}
ASSUME FailuresAssumption == MayFail \in BOOLEAN /\ PollMayFail \in BOOLEAN

Index == 0 .. MaxWorkers - 1

(* The steps of worker_init: two mutexes, backend, two arenas, scheduler. *)
InitSteps == 6

VARIABLES
  server,         \* "none", "live" or "freed"
  worker_count,
  workers,        \* "null" or "array"
  made,           \* per worker, the steps of worker_init that are done
  workers_ready, listening, port,
  listeners,      \* the ports worker 0's listeners are bound to
  registered,     \* how many of them listen
  want, bound,    \* the port a call of bind asks for; it has bound an address
  main, mi,       \* where the main thread is, and its loop index
  started,        \* thread_started
  thread,         \* where each worker's thread is; "none" before it is made and once joined
  woken,          \* the worker's backend has been woken
  stopping,
  stopper,        \* [on, k]: the thread in wirecall_server_stop, the next worker it wakes
  pending,        \* sockets handed over to a worker
  conns,          \* sockets it has adopted
  target,         \* the worker that worker 0 has still to wake
  backlog,        \* clients waiting to be accepted
  closed,         \* sockets the server has closed
  next_worker

life == <<server, worker_count, workers, made, workers_ready>>
net == <<listening, port, listeners, registered, want, bound>>
ctl == <<main, mi>>
run == <<started, thread, woken, stopping, stopper>>
socks == <<pending, conns, target, backlog, closed, next_worker>>
vars == <<life, net, ctl, run, socks>>

Main == MaxWorkers    \* the main thread, where a thread is named
NoStopper == [on |-> -1, k |-> 0]

Init ==
  /\ server = "none" /\ worker_count = 1 /\ workers = "null"
  /\ made = [i \in Index |-> 0] /\ workers_ready = FALSE
  /\ listening = FALSE /\ port = 0 /\ listeners = <<>> /\ registered = 0
  /\ want = 0 /\ bound = FALSE
  /\ main = "init" /\ mi = 0
  /\ started = [i \in Index |-> FALSE]
  /\ thread = [i \in Index |-> "none"]
  /\ woken = [i \in Index |-> FALSE]
  /\ stopping = FALSE /\ stopper = NoStopper
  /\ pending = [i \in Index |-> {}] /\ conns = [i \in Index |-> {}]
  /\ target = 0 /\ backlog = {} /\ closed = {}
  /\ next_worker = 0

(* The main thread is at p and not inside wirecall_server_stop. *)
At(p) == main = p /\ stopper.on # Main

Goto(p, i) == main' = p /\ mi' = i

-----------------------------------------------------------------------------
(* wirecall_server_init; when it fails it has freed what it made. *)
ServerInit ==
  /\ At("init")
  /\ \/ server' = "live" /\ Goto("setup", 0)
     \/ MayFail /\ server' = "freed" /\ Goto("end", 0)
  /\ UNCHANGED <<worker_count, workers, made, workers_ready, net, run, socks>>

(* wirecall_server_set_workers (it refuses 0 and too many) and the routes;  *)
(* a failure of any of these makes the program destroy the server.          *)
Setup ==
  /\ At("setup")
  /\ \/ \E n \in 1 .. MaxWorkers : worker_count' = n /\ Goto("bind", 0)
     \/ MayFail /\ Goto("destroy", 0) /\ UNCHANGED worker_count
  /\ UNCHANGED <<server, workers, made, workers_ready, net, run, socks>>

-----------------------------------------------------------------------------
(* wirecall_server_bind *)

(* server_ensure_workers: the array, if the workers are not there yet. *)
Bind(p) ==
  /\ At("bind")
  /\ want' = p
  /\ IF workers_ready
     THEN Goto("addresses", 0) /\ UNCHANGED workers
     ELSE \/ workers' = "array" /\ Goto("workers", 0)
          \/ MayFail /\ Goto("destroy", 0) /\ UNCHANGED workers
  /\ UNCHANGED <<server, worker_count, made, workers_ready, listening, port, listeners,
                 registered, bound, run, socks>>

(* Mutant of Undone: it forgets the half-made worker itself. *)
UndoneBefore == 0 .. mi - 1

(* What a server_ensure_workers that fails at worker mi destroys again. *)
Undone == 0 .. mi

(* worker_init of worker mi gets k steps far. *)
WorkerInit(k) ==
  /\ At("workers")
  /\ k < InitSteps => MayFail
  /\ IF k = InitSteps
     THEN /\ made' = [made EXCEPT ![mi] = k]
          /\ IF mi + 1 = worker_count
             THEN workers_ready' = TRUE /\ Goto("addresses", 0)
             ELSE UNCHANGED workers_ready /\ Goto("workers", mi + 1)
          /\ UNCHANGED workers
     ELSE /\ made' = [i \in Index |-> IF i \in Undone THEN 0 ELSE IF i = mi THEN k ELSE made[i]]
          /\ workers' = "null"
          /\ Goto("destroy", 0)
          /\ UNCHANGED workers_ready
  /\ UNCHANGED <<server, worker_count, net, run, socks>>

(* The port an address is bound to: the server's, once it has one, whatever *)
(* this call asks for; else the one asked for, or any free one for 0.       *)
BindPort ==
  IF port # 0 THEN {port} ELSE IF want # 0 THEN {want} ELSE Ports

(* One address: it cannot be bound, or it becomes a listener of worker 0.   *)
(* The first one names the server's port, if getsockname tells it.          *)
BindAddress ==
  /\ At("addresses")
  /\ mi < Addresses /\ Len(listeners) < MaxListeners
  /\ Goto("addresses", mi + 1)
  /\ \/ MayFail /\ UNCHANGED <<listeners, port, bound>>
     \/ \E p \in BindPort :
          /\ listeners' = Append(listeners, p)
          /\ \/ port' = IF port = 0 THEN p ELSE port
             \/ MayFail /\ port = 0 /\ port' = 0
          /\ bound' = TRUE
  /\ UNCHANGED <<life, listening, registered, want, run, socks>>

(* bind fails without an address to bind; after a bind that succeeded the   *)
(* program listens, or binds some more.                                     *)
BindReturns ==
  /\ At("addresses")
  /\ mi = Addresses \/ Len(listeners) >= MaxListeners \/ (MayFail /\ mi = 0)
  /\ \/ ~bound /\ Goto("destroy", 0)
     \/ bound /\ Goto("listen", 0)
     \/ bound /\ Goto("bind", 0)
  /\ bound' = FALSE /\ want' = 0
  /\ UNCHANGED <<life, listening, port, listeners, registered, run, socks>>

-----------------------------------------------------------------------------
(* wirecall_server_listen *)
Listen ==
  /\ At("listen")
  /\ IF mi < Len(listeners)
     THEN /\ \/ registered' = registered + 1 /\ Goto("listen", mi + 1)
             \/ MayFail /\ Goto("destroy", 0) /\ UNCHANGED registered
          /\ UNCHANGED listening
     ELSE listening' = TRUE /\ Goto("create", 0) /\ UNCHANGED registered
  /\ UNCHANGED <<life, port, listeners, want, bound, run, socks>>

-----------------------------------------------------------------------------
(* wirecall_server_run: one worker runs on the main thread, which waits in  *)
(* "join" for it to return; more have threads of their own.                 *)

CreateThread ==
  /\ At("create")
  /\ thread' = [thread EXCEPT ![mi] = "check"]
  /\ IF worker_count > 1 THEN started' = [started EXCEPT ![mi] = TRUE] ELSE UNCHANGED started
  /\ IF mi + 1 = worker_count THEN Goto("join", 0) ELSE Goto("create", mi + 1)
  /\ UNCHANGED <<life, net, woken, stopping, stopper, socks>>

(* wirecall_server_stop, called on thread t. *)
CallStop(t) == stopping' = TRUE /\ stopper' = [on |-> t, k |-> 0]

(* A thread cannot be made: stop the ones that run, then join them. (If a  *)
(* handler is at it on another thread, the second stop repeats the first.) *)
CreateFails ==
  /\ At("create")
  /\ MayFail /\ worker_count > 1 /\ stopper = NoStopper
  /\ CallStop(Main)
  /\ Goto("unwind", 0)
  /\ UNCHANGED <<life, net, started, thread, woken, socks>>

(* Mutant of Join: it does not wait for the thread. *)
JoinNoWait ==
  /\ At("join") \/ At("unwind")
  /\ mi < worker_count
  /\ started' = [started EXCEPT ![mi] = FALSE]
  /\ mi' = mi + 1
  /\ UNCHANGED <<life, net, main, thread, woken, stopping, stopper, socks>>

(* wirecall_thread_join, or the return of the one worker's worker_run. *)
Join ==
  /\ At("join") \/ At("unwind")
  /\ mi < worker_count
  /\ thread[mi] = "exited" \/ (main = "unwind" /\ ~started[mi])
  /\ thread' = [thread EXCEPT ![mi] = "none"]
  /\ started' = [started EXCEPT ![mi] = FALSE]
  /\ mi' = mi + 1
  /\ UNCHANGED <<life, net, main, woken, stopping, stopper, socks>>

RunReturns ==
  /\ At("join") \/ At("unwind")
  /\ mi = worker_count
  /\ Goto("destroy", 0)
  /\ UNCHANGED <<life, net, run, socks>>

-----------------------------------------------------------------------------
(* wirecall_server_destroy *)

Destroy ==
  /\ At("destroy")
  /\ IF workers = "array"
     THEN CallStop(Main) /\ Goto("down", 0)
     ELSE Goto("free", 0) /\ UNCHANGED <<stopping, stopper>>
  /\ UNCHANGED <<life, net, started, thread, woken, socks>>

(* worker_destroy, once the worker's thread is joined: connections,         *)
(* listeners, handed-over sockets, and what worker_init made.               *)
WorkerDestroy ==
  /\ At("down")
  /\ mi < worker_count
  /\ started[mi] => thread[mi] = "exited"
  /\ started' = [started EXCEPT ![mi] = FALSE]
  /\ closed' = closed \cup conns[mi] \cup pending[mi] \cup (IF mi = 0 THEN backlog ELSE {})
  /\ conns' = [conns EXCEPT ![mi] = {}]
  /\ pending' = [pending EXCEPT ![mi] = {}]
  /\ backlog' = IF mi = 0 THEN {} ELSE backlog
  /\ listeners' = IF mi = 0 THEN <<>> ELSE listeners
  /\ registered' = IF mi = 0 THEN 0 ELSE registered
  /\ made' = [made EXCEPT ![mi] = 0]
  /\ mi' = mi + 1
  /\ UNCHANGED <<server, worker_count, workers, workers_ready, listening, port, want, bound,
                 main, thread, woken, stopping, stopper, target, next_worker>>

WorkersFree ==
  /\ At("down")
  /\ mi = worker_count
  /\ workers' = "null"
  /\ Goto("free", 0)
  /\ UNCHANGED <<server, worker_count, made, workers_ready, net, run, socks>>

ServerFree ==
  /\ At("free")
  /\ server' = "freed"
  /\ Goto("end", 0)
  /\ UNCHANGED <<worker_count, workers, made, workers_ready, net, run, socks>>

-----------------------------------------------------------------------------
(* worker_run, on the thread of worker i *)

Runs(i, p) ==
  thread[i] = p /\ stopper.on # i /\ (worker_count = 1 => stopper.on # Main)

Step(i, p) == thread' = [thread EXCEPT ![i] = p]

Check(i) ==
  /\ Runs(i, "check")
  /\ Step(i, IF stopping THEN "exited" ELSE "poll")
  /\ UNCHANGED <<life, net, ctl, started, woken, stopping, stopper, socks>>

(* The wake: worker_drain_pending; a socket that finds no slot or cannot be *)
(* registered is closed.                                                    *)
PollWake(i) ==
  /\ Runs(i, "poll")
  /\ woken[i]
  /\ woken' = [woken EXCEPT ![i] = FALSE]
  /\ \E lost \in IF MayFail THEN SUBSET pending[i] ELSE {{}} :
       /\ conns' = [conns EXCEPT ![i] = @ \cup (pending[i] \ lost)]
       /\ closed' = closed \cup lost
  /\ pending' = [pending EXCEPT ![i] = {}]
  /\ Step(i, "ready")
  /\ UNCHANGED <<life, net, ctl, started, stopping, stopper, target, backlog, next_worker>>

(* A connection is readable: what it sends is the business of module Worker. *)
PollRead(i) ==
  /\ Runs(i, "poll")
  /\ conns[i] # {}
  /\ Step(i, "ready")
  /\ UNCHANGED <<life, net, ctl, started, woken, stopping, stopper, socks>>

PollAccept ==
  /\ Runs(0, "poll")
  /\ registered > 0 /\ backlog # {}
  /\ Step(0, "accept")
  /\ UNCHANGED <<life, net, ctl, started, woken, stopping, stopper, socks>>

PollFails(i) ==
  /\ PollMayFail
  /\ Runs(i, "poll")
  /\ Step(i, "exited")
  /\ UNCHANGED <<life, net, ctl, started, woken, stopping, stopper, socks>>

(* accept_ready: a socket that cannot be made non-blocking is closed; the   *)
(* next worker's turn comes, and the socket is closed for want of memory or *)
(* queued on its list; after that the worker is woken.                      *)
Accept(s) ==
  /\ Runs(0, "accept")
  /\ s \in backlog
  /\ backlog' = backlog \ {s}
  /\ \/ /\ MayFail
        /\ closed' = closed \cup {s}
        /\ UNCHANGED <<pending, target, next_worker, thread>>
     \/ LET idx == next_worker % worker_count IN
        /\ next_worker' = (next_worker + 1) % CounterMod
        /\ \/ /\ MayFail
              /\ closed' = closed \cup {s}
              /\ UNCHANGED <<pending, target, thread>>
           \/ /\ pending' = [pending EXCEPT ![idx] = @ \cup {s}]
              /\ target' = idx
              /\ Step(0, "hand")
              /\ UNCHANGED closed
  /\ UNCHANGED <<life, net, ctl, conns, started, woken, stopping, stopper>>

Hand ==
  /\ Runs(0, "hand")
  /\ woken' = [woken EXCEPT ![target] = TRUE]
  /\ target' = 0
  /\ Step(0, "accept")
  /\ UNCHANGED <<life, net, ctl, started, stopping, stopper, pending, conns, backlog, closed,
                 next_worker>>

(* accept finds no more, or fails. *)
AcceptDone ==
  /\ Runs(0, "accept")
  /\ backlog = {} \/ MayFail
  /\ Step(0, "ready")
  /\ UNCHANGED <<life, net, ctl, started, woken, stopping, stopper, socks>>

(* The rest of the turn: coroutines, completed calls, writes. *)
TurnEnds(i) ==
  /\ Runs(i, "ready")
  /\ Step(i, "check")
  /\ UNCHANGED <<life, net, ctl, started, woken, stopping, stopper, socks>>

-----------------------------------------------------------------------------
(* Clients and signals *)

ClientConnects(s) ==
  /\ registered > 0
  /\ s \notin backlog \cup closed \cup UNION {pending[i] \cup conns[i] : i \in Index}
  /\ backlog' = backlog \cup {s}
  /\ UNCHANGED <<life, net, ctl, run, pending, conns, target, closed, next_worker>>

(* on_signal: the handler is installed before wirecall_server_run and runs  *)
(* on the main thread or on a worker's, which goes on when it returns.      *)
Signal(t) ==
  /\ stopper = NoStopper /\ ~stopping
  /\ main \in {"create", "join", "unwind"}
  /\ t # Main => started[t] /\ thread[t] # "exited"
  /\ CallStop(t)
  /\ UNCHANGED <<life, net, ctl, started, thread, woken, socks>>

(* Mutant of StopWakes: it wakes worker 0 only. *)
StopWakesFirst ==
  /\ stopper # NoStopper
  /\ stopper.k < worker_count
  /\ woken' = [woken EXCEPT ![0] = TRUE]
  /\ stopper' = [stopper EXCEPT !.k = @ + 1]
  /\ UNCHANGED <<life, net, ctl, started, thread, stopping, socks>>

(* wirecall_server_stop wakes the workers one by one. *)
StopWakes ==
  /\ stopper # NoStopper
  /\ stopper.k < worker_count
  /\ woken' = [woken EXCEPT ![stopper.k] = TRUE]
  /\ stopper' = [stopper EXCEPT !.k = @ + 1]
  /\ UNCHANGED <<life, net, ctl, started, thread, stopping, socks>>

StopReturns ==
  /\ stopper # NoStopper
  /\ stopper.k = worker_count
  /\ stopper' = NoStopper
  /\ UNCHANGED <<life, net, ctl, started, thread, woken, stopping, socks>>

-----------------------------------------------------------------------------
MainNext ==
  \/ ServerInit \/ Setup
  \/ \E p \in {0} \cup Ports : Bind(p)
  \/ \E k \in 0 .. InitSteps : WorkerInit(k)
  \/ BindAddress \/ BindReturns \/ Listen
  \/ CreateThread \/ CreateFails \/ Join \/ RunReturns
  \/ Destroy \/ WorkerDestroy \/ WorkersFree \/ ServerFree

(* What worker i's thread does before it runs its coroutines. *)
LoopNext(i) ==
  \/ Check(i) \/ PollWake(i)
  \/ i = 0 /\ (PollAccept \/ Hand \/ AcceptDone \/ \E s \in Socks : Accept(s))

StopperNext == StopWakes \/ StopReturns

(* What nothing makes happen: clients, signals, a poll that fails. *)
OutsideNext ==
  \/ \E s \in Socks : ClientConnects(s)
  \/ \E i \in Index : PollFails(i)
  \/ \E t \in Index \cup {Main} : Signal(t)

Next ==
  \/ MainNext \/ StopperNext \/ OutsideNext
  \/ \E i \in Index : LoopNext(i) \/ PollRead(i) \/ TurnEnds(i)

Spec == Init /\ [][Next]_vars

-----------------------------------------------------------------------------
Running(i) == thread[i] \notin {"none", "exited"}

(* As long as a worker thread or wirecall_server_stop runs, the server, the *)
(* array of workers and every worker in it are there: worker 0 may hand a   *)
(* socket to any of them, and the stop wakes all of them. In particular     *)
(* wirecall_server_destroy destroys no worker before every thread has ended,*)
(* also when one of the threads could not be made.                          *)
NothingUsedAfterDestroy ==
  (stopper # NoStopper \/ \E i \in Index : Running(i)) =>
    /\ server = "live" /\ workers = "array"
    /\ \A i \in Index : i < worker_count => made[i] = InitSteps

(* What was acquired is released by the end, wherever setting up failed:    *)
(* each step of each worker_init, listeners, accepted sockets, threads. On  *)
(* the way there, no socket has two owners, or an owner when it is closed.  *)
AllReleased ==
  /\ main \in {"free", "end"} =>
       /\ \A i \in Index : made[i] = 0 /\ ~started[i] /\ thread[i] = "none"
       /\ listeners = <<>> /\ backlog = {}
       /\ \A i \in Index : pending[i] = {} /\ conns[i] = {}
  /\ \A i, j \in Index :
       /\ pending[i] \cap conns[j] = {} /\ (pending[i] \cup conns[i]) \cap closed = {}
       /\ i # j => pending[i] \cap pending[j] = {} /\ conns[i] \cap conns[j] = {}

(* The listeners share the port that wirecall_server_port reports, for      *)
(* several addresses and several calls of bind, also when port 0 was asked  *)
(* for: from the first listener that has it, all do. (Those before it, if   *)
(* any, are the ones whose port getsockname failed to tell.)                *)
OnePort ==
  port # 0 /\ listeners # <<>> =>
    \E n \in 1 .. Len(listeners) : \A l \in n .. Len(listeners) : listeners[l] = port

-----------------------------------------------------------------------------
(* The inductive invariant behind NothingUsedAfterDestroy and AllReleased. *)

MainPcs == {"init", "setup", "bind", "workers", "addresses", "listen", "create", "join", "unwind",
            "destroy", "down", "free", "end"}
ThreadPcs == {"none", "check", "poll", "accept", "hand", "ready", "exited"}

TypeOK ==
  /\ server \in {"none", "live", "freed"} /\ worker_count \in 1 .. MaxWorkers
  /\ workers \in {"null", "array"} /\ made \in [Index -> 0 .. InitSteps]
  /\ workers_ready \in BOOLEAN /\ port \in {0} \cup Ports /\ want \in {0} \cup Ports
  /\ listeners \in Seq({0} \cup Ports) /\ registered \in Nat
  /\ main \in MainPcs /\ mi \in Nat
  /\ started \in [Index -> BOOLEAN] /\ thread \in [Index -> ThreadPcs]
  /\ stopping \in BOOLEAN /\ stopper \in [on : -1 .. MaxWorkers, k : Nat]
  /\ pending \in [Index -> SUBSET Socks] /\ conns \in [Index -> SUBSET Socks]
  /\ target \in Index /\ backlog \subseteq Socks /\ closed \subseteq Socks
  /\ next_worker \in Nat

(* The server and its array of workers, by where the main thread is: built  *)
(* in "workers" up to mi, taken down in "down" up to mi.                    *)
WorkersByPhase ==
  /\ main \in MainPcs \ {"init", "end"} => server = "live"
  /\ main \in {"workers", "addresses", "listen", "create", "join", "unwind", "down"} =>
       workers = "array"
  /\ main \in {"init", "setup", "free", "end"} => workers = "null"
  /\ workers = "array" => (workers_ready <=> main # "workers")
  /\ main \in {"init", "setup"} => ~workers_ready
  /\ main = "bind" /\ workers = "null" => ~workers_ready
  /\ main \in {"workers", "create"} => mi < worker_count
  /\ main \in {"join", "unwind", "down"} => mi <= worker_count
  /\ \A i \in Index :
       made[i] = IF /\ workers = "array" /\ i < worker_count
                    /\ main = "workers" => i < mi
                    /\ main = "down" => i >= mi
                 THEN InitSteps ELSE 0

(* Threads exist only inside wirecall_server_run, and are joined in order. *)
ThreadsByPhase ==
  /\ \A i \in Index : thread[i] # "none" =>
       /\ main \in {"create", "join", "unwind"} /\ i < worker_count
       /\ IF main = "create" THEN i < mi ELSE i >= mi
  /\ \A i \in Index : started[i] <=> thread[i] # "none" /\ worker_count > 1
  /\ main = "unwind" => worker_count > 1

(* A stop in progress is one of the main thread's own, or runs on a worker  *)
(* thread that has not ended.                                               *)
StopperByPhase ==
  \/ stopper = NoStopper
  \/ /\ stopper.on = Main
     /\ main \in {"create", "join", "unwind", "down"} /\ (main = "down" => mi = 0)
  \/ /\ stopper.on \in Index
     /\ started[stopper.on] /\ Running(stopper.on)

(* Listeners and sockets belong to workers that are there. *)
SocketsByPhase ==
  /\ listeners # <<>> => workers = "array" /\ workers_ready /\ (main = "down" => mi = 0)
  /\ registered > 0 \/ backlog # {} => listeners # <<>>
  /\ \A i \in Index : pending[i] # {} \/ conns[i] # {} =>
       workers = "array" /\ workers_ready /\ i < worker_count /\ (main = "down" => i >= mi)

(* A socket is in at most one place. *)
OneOwner ==
  /\ backlog \cap closed = {}
  /\ \A i \in Index : (pending[i] \cup conns[i]) \cap (closed \cup backlog) = {}
  /\ \A i, j \in Index :
       /\ pending[i] \cap conns[j] = {}
       /\ i # j => pending[i] \cap pending[j] = {} /\ conns[i] \cap conns[j] = {}

(* All of this together holds initially, and every step of every thread,    *)
(* client and signal keeps it.                                              *)
ServerInv ==
  TypeOK /\ WorkersByPhase /\ ThreadsByPhase /\ StopperByPhase /\ SocketsByPhase /\ OneOwner

=============================================================================
