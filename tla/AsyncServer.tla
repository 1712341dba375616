----------------------------- MODULE AsyncServer -----------------------------
(***************************************************************************)
(* A whole program around the server: src/demos/async/server.c. A          *)
(* coroutine of a worker (src/src/scheduler.c) keeps a job on its own      *)
(* stack, pushes it to a queue that a thread of the program works off, and *)
(* yields until the job is done.                                           *)
(***************************************************************************)
EXTENDS Server

CONSTANT Jobs    \* requests of the clients, each the job it leads to

VARIABLES
  ready,         \* per worker, the scheduler's list of coroutines to resume
  frame,         \* per job: "none", "entry", "pushed" or "returned"
  done,          \* the job's flag, on that frame
  queue,         \* g_queue: jobs pushed and not popped
  qstopping,
  qthread,       \* the queue's thread: "none", "pop", "add", "store", "exited", "joined"
  qjob           \* the job it works on, if any

jobVars == <<ready, frame, done, queue, qstopping, qthread, qjob>>
allVars == <<vars, jobVars>>

AsyncInit ==
  /\ Init
  /\ ready = [i \in Index |-> <<>>]
  /\ frame = [j \in Jobs |-> "none"]
  /\ done = [j \in Jobs |-> FALSE]
  /\ queue = <<>> /\ qstopping = FALSE /\ qthread = "none"
  /\ qjob = <<>>

-----------------------------------------------------------------------------
(* The queue's thread *)

(* queue_start comes first; when it fails the program ends there. *)
QueueStart ==
  /\ qthread = "none"
  /\ qthread' = "pop" \/ (MayFail /\ qthread' = "joined")
  /\ UNCHANGED <<vars, ready, frame, done, queue, qstopping, qjob>>

(* Mutant of QueuePop: it drops the rest of the list. *)
QueuePopAll ==
  /\ qthread = "pop"
  /\ \/ queue # <<>> /\ qjob' = <<Head(queue)>> /\ queue' = <<>> /\ qthread' = "add"
     \/ queue = <<>> /\ qstopping /\ qthread' = "exited" /\ UNCHANGED <<queue, qjob>>
  /\ UNCHANGED <<vars, ready, frame, done, qstopping>>

(* queue_pop waits until there is a job or the queue stops. *)
QueuePop ==
  /\ qthread = "pop"
  /\ \/ /\ queue # <<>>
        /\ qjob' = <<Head(queue)>>
        /\ queue' = Tail(queue)
        /\ qthread' = "add"
     \/ queue = <<>> /\ qstopping /\ qthread' = "exited" /\ UNCHANGED <<queue, qjob>>
  /\ UNCHANGED <<vars, ready, frame, done, qstopping>>

(* queue_worker reads the operands and writes the result, then the flag. *)
QueueAdd ==
  /\ qthread = "add"
  /\ qthread' = "store"
  /\ UNCHANGED <<vars, ready, frame, done, queue, qstopping, qjob>>

QueueStore ==
  /\ qthread = "store"
  /\ done' = [done EXCEPT ![qjob[1]] = TRUE]
  /\ qthread' = "pop"
  /\ qjob' = <<>>
  /\ UNCHANGED <<vars, ready, frame, queue, qstopping>>

(* queue_stop, when the server is destroyed: tells the thread, joins it. *)
QueueStop ==
  /\ main = "end" /\ qthread # "none" /\ ~qstopping
  /\ qstopping' = TRUE
  /\ UNCHANGED <<vars, ready, frame, done, queue, qthread, qjob>>

QueueJoin ==
  /\ qstopping /\ qthread = "exited"
  /\ qthread' = "joined"
  /\ UNCHANGED <<vars, ready, frame, done, queue, qstopping, qjob>>

-----------------------------------------------------------------------------
(* Coroutines *)

(* A request arrives: wirecall_scheduler_submit makes a coroutine for it,   *)
(* or the call is answered with an error (and may be tried again).          *)
Submit(i, j) ==
  /\ PollRead(i)
  /\ frame[j] = "none"
  /\ \/ frame' = [frame EXCEPT ![j] = "entry"] /\ ready' = [ready EXCEPT ![i] = Append(@, j)]
     \/ MayFail /\ UNCHANGED <<frame, ready>>
  /\ UNCHANGED <<done, queue, qstopping, qthread, qjob>>

(* wirecall_scheduler_run_ready resumes the first coroutine of the list.    *)
(* async_add starts: queue_push.                                            *)
Push(i) ==
  /\ Runs(i, "ready")
  /\ ready[i] # <<>>
  /\ frame[Head(ready[i])] = "entry"
  /\ queue' = Append(queue, Head(ready[i]))
  /\ frame' = [frame EXCEPT ![Head(ready[i])] = "pushed"]
  /\ UNCHANGED <<vars, ready, done, qstopping, qthread, qjob>>

(* The list after the coroutine has yielded: it is the last one now. *)
Requeued(s) == Append(Tail(s), Head(s))

(* Mutant of Test: it returns after the first yield, done or not. *)
TestReturns(i) ==
  /\ Runs(i, "ready")
  /\ ready[i] # <<>>
  /\ LET j == Head(ready[i]) IN
     /\ frame[j] = "pushed"
     /\ frame' = [frame EXCEPT ![j] = "returned"]
     /\ done' = [done EXCEPT ![j] = FALSE]
     /\ ready' = [ready EXCEPT ![i] = Tail(@)]
  /\ UNCHANGED <<vars, queue, qstopping, qthread, qjob>>

(* It tests the flag: done, it returns and the call is finished and freed;  *)
(* else wirecall_ctx_yield puts it behind the others.                       *)
Test(i) ==
  /\ Runs(i, "ready")
  /\ ready[i] # <<>>
  /\ LET j == Head(ready[i]) IN
     /\ frame[j] = "pushed"
     /\ IF done[j]
        THEN /\ frame' = [frame EXCEPT ![j] = "returned"]
             /\ done' = [done EXCEPT ![j] = FALSE]
             /\ ready' = [ready EXCEPT ![i] = Tail(@)]
        ELSE UNCHANGED <<frame, done>> /\ ready' = [ready EXCEPT ![i] = Requeued(@)]
  /\ UNCHANGED <<vars, queue, qstopping, qthread, qjob>>

(* run_ready returns when the list is empty, and only then the turn ends. *)
ReadyDone(i) == ready[i] = <<>> /\ TurnEnds(i) /\ UNCHANGED jobVars

(* wirecall_scheduler_destroy, in worker_destroy: frees what is suspended. *)
Drained ==
  /\ ready' = [ready EXCEPT ![mi] = <<>>]
  /\ frame' = [j \in Jobs |->
                 IF \E n \in 1 .. Len(ready[mi]) : ready[mi][n] = j THEN "returned" ELSE frame[j]]

-----------------------------------------------------------------------------
QueueNext == QueuePop \/ QueueAdd \/ QueueStore

ProgramNext ==
  \/ QueueStart \/ QueueStop \/ QueueJoin
  \/ /\ qthread # "none"
     /\ qthread = "joined" => main # "init"
     /\ MainNext
     /\ IF main = "down" /\ mi < worker_count THEN Drained ELSE UNCHANGED <<ready, frame>>
     /\ UNCHANGED <<done, queue, qstopping, qthread, qjob>>

WorkerNext(i) ==
  \/ LoopNext(i) /\ UNCHANGED jobVars
  \/ Push(i) \/ Test(i) \/ ReadyDone(i)

AsyncNext ==
  \/ ProgramNext \/ QueueNext
  \/ (StopperNext \/ OutsideNext) /\ UNCHANGED jobVars
  \/ \E i \in Index : WorkerNext(i) \/ \E j \in Jobs : Submit(i, j)

(* Every thread is scheduled, and a handler runs to its end; nothing makes  *)
(* a client connect or send, or a signal come.                              *)
AsyncSpec ==
  /\ AsyncInit /\ [][AsyncNext]_allVars
  /\ WF_allVars(ProgramNext) /\ WF_allVars(QueueNext)
  /\ WF_allVars(StopperNext /\ UNCHANGED jobVars)
  /\ \A i \in Index : WF_allVars(WorkerNext(i))

-----------------------------------------------------------------------------
(* A job lives on the stack of its coroutine: whatever the queue holds or   *)
(* its thread works on is still there, through yields, a stop and the       *)
(* destruction of the server. (The thread's last access is the flag.)       *)
JobsAlive ==
  /\ \A n \in 1 .. Len(queue) : frame[queue[n]] = "pushed"
  /\ qjob # <<>> => frame[qjob[1]] = "pushed"

(* Every job that was pushed is done and its coroutine returns: none of the *)
(* coroutines that spin in the list keeps another from being resumed.       *)
JobsReturn == \A j \in Jobs : frame[j] = "pushed" ~> frame[j] = "returned"

(* A signal ends the program: every worker leaves its loop although         *)
(* coroutines of it are still waiting, no join waits for ever, whenever the *)
(* signal comes and whichever thread could not be made, and the queue's     *)
(* thread ends.                                                             *)
StopEndsProgram == stopping ~> qthread = "joined"

-----------------------------------------------------------------------------
(* The inductive invariant behind JobsAlive: a coroutine is in a list only  *)
(* while its worker runs that list, and returns only when its flag is set,  *)
(* which the queue's thread does after it is through with the job.          *)
JobInv ==
  /\ ready \in [Index -> Seq(Jobs)] /\ queue \in Seq(Jobs)
  /\ frame \in [Jobs -> {"none", "entry", "pushed", "returned"}] /\ done \in [Jobs -> BOOLEAN]
  /\ qthread \in {"none", "pop", "add", "store", "exited", "joined"}
  /\ qjob = <<>> \/ \E j \in Jobs : qjob = <<j>>
  /\ qthread \in {"add", "store"} <=> qjob # <<>>
  /\ \A i \in Index : ready[i] # <<>> => thread[i] = "ready"
  /\ \A j \in Jobs : done[j] => frame[j] = "pushed"
  /\ \A n \in 1 .. Len(queue) :
       /\ ~done[queue[n]]
       /\ \A m \in 1 .. Len(queue) : m # n => queue[m] # queue[n]
  /\ qjob # <<>> => ~done[qjob[1]] /\ \A n \in 1 .. Len(queue) : queue[n] # qjob[1]

(* The server's invariant and that of the jobs hold together in every state *)
(* of the program.                                                          *)
AsyncInv == ServerInv /\ JobInv /\ JobsAlive

=============================================================================
