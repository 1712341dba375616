----------------------------- MODULE ServerProofs -----------------------------
(*****************************************************************************)
(* ServerInv is an inductive invariant of module Server (one lemma for each  *)
(* action), and what follows from it. Then the program around the server,    *)
(* module AsyncServer.                                                       *)
(*****************************************************************************)
EXTENDS AsyncServer, TLAPS

USE MaxWorkersAssumption, CounterModAssumption, FailuresAssumption
  DEF Index, InitSteps, Main, NoStopper, MainPcs, ThreadPcs, At, Goto, Step, Runs, CallStop,
      Running, life, net, ctl, run, socks, Undone, BindPort

(* wirecall_server_init makes the server, or nothing. *)
LEMMA ServerInitKeeps ==
  ASSUME ServerInv, ServerInit PROVE ServerInv'
<1>1. TypeOK'
  BY DEF ServerInv, TypeOK, ServerInit
<1>2. WorkersByPhase'
  BY Zenon DEF ServerInv, WorkersByPhase, ServerInit
<1>3. ThreadsByPhase'
  BY Zenon DEF ServerInv, ThreadsByPhase, ServerInit
<1>4. StopperByPhase'
  BY Zenon DEF ServerInv, StopperByPhase, ServerInit
<1>5. SocketsByPhase'
  BY Zenon DEF ServerInv, SocketsByPhase, ServerInit
<1>6. OneOwner'
  BY Zenon DEF ServerInv, OneOwner, ServerInit
<1>7. QED BY <1>1, <1>2, <1>3, <1>4, <1>5, <1>6, Zenon DEF ServerInv

(* wirecall_server_set_workers sets the number of workers before there are any. *)
LEMMA SetupKeeps ==
  ASSUME ServerInv, Setup PROVE ServerInv'
<1>1. TypeOK'
  BY DEF ServerInv, TypeOK, Setup
<1>2. WorkersByPhase'
  BY Zenon DEF ServerInv, WorkersByPhase, Setup
<1>3. ThreadsByPhase'
  BY Zenon DEF ServerInv, ThreadsByPhase, Setup
<1>4. StopperByPhase'
  BY Zenon DEF ServerInv, StopperByPhase, Setup
<1>5. SocketsByPhase'
  BY Zenon DEF ServerInv, SocketsByPhase, WorkersByPhase, Setup
<1>6. OneOwner'
  BY Zenon DEF ServerInv, OneOwner, Setup
<1>7. QED BY <1>1, <1>2, <1>3, <1>4, <1>5, <1>6, Zenon DEF ServerInv

(* The array of workers is allocated at most once. *)
LEMMA BindKeeps ==
  ASSUME NEW p \in {0} \cup Ports, ServerInv, Bind(p) PROVE ServerInv'
<1>1. TypeOK'
  BY DEF ServerInv, TypeOK, Bind
<1>2. WorkersByPhase'
  BY DEF ServerInv, WorkersByPhase, TypeOK, Bind
<1>3. ThreadsByPhase'
  BY Zenon DEF ServerInv, ThreadsByPhase, Bind
<1>4. StopperByPhase'
  BY Zenon DEF ServerInv, StopperByPhase, Bind
<1>5. SocketsByPhase'
  BY Zenon DEF ServerInv, SocketsByPhase, Bind
<1>6. OneOwner'
  BY Zenon DEF ServerInv, OneOwner, Bind
<1>7. QED BY <1>1, <1>2, <1>3, <1>4, <1>5, <1>6, Zenon DEF ServerInv

(* A worker is built completely, or all workers are taken down again. *)
LEMMA WorkerInitKeeps ==
  ASSUME NEW k \in 0 .. InitSteps, ServerInv, WorkerInit(k) PROVE ServerInv'
<1>1. TypeOK'
  <2>1. made' \in [Index -> 0 .. InitSteps]
    BY SMTT(30) DEF ServerInv, TypeOK, WorkersByPhase, WorkerInit
  <2>2. workers_ready' \in BOOLEAN
    BY Zenon DEF ServerInv, TypeOK, WorkersByPhase, WorkerInit
  <2>3. main' \in MainPcs /\ mi' \in Nat
    BY DEF ServerInv, TypeOK, WorkersByPhase, WorkerInit
  <2>4. QED BY <2>1, <2>2, <2>3, Zenon DEF ServerInv, TypeOK, WorkersByPhase, WorkerInit
<1>2. WorkersByPhase'
  <2>1. CASE k = InitSteps /\ mi + 1 = worker_count
    BY <2>1 DEF ServerInv, WorkersByPhase, TypeOK, ThreadsByPhase, WorkerInit
  <2>2. CASE k = InitSteps /\ mi + 1 # worker_count
    BY <2>2, SMTT(30) DEF ServerInv, WorkersByPhase, TypeOK, ThreadsByPhase, WorkerInit
  <2>3. CASE k # InitSteps
    BY <2>3 DEF ServerInv, WorkersByPhase, TypeOK, ThreadsByPhase, WorkerInit
  <2>4. QED BY <2>1, <2>2, <2>3, Zenon
<1>3. ThreadsByPhase'
  BY Zenon DEF ServerInv, ThreadsByPhase, WorkerInit
<1>4. StopperByPhase'
  BY Zenon DEF ServerInv, StopperByPhase, WorkerInit
<1>5. SocketsByPhase'
  <2>1. main = "workers" /\ main' # "down" /\ UNCHANGED <<net, socks>>
    BY Zenon DEF WorkerInit
  <2>2. ~workers_ready /\ SocketsByPhase
    BY <2>1, Zenon DEF ServerInv, WorkersByPhase
  <2>3. listeners' = <<>> /\ registered' = registered /\ backlog' = backlog /\ listeners' = listeners
        /\ \A i \in Index : pending'[i] = {} /\ conns'[i] = {}
    BY <2>1, <2>2, Zenon DEF SocketsByPhase
  <2>4. QED BY <2>2, <2>3, Zenon DEF SocketsByPhase
<1>6. OneOwner'
  <2>1. UNCHANGED <<backlog, closed, pending, conns>> BY Zenon DEF WorkerInit, socks
  <2>2. OneOwner BY Zenon DEF ServerInv
  <2> QED BY <2>1, <2>2, Zenon DEF OneOwner
<1>7. QED BY <1>1, <1>2, <1>3, <1>4, <1>5, <1>6, Zenon DEF ServerInv

(* A listener is added to a worker that is there. *)
LEMMA BindAddressKeeps ==
  ASSUME ServerInv, BindAddress PROVE ServerInv'
<1>1. TypeOK'
  <2>1. BindPort \subseteq {0} \cup Ports
    BY Zenon DEF ServerInv, TypeOK, WorkersByPhase, BindAddress
  <2>2. \A p \in BindPort : Append(listeners, p) \in Seq({0} \cup Ports)
    BY <2>1 DEF ServerInv, TypeOK, WorkersByPhase, BindAddress
  <2>3. listeners' \in Seq({0} \cup Ports) /\ port' \in {0} \cup Ports
    BY <2>1, <2>2, ZenonT(40) DEF ServerInv, TypeOK, WorkersByPhase, BindAddress
  <2>4. QED BY <2>1, <2>2, <2>3 DEF ServerInv, TypeOK, WorkersByPhase, BindAddress
<1>2. WorkersByPhase'
  BY Zenon DEF ServerInv, WorkersByPhase, BindAddress
<1>3. ThreadsByPhase'
  BY Zenon DEF ServerInv, ThreadsByPhase, BindAddress
<1>4. StopperByPhase'
  BY Zenon DEF ServerInv, StopperByPhase, BindAddress
<1>5. SocketsByPhase'
  BY DEF ServerInv, SocketsByPhase, WorkersByPhase, BindAddress
<1>6. OneOwner'
  BY Zenon DEF ServerInv, OneOwner, BindAddress
<1>7. QED BY <1>1, <1>2, <1>3, <1>4, <1>5, <1>6, Zenon DEF ServerInv

(* bind returns with the workers built. *)
LEMMA BindReturnsKeeps ==
  ASSUME ServerInv, BindReturns PROVE ServerInv'
<1>1. TypeOK'
  BY DEF ServerInv, TypeOK, BindReturns
<1>2. WorkersByPhase'
  BY Zenon DEF ServerInv, WorkersByPhase, BindReturns
<1>3. ThreadsByPhase'
  BY Zenon DEF ServerInv, ThreadsByPhase, BindReturns
<1>4. StopperByPhase'
  BY Zenon DEF ServerInv, StopperByPhase, BindReturns
<1>5. SocketsByPhase'
  BY Zenon DEF ServerInv, SocketsByPhase, BindReturns
<1>6. OneOwner'
  BY Zenon DEF ServerInv, OneOwner, BindReturns
<1>7. QED BY <1>1, <1>2, <1>3, <1>4, <1>5, <1>6, Zenon DEF ServerInv

(* A listener is registered, or the server goes down. *)
LEMMA ListenKeeps ==
  ASSUME ServerInv, Listen PROVE ServerInv'
<1>1. TypeOK'
  <2>1. CASE mi < Len(listeners) /\ registered' = registered + 1
    BY <2>1 DEF ServerInv, TypeOK, WorkersByPhase, Listen
  <2>2. CASE mi < Len(listeners) /\ registered' = registered
    BY <2>2 DEF ServerInv, TypeOK, WorkersByPhase, Listen
  <2>3. CASE ~(mi < Len(listeners))
    BY <2>3, SMTT(30) DEF ServerInv, TypeOK, WorkersByPhase, Listen
  <2>4. QED BY <2>1, <2>2, <2>3, Zenon DEF Listen
<1>2. WorkersByPhase'
  BY DEF ServerInv, WorkersByPhase, TypeOK, Listen
<1>3. ThreadsByPhase'
  BY Zenon DEF ServerInv, ThreadsByPhase, Listen
<1>4. StopperByPhase'
  BY Zenon DEF ServerInv, StopperByPhase, Listen
<1>5. SocketsByPhase'
  <2>1. CASE mi < Len(listeners) /\ registered' = registered + 1
    BY <2>1 DEF ServerInv, SocketsByPhase, TypeOK, WorkersByPhase, ThreadsByPhase, Listen
  <2>2. CASE mi < Len(listeners) /\ registered' = registered
    BY <2>2, Zenon DEF ServerInv, SocketsByPhase, TypeOK, WorkersByPhase, ThreadsByPhase, Listen
  <2>3. CASE ~(mi < Len(listeners))
    BY <2>3, Zenon DEF ServerInv, SocketsByPhase, TypeOK, WorkersByPhase, ThreadsByPhase, Listen
  <2>4. QED BY <2>1, <2>2, <2>3, Zenon DEF Listen
<1>6. OneOwner'
  BY Zenon DEF ServerInv, OneOwner, Listen
<1>7. QED BY <1>1, <1>2, <1>3, <1>4, <1>5, <1>6, Zenon DEF ServerInv

(* A thread starts when all workers are built. *)
LEMMA CreateThreadKeeps ==
  ASSUME ServerInv, CreateThread PROVE ServerInv'
<1>1. TypeOK'
  <2>1. mi \in Index
    BY DEF ServerInv, TypeOK, WorkersByPhase, CreateThread
  <2>2. started' \in [Index -> BOOLEAN]
    BY <2>1, Zenon DEF ServerInv, TypeOK, CreateThread
  <2>3. QED BY <2>1, <2>2, SMTT(30) DEF ServerInv, TypeOK, WorkersByPhase, CreateThread
<1>2. WorkersByPhase'
  BY SMTT(30) DEF ServerInv, WorkersByPhase, TypeOK, CreateThread
<1>3. ThreadsByPhase'
  BY SMTT(30) DEF ServerInv, ThreadsByPhase, TypeOK, WorkersByPhase, CreateThread
<1>4. StopperByPhase'
  BY Zenon DEF ServerInv, StopperByPhase, TypeOK, CreateThread
<1>5. SocketsByPhase'
  BY Zenon DEF ServerInv, SocketsByPhase, CreateThread
<1>6. OneOwner'
  BY Zenon DEF ServerInv, OneOwner, CreateThread
<1>7. QED BY <1>1, <1>2, <1>3, <1>4, <1>5, <1>6, Zenon DEF ServerInv

(* The stop of a failed wirecall_server_run is the main thread's own. *)
LEMMA CreateFailsKeeps ==
  ASSUME ServerInv, CreateFails PROVE ServerInv'
<1>1. TypeOK'
  BY DEF ServerInv, TypeOK, CreateFails
<1>2. WorkersByPhase'
  BY DEF ServerInv, WorkersByPhase, TypeOK, CreateFails
<1>3. ThreadsByPhase'
  BY DEF ServerInv, ThreadsByPhase, CreateFails
<1>4. StopperByPhase'
  BY Zenon DEF ServerInv, StopperByPhase, CreateFails
<1>5. SocketsByPhase'
  BY Zenon DEF ServerInv, SocketsByPhase, CreateFails
<1>6. OneOwner'
  BY Zenon DEF ServerInv, OneOwner, CreateFails
<1>7. QED BY <1>1, <1>2, <1>3, <1>4, <1>5, <1>6, Zenon DEF ServerInv

(* A joined thread has ended. *)
LEMMA JoinKeeps ==
  ASSUME ServerInv, Join PROVE ServerInv'
<1>1. TypeOK'
  BY DEF ServerInv, TypeOK, Join
<1>2. WorkersByPhase'
  BY DEF ServerInv, WorkersByPhase, TypeOK, Join
<1>3. ThreadsByPhase'
  BY DEF ServerInv, ThreadsByPhase, TypeOK, Join
<1>4. StopperByPhase'
  BY DEF ServerInv, StopperByPhase, Join
<1>5. SocketsByPhase'
  BY Zenon DEF ServerInv, SocketsByPhase, Join
<1>6. OneOwner'
  BY Zenon DEF ServerInv, OneOwner, Join
<1>7. QED BY <1>1, <1>2, <1>3, <1>4, <1>5, <1>6, Zenon DEF ServerInv

(* When run returns no thread is left, and no stop on a thread. *)
LEMMA RunReturnsKeeps ==
  ASSUME ServerInv, RunReturns PROVE ServerInv'
<1>1. TypeOK'
  BY Zenon DEF ServerInv, TypeOK, RunReturns
<1>2. WorkersByPhase'
  BY Zenon DEF ServerInv, WorkersByPhase, RunReturns
<1>3. ThreadsByPhase'
  BY DEF ServerInv, ThreadsByPhase, TypeOK, RunReturns
<1>4. StopperByPhase'
  BY Zenon DEF ServerInv, StopperByPhase, RunReturns
<1>5. SocketsByPhase'
  BY Zenon DEF ServerInv, SocketsByPhase, RunReturns
<1>6. OneOwner'
  BY Zenon DEF ServerInv, OneOwner, RunReturns
<1>7. QED BY <1>1, <1>2, <1>3, <1>4, <1>5, <1>6, Zenon DEF ServerInv

(* destroy stops a server whose workers are all still there. *)
LEMMA DestroyKeeps ==
  ASSUME ServerInv, Destroy PROVE ServerInv'
<1>1. TypeOK'
  <2>1. stopper' \in [on : -1 .. MaxWorkers, k : Nat]
    BY DEF ServerInv, TypeOK, WorkersByPhase, Destroy
  <2>2. main' \in MainPcs /\ mi' \in Nat
    BY DEF ServerInv, TypeOK, WorkersByPhase, Destroy
  <2>3. stopping' \in BOOLEAN
    BY Zenon DEF ServerInv, TypeOK, WorkersByPhase, Destroy
  <2>4. QED BY <2>1, <2>2, <2>3, Zenon DEF ServerInv, TypeOK, WorkersByPhase, Destroy
<1>2. WorkersByPhase'
  BY DEF ServerInv, WorkersByPhase, TypeOK, Destroy
<1>3. ThreadsByPhase'
  BY Zenon DEF ServerInv, ThreadsByPhase, Destroy
<1>4. StopperByPhase'
  BY DEF ServerInv, StopperByPhase, Destroy
<1>5. SocketsByPhase'
  BY DEF ServerInv, SocketsByPhase, Destroy
<1>6. OneOwner'
  BY Zenon DEF ServerInv, OneOwner, Destroy
<1>7. QED BY <1>1, <1>2, <1>3, <1>4, <1>5, <1>6, Zenon DEF ServerInv

(* A worker goes with its listeners and sockets, in order. *)
LEMMA WorkerDestroyKeeps ==
  ASSUME ServerInv, WorkerDestroy PROVE ServerInv'
<1>1. TypeOK'
  <2>1. mi \in Index
    BY DEF ServerInv, TypeOK, WorkersByPhase, WorkerDestroy
  <2>2. conns' \in [Index -> SUBSET Socks] /\ pending' \in [Index -> SUBSET Socks]
    BY Zenon DEF ServerInv, TypeOK, WorkersByPhase, WorkerDestroy
  <2>3. listeners' \in Seq({0} \cup Ports)
    BY DEF ServerInv, TypeOK, WorkersByPhase, WorkerDestroy
  <2>4. QED BY <2>1, <2>2, <2>3 DEF ServerInv, TypeOK, WorkersByPhase, WorkerDestroy
<1>2. WorkersByPhase'
  BY DEF ServerInv, WorkersByPhase, TypeOK, WorkerDestroy
<1>3. ThreadsByPhase'
  BY DEF ServerInv, ThreadsByPhase, WorkerDestroy
<1>4. StopperByPhase'
  BY DEF ServerInv, StopperByPhase, WorkerDestroy
<1>5. SocketsByPhase'
  <2>1. mi \in Index /\ main = "down" /\ main' = main /\ mi' = mi + 1
    BY SMTT(30) DEF ServerInv, SocketsByPhase, TypeOK, WorkersByPhase, ThreadsByPhase, WorkerDestroy
  <2>2. listeners' = <<>> /\ registered' = 0 /\ backlog' = {}
    BY DEF ServerInv, SocketsByPhase, TypeOK, WorkersByPhase, ThreadsByPhase, WorkerDestroy
  <2>3. \A i \in Index : /\ pending'[i] = IF i = mi THEN {} ELSE pending[i]
                        /\ conns'[i] = IF i = mi THEN {} ELSE conns[i]
    BY <2>1, Zenon DEF ServerInv, SocketsByPhase, TypeOK, WorkersByPhase, ThreadsByPhase, WorkerDestroy
  <2>4. UNCHANGED <<workers, workers_ready, worker_count>>
    BY Zenon DEF WorkerDestroy
  <2>5. ASSUME NEW i \in Index, pending'[i] # {} \/ conns'[i] # {}
        PROVE  workers = "array" /\ workers_ready /\ i < worker_count /\ i >= mi + 1
    <3>1. i # mi /\ (pending[i] # {} \/ conns[i] # {})
      BY <2>3, <2>5, Zenon
    <3>2. workers = "array" /\ workers_ready /\ i < worker_count /\ i >= mi
      BY <2>1, <3>1, Zenon DEF ServerInv, SocketsByPhase
    <3>3. QED BY <2>1, <3>1, <3>2
  <2>6. QED BY <2>1, <2>2, <2>4, <2>5, SMTT(30) DEF SocketsByPhase
<1>6. OneOwner'
  BY SMTT(30) DEF ServerInv, OneOwner, TypeOK, WorkerDestroy
<1>7. QED BY <1>1, <1>2, <1>3, <1>4, <1>5, <1>6, Zenon DEF ServerInv

(* The array is freed when every worker is destroyed. *)
LEMMA WorkersFreeKeeps ==
  ASSUME ServerInv, WorkersFree PROVE ServerInv'
<1>1. TypeOK'
  BY Zenon DEF ServerInv, TypeOK, WorkersFree
<1>2. WorkersByPhase'
  BY DEF ServerInv, WorkersByPhase, TypeOK, WorkersFree
<1>3. ThreadsByPhase'
  BY Zenon DEF ServerInv, ThreadsByPhase, WorkersFree
<1>4. StopperByPhase'
  BY Zenon DEF ServerInv, StopperByPhase, WorkersFree
<1>5. SocketsByPhase'
  BY SMTT(30) DEF ServerInv, SocketsByPhase, TypeOK, WorkersFree
<1>6. OneOwner'
  BY Zenon DEF ServerInv, OneOwner, WorkersFree
<1>7. QED BY <1>1, <1>2, <1>3, <1>4, <1>5, <1>6, Zenon DEF ServerInv

(* The server is freed last. *)
LEMMA ServerFreeKeeps ==
  ASSUME ServerInv, ServerFree PROVE ServerInv'
<1>1. TypeOK'
  BY Zenon DEF ServerInv, TypeOK, ServerFree
<1>2. WorkersByPhase'
  BY Zenon DEF ServerInv, WorkersByPhase, ServerFree
<1>3. ThreadsByPhase'
  BY Zenon DEF ServerInv, ThreadsByPhase, ServerFree
<1>4. StopperByPhase'
  BY Zenon DEF ServerInv, StopperByPhase, ServerFree
<1>5. SocketsByPhase'
  BY Zenon DEF ServerInv, SocketsByPhase, ServerFree
<1>6. OneOwner'
  BY Zenon DEF ServerInv, OneOwner, ServerFree
<1>7. QED BY <1>1, <1>2, <1>3, <1>4, <1>5, <1>6, Zenon DEF ServerInv

(* A thread ends only where it tests the flag. *)
LEMMA CheckKeeps ==
  ASSUME NEW i \in Index, ServerInv, Check(i) PROVE ServerInv'
<1>1. TypeOK'
  BY DEF ServerInv, TypeOK, Check
<1>2. WorkersByPhase'
  BY Zenon DEF ServerInv, WorkersByPhase, Check
<1>3. ThreadsByPhase'
  BY DEF ServerInv, ThreadsByPhase, Check
<1>4. StopperByPhase'
  BY DEF ServerInv, StopperByPhase, Check
<1>5. SocketsByPhase'
  BY Zenon DEF ServerInv, SocketsByPhase, Check
<1>6. OneOwner'
  BY Zenon DEF ServerInv, OneOwner, Check
<1>7. QED BY <1>1, <1>2, <1>3, <1>4, <1>5, <1>6, Zenon DEF ServerInv

(* A handed-over socket is adopted or closed. *)
LEMMA PollWakeKeeps ==
  ASSUME NEW i \in Index, ServerInv, PollWake(i) PROVE ServerInv'
<1>1. TypeOK'
  BY DEF ServerInv, TypeOK, PollWake
<1>2. WorkersByPhase'
  BY Zenon DEF ServerInv, WorkersByPhase, PollWake
<1>3. ThreadsByPhase'
  BY DEF ServerInv, ThreadsByPhase, PollWake
<1>4. StopperByPhase'
  BY DEF ServerInv, StopperByPhase, PollWake
<1>5. SocketsByPhase'
  BY DEF ServerInv, SocketsByPhase, PollWake
<1>6. OneOwner'
  BY DEF ServerInv, OneOwner, TypeOK, PollWake
<1>7. QED BY <1>1, <1>2, <1>3, <1>4, <1>5, <1>6, Zenon DEF ServerInv

(* A readable connection changes nothing here. *)
LEMMA PollReadKeeps ==
  ASSUME NEW i \in Index, ServerInv, PollRead(i) PROVE ServerInv'
<1>1. TypeOK'
  BY DEF ServerInv, TypeOK, PollRead
<1>2. WorkersByPhase'
  BY Zenon DEF ServerInv, WorkersByPhase, PollRead
<1>3. ThreadsByPhase'
  BY DEF ServerInv, ThreadsByPhase, PollRead
<1>4. StopperByPhase'
  BY DEF ServerInv, StopperByPhase, PollRead
<1>5. SocketsByPhase'
  BY Zenon DEF ServerInv, SocketsByPhase, PollRead
<1>6. OneOwner'
  BY Zenon DEF ServerInv, OneOwner, PollRead
<1>7. QED BY <1>1, <1>2, <1>3, <1>4, <1>5, <1>6, Zenon DEF ServerInv

(* Worker 0 starts to accept. *)
LEMMA PollAcceptKeeps ==
  ASSUME ServerInv, PollAccept PROVE ServerInv'
<1>1. TypeOK'
  BY DEF ServerInv, TypeOK, PollAccept
<1>2. WorkersByPhase'
  BY Zenon DEF ServerInv, WorkersByPhase, PollAccept
<1>3. ThreadsByPhase'
  BY DEF ServerInv, ThreadsByPhase, PollAccept
<1>4. StopperByPhase'
  BY DEF ServerInv, StopperByPhase, PollAccept
<1>5. SocketsByPhase'
  BY Zenon DEF ServerInv, SocketsByPhase, PollAccept
<1>6. OneOwner'
  BY Zenon DEF ServerInv, OneOwner, PollAccept
<1>7. QED BY <1>1, <1>2, <1>3, <1>4, <1>5, <1>6, Zenon DEF ServerInv

(* A thread whose poll fails ends. *)
LEMMA PollFailsKeeps ==
  ASSUME NEW i \in Index, ServerInv, PollFails(i) PROVE ServerInv'
<1>1. TypeOK'
  BY DEF ServerInv, TypeOK, PollFails
<1>2. WorkersByPhase'
  BY Zenon DEF ServerInv, WorkersByPhase, PollFails
<1>3. ThreadsByPhase'
  BY DEF ServerInv, ThreadsByPhase, PollFails
<1>4. StopperByPhase'
  BY DEF ServerInv, StopperByPhase, PollFails
<1>5. SocketsByPhase'
  BY Zenon DEF ServerInv, SocketsByPhase, PollFails
<1>6. OneOwner'
  BY Zenon DEF ServerInv, OneOwner, PollFails
<1>7. QED BY <1>1, <1>2, <1>3, <1>4, <1>5, <1>6, Zenon DEF ServerInv

(* An accepted socket goes to one of the workers, or is closed. *)
LEMMA AcceptKeeps ==
  ASSUME NEW s \in Socks, ServerInv, Accept(s) PROVE ServerInv'
<1>1. TypeOK'
  <2>1. next_worker % worker_count \in Index /\ (next_worker + 1) % CounterMod \in Nat
    BY DEF ServerInv, TypeOK
  <2>2. \A idx \in Index : [pending EXCEPT ![idx] = @ \cup {s}] \in [Index -> SUBSET Socks]
    BY Zenon DEF ServerInv, TypeOK
  <2>3. pending' \in [Index -> SUBSET Socks]
    <3>1. \/ pending' = pending
          \/ pending' = [pending EXCEPT ![next_worker % worker_count] = @ \cup {s}]
      BY Zenon DEF Accept
    <3>2. QED BY <2>1, <2>2, <3>1, SMTT(30) DEF ServerInv, TypeOK
  <2>4. thread' \in [Index -> ThreadPcs]
    BY DEF ServerInv, TypeOK, WorkersByPhase, Accept
  <2>5. QED BY <2>1, <2>3, <2>4, SMTT(30) DEF ServerInv, TypeOK, WorkersByPhase, Accept
<1>2. WorkersByPhase'
  BY Zenon DEF ServerInv, WorkersByPhase, Accept
<1>3. ThreadsByPhase'
  BY Zenon DEF ServerInv, ThreadsByPhase, TypeOK, Accept
<1>4. StopperByPhase'
  BY Zenon DEF ServerInv, StopperByPhase, TypeOK, Accept
<1>5. SocketsByPhase'
  BY SMTT(30) DEF ServerInv, SocketsByPhase, TypeOK, Accept
<1>6. OneOwner'
  <2>1. CASE closed' = closed \cup {s} /\ pending' = pending
    BY <2>1, SMTT(30) DEF ServerInv, OneOwner, TypeOK, Accept
  <2>2. ASSUME NEW idx \in Index, closed' = closed,
               pending' = [pending EXCEPT ![idx] = @ \cup {s}]
        PROVE  OneOwner'
    BY <2>2, SMTT(30) DEF ServerInv, OneOwner, TypeOK, Accept
  <2>3. next_worker % worker_count \in Index
    BY DEF ServerInv, TypeOK
  <2>4. QED BY <2>1, <2>2, <2>3, Zenon DEF Accept
<1>7. QED BY <1>1, <1>2, <1>3, <1>4, <1>5, <1>6, Zenon DEF ServerInv

(* The worker that got it is woken. *)
LEMMA HandKeeps ==
  ASSUME ServerInv, Hand PROVE ServerInv'
<1>1. TypeOK'
  BY DEF ServerInv, TypeOK, Hand
<1>2. WorkersByPhase'
  BY Zenon DEF ServerInv, WorkersByPhase, Hand
<1>3. ThreadsByPhase'
  BY DEF ServerInv, ThreadsByPhase, Hand
<1>4. StopperByPhase'
  BY DEF ServerInv, StopperByPhase, Hand
<1>5. SocketsByPhase'
  BY Zenon DEF ServerInv, SocketsByPhase, Hand
<1>6. OneOwner'
  BY Zenon DEF ServerInv, OneOwner, Hand
<1>7. QED BY <1>1, <1>2, <1>3, <1>4, <1>5, <1>6, Zenon DEF ServerInv

(* Worker 0 stops accepting. *)
LEMMA AcceptDoneKeeps ==
  ASSUME ServerInv, AcceptDone PROVE ServerInv'
<1>1. TypeOK'
  BY DEF ServerInv, TypeOK, AcceptDone
<1>2. WorkersByPhase'
  BY Zenon DEF ServerInv, WorkersByPhase, AcceptDone
<1>3. ThreadsByPhase'
  BY DEF ServerInv, ThreadsByPhase, AcceptDone
<1>4. StopperByPhase'
  BY DEF ServerInv, StopperByPhase, AcceptDone
<1>5. SocketsByPhase'
  BY Zenon DEF ServerInv, SocketsByPhase, AcceptDone
<1>6. OneOwner'
  BY Zenon DEF ServerInv, OneOwner, AcceptDone
<1>7. QED BY <1>1, <1>2, <1>3, <1>4, <1>5, <1>6, Zenon DEF ServerInv

(* A turn ends. *)
LEMMA TurnEndsKeeps ==
  ASSUME NEW i \in Index, ServerInv, TurnEnds(i) PROVE ServerInv'
<1>1. TypeOK'
  BY SMTT(30) DEF ServerInv, TypeOK, TurnEnds
<1>2. WorkersByPhase'
  BY Zenon DEF ServerInv, WorkersByPhase, TurnEnds
<1>3. ThreadsByPhase'
  BY DEF ServerInv, ThreadsByPhase, TurnEnds
<1>4. StopperByPhase'
  BY DEF ServerInv, StopperByPhase, TurnEnds
<1>5. SocketsByPhase'
  BY Zenon DEF ServerInv, SocketsByPhase, TurnEnds
<1>6. OneOwner'
  BY Zenon DEF ServerInv, OneOwner, TurnEnds
<1>7. QED BY <1>1, <1>2, <1>3, <1>4, <1>5, <1>6, Zenon DEF ServerInv

(* A client waits in the backlog of a listener. *)
LEMMA ClientConnectsKeeps ==
  ASSUME NEW s \in Socks, ServerInv, ClientConnects(s) PROVE ServerInv'
<1>1. TypeOK'
  BY SMTT(30) DEF ServerInv, TypeOK, ClientConnects
<1>2. WorkersByPhase'
  BY Zenon DEF ServerInv, WorkersByPhase, ClientConnects
<1>3. ThreadsByPhase'
  BY Zenon DEF ServerInv, ThreadsByPhase, ClientConnects
<1>4. StopperByPhase'
  BY Zenon DEF ServerInv, StopperByPhase, ClientConnects
<1>5. SocketsByPhase'
  BY Zenon DEF ServerInv, SocketsByPhase, ClientConnects
<1>6. OneOwner'
  BY DEF ServerInv, OneOwner, ClientConnects
<1>7. QED BY <1>1, <1>2, <1>3, <1>4, <1>5, <1>6, Zenon DEF ServerInv

(* A signal is taken on the main thread or on a running worker's. *)
LEMMA SignalKeeps ==
  ASSUME NEW t \in Index \cup {Main}, ServerInv, Signal(t) PROVE ServerInv'
<1>1. TypeOK'
  BY DEF ServerInv, TypeOK, Signal
<1>2. WorkersByPhase'
  BY Zenon DEF ServerInv, WorkersByPhase, Signal
<1>3. ThreadsByPhase'
  BY Zenon DEF ServerInv, ThreadsByPhase, Signal
<1>4. StopperByPhase'
  BY Zenon DEF ServerInv, StopperByPhase, ThreadsByPhase, Signal
<1>5. SocketsByPhase'
  BY Zenon DEF ServerInv, SocketsByPhase, Signal
<1>6. OneOwner'
  BY Zenon DEF ServerInv, OneOwner, Signal
<1>7. QED BY <1>1, <1>2, <1>3, <1>4, <1>5, <1>6, Zenon DEF ServerInv

(* The stop goes on to the next worker. *)
LEMMA StopWakesKeeps ==
  ASSUME ServerInv, StopWakes PROVE ServerInv'
<1>1. TypeOK'
  <2>1. stopper' = [on |-> stopper.on, k |-> stopper.k + 1]
    BY Zenon DEF ServerInv, TypeOK, WorkersByPhase, StopWakes
  <2>2. stopper.on \in -1 .. MaxWorkers /\ stopper.k + 1 \in Nat
    BY SMTT(30) DEF ServerInv, TypeOK, WorkersByPhase, StopWakes
  <2>3. stopper' \in [on : -1 .. MaxWorkers, k : Nat]
    BY <2>1, <2>2, Zenon DEF ServerInv, TypeOK, WorkersByPhase, StopWakes
  <2>4. QED BY <2>1, <2>2, <2>3, SMTT(30) DEF ServerInv, TypeOK, WorkersByPhase, StopWakes
<1>2. WorkersByPhase'
  BY Zenon DEF ServerInv, WorkersByPhase, StopWakes
<1>3. ThreadsByPhase'
  BY Zenon DEF ServerInv, ThreadsByPhase, StopWakes
<1>4. StopperByPhase'
  BY DEF ServerInv, StopperByPhase, StopWakes
<1>5. SocketsByPhase'
  BY Zenon DEF ServerInv, SocketsByPhase, StopWakes
<1>6. OneOwner'
  BY Zenon DEF ServerInv, OneOwner, StopWakes
<1>7. QED BY <1>1, <1>2, <1>3, <1>4, <1>5, <1>6, Zenon DEF ServerInv

(* The stop is over. *)
LEMMA StopReturnsKeeps ==
  ASSUME ServerInv, StopReturns PROVE ServerInv'
<1>1. TypeOK'
  BY DEF ServerInv, TypeOK, StopReturns
<1>2. WorkersByPhase'
  BY Zenon DEF ServerInv, WorkersByPhase, StopReturns
<1>3. ThreadsByPhase'
  BY Zenon DEF ServerInv, ThreadsByPhase, StopReturns
<1>4. StopperByPhase'
  BY Zenon DEF ServerInv, StopperByPhase, StopReturns
<1>5. SocketsByPhase'
  BY Zenon DEF ServerInv, SocketsByPhase, StopReturns
<1>6. OneOwner'
  BY Zenon DEF ServerInv, OneOwner, StopReturns
<1>7. QED BY <1>1, <1>2, <1>3, <1>4, <1>5, <1>6, Zenon DEF ServerInv

(* The invariant holds in the initial state, and every step keeps it. *)
LEMMA ServerInvInit == Init => ServerInv
<1>1. SUFFICES ASSUME Init PROVE ServerInv
  BY Zenon
<1>2. TypeOK
  <2>1. \A S : <<>> \in Seq(S)
    OBVIOUS
  <2>2. started \in [Index -> BOOLEAN]
    BY <1>1, Zenon DEF Init
  <2>3. made \in [Index -> 0 .. InitSteps] /\ thread \in [Index -> ThreadPcs]
    BY <1>1 DEF Init
  <2>4. pending \in [Index -> SUBSET Socks] /\ conns \in [Index -> SUBSET Socks]
    BY <1>1, Zenon DEF Init
  <2>5. stopper \in [on : -1 .. MaxWorkers, k : Nat]
    BY <1>1 DEF Init
  <2>6. /\ worker_count \in 1 .. MaxWorkers /\ target \in Index
        /\ mi \in Nat /\ registered \in Nat /\ next_worker \in Nat
    BY <1>1 DEF Init
  <2>7. workers_ready \in BOOLEAN /\ stopping \in BOOLEAN
    BY <1>1, Zenon DEF Init
  <2>8. QED BY <1>1, <2>1, <2>2, <2>3, <2>4, <2>5, <2>6, <2>7, Zenon DEF Init, TypeOK
<1>3. WorkersByPhase /\ ThreadsByPhase /\ StopperByPhase
  BY <1>1, Zenon DEF Init, WorkersByPhase, ThreadsByPhase, StopperByPhase
<1>4. SocketsByPhase /\ OneOwner
  BY <1>1 DEF Init, SocketsByPhase, OneOwner
<1>5. QED BY <1>2, <1>3, <1>4, Zenon DEF ServerInv

LEMMA ServerInvNext ==
  ASSUME ServerInv, [Next]_vars PROVE ServerInv'
<1>1. CASE MainNext
  BY <1>1, ServerInitKeeps, SetupKeeps, BindKeeps, WorkerInitKeeps, BindAddressKeeps,
     BindReturnsKeeps, ListenKeeps, CreateThreadKeeps, CreateFailsKeeps, JoinKeeps,
     RunReturnsKeeps, DestroyKeeps, WorkerDestroyKeeps, WorkersFreeKeeps, ServerFreeKeeps, Zenon
  DEF MainNext
<1>2. CASE StopperNext
  BY <1>2, StopWakesKeeps, StopReturnsKeeps, Zenon DEF StopperNext
<1>3. CASE OutsideNext
  BY <1>3, ClientConnectsKeeps, SignalKeeps, PollFailsKeeps, Zenon DEF OutsideNext
<1>4. ASSUME NEW i \in Index, LoopNext(i) \/ PollRead(i) \/ TurnEnds(i)
      PROVE  ServerInv'
  BY <1>4, CheckKeeps, PollWakeKeeps, PollReadKeeps, TurnEndsKeeps,
     PollAcceptKeeps, HandKeeps, AcceptDoneKeeps, AcceptKeeps, Zenon
  DEF LoopNext
<1>5. CASE UNCHANGED vars
  <2>1. UNCHANGED <<life, net, ctl, run, socks>>
    BY <1>5, Zenon DEF vars
  <2>2. TypeOK'
    BY <2>1, ZenonT(40) DEF ServerInv, TypeOK
  <2>3. WorkersByPhase' /\ ThreadsByPhase' /\ StopperByPhase'
    BY <2>1, Zenon DEF ServerInv, WorkersByPhase, ThreadsByPhase, StopperByPhase
  <2>4. SocketsByPhase' /\ OneOwner'
    BY <2>1, Zenon DEF ServerInv, SocketsByPhase, OneOwner
  <2>5. QED BY <2>2, <2>3, <2>4, Zenon DEF ServerInv
<1>6. QED BY <1>1, <1>2, <1>3, <1>4, <1>5, Zenon DEF Next

(* ServerInv holds in every state of the server's life. *)
THEOREM ServerInvariant == Spec => []ServerInv
<1>1. QED BY ServerInvInit, ServerInvNext, PTL DEF Spec

(* No worker thread and no stop in progress meets a destroyed worker, for   *)
(* every number of workers: a thread or a handler runs only while the main  *)
(* thread is inside wirecall_server_run, and a stop of its own in           *)
(* wirecall_server_destroy ends before the first worker_destroy.            *)
THEOREM NoUseAfterDestroy == Spec => []NothingUsedAfterDestroy
<1>1. ServerInv => NothingUsedAfterDestroy
  <2>1. SUFFICES ASSUME ServerInv, stopper # NoStopper \/ \E i \in Index : Running(i)
                 PROVE  /\ main \in {"create", "join", "unwind", "down"}
                        /\ main = "down" => mi = 0
    BY <2>1, SMTT(30) DEF NothingUsedAfterDestroy, ServerInv, TypeOK, WorkersByPhase
  <2>2. QED BY <2>1, Zenon DEF ServerInv, TypeOK, ThreadsByPhase, StopperByPhase
<1>2. QED BY <1>1, ServerInvariant, PTL

(* When the program is past wirecall_server_destroy, nothing is left of     *)
(* what wirecall_server_bind, listen, run and accept_ready acquired.        *)
THEOREM EverythingReleased == Spec => []AllReleased
<1>1. ServerInv => AllReleased
  BY ZenonT(40) DEF AllReleased, ServerInv, TypeOK, WorkersByPhase, ThreadsByPhase, SocketsByPhase, OneOwner
<1>2. QED BY <1>1, ServerInvariant, PTL

(* The port that wirecall_server_port reports is the listeners' port, for   *)
(* any number of addresses, listeners and calls of wirecall_server_bind.    *)
THEOREM PortIsShared == Spec => []OnePort
<1>1. Init => OnePort
  BY Zenon DEF Init, OnePort
<1>2. ServerInv /\ OnePort /\ [Next]_vars => OnePort'
  <2>1. SUFFICES ASSUME ServerInv, OnePort, [Next]_vars PROVE OnePort'
    BY Zenon
  <2>2. CASE BindAddress
    <3>1. CASE UNCHANGED <<listeners, port>>
      BY <3>1, <2>1, Zenon DEF OnePort
    <3>2. ASSUME NEW p \in BindPort, listeners' = Append(listeners, p), port' = p
          PROVE  OnePort'
      <4>1. Len(listeners') = Len(listeners) + 1 /\ listeners'[Len(listeners')] = p
        BY <3>2 DEF ServerInv, TypeOK
      <4>2. CASE port # 0 /\ listeners # <<>>
        <5>1. PICK n \in 1 .. Len(listeners) :
                \A l \in n .. Len(listeners) : listeners[l] = port
          BY <2>1, <4>2, Zenon DEF OnePort
        <5>2. p = port
          BY <4>2, Zenon
        <5>3. \A l \in 1 .. Len(listeners) : listeners'[l] = listeners[l]
          BY <3>2 DEF ServerInv, TypeOK
        <5>4. \A l \in n .. Len(listeners') : listeners'[l] = port'
          BY <3>2, <4>1, <5>1, <5>2, <5>3, SMTT(30) DEF ServerInv, TypeOK
        <5>5. QED BY <4>1, <5>4 DEF OnePort, ServerInv, TypeOK
      <4>3. CASE port = 0 \/ listeners = <<>>
        BY <3>2, <4>1, <4>3 DEF OnePort, ServerInv, TypeOK
      <4>4. QED BY <4>2, <4>3, Zenon
    <3>3. \/ UNCHANGED <<listeners, port>>
          \/ \E p \in BindPort : listeners' = Append(listeners, p) /\ port' \in {p, 0}
      BY <2>2, Zenon DEF BindAddress
    <3>4. \A p \in BindPort : port # 0 => p = port
      BY Zenon
    <3>5. CASE port' = 0
      BY <3>5, Zenon DEF OnePort
    <3>6. QED BY <3>1, <3>2, <3>3, <3>5, Zenon
  <2>3. CASE WorkerDestroy
    BY <2>3, <2>1, Zenon DEF WorkerDestroy, OnePort
  <2>4. CASE UNCHANGED <<listeners, port>>
    BY <2>4, <2>1, Zenon DEF OnePort
  <2>5. BindAddress \/ WorkerDestroy \/ UNCHANGED <<listeners, port>>
    BY <2>1, Zenon DEF Next, MainNext, StopperNext, OutsideNext, LoopNext, vars, ServerInit,
        Setup, Bind, WorkerInit,
       BindReturns, Listen, CreateThread, CreateFails, Join, RunReturns, Destroy, WorkersFree,
       ServerFree, Check, PollWake, PollRead, PollAccept, PollFails, Accept, Hand, AcceptDone,
       TurnEnds, ClientConnects, Signal, StopWakes, StopReturns
  <2>6. QED BY <2>2, <2>3, <2>4, <2>5, Zenon
<1>3. QED BY <1>1, <1>2, ServerInvariant, PTL DEF Spec

(*****************************************************************************)
(* The program around the server: it implements the server's specification,  *)
(* and a job on a coroutine's stack outlives its use.                        *)
(*****************************************************************************)

(* What the program does beside the queue's thread and the coroutines is a  *)
(* step of the server.                                                      *)
LEMMA AsyncStepIsServerStep == [AsyncNext]_allVars => [Next]_vars
<1>1. SUFFICES ASSUME [AsyncNext]_allVars PROVE [Next]_vars
  BY Zenon
<1>2. CASE ProgramNext
  BY <1>2, Zenon DEF ProgramNext, QueueStart, QueueStop, QueueJoin, Next
<1>3. CASE QueueNext
  BY <1>3, Zenon DEF QueueNext, QueuePop, QueueAdd, QueueStore
<1>4. CASE StopperNext \/ OutsideNext
  BY <1>4, Zenon DEF Next
<1>5. ASSUME NEW i \in Index, WorkerNext(i) PROVE [Next]_vars
  BY <1>5, Zenon DEF WorkerNext, Push, Test, ReadyDone, Next
<1>6. ASSUME NEW i \in Index, NEW j \in Jobs, Submit(i, j) PROVE [Next]_vars
  BY <1>6, Zenon DEF Submit, Next
<1>7. CASE UNCHANGED allVars
  BY <1>7, Zenon DEF allVars
<1>8. QED BY <1>1, <1>2, <1>3, <1>4, <1>5, <1>6, <1>7, Zenon DEF AsyncNext

(* The asynchronous demo with its queue and coroutines only ever does to    *)
(* the server what the server's own specification allows.                   *)
THEOREM AsyncImplementsServer == AsyncSpec => Spec
<1>1. AsyncInit => Init
  BY Zenon DEF AsyncInit
<1>2. QED BY <1>1, AsyncStepIsServerStep, PTL DEF AsyncSpec, Spec

(* Hence what is proved of the server holds in the program. *)
THEOREM AsyncServerInvariant == AsyncSpec => []ServerInv
  BY AsyncImplementsServer, ServerInvariant, PTL

(* No step of the server but the end of the turn takes a worker out of      *)
(* wirecall_scheduler_run_ready.                                            *)
LEMMA ServerKeepsReady ==
  ASSUME ServerInv, MainNext \/ StopperNext \/ OutsideNext \/ \E i \in Index : LoopNext(i)
  PROVE  \A k \in Index : thread[k] = "ready" => thread'[k] = "ready"
<1>1. CASE MainNext
  <2>1. CASE CreateThread
    BY <2>1 DEF CreateThread, ServerInv, TypeOK, ThreadsByPhase, At, Index
  <2>2. CASE Join
    BY <2>2, Zenon DEF Join, ServerInv, TypeOK, ThreadsByPhase, At, Index
  <2>3. CreateThread \/ Join \/ UNCHANGED thread
    BY <1>1, Zenon DEF MainNext, ServerInit, Setup, Bind, WorkerInit, BindAddress, BindReturns,
       Listen, CreateFails, RunReturns, Destroy, WorkerDestroy, WorkersFree, ServerFree, run
  <2>4. QED BY <2>1, <2>2, <2>3, Zenon
<1>2. CASE StopperNext \/ OutsideNext
  BY <1>2, Zenon DEF StopperNext, StopWakes, StopReturns, OutsideNext, ClientConnects, Signal, PollFails,
              Runs, Step, ServerInv, TypeOK, run
<1>3. ASSUME NEW i \in Index, LoopNext(i)
      PROVE  \A k \in Index : thread[k] = "ready" => thread'[k] = "ready"
  BY <1>3, ZenonT(40) DEF LoopNext, Check, PollWake, PollAccept, Hand, AcceptDone, Accept, Runs, Step,
                     ServerInv, TypeOK
<1>4. QED BY <1>1, <1>2, <1>3, Zenon

(* Steps that leave the jobs alone. *)
LEMMA JobsUnchanged ==
  ASSUME JobInv, JobsAlive, UNCHANGED jobVars,
         \A k \in Index : thread[k] = "ready" => thread'[k] = "ready"
  PROVE  JobInv' /\ JobsAlive'
  BY Zenon DEF JobInv, JobsAlive, jobVars

(* The program's main thread: when it destroys a worker, the worker's list  *)
(* of coroutines is empty.                                                  *)
LEMMA ProgramKeepsJobs ==
  ASSUME ServerInv, JobInv, JobsAlive, ProgramNext
  PROVE  JobInv' /\ JobsAlive'
<1>1. CASE QueueStart \/ QueueStop \/ QueueJoin
  BY <1>1, SMTT(30) DEF QueueStart, QueueStop, QueueJoin, JobInv, JobsAlive, vars, run
<1>2. CASE MainNext /\ main = "down" /\ mi < worker_count /\ Drained
           /\ UNCHANGED <<done, queue, qstopping, qthread, qjob>>
  <2>1. mi \in Index /\ ready[mi] = <<>>
    <3>1. mi \in Index
      BY <1>2, MaxWorkersAssumption DEF ServerInv, TypeOK, Index
    <3>2. thread[mi] = "none"
      BY <1>2, <3>1, Zenon DEF ServerInv, ThreadsByPhase
    <3>3. QED BY <3>1, <3>2, Zenon DEF JobInv
  <2>2. ready' = ready /\ frame' = frame
    <3>1. ready' = ready
      BY <1>2, <2>1, Zenon DEF Drained, JobInv
    <3>2. frame' = [j \in Jobs |-> frame[j]]
      BY <1>2, <2>1 DEF Drained
    <3>3. QED BY <3>1, <3>2, Zenon DEF JobInv
  <2>3. QED BY <1>2, <2>2, ServerKeepsReady, JobsUnchanged, Zenon DEF jobVars
<1>3. CASE MainNext /\ UNCHANGED jobVars
  BY <1>3, ServerKeepsReady, JobsUnchanged, Zenon
<1>4. QED BY <1>1, <1>2, <1>3, Zenon DEF ProgramNext, jobVars

(* The queue's thread: a job it pops is in the queue no more, and it lets   *)
(* go of the job when it sets the flag.                                     *)
LEMMA QueueKeepsJobs ==
  ASSUME JobInv, JobsAlive, QueueNext
  PROVE  JobInv' /\ JobsAlive'
<1>1. CASE QueuePop /\ queue # <<>>
  <2>1. Head(queue) \in Jobs /\ Head(queue) = queue[1] /\ Tail(queue) \in Seq(Jobs)
    BY <1>1 DEF JobInv
  <2>2. Len(Tail(queue)) = Len(queue) - 1
        /\ \A n \in 1 .. Len(Tail(queue)) : Tail(queue)[n] = queue[n + 1]
    BY <1>1 DEF JobInv
  <2>3. qjob' = <<queue[1]>> /\ queue' = Tail(queue) /\ qthread' = "add"
        /\ UNCHANGED <<ready, frame, done, thread>>
    BY <1>1, <2>1, Zenon DEF QueuePop, vars, run
  <2>4. 1 \in 1 .. Len(queue) /\ \A n \in 1 .. Len(Tail(queue)) : n + 1 \in 1 .. Len(queue)
    BY <1>1, <2>2, SMTT(30) DEF JobInv
  <2>5. JobInv'
    BY <2>1, <2>2, <2>3, <2>4 DEF JobInv
  <2>6. JobsAlive'
    BY <2>1, <2>2, <2>3, <2>4, ZenonT(40) DEF JobsAlive
  <2>7. QED BY <2>5, <2>6, Zenon
<1>2. CASE QueuePop /\ queue = <<>>
  BY <1>2 DEF QueuePop, JobInv, JobsAlive, vars, run
<1>3. CASE QueueAdd
  BY <1>3, Zenon DEF QueueAdd, JobInv, JobsAlive, vars, run
<1>4. CASE QueueStore
  <2>1. PICK j \in Jobs : qjob = <<j>>
    BY <1>4, Zenon DEF QueueStore, JobInv
  <2>2. done' = [done EXCEPT ![j] = TRUE] /\ qjob' = <<>> /\ qthread' = "pop"
        /\ UNCHANGED <<ready, frame, queue, thread>>
    BY <1>4, <2>1, Zenon DEF QueueStore, vars, run
  <2>3. done' \in [Jobs -> BOOLEAN]
    BY <2>2, Zenon DEF JobInv
  <2>4. \A n \in 1 .. Len(queue) : queue[n] \in Jobs /\ queue[n] # j
    BY <2>1 DEF JobInv
  <2>5. \A n \in 1 .. Len(queue) : done'[queue[n]] = done[queue[n]]
    BY <2>2, <2>4, Zenon DEF JobInv
  <2>6. \A k \in Jobs : done'[k] => frame[k] = "pushed"
    BY <2>1, <2>2, Zenon DEF JobInv, JobsAlive
  <2>7. JobsAlive'
    BY <2>2, Zenon DEF JobsAlive
  <2>8. JobInv'
    BY <2>2, <2>3, <2>4, <2>5, <2>6 DEF JobInv
  <2>9. QED BY <2>7, <2>8, Zenon
<1>5. QED BY <1>1, <1>2, <1>3, <1>4, Zenon DEF QueueNext

(* A coroutine pushes its job: it is in no queue yet. *)
LEMMA PushKeepsJobs ==
  ASSUME ServerInv, JobInv, JobsAlive, NEW i \in Index, Push(i)
  PROVE  JobInv' /\ JobsAlive'
<1> DEFINE j == Head(ready[i])
<1>1. j \in Jobs /\ frame[j] = "entry"
  BY DEF Push, JobInv
<1>2. queue' = Append(queue, j) /\ frame' = [frame EXCEPT ![j] = "pushed"]
      /\ UNCHANGED <<ready, done, qthread, qjob, thread>>
  BY Zenon DEF Push, vars, run
<1> HIDE DEF j
<1>3. /\ queue' \in Seq(Jobs) /\ Len(queue') = Len(queue) + 1 /\ queue'[Len(queue) + 1] = j
      /\ \A n \in 1 .. Len(queue) : queue'[n] = queue[n] /\ queue[n] \in Jobs /\ queue[n] # j
  BY <1>1, <1>2 DEF JobInv, JobsAlive
<1>4. qjob # <<>> => qjob[1] \in Jobs /\ qjob[1] # j
  BY <1>1 DEF JobInv, JobsAlive
<1>5. JobsAlive'
  BY <1>1, <1>2, <1>3, <1>4, SMTT(30) DEF JobInv, JobsAlive
<1>6. ~done[j]
  BY <1>1, Zenon DEF JobInv
<1>7. JobInv'
  BY <1>1, <1>2, <1>3, <1>4, <1>6, SMTT(30) DEF JobInv
<1>8. QED BY <1>5, <1>7, Zenon

(* A coroutine tests the flag: set, no one but the coroutine has the job. *)
LEMMA TestKeepsJobs ==
  ASSUME ServerInv, JobInv, JobsAlive, NEW i \in Index, Test(i)
  PROVE  JobInv' /\ JobsAlive'
<1> DEFINE j == Head(ready[i])
<1>1. j \in Jobs /\ frame[j] = "pushed" /\ ready[i] \in Seq(Jobs) /\ ready[i] # <<>>
  BY DEF Test, JobInv
<1>2. thread[i] = "ready" /\ UNCHANGED <<queue, qthread, qjob, thread>>
  BY Zenon DEF Test, Runs, vars, run
<1>3. CASE done[j]
  <2>1. /\ frame' = [frame EXCEPT ![j] = "returned"] /\ done' = [done EXCEPT ![j] = FALSE]
        /\ ready' = [ready EXCEPT ![i] = Tail(@)]
    BY <1>3, Zenon DEF Test
  <2> HIDE DEF j
  <2>2. ready' \in [Index -> Seq(Jobs)]
    BY <1>1, <2>1 DEF JobInv
  <2>3. done' \in [Jobs -> BOOLEAN]
    BY <1>1, <2>1, Zenon DEF JobInv
  <2>4. \A n \in 1 .. Len(queue) : queue[n] \in Jobs /\ queue[n] # j
    BY <1>3 DEF JobInv
  <2>5. qjob # <<>> => qjob[1] \in Jobs /\ qjob[1] # j
    BY <1>3 DEF JobInv
  <2>6. JobsAlive'
    BY <1>1, <1>2, <2>1, <2>4, <2>5, Zenon DEF JobInv, JobsAlive
  <2>7. \A k \in Index : ready'[k] # <<>> => thread[k] = "ready"
    BY <1>1, <1>2, <2>1, Zenon DEF JobInv
  <2>8. \A k \in Jobs : done'[k] => frame'[k] = "pushed"
    BY <1>1, <2>1, Zenon DEF JobInv
  <2>9. JobInv'
    BY <1>1, <1>2, <2>1, <2>2, <2>3, <2>4, <2>5, <2>7, <2>8 DEF JobInv
  <2>10. QED BY <2>6, <2>9, Zenon
<1>4. CASE ~done[j]
  <2>1. ready' = [ready EXCEPT ![i] = Requeued(@)] /\ UNCHANGED <<frame, done>>
    BY <1>4, Zenon DEF Test
  <2>2. Requeued(ready[i]) \in Seq(Jobs)
    BY <1>1 DEF Requeued
  <2>3. ready' \in [Index -> Seq(Jobs)] /\ \A k \in Index : ready'[k] # <<>> => thread[k] = "ready"
    BY <1>2, <2>1, <2>2, Zenon DEF JobInv
  <2>4. QED BY <1>2, <2>1, <2>3, Zenon DEF JobInv, JobsAlive
<1>5. QED BY <1>3, <1>4, Zenon

(* A request becomes a coroutine. *)
LEMMA SubmitKeepsJobs ==
  ASSUME ServerInv, JobInv, JobsAlive, NEW i \in Index, NEW j \in Jobs, Submit(i, j)
  PROVE  JobInv' /\ JobsAlive'
<1>1. thread' = [thread EXCEPT ![i] = "ready"] /\ UNCHANGED <<done, queue, qthread, qjob>>
      /\ frame[j] = "none" /\ thread[i] = "poll"
  BY Zenon DEF Submit, PollRead, Step, Runs
<1>2. \A k \in Index : thread[k] = "ready" => thread'[k] = "ready"
  BY <1>1, Zenon DEF ServerInv, TypeOK
<1>3. thread'[i] = "ready"
  BY <1>1, Zenon DEF ServerInv, TypeOK
<1>4. CASE UNCHANGED <<frame, ready>>
  BY <1>1, <1>2, <1>4 DEF JobInv, JobsAlive
<1>5. CASE frame' = [frame EXCEPT ![j] = "entry"] /\ ready' = [ready EXCEPT ![i] = Append(@, j)]
  <2>1. ready' \in [Index -> Seq(Jobs)] /\ \A k \in Index : ready'[k] # <<>> => thread'[k] = "ready"
    BY <1>2, <1>3, <1>5, SMTT(30) DEF JobInv
  <2>2. \A n \in 1 .. Len(queue) : queue[n] \in Jobs /\ queue[n] # j
    BY <1>1 DEF JobInv, JobsAlive
  <2>3. qjob # <<>> => qjob[1] \in Jobs /\ qjob[1] # j
    BY <1>1 DEF JobInv, JobsAlive
  <2>4. JobsAlive'
    BY <1>1, <1>5, <2>2, <2>3, Zenon DEF JobInv, JobsAlive
  <2>5. \A k \in Jobs : done[k] => frame'[k] = "pushed"
    BY <1>1, <1>5, Zenon DEF JobInv
  <2>6. JobInv'
    BY <1>1, <1>5, <2>1, <2>5, SMTT(30) DEF JobInv
  <2>7. QED BY <2>4, <2>6, Zenon
<1>6. QED BY <1>4, <1>5, Zenon DEF Submit

(* run_ready returns with an empty list. *)
LEMMA ReadyDoneKeepsJobs ==
  ASSUME ServerInv, JobInv, JobsAlive, NEW i \in Index, ReadyDone(i)
  PROVE  JobInv' /\ JobsAlive'
<1>1. ready[i] = <<>> /\ thread' = [thread EXCEPT ![i] = "check"] /\ UNCHANGED jobVars
  BY Zenon DEF ReadyDone, TurnEnds, Step
<1>2. \A k \in Index : ready[k] # <<>> => thread'[k] = "ready"
  BY <1>1, Zenon DEF ServerInv, TypeOK, JobInv
<1>3. QED BY <1>1, <1>2 DEF JobInv, JobsAlive, jobVars

(* JobInv and JobsAlive hold initially. *)
LEMMA JobsInit == AsyncInit => JobInv /\ JobsAlive
<1>1. SUFFICES ASSUME AsyncInit PROVE JobInv /\ JobsAlive
  BY Zenon
<1>2. \A S : <<>> \in Seq(S)
  OBVIOUS
<1>3. done \in [Jobs -> BOOLEAN]
  BY <1>1, Zenon DEF AsyncInit
<1>4. ready \in [Index -> Seq(Jobs)]
  BY <1>1, <1>2, Zenon DEF AsyncInit
<1>5. QED BY <1>1, <1>2, <1>3, <1>4 DEF AsyncInit, JobInv, JobsAlive

(* The invariants of the server, of the ready lists and of the jobs hold    *)
(* together in the program: run_ready ends with an empty list, and a job is *)
(* in one place at a time.                                                  *)
THEOREM AsyncInvariant == AsyncSpec => []AsyncInv
<1>1. ASSUME ServerInv, JobInv, JobsAlive, [AsyncNext]_allVars PROVE JobInv' /\ JobsAlive'
  <2>1. CASE ProgramNext
    BY <1>1, <2>1, ProgramKeepsJobs, Zenon
  <2>2. CASE QueueNext
    BY <1>1, <2>2, QueueKeepsJobs, Zenon
  <2>3. CASE (StopperNext \/ OutsideNext) /\ UNCHANGED jobVars
    BY <1>1, <2>3, ServerKeepsReady, JobsUnchanged, Zenon
  <2>4. ASSUME NEW i \in Index, WorkerNext(i) PROVE JobInv' /\ JobsAlive'
    BY <1>1, <2>4, ServerKeepsReady, JobsUnchanged, PushKeepsJobs, TestKeepsJobs,
       ReadyDoneKeepsJobs, Zenon
    DEF WorkerNext
  <2>5. ASSUME NEW i \in Index, NEW j \in Jobs, Submit(i, j) PROVE JobInv' /\ JobsAlive'
    BY <1>1, <2>5, SubmitKeepsJobs, Zenon
  <2>6. CASE UNCHANGED allVars
    BY <1>1, <2>6, JobsUnchanged, Zenon DEF allVars, vars, run
  <2>7. QED BY <1>1, <2>1, <2>2, <2>3, <2>4, <2>5, <2>6, Zenon DEF AsyncNext
<1>2. QED BY <1>1, JobsInit, AsyncServerInvariant, PTL DEF AsyncSpec, AsyncInv

(* A job that the queue holds or its thread works on is on the stack of a   *)
(* coroutine that has not returned, for any number of workers, clients and  *)
(* jobs, through a stop and the destruction of the server.                  *)
THEOREM JobsStayAlive == AsyncSpec => []JobsAlive
<1>1. AsyncInv => JobsAlive
  BY Zenon DEF AsyncInv
<1>2. QED BY <1>1, AsyncInvariant, PTL

=============================================================================
