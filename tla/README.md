# A TLA+ model of wirecall

wirecall is a C library for named procedure calls over TCP. This directory holds
TLA+ modules for its parts, the TLC configurations that check them on small
instances, and TLAPS proofs of the main results about the route table, a worker's
event loop, the three backends, the life of a server and the client. `PROJECT.json`
maps every definition to the source lines it stands for and lists runs, hazards,
findings and theorems.

## The system

| Part | Source | State | Operations | Modules |
| --- | --- | --- | --- | --- |
| Route table | `src/routes.c` | paged slots of immutable chains, `active_readers`, `mutate_lock`, retired list | lookup, add, remove, destroy | `Routes`, `RouteMap` |
| Worker, scheduler, arenas | `src/server.c`, `src/scheduler.c`, `include/arena.h` | connections, deferred calls, ready list, pending writes | one iteration of `worker_run` and the calls it makes | `Worker` |
| Server | `src/server.c` | workers, listeners, `stopping`, `next_worker` | init, bind, listen, run, stop, destroy | `Server` |
| Async demo | `demos/async/server.c` | job queue, its thread, coroutines that yield | a whole program around the server | `AsyncServer` |
| Backends | `src/backend/*.c` | watches or filters, wake descriptor | register, modify, remove, poll, wake | `Uring`, `Kqueue`, `Windows` |
| Protocol | `src/protocol.c` | none | encode, decode, checksum, MAC | `Packet` |
| Payload | `src/payload.c` | writer's buffer, value array | write, decode, free | `Payload`, `Message` |
| Client | `src/client.c` | read buffer, next call id | connect, call, send, receive, ping, close | `Client` |
| Tracing | `src/trace.c` | counters, switch | begin, end, reset, dump | `Trace` |
| Benchmark | `demos/bench.c` | client threads, start gate, latencies | a whole program around the client | `Bench` |

Each worker owns a backend, its connections, its deferred calls and a scheduler,
and runs on one thread. Worker 0 accepts and hands sockets to the workers in
turn through their pending lists. A worker reads packets, looks the procedure up
in the shared route table and runs a sync handler at once, submits a coroutine,
or starts a deferred call. A deferred call is completed by any thread, which
puts it on the worker's completed list and wakes the worker. Routes are added
and removed by any thread while lookups run. Stop sets a flag and wakes every
worker; run joins them and destroy frees what they own. A client makes one call
at a time or pipelines them over one connection.

What makes this hard: lookups take no lock and memory is reclaimed behind them;
arena slots are reused last-in first-out while other code still holds pointers
to them; two threads may race to complete one call; hand-overs race with the
worker going to sleep; a batch of events is handled while its events destroy
connections; the stop comes from a signal handler at any moment; a stream is
read in pieces that no packet boundary respects; and every allocation may fail,
because the embedder supplies the allocator.

## The modules

**`Routes`** models `routes.c`. One action is one access to shared memory by one
thread, or code between two such accesses that touches only memory the thread
owns. `pc`, `key`, `cur` and `route` are the thread's position and locals. A
chain is an allocation with a set of registrations; its `state` goes from
`unused` to `live` (in a slot), `unlinked` (held by the thread that replaced
it), then `retired`, `freed`, or `leaked` when `retire_route` cannot allocate
its node. `finalProc` is what `finalize_one` and `finalize_proc_id` say.
`slots` is the table as the holder of `mutate_lock` sees it and `visible` as
the others do: with `StoreBuffering` a slot store, which is a release store and
hence a plain one on x86, reaches the others later (`Drain`), at the latest with
the unlock. Locked instructions and the mutex drain the buffer. With
`AllocMayFail` every `calloc` and page mapping may return NULL. Reading a freed
chain returns an arbitrary registration. A handler runs between `lookup` and
`HandlerReturns`, with no reader counted, as in `handle_sync_call`.

**`RouteMap`** is what the table promises: a map from procedures to
registrations whose lookups, puts, deletes and final drop each take one step.

**`Worker`** models one worker that is not worker 0, its scheduler, its arenas,
and the threads and clients around it. `conn` and `defer` are the arenas,
`connFree` and `deferFree` their free lists (free list and watermark together).
A connection keeps its socket, `closing`, `detached`, the number of packets
unsent, `queued` (it is on `pending_writes`), `write` (WRITE interest) and
`pending_deferred`. `pc` follows `worker_run`: test `stopping`, poll, handle the
events in any order, run the scheduler, drain, flush. Reading and parsing go
packet by packet, so another thread may act between any two. One `recv` returns
any number of the packets that have arrived. Handing something to the worker is
two steps, the list and then the wake (`wakers`). Packets have kinds, not bytes:
`now` is everything `handle_packet` answers itself, `bad` one that does not
decode or verify. `answered` and `misrouted` are history. Readiness stands for
the backends: a poll reports each ready connection once, as one event, or as two
with `SplitEvents` (kqueue).

**`Server`** follows the main thread of a program (`main`, with `mi` the index of
the loop it is in), one thread per worker (`thread`), and one stop (`stopper`)
that a signal handler starts on any of them. `made` counts the steps of
`worker_init` that are done, so that it can fail after each. `listeners`,
`registered` and `port` are what bind and listen leave, also when a bind is
repeated or `getsockname` fails. Of a worker's loop it has what crosses threads:
the wake, accepting on worker 0, and sockets handed over with `next_worker`. The
calls come in the order in which the repository's programs make them.

**`AsyncServer`** extends `Server` to the program `demos/async/server.c`. A job
lives on the stack of the coroutine that made it (`frame`); the queue's thread
pops it, works and sets `done`; the coroutine yields until it sees that. A worker
is in `wirecall_scheduler_run_ready` until its list is empty, whatever `stopping`
says. `AsyncSpec` implements the specification of `Server`.

**`Uring`** models `backend/io_uring.c` and what it uses of the kernel. `events`,
`user`, `active` and `armed` are the fields of the watches, one per descriptor
number and never freed. `polls` counts the one-shot polls outstanding, each with
the file it was asked for, and `cq` is the completion queue. A POLL_ADD on a
ready file completes at once, others later (`Fire`). A POLL_REMOVE ends any one
poll with the watch's address. `wirecall_backend_poll` is one step per
completion; register, modify, remove with close, and reads happen between polls
in any order. A late completion clears `armed` although a newer poll is
outstanding, so a watch may have several polls and a batch two events of one
connection.

**`Kqueue`** models `backend/kqueue.c`: each interest is a filter of the kernel
that carries the connection; changing a connection's interests changes the two
filters one after the other and undoes nothing when the second one fails. The
kernel's active filters are a queue of which one batch is taken at a time.

**`Windows`** models `backend/windows.c`: a table of watches, each with an event
object; a poll waits for the wake event and the first watches, as many as one
wait takes, then looks at the handles from the signalled one on. Sockets that
have no place among these are not waited for.

**`Packet`** has the header's bytes at the code's offsets and widths, and what
checksum and MAC are fed, cut into words as `sip_update` does with its tail. A
digest is the data that was hashed, so digests are equal exactly when the data
is. **`Payload`** has the writer's calls with the growth and the limit of
`writer_reserve`, and `wirecall_payload_decode` value by value with the array,
its sentinel and the copies of strings. **`Message`** puts them together: a
caller writes and may go on after a failed call, the packet is signed with one
end's settings, one byte may be damaged, and the other end verifies and decodes.

**`Client`** is one connection. Cells of packets stand for bytes; sends and
receives move any number of them. `read` is the read buffer with its offset and
capacity. The server takes requests in order and answers in any order, may fail
to queue a payload behind its header, and may close. `log` has the packets
queued, and `taken`, `outstanding`, `abandoned`, `swallowed` and `delivered` are
history.

**`Trace`** is one metric with its three relaxed atomics. **`Bench`** extends it
to the benchmark: client threads with their gate, window and part of the
latency array; the main thread with its timeout, joins and end of tracing.

**`Backends`** puts the three backends side by side, each on its own state, and
names what is claimed of the last two.

**`MCRoutes`**, **`MCWorker`**, **`MCTraffic`** and **`MCServer`** instantiate
modules for TLC. **`MCBackend`** and **`MCWire`** check several modules in one
run: a variable `part`, chosen initially, says which one a behaviour follows, and
the others stay as they are. In `MCWire` the layers rest on each other: `Client`
takes from `Message` that a packet is accepted exactly when it is intact or not
protected, `Bench` takes from `Client` that a call returns its own response.

The theorems are in **`RoutesProofs`** (about `Routes` and its refinement of
`RouteMap`), **`BackendProofs`** (about `Uring`, `Kqueue` and `Windows`),
**`ServerProofs`** (about `Server` and `AsyncServer`), **`WorkerLemmas`**,
**`WorkerRequests`** and **`WorkerProofs`** (about `Worker`: first lemmas and what
happens to connections, then what happens to requests, then the rest and the
results), and **`ClientProofs`** and **`ClientCalls`** (about `Client`: first the read
buffer and what is delivered, then the account of requests and responses and the
results).

Definitions whose comment begins with "Mutant" are wrong versions of the next
definition. They are used by no specification; replacing the definition by its
mutant must break the property named in `PROJECT.json`.

## The runs

| Run | Shows |
| --- | --- |
| `routes_tso` | the bookkeeping of chains and finalizers, with delayed stores and failing allocations (`RoutesInv` is the inductive invariant of the proofs); every operation returns, by every error path |
| `routes_sc` | with stores visible at once: safe walks, complete destruction, and refinement of `RouteMap` |
| `worker_traffic` | deferred calls against closing connections and reuse of the only slot; one client mixing every kind of packet; backpressure, separate READ and WRITE events (`WorkerInv` is the inductive invariant of the proofs) |
| `worker_stop` | hand-over, stop and destroy at any moment while anything may fail: slots, sockets, wake-ups; deadlock is checked |
| `worker_live` | nothing handed to a sleeping worker is missed, and stop ends it |
| `backend_poll` | for the three backends: what the kernel watches is what connections asked for, events go to the right connection, data and wakes are reported |
| `server_life` | nothing is used after it was destroyed, everything is released, jobs stay alive while they are used and return, the program ends after a signal |
| `wire_calls` | messages: what is verified and read is what was written. Client: the stream, who gets which response, every call returns. Benchmark: slots, latencies, statistics, end |

`IdleIsFlushed` is checked where allocations succeed. Where they fail it does not
hold: `queue_packet` may append a part of a response and return before the
connection is put on `pending_writes`, and that part waits for the next write.
What a client sees of it is in `wire_calls`: with integrity checks no call returns
a mixed payload (`DeliveredIsOwn`), but the connection is of no more use
(`PoisonSticks`), and `CallsReturn` promises nothing to a call whose payload was
lost. Without integrity checks (`blind`) nothing is promised after that.

`ReadsAsWritten` excludes a caller who goes on after an allocation failed between
the prefix of a string and its data: what that caller writes next is read as the data.

Four runs are expected to be violated; each is a finding.

- `routes_walk`: with the slot store in the store buffer, `retire_route` reads
  `active_readers = 0`, a lookup starts and loads the old chain, and the chain
  is freed under it. A sequentially consistent fence or exchange between the two
  would rule it out: `routes_sc` and `WalkIsSafe` are that case.
- `routes_handler`: the reader count covers the lookup, not the handler, so a
  replaced route's state is finalized while a handler uses it.
- `routes_leak`: when the node of the retired list cannot be allocated, the
  unlinked chain is lost and its route never finalized.
- `worker_async`: the connection of a coroutine is not pinned as that of a
  deferred call is. A client sends an async request and hangs up; its connection
  is destroyed in the same batch in which a wake-up adopts another client into
  the slot; `run_ready` then queues the response for the second client.

### Bounds

Routes: two procedures that collide in one slot (slots do not interact, so one
is enough for the safety of chains), two threads, two or three registrations so
that a route is replaced and a neighbour carried over, and as many chains as
those need; `routes_tso`, which also checks that operations return, has two of
each. The invariants it checks are proved for all constants. Chains are never
reused, so a walk of a freed one is seen.

Worker: two sockets and one or two connection slots, so that slots run out and
are reused; one or two deferred slots. In `worker_traffic` a behaviour has either
one client with up to `MaxPackets` = 3 packets of any kind, or two with up to
`MaxDeferred` = 1 deferred call each; there is one connection slot and there are two
slots for calls, so that the second client gets the slot of the first. `MaxYields` lets a coroutine go round the
queue once. `MaxPackets` also bounds how long `connection_read` may go on: a
client that never stops sending can hold the worker, which the liveness run does
not consider.

Server: two workers, two sockets, two jobs, two addresses and two listeners, one
port (that listeners share it is proved); `CounterMod` = 2 makes `next_worker`
wrap.

Backends: one descriptor number and two sockets in turn on it, beside the wake.
With io_uring one socket becomes readable and writable and the other fails
(`Raised`), and wakes come at any moment; a behaviour has either the failing
socket or the wakes, for the sake of size. A batch holds two events; `MaxPolls` = 1 lets the worker ask for a
poll when its watch has one outstanding already, and `MaxQueue` = 2 when fewer
than two completions wait, so duplicate polls and completions occur. With kqueue
a batch holds one event. With Windows two watches and a wait of two handles, one
of them the wake, so that a connection does wait behind another.

Wire: bytes of eight values in the code's widths; a payload of at most 14 bytes,
so that it ends inside a second word of the hash and the writer meets its limit;
three writer calls out of eight values; seven pairs of settings of the two ends
(`SomeEnds`); one damaged byte. Client: headers of two cells and payloads of none
or one, a read buffer of two cells at first so that it grows and moves, two call
ids so that a ping or call overtakes a pipelined call. Benchmark: two clients and
four command lines (`SomeArgs`).

Symmetry is over interchangeable threads, registrations, chains or sockets, and is
not used in runs with liveness properties. Deadlock is not checked where clients
may fall silent and the worker rightly sleeps for ever, and where a program ends.

### Fairness

Routes: a thread inside an operation goes on (weak fairness), a handler returns,
and a thread waiting for `mutate_lock` is not passed over for ever (strong
fairness, what a fair mutex gives). Worker: the worker's thread runs, a thread
that has queued something goes on to wake, and the embedder completes the calls
it holds and destroys the server once it has stopped. Clients owe nothing.
Backends: the worker returns to poll (`worker_run` does nothing else), and the
kernel completes an io_uring poll whose file stays ready. Server: main thread,
workers, the queue's thread and the signal handler are scheduled; no signal,
client or failure has to come. Client: the library runs while it can, and the
server takes and answers requests while the connection is there. Benchmark:
every thread is scheduled.

## The proofs

TLAPS proves the following for all values of the constants that satisfy the named
assumptions.

Routes, under `RouteAssumptions` (finitely many threads, distinct null values):

- `RoutesInvariant`: `RoutesInv` holds always, whatever `StoreBuffering` and
  `AllocMayFail` are. `RoutesTypeOK`, `FinalizerRunsOnce`,
  `RegisteredStateAlive`, `ChainsHaveOneRoutePerProc` and
  `RetiredChainsHaveReclaimer` follow.
- `WalkIsSafe`: without delayed stores, lookups walk only allocated chains.
- `DestroyFinalizes`: if allocations succeed, destroy leaves every installed
  registration finalized exactly once.
- `RoutesImplementMap`: without delayed stores, `Routes` implements `RouteMap`.

"At most once" is not inductive: one registration is carried by many copies of
its chain, and one free of one of them finalizes it. `OneOwner` is the missing
argument: an installed registration is on a chain in the table, or on the one
chain that will finalize it, or finalized, and never two of these. It needs
that a chain has one route per procedure and one slot (`ChainRoutes`,
`SlotChains`), that an unlinked chain is held by the thread that unlinked it
(`UnlinkedHeld`), and that there is only one such thread (`LockOwner`).
`ReaderCount` (the counter is the number of lookups in progress) gives
`RetiredHasReclaimer` and, with `visible = slots`, `SafeWalk`: a thread that has
seen no reader frees only chains that no later lookup can load. The refinement
maps a lookup's effect to the load of the slot, and an add's or remove's to the
store.

Worker, under `WorkerAssumptions` (a null value that is no socket, capacities and
bounds that are natural numbers), for any set of sockets, any capacity of the arenas,
any number of threads that complete calls, and any choice of `SplitEvents`,
`AllocMayFail`, `MayBlock` and `MayStop`:

- `WorkerInvariant`: `WorkerInv` holds always.
- `AnsweredOnce`, `CallsPinConnections`, `NoStaleEvents`, `NoLeaks` and
  `WakesAreKept` follow.
- `FlushedBeforeSleep`: if allocations succeed, the worker goes to poll only with
  every response sent or waiting for a WRITE event.
- `OnlyCoroutinesMisroute`: the only step that can queue a response on a connection
  that did not ask for it is the end of a coroutine in `wirecall_scheduler_run_ready`.
- `AnswersRequester`: where no route is asynchronous, every response goes to the
  connection its request came from. With asynchronous routes this is false, which is
  the finding of `worker_async`.

None of these is inductive. That an event of the batch is not stale needs that a
connection has one event in a batch, or one of each direction (`EventsWellFormed`),
that a connection with a WRITE event still to come has something to send, so that
its READ event does not destroy it (`EventsCurrent`), and that a closing connection
with nothing to send is the one whose event is handled (`ConnectionStates`, `Phases`). That no slot is freed twice needs that a detached
connection is on the free list exactly when no deferred call counts on it, hence
that `pending_deferred` is the number of calls that are not free
(`DeferredPinsConnection`), which in turn needs that a slot on the free list of
calls is free and on it once (`CallsAccounted`). One answer per request needs that
packets are handled in the order of their numbers (`PacketsInOrder`) and that a
request is in one place: not yet parsed, waiting in a coroutine or a call, or
answered (`RequestsOnce`). No lost wake-up needs that whoever has put something on a
list has yet to wake or has woken since the list was last taken (`HandOverWakes`).
The steps are not treated one by one for each of the conjuncts about connections:
each step makes one connection grow, be written or be closed, or takes a call from
one (`Grown`, `Written`, `Closed`, `Retired`), and a conjunct is shown to survive these.

Uring, under `UringAssumptions` (distinct null values, a batch of at least one):
`UringInvariant` proves `UringInv`, and `NothingUnpolled` and
`EventsNameTheirConnection` follow. "Every active watch is polled or has a
completion that re-arms it" is nearly inductive: it needs that what is active has
a file and an interest, so that arming adds a poll. The argument does not use
`armed`, which may be wrong: register and poll clear it before they arm.

Kqueue: `FiltersAreRecorded`, for any descriptors and sockets and whether filters can
fail or not. It is inductive with one addition: an open connection always has its
READ filter, so a change that fails has failed on WRITE, which was missing and still
is, and what is recorded afterwards is what was there. Windows, under the same
assumption that the null value is no socket: `OneWatchPerConnection`, for any size of
the table and of a wait. It needs that no number is both free and in use and that no
two watches have one socket; that a search of the table finds the first slot rests on
the natural numbers being well ordered.

Server, for any number of workers of at least one, any addresses, listeners,
ports and sockets, and whichever steps fail:

- `ServerInvariant`: `ServerInv` holds always. It says, for each place of the main
  thread, which workers are made (`WorkersByPhase`), which threads may run
  (`ThreadsByPhase`), whether a stop may be in progress (`StopperByPhase`) and
  which sockets and listeners may exist (`SocketsByPhase`), and that a socket has
  one owner (`OneOwner`).
- `NoUseAfterDestroy`, `EverythingReleased` follow from it: threads run only while
  the main thread is in `wirecall_server_run`, which joins all it created, also
  when creating one failed, and each worker that was made in part is undone in part.
- `PortIsShared`: once the port is known, later listeners have that port. It needs
  its own induction, over the listeners from the first with a known port.
- `AsyncImplementsServer`: the program of the async demo implements `Server`, with
  the identity as refinement mapping.
- `AsyncInvariant`: `ServerInv`, `JobInv` and `JobsAlive` hold together.
  `JobsStayAlive` follows. `JobsAlive` is not inductive: it needs that a flag is
  set only after the queue's thread is through with the job, that a job is in the
  queue once, and that a coroutine is in a list only while its worker runs that
  list, so that destroying a worker frees no coroutine that waits.

Client, under `ClientAssumption` (a header of at least one cell, sizes of bodies that
are natural numbers), for any number of calls, any capacity of the read buffer, any
choice of integrity settings on either side, and whether allocations, the connection and the
server's `queue_packet` fail or not:

- `ClientInvariant`: `ClientInv` holds always.
- `ResponsesAreOwn`: as long as no packet was taken without an integrity check, a
  call or a ping returns 0 only with the response to its own request, and what is
  returned is one whole packet.
- `EveryResponseHasACall`: under the same condition, each response on its way is that
  of one call, which is pipelined, in progress or has failed; and while the connection
  is open and every packet was queued whole, a pipelined call has its request or its
  response on the way unless a ping or another call has taken the response.
- `PoisonIsFinal`: behind a packet that failed to verify nothing is taken while the
  settings are the same.

That nothing follows a packet that failed to verify needs that the failure shows in
the bytes at `read_off` (`Damaged`), that bytes that arrive, and a buffer that is
moved or grown, change none that is unread (`Continues`), and that the header that
was parsed is the one at `read_off` (`Parsed`). That each response has a call needs
an account of the requests first (`Requests`): call ids are taken in turn, the cells
still to be sent are the end of the request in progress, no cell is on its way twice,
and a request is on its way, taken or answered, and only one of these. Then no cell
is unread twice (`Distinct`), so that taking a packet takes its response from those
to come and no other, and `Ledger` says who waits for which.

`UringInv`, `ServerInv`, `AsyncInv`, `ClientInv`, `OnePort`, `SafeWalk`, `RegisteredNotFinalized`
and `OneRoutePerProc` are proved and not listed in a run.

Only model-checked:

- Liveness under fairness, which this prover does not reach: `OperationsReturn`,
  `HandedOverIsTaken`, `StopTerminates`, `DataIsReported`, `JobsReturn`,
  `StopEndsProgram`, `CallsReturn`, `BenchEnds`.
- `VerifiedIfIntact`, `MacIsOnePass`, `ReadsAsWritten` and `BuffersSafe`: what
  encoding, hashing and decoding compute is defined by recursion over bytes and
  values, and induction over data is out of the prover's reach.
- `StreamInOrder` of the client: the bytes the server has sent are the packets of
  its log one after the other, again a recursion over a sequence.
- `SlotsHoldOutstanding`, `LatenciesComplete` and `StatsExact` of the benchmark, which
  rest on sums over the clients and on remainders.

## What the models leave out

- Routes and Worker: `accept` on worker 0 is seen as another thread's step. A
  failing `wirecall_backend_modify` or `wirecall_backend_wake` is not in `Worker`.
  The embedder is taken to complete each deferred call once and to hold none when
  the server is destroyed, and its finalizers not to use the table.
- Worker with Uring: the two are not composed. `Worker` takes one event per
  connection and direction in a batch; `Uring` may deliver two when a socket that
  is ready is registered and its interests change before the next poll. What the
  worker does with a second READ event of a connection that the first one
  destroyed is not shown.
- Server: one stop, by one signal, which comes while `wirecall_server_run` runs and
  not on the queue's thread. A listen without a bind, which no program of the
  repository does, is left out. What connections do is in `Worker`.
- Uring: `io_uring_enter` succeeds, and the ring is never full, since each request
  is submitted at once; the mapping of the rings is left out.
- Kqueue: only the creation of a filter may fail. Windows: the wait and
  `WSAEnumNetworkEvents` succeed, and when FD_WRITE is recorded is left open.
  kevent and Winsock are modelled from their use.
- Client: one connection, not shared between threads. Connecting is one step.
- Bench: a server that is up answers in order, or a call fails; argument parsing,
  statistics and printing are left out.

## Not modelled

- `wirecall_proc_id` and the arithmetic of checksum and MAC: 64-bit hashing, where
  the only claims are about collisions.
- Replacing the allocator while memory is in use, which a comment in
  `include/wirecall/protocol.h` forbids. That an allocation
  fails is in every module (`AllocMayFail`, `MayFail`).
- `include/platform.h`: wrappers of system calls and threads without state.
- `include/minicoro.h`: vendored; its context switch is assembly.
- `demos/server.c`, `demos/client.c`, `demos/embed.c`, `demos/async/client.c`:
  straight-line programs whose calls are those of `Server` and `Client`.
