------------------------------- MODULE Routes -------------------------------
(***************************************************************************)
(* The route table of wirecall (src/routes.c): a paged table of slots, each *)
(* holding an immutable chain of routes.  Lookups take no lock: they bump   *)
(* active_readers, load the slot and walk the chain.  Mutations run under   *)
(* mutate_lock, install a fresh copy of the chain and retire the old one,   *)
(* which is freed, and the replaced route finalized, once no reader is      *)
(* active.                                                                  *)
(*                                                                         *)
(* Every action is one access to shared memory by one thread, or the code   *)
(* between two of them that touches only memory the thread owns.            *)
(***************************************************************************)
EXTENDS Integers, FiniteSets

CONSTANTS
  Threads,        \* threads that look routes up, add and remove them
  Procs,          \* procedure ids
  Slots,          \* table slots, each on a page of its own
  RouteIndex,     \* the slot a procedure id hashes to; ids may collide
  Regs,           \* registrations: one (handler, user_data, finalizer) each
  Chains,         \* chain allocations, never reused
  NoThread, NoProc, NoReg, NoChain, NoAnswer,
  StoreBuffering, \* a slot store may be delayed past a later load (x86-TSO)
  AllocMayFail    \* the allocator hook may return NULL

ASSUME RouteAssumptions ==
  /\ IsFiniteSet(Threads)
  /\ RouteIndex \in [Procs -> Slots]
  /\ NoThread \notin Threads
  /\ NoProc \notin Procs
  /\ NoReg \notin Regs
  /\ NoChain \notin Chains
  /\ NoAnswer \notin Regs \cup {NoReg}
  /\ StoreBuffering \in BOOLEAN
  /\ AllocMayFail \in BOOLEAN

VARIABLES
  slots,          \* the table as the holder of mutate_lock sees it
  visible,        \* the table as every other thread sees it
  pages,          \* slots whose page has been allocated
  state,          \* what has become of each chain
  contents,       \* the registrations on each chain
  finalProc,      \* finalize_one/finalize_proc_id of an unlinked chain
  active_readers,
  mutate_lock,    \* the owner of the mutex
  pc, key, cur,   \* per thread: position, proc_id, chain pointer held
  route,          \* per thread: the route being added, or found
  proc,           \* proc_id of each registration that was passed to add
  installed,      \* registrations that have been in the table
  finalized,      \* how often each registration was finalized
  up              \* FALSE once routes_destroy has started

vars == <<slots, visible, pages, state, contents, finalProc, active_readers,
          mutate_lock, pc, key, cur, route, proc, installed, finalized, up>>

Reading   == {"load", "walk", "leave"}
Unlinking == {"retire", "freeOld", "push"}
Freeing   == {"lockReclaim", "check", "freeing"}
Holding   == {"add", "remove", "check", "freeing", "unlock", "destroy"} \cup Unlinking
Waiting   == {"lockAdd", "lockRemove", "lockReclaim"}
Labels    == {"idle", "handler"} \cup Reading \cup Holding \cup Waiting

TypeOK ==
  /\ slots \in [Slots -> Chains \cup {NoChain}]
  /\ visible \in [Slots -> Chains \cup {NoChain}]
  /\ pages \subseteq Slots
  /\ state \in [Chains -> {"unused", "live", "unlinked", "retired", "freed", "leaked"}]
  /\ contents \in [Chains -> SUBSET Regs]
  /\ finalProc \in [Chains -> Procs \cup {NoProc}]
  /\ active_readers \in Nat
  /\ mutate_lock \in Threads \cup {NoThread}
  /\ pc \in [Threads -> Labels]
  /\ key \in [Threads -> Procs \cup {NoProc}]
  /\ cur \in [Threads -> Chains \cup {NoChain}]
  /\ route \in [Threads -> Regs \cup {NoReg}]
  /\ proc \in [Regs -> Procs \cup {NoProc}]
  /\ installed \subseteq Regs
  /\ finalized \in [Regs -> Nat]
  /\ up \in BOOLEAN

(* wirecall_routes_init: an empty table, no page allocated. *)
Init ==
  /\ slots = [s \in Slots |-> NoChain]
  /\ visible = slots
  /\ pages = {}
  /\ state = [c \in Chains |-> "unused"]
  /\ contents = [c \in Chains |-> {}]
  /\ finalProc = [c \in Chains |-> NoProc]
  /\ active_readers = 0
  /\ mutate_lock = NoThread
  /\ pc = [t \in Threads |-> "idle"]
  /\ key = [t \in Threads |-> NoProc]
  /\ cur = [t \in Threads |-> NoChain]
  /\ route = [t \in Threads |-> NoReg]
  /\ proc = [r \in Regs |-> NoProc]
  /\ installed = {}
  /\ finalized = [r \in Regs |-> 0]
  /\ up = TRUE

-----------------------------------------------------------------------------
(* Chains. *)

(* The registrations of a chain, none for the null pointer. *)
RoutesOf(c) == IF c = NoChain THEN {} ELSE contents[c]

(* Mutant: the new chain does not carry the other procedures over. *)
KeptNone(old, p) == {}

(* What the copying loop keeps of the old chain. *)
Kept(old, p) == {r \in RoutesOf(old) : proc[r] # p}

(* The loop met the procedure on the old chain. *)
Matched(old, p) == \E r \in RoutesOf(old) : proc[r] = p

(* Mutant: route_chain_free finalizes every route of a retired chain. *)
FreeFinalizesAll(c) ==
  /\ finalized' = [r \in Regs |-> IF r \in contents[c] THEN finalized[r] + 1 ELSE finalized[r]]
  /\ state' = [state EXCEPT ![c] = "freed"]

(* Mutant: route_chain_free never calls the finalizer. *)
FreeUnfinalized(c) == state' = [state EXCEPT ![c] = "freed"] /\ UNCHANGED finalized

(* route_chain_free of one chain: the route of the procedure the chain was  *)
(* retired for is finalized, every node is freed.                           *)
Free(c) ==
  /\ finalized' = [r \in Regs |-> IF r \in contents[c] /\ proc[r] = finalProc[c]
                                  THEN finalized[r] + 1 ELSE finalized[r]]
  /\ state' = [state EXCEPT ![c] = "freed"]

(* The chain a mutation builds: nodes that hold rs, or the null pointer. *)
Built(new, rs) ==
  IF rs = {} THEN new = NoChain ELSE new \in Chains /\ state[new] = "unused"

(* Storing the new chain in the slot unlinks the old one.  The store is a   *)
(* plain store to the other threads; it may wait in the store buffer.       *)
Install(s, new, rs, p) ==
  LET old == slots[s]
  IN /\ slots' = [slots EXCEPT ![s] = new]
     /\ visible' = IF StoreBuffering THEN visible ELSE slots'
     /\ contents' = [c \in Chains |-> IF c = new THEN rs ELSE contents[c]]
     /\ state' = [c \in Chains |-> IF c = new THEN "live"
                                   ELSE IF c = old THEN "unlinked" ELSE state[c]]
     /\ finalProc' = [c \in Chains |-> IF c # old THEN finalProc[c]
                                       ELSE IF Matched(old, p) THEN p ELSE NoProc]

Goto(t, label) == pc' = [pc EXCEPT ![t] = label]

(* Where a lookup goes after it returned: the handler runs on what it found. *)
Returned(t) == IF route[t] = NoReg THEN "idle" ELSE "handler"

-----------------------------------------------------------------------------
(* wirecall_routes_lookup *)

tableVars == <<slots, visible, pages, contents, finalProc, installed>>

BeginLookup(t, p) ==
  /\ up /\ pc[t] = "idle"
  /\ active_readers' = active_readers + 1
  /\ key' = [key EXCEPT ![t] = p]
  /\ Goto(t, "load")
  /\ UNCHANGED <<tableVars, state, mutate_lock, cur, route, proc, finalized, up>>

LoadSlot(t) ==
  /\ pc[t] = "load"
  /\ cur' = [cur EXCEPT ![t] = visible[RouteIndex[key[t]]]]
  /\ Goto(t, "walk")
  /\ UNCHANGED <<tableVars, state, active_readers, mutate_lock, key, route, proc, finalized, up>>

(* What walking a chain can return: nothing is known of freed memory. *)
Found(c, p) ==
  IF c # NoChain /\ state[c] = "freed" THEN Regs \cup {NoReg}
  ELSE IF Matched(c, p) THEN {r \in RoutesOf(c) : proc[r] = p}
  ELSE {NoReg}

Walk(t) ==
  /\ pc[t] = "walk"
  /\ \E r \in Found(cur[t], key[t]) : route' = [route EXCEPT ![t] = r]
  /\ Goto(t, "leave")
  /\ UNCHANGED <<tableVars, state, active_readers, mutate_lock, key, cur, proc, finalized, up>>

(* Mutant: the value before the fetch_sub is taken for the one after it. *)
LastReaderAfter == active_readers = 0

(* old == 1u after the fetch_sub: this reader reclaims. *)
LastReader == active_readers = 1

Leave(t) ==
  /\ pc[t] = "leave"
  /\ active_readers' = active_readers - 1
  /\ cur' = [cur EXCEPT ![t] = NoChain]
  /\ key' = [key EXCEPT ![t] = NoProc]
  /\ Goto(t, IF LastReader THEN "lockReclaim" ELSE Returned(t))
  /\ UNCHANGED <<tableVars, state, mutate_lock, route, proc, finalized, up>>

(* The handler runs on the copy of the route, after lookup has returned. *)
HandlerReturns(t) ==
  /\ pc[t] = "handler"
  /\ route' = [route EXCEPT ![t] = NoReg]
  /\ Goto(t, "idle")
  /\ UNCHANGED <<tableVars, state, active_readers, mutate_lock, key, cur, proc, finalized, up>>

-----------------------------------------------------------------------------
(* mutate_lock.  Locking and unlocking drain the store buffer. *)

Lock(t, from, to) ==
  /\ pc[t] = from
  /\ mutate_lock = NoThread
  /\ mutate_lock' = t
  /\ Goto(t, to)
  /\ UNCHANGED <<tableVars, state, active_readers, key, cur, route, proc, finalized, up>>

LockMutate(t) == Lock(t, "lockAdd", "add") \/ Lock(t, "lockRemove", "remove")

(* Mutant: the last reader calls free_retired without the lock. *)
ReclaimUnlocked(t) ==
  /\ pc[t] = "lockReclaim"
  /\ Goto(t, "check")
  /\ UNCHANGED <<tableVars, state, active_readers, mutate_lock, key, cur, route, proc, finalized, up>>

LockReclaim(t) == Lock(t, "lockReclaim", "check")

Unlock(t) ==
  /\ pc[t] = "unlock"
  /\ mutate_lock' = NoThread
  /\ visible' = slots
  /\ Goto(t, Returned(t))
  /\ UNCHANGED <<slots, pages, state, contents, finalProc, active_readers, key, cur, route,
                 proc, installed, finalized, up>>

(* The buffered slot store reaches memory. *)
Drain ==
  /\ visible # slots
  /\ visible' = slots
  /\ UNCHANGED <<slots, pages, state, contents, finalProc, active_readers, mutate_lock, pc,
                 key, cur, route, proc, installed, finalized, up>>

-----------------------------------------------------------------------------
(* wirecall_routes_add_ex, add_deferred_ex and routes_add_route *)

BeginAdd(t, p, r) ==
  /\ up /\ pc[t] = "idle"
  /\ proc[r] = NoProc
  /\ proc' = [proc EXCEPT ![r] = p]
  /\ route' = [route EXCEPT ![t] = r]
  /\ key' = [key EXCEPT ![t] = p]
  /\ Goto(t, "lockAdd")
  /\ UNCHANGED <<tableVars, state, active_readers, mutate_lock, cur, finalized, up>>

(* The operation is over: the locals of the thread are dead. *)
Forget(t) ==
  /\ key' = [key EXCEPT ![t] = NoProc]
  /\ route' = [route EXCEPT ![t] = NoReg]

Add(t) ==
  LET s   == RouteIndex[key[t]]
      old == slots[s]
      rs  == Kept(old, key[t]) \cup {route[t]}
  IN /\ pc[t] = "add"
     /\ \E new \in Chains : Built(new, rs) /\ Install(s, new, rs, key[t])
     /\ pages' = pages \cup {s}
     /\ installed' = installed \cup {route[t]}
     /\ cur' = [cur EXCEPT ![t] = old]
     /\ Goto(t, IF old = NoChain THEN "unlock" ELSE "retire")
     /\ Forget(t)
     /\ UNCHANGED <<active_readers, mutate_lock, proc, finalized, up>>

(* No page, or no copy of a node that is kept: the route is freed, not      *)
(* finalized, and the table is as it was.                                   *)
AddFails(t) ==
  LET s == RouteIndex[key[t]]
  IN /\ pc[t] = "add"
     /\ AllocMayFail
     /\ s \notin pages \/ Kept(slots[s], key[t]) # {}
     /\ Goto(t, "unlock")
     /\ Forget(t)
     /\ UNCHANGED <<tableVars, state, active_readers, mutate_lock, cur, proc, finalized, up>>

-----------------------------------------------------------------------------
(* wirecall_routes_remove *)

BeginRemove(t, p) ==
  /\ up /\ pc[t] = "idle"
  /\ key' = [key EXCEPT ![t] = p]
  /\ Goto(t, "lockRemove")
  /\ UNCHANGED <<tableVars, state, active_readers, mutate_lock, cur, route, proc, finalized, up>>

Remove(t) ==
  LET s   == RouteIndex[key[t]]
      old == slots[s]
      rs  == Kept(old, key[t])
  IN /\ pc[t] = "remove"
     /\ Matched(old, key[t])
     /\ \E new \in Chains \cup {NoChain} : Built(new, rs) /\ Install(s, new, rs, key[t])
     /\ cur' = [cur EXCEPT ![t] = old]
     /\ Goto(t, "retire")
     /\ Forget(t)
     /\ UNCHANGED <<pages, installed, active_readers, mutate_lock, proc, finalized, up>>

(* The procedure is not registered, or a copy fails: the copies are freed. *)
RemoveFails(t) ==
  LET old == slots[RouteIndex[key[t]]]
  IN /\ pc[t] = "remove"
     /\ ~Matched(old, key[t]) \/ (AllocMayFail /\ Kept(old, key[t]) # {})
     /\ Goto(t, "unlock")
     /\ Forget(t)
     /\ UNCHANGED <<tableVars, state, active_readers, mutate_lock, cur, proc, finalized, up>>

-----------------------------------------------------------------------------
(* retire_route and free_retired, under mutate_lock *)

(* Mutant: one reader is overlooked. *)
AtMostOneReader == active_readers <= 1

NoReaders == active_readers = 0

Retire(t) ==
  /\ pc[t] = "retire"
  /\ Goto(t, IF NoReaders THEN "freeOld" ELSE "push")
  /\ UNCHANGED <<tableVars, state, active_readers, mutate_lock, key, cur, route, proc, finalized, up>>

FreeOld(t) ==
  /\ pc[t] = "freeOld"
  /\ Free(cur[t])
  /\ cur' = [cur EXCEPT ![t] = NoChain]
  /\ Goto(t, "unlock")
  /\ UNCHANGED <<tableVars, active_readers, mutate_lock, key, route, proc, up>>

Push(t) ==
  /\ pc[t] = "push"
  /\ state' = [state EXCEPT ![cur[t]] = "retired"]
  /\ cur' = [cur EXCEPT ![t] = NoChain]
  /\ Goto(t, "check")
  /\ UNCHANGED <<tableVars, active_readers, mutate_lock, key, route, proc, finalized, up>>

(* No node for the retired list: -1, and nothing refers to the chain. *)
PushFails(t) ==
  /\ pc[t] = "push"
  /\ AllocMayFail
  /\ state' = [state EXCEPT ![cur[t]] = "leaked"]
  /\ cur' = [cur EXCEPT ![t] = NoChain]
  /\ Goto(t, "unlock")
  /\ UNCHANGED <<tableVars, active_readers, mutate_lock, key, route, proc, finalized, up>>

(* Mutant: free_retired waits for the readers to leave. *)
CheckWaits(t) ==
  /\ pc[t] = "check"
  /\ Goto(t, IF NoReaders THEN "freeing" ELSE "lockReclaim")
  /\ mutate_lock' = IF NoReaders THEN t ELSE NoThread
  /\ UNCHANGED <<tableVars, state, active_readers, key, cur, route, proc, finalized, up>>

Check(t) ==
  /\ pc[t] = "check"
  /\ Goto(t, IF NoReaders THEN "freeing" ELSE "unlock")
  /\ UNCHANGED <<tableVars, state, active_readers, mutate_lock, key, cur, route, proc, finalized, up>>

FreeRetired(t) ==
  /\ pc[t] = "freeing"
  /\ \E c \in Chains : state[c] = "retired" /\ Free(c)
  /\ UNCHANGED <<tableVars, active_readers, mutate_lock, pc, key, cur, route, proc, up>>

RetiredFreed(t) ==
  /\ pc[t] = "freeing"
  /\ \A c \in Chains : state[c] # "retired"
  /\ Goto(t, "unlock")
  /\ UNCHANGED <<tableVars, state, active_readers, mutate_lock, key, cur, route, proc, finalized, up>>

-----------------------------------------------------------------------------
(* wirecall_routes_destroy: server_destroy has joined the workers first. *)

BeginDestroy(t) ==
  /\ up /\ \A u \in Threads : pc[u] = "idle"
  /\ mutate_lock' = t
  /\ up' = FALSE
  /\ Goto(t, "destroy")
  /\ UNCHANGED <<tableVars, state, active_readers, key, cur, route, proc, finalized>>

(* finalize_all for the chains of the table, the retired ones as retired. *)
DestroyChain(t) ==
  /\ pc[t] = "destroy"
  /\ \/ \E s \in Slots :
          /\ slots[s] # NoChain
          /\ finalized' = [r \in Regs |-> IF r \in contents[slots[s]]
                                          THEN finalized[r] + 1 ELSE finalized[r]]
          /\ state' = [state EXCEPT ![slots[s]] = "freed"]
          /\ slots' = [slots EXCEPT ![s] = NoChain]
          /\ visible' = slots'
     \/ /\ \E c \in Chains : state[c] = "retired" /\ Free(c)
        /\ UNCHANGED <<slots, visible>>
  /\ UNCHANGED <<pages, contents, finalProc, installed, active_readers, mutate_lock, pc, key,
                 cur, route, proc, up>>

EndDestroy(t) ==
  /\ pc[t] = "destroy"
  /\ slots = [s \in Slots |-> NoChain]
  /\ \A c \in Chains : state[c] # "retired"
  /\ pages' = {}
  /\ mutate_lock' = NoThread
  /\ Goto(t, "idle")
  /\ UNCHANGED <<slots, visible, contents, finalProc, installed, state, active_readers, key, cur,
                 route, proc, finalized, up>>

(* Nothing happens to a destroyed table. *)
Destroyed == ~up /\ \A t \in Threads : pc[t] = "idle"

-----------------------------------------------------------------------------
Reader(t) == LoadSlot(t) \/ Walk(t) \/ Leave(t) \/ HandlerReturns(t)

Writer(t) == Add(t) \/ AddFails(t) \/ Remove(t) \/ RemoveFails(t)

Reclaimer(t) ==
  \/ Retire(t) \/ FreeOld(t) \/ Push(t) \/ PushFails(t)
  \/ Check(t) \/ FreeRetired(t) \/ RetiredFreed(t) \/ Unlock(t)

Step(t) ==
  \/ Reader(t) \/ Writer(t) \/ Reclaimer(t)
  \/ LockMutate(t) \/ LockReclaim(t) \/ DestroyChain(t) \/ EndDestroy(t)

Begin(t) ==
  \/ \E p \in Procs : BeginLookup(t, p) \/ BeginRemove(t, p)
  \/ \E p \in Procs, r \in Regs : BeginAdd(t, p, r)
  \/ BeginDestroy(t)

Next ==
  \/ \E t \in Threads : Begin(t) \/ Step(t)
  \/ Drain
  \/ Destroyed /\ UNCHANGED vars

Spec == Init /\ [][Next]_vars

(* Every thread that has started an operation goes on with it, a handler    *)
(* returns, and a thread waiting for mutate_lock is not passed over for ever. *)
Fairness ==
  \A t \in Threads :
    /\ WF_vars(Reader(t) \/ Writer(t) \/ Reclaimer(t) \/ DestroyChain(t) \/ EndDestroy(t))
    /\ SF_vars(LockMutate(t) \/ LockReclaim(t))

FairSpec == Spec /\ Fairness

-----------------------------------------------------------------------------
(* Properties *)

(* A chain in the table never holds two routes for one procedure, so the    *)
(* first match of a lookup is the only one (routes_add_route drops the old). *)
OneRoutePerProc ==
  \A c \in Chains : state[c] = "live" =>
    \A q, r \in contents[c] : proc[q] = proc[r] => q = r

(* A finalizer runs at most once, however replacing, removing, reclaiming   *)
(* by readers and destroying interleave (route_chain_free).                 *)
FinalizedAtMostOnce == \A r \in Regs : finalized[r] <= 1

(* The state of a route that lookups can still return is not finalized:     *)
(* copies of a route on newer chains outlive the chain that is freed.       *)
RegisteredNotFinalized ==
  \A s \in Slots : \A r \in RoutesOf(slots[s]) : finalized[r] = 0

(* A retired chain is never forgotten: while one is on the list a reader is *)
(* active, or a thread is on its way to free_retired.                       *)
RetiredHasReclaimer ==
  (\E c \in Chains : state[c] = "retired") =>
    active_readers > 0 \/ \E t \in Threads : pc[t] \in Freeing

(* A lookup only walks chains that are still allocated.                     *)
NoWalkOfFreedChain ==
  \A t \in Threads : pc[t] = "walk" /\ cur[t] # NoChain => state[cur[t]] # "freed"

(* After routes_destroy every route that was ever installed has been        *)
(* finalized exactly once.                                                  *)
FinalizedByDestroy == Destroyed => \A r \in installed : finalized[r] = 1

(* A handler runs on user_data that has not been finalized.                 *)
HandlerStateAlive ==
  \A t \in Threads : pc[t] = "handler" => finalized[route[t]] = 0

(* Every operation returns: no path keeps mutate_lock.                      *)
OperationsReturn == \A t \in Threads : pc[t] # "idle" ~> pc[t] = "idle"

-----------------------------------------------------------------------------
(* The table is a map *)

(* The route a lookup of p finds on a chain. *)
RouteOn(c, p) ==
  IF Matched(c, p) THEN CHOOSE r \in RoutesOf(c) : proc[r] = p ELSE NoReg

Answer(t) ==
  CASE pc[t] = "walk"  -> RouteOn(cur[t], key[t])
    [] pc[t] = "leave" -> route[t]
    [] OTHER           -> NoAnswer

Map == INSTANCE RouteMap WITH
  table    <- [p \in Procs |-> RouteOn(visible[RouteIndex[p]], p)],
  used     <- installed,
  answer   <- [t \in Threads |-> Answer(t)],
  open     <- up

(* Lookups, replacements and removals take effect in one step: a lookup     *)
(* returns the table's route at the instant it loads the slot.              *)
TableIsMap == Map!MapSpec

-----------------------------------------------------------------------------
(* The inductive invariant *)

(* The threads between lock and unlock, of which there is at most one. *)
LockOwner == \A t \in Threads : pc[t] \in Holding <=> mutate_lock = t

(* active_readers counts the lookups between fetch_add and fetch_sub. *)
Readers == {t \in Threads : pc[t] \in Reading}

ReaderCount == active_readers = Cardinality(Readers)

(* What a thread carries at each position. *)
Locals ==
  /\ \A t \in Threads :
       /\ pc[t] \in Reading \cup {"lockAdd", "add", "lockRemove", "remove"} => key[t] \in Procs
       /\ pc[t] = "handler" => route[t] \in Regs
       /\ pc[t] = "destroy" => ~up
       /\ pc[t] \in {"lockAdd", "add"} =>
            /\ route[t] \in Regs \ installed
            /\ proc[route[t]] = key[t]
            /\ \A u \in Threads : pc[u] \in {"lockAdd", "add"} /\ route[u] = route[t] => u = t
  /\ \A r \in installed : proc[r] \in Procs
  /\ up \/ \A t \in Threads : pc[t] \in {"idle", "destroy"}

(* A chain holds one route per procedure, all of one slot. *)
ChainRoutes ==
  \A c \in Chains :
    /\ contents[c] \subseteq installed
    /\ state[c] = "unused" => contents[c] = {}
    /\ \A q, r \in contents[c] :
         /\ RouteIndex[proc[q]] = RouteIndex[proc[r]]
         /\ proc[q] = proc[r] => q = r

(* The live chains are the ones in the table, each in the slot of its routes. *)
SlotChains ==
  /\ \A s \in Slots : slots[s] # NoChain =>
       /\ state[slots[s]] = "live"
       /\ contents[slots[s]] # {}
       /\ \A r \in contents[slots[s]] : RouteIndex[proc[r]] = s
  /\ \A c \in Chains : state[c] = "live" => \E s \in Slots : slots[s] = c

(* An unlinked chain is in the hands of the thread that unlinked it. *)
UnlinkedHeld ==
  /\ \A t \in Threads : pc[t] \in Unlinking =>
       cur[t] # NoChain /\ state[cur[t]] = "unlinked"
  /\ \A c \in Chains : state[c] = "unlinked" =>
       \E t \in Threads : pc[t] \in Unlinking /\ cur[t] = c

(* Freeing the chain would finalize the route. *)
Doomed(c, r) ==
  /\ state[c] \in {"unlinked", "retired", "leaked"}
  /\ r \in contents[c]
  /\ finalProc[c] = proc[r]

(* Each installed registration is in one of three places: in the table, on  *)
(* the one chain that will finalize it, or finalized.                       *)
OneOwner ==
  /\ \A c \in Chains : state[c] = "live" => \A r \in contents[c] : finalized[r] = 0
  /\ \A c \in Chains, r \in Regs : Doomed(c, r) =>
       /\ finalized[r] = 0
       /\ \A d \in Chains : state[d] = "live" => r \notin contents[d]
       /\ \A d \in Chains : Doomed(d, r) => d = c
  /\ \A r \in Regs : finalized[r] <= 1
  /\ \A r \in Regs \ installed : finalized[r] = 0
  /\ \A r \in installed :
       \/ finalized[r] = 1
       \/ \E c \in Chains : state[c] = "live" /\ r \in contents[c]
       \/ \E c \in Chains : Doomed(c, r)

RoutesInv ==
  /\ TypeOK /\ LockOwner /\ ReaderCount /\ Locals /\ ChainRoutes /\ SlotChains
  /\ UnlinkedHeld /\ OneOwner /\ RetiredHasReclaimer

(* Once destroyed, the table holds nothing. *)
DestroyedEmpty ==
  ~up /\ (\A t \in Threads : pc[t] # "destroy") =>
    /\ \A s \in Slots : slots[s] = NoChain
    /\ \A c \in Chains : state[c] # "retired"

(* Without store buffering the chain a lookup walks is neither freed nor    *)
(* about to be: whoever frees it has seen the lookup.                       *)
SafeWalk ==
  /\ visible = slots
  /\ \A t \in Threads : pc[t] = "walk" /\ cur[t] # NoChain =>
       /\ state[cur[t]] \notin {"unused", "freed"}
       /\ \A u \in Threads :
            /\ pc[u] = "freeOld" => cur[u] # cur[t]
            /\ pc[u] = "freeing" => state[cur[t]] # "retired"

=============================================================================
