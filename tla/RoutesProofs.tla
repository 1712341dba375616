---------------------------- MODULE RoutesProofs ----------------------------
(***************************************************************************)
(* The invariant of the route table, for any number of threads,            *)
(* procedures, slots, chains and registrations: each conjunct of RoutesInv *)
(* is kept by every step. Then what it gives: no lookup walks a freed      *)
(* chain when stores are seen in order, destroying the table finalizes     *)
(* every registration, and the table is the map from procedures to         *)
(* registrations that module RouteMap specifies.                           *)
(***************************************************************************)
EXTENDS Routes, TLAPS

(* Only the owner of mutate_lock is between lock and unlock. *)
LEMMA LockOwnerStep == RoutesInv /\ [Next]_vars => LockOwner'
<1> SUFFICES ASSUME RoutesInv, [Next]_vars PROVE LockOwner'
  BY Zenon
<1> USE RouteAssumptions DEF RoutesInv, TypeOK, Labels, Reading, Holding, Waiting, Unlinking
<1>1. ASSUME NEW t \in Threads, NEW p \in Procs, BeginLookup(t, p) PROVE LockOwner'
  BY <1>1, Zenon DEF BeginLookup, Goto, tableVars, LockOwner
<1>2. ASSUME NEW t \in Threads, NEW p \in Procs, BeginRemove(t, p) PROVE LockOwner'
  BY <1>2, Zenon DEF BeginRemove, Goto, tableVars, LockOwner
<1>3. ASSUME NEW t \in Threads, NEW p \in Procs, NEW r \in Regs, BeginAdd(t, p, r) PROVE LockOwner'
  BY <1>3, Zenon DEF BeginAdd, Goto, tableVars, LockOwner
<1>4. ASSUME NEW t \in Threads, LoadSlot(t) PROVE LockOwner'
  BY <1>4, Zenon DEF LoadSlot, Goto, tableVars, LockOwner
<1>5. ASSUME NEW t \in Threads, Walk(t) PROVE LockOwner'
  BY <1>5, Zenon DEF Walk, Goto, tableVars, Found, RoutesOf, Matched, LockOwner
<1>6. ASSUME NEW t \in Threads, Leave(t) PROVE LockOwner'
  BY <1>6, Zenon DEF Leave, Goto, tableVars, Returned, LockOwner
<1>7. ASSUME NEW t \in Threads, HandlerReturns(t) PROVE LockOwner'
  BY <1>7, Zenon DEF HandlerReturns, Goto, tableVars, LockOwner
<1>8. ASSUME NEW t \in Threads, LockMutate(t) PROVE LockOwner'
  BY <1>8 DEF LockMutate, Goto, tableVars, Lock, LockOwner
<1>9. ASSUME NEW t \in Threads, LockReclaim(t) PROVE LockOwner'
  BY <1>9, Zenon DEF LockReclaim, Goto, tableVars, Lock, LockOwner
<1>10. ASSUME NEW t \in Threads, Unlock(t) PROVE LockOwner'
  BY <1>10, Zenon DEF Unlock, Goto, tableVars, Returned, LockOwner
<1>11. ASSUME NEW t \in Threads, Add(t) PROVE LockOwner'
  BY <1>11, Zenon DEF Add, Goto, tableVars, Forget, Built, Install, Kept, RoutesOf, Matched, LockOwner
<1>12. ASSUME NEW t \in Threads, AddFails(t) PROVE LockOwner'
  BY <1>12, Zenon DEF AddFails, Goto, tableVars, Forget, Kept, RoutesOf, Matched, LockOwner
<1>13. ASSUME NEW t \in Threads, Remove(t) PROVE LockOwner'
  BY <1>13, Zenon DEF Remove, Goto, tableVars, Forget, Built, Install, Kept, RoutesOf, Matched, LockOwner
<1>14. ASSUME NEW t \in Threads, RemoveFails(t) PROVE LockOwner'
  BY <1>14, Zenon DEF RemoveFails, Goto, tableVars, Forget, Kept, RoutesOf, Matched, LockOwner
<1>15. ASSUME NEW t \in Threads, Retire(t) PROVE LockOwner'
  BY <1>15, Zenon DEF Retire, Goto, tableVars, LockOwner
<1>16. ASSUME NEW t \in Threads, FreeOld(t) PROVE LockOwner'
  BY <1>16, Zenon DEF FreeOld, Goto, tableVars, Free, LockOwner
<1>17. ASSUME NEW t \in Threads, Push(t) PROVE LockOwner'
  BY <1>17, Zenon DEF Push, Goto, tableVars, Unlinking, LockOwner
<1>18. ASSUME NEW t \in Threads, PushFails(t) PROVE LockOwner'
  BY <1>18, Zenon DEF PushFails, Goto, tableVars, Unlinking, LockOwner
<1>19. ASSUME NEW t \in Threads, Check(t) PROVE LockOwner'
  BY <1>19, Zenon DEF Check, Goto, tableVars, LockOwner
<1>20. ASSUME NEW t \in Threads, FreeRetired(t) PROVE LockOwner'
  BY <1>20, Zenon DEF FreeRetired, Goto, tableVars, Free, LockOwner
<1>21. ASSUME NEW t \in Threads, RetiredFreed(t) PROVE LockOwner'
  BY <1>21, Zenon DEF RetiredFreed, Goto, tableVars, LockOwner
<1>22. ASSUME NEW t \in Threads, BeginDestroy(t) PROVE LockOwner'
  BY <1>22, Zenon DEF BeginDestroy, Goto, tableVars, LockOwner
<1>23. ASSUME NEW t \in Threads, DestroyChain(t) PROVE LockOwner'
  BY <1>23, Zenon DEF DestroyChain, Goto, tableVars, Free, LockOwner
<1>24. ASSUME NEW t \in Threads, EndDestroy(t) PROVE LockOwner'
  BY <1>24, Zenon DEF EndDestroy, Goto, tableVars, LockOwner
<1>25. CASE Drain
  BY <1>25, Zenon DEF Drain, LockOwner
<1>26. CASE UNCHANGED vars
  BY <1>26, Zenon DEF vars, LockOwner
<1> QED
  BY <1>1, <1>2, <1>3, <1>4, <1>5, <1>6, <1>7, <1>8, <1>9, <1>10, <1>11, <1>12, <1>13,
  <1>14, <1>15, <1>16, <1>17, <1>18, <1>19, <1>20, <1>21, <1>22, <1>23, <1>24, <1>25, <1>26,
  ZenonT(30)
  DEF Next, Begin, Step, Reader, Writer, Reclaimer

(* The registration a thread is adding is its own until it is installed. *)
LEMMA LocalsStep == RoutesInv /\ [Next]_vars => Locals'
<1> SUFFICES ASSUME RoutesInv, [Next]_vars PROVE Locals'
  BY Zenon
<1> USE RouteAssumptions DEF RoutesInv, TypeOK, Labels, Reading, Holding, Waiting, Unlinking
<1>1. ASSUME NEW t \in Threads, NEW p \in Procs, BeginLookup(t, p) PROVE Locals'
  BY <1>1, ZenonT(40) DEF BeginLookup, Goto, tableVars, Locals
<1>2. ASSUME NEW t \in Threads, NEW p \in Procs, BeginRemove(t, p) PROVE Locals'
  BY <1>2 DEF BeginRemove, Goto, tableVars, Locals
<1>3. ASSUME NEW t \in Threads, NEW p \in Procs, NEW r \in Regs, BeginAdd(t, p, r) PROVE Locals'
  BY <1>3 DEF BeginAdd, Goto, tableVars, Locals
<1>4. ASSUME NEW t \in Threads, LoadSlot(t) PROVE Locals'
  BY <1>4 DEF LoadSlot, Goto, tableVars, Locals
<1>5. ASSUME NEW t \in Threads, Walk(t) PROVE Locals'
  BY <1>5 DEF Walk, Goto, tableVars, Found, RoutesOf, Matched, Locals
<1>6. ASSUME NEW t \in Threads, Leave(t) PROVE Locals'
  BY <1>6 DEF Leave, Goto, tableVars, Returned, Locals
<1>7. ASSUME NEW t \in Threads, HandlerReturns(t) PROVE Locals'
  BY <1>7 DEF HandlerReturns, Goto, tableVars, Locals
<1>8. ASSUME NEW t \in Threads, LockMutate(t) PROVE Locals'
  BY <1>8 DEF LockMutate, Goto, tableVars, Lock, Locals
<1>9. ASSUME NEW t \in Threads, LockReclaim(t) PROVE Locals'
  BY <1>9 DEF LockReclaim, Goto, tableVars, Lock, Locals
<1>10. ASSUME NEW t \in Threads, Unlock(t) PROVE Locals'
  BY <1>10, Zenon DEF Unlock, Goto, Returned, Locals
<1>11. ASSUME NEW t \in Threads, Add(t) PROVE Locals'
  BY <1>11 DEF Add, Goto, tableVars, Forget, Built, Install, Kept, RoutesOf, Matched, Locals
<1>12. ASSUME NEW t \in Threads, AddFails(t) PROVE Locals'
  BY <1>12, ZenonT(40) DEF AddFails, Goto, tableVars, Forget, Kept, RoutesOf, Matched, Locals
<1>13. ASSUME NEW t \in Threads, Remove(t) PROVE Locals'
  BY <1>13 DEF Remove, Goto, tableVars, Forget, Built, Install, Kept, RoutesOf, Matched, Locals
<1>14. ASSUME NEW t \in Threads, RemoveFails(t) PROVE Locals'
  BY <1>14 DEF RemoveFails, Goto, tableVars, Forget, Kept, RoutesOf, Matched, Locals
<1>15. ASSUME NEW t \in Threads, Retire(t) PROVE Locals'
  BY <1>15 DEF Retire, Goto, tableVars, Locals
<1>16. ASSUME NEW t \in Threads, FreeOld(t) PROVE Locals'
  BY <1>16, Zenon DEF FreeOld, Goto, tableVars, Locals
<1>17. ASSUME NEW t \in Threads, Push(t) PROVE Locals'
  BY <1>17, ZenonT(40) DEF Push, Goto, tableVars, Unlinking, Locals
<1>18. ASSUME NEW t \in Threads, PushFails(t) PROVE Locals'
  BY <1>18 DEF PushFails, Goto, tableVars, Unlinking, Locals
<1>19. ASSUME NEW t \in Threads, Check(t) PROVE Locals'
  BY <1>19 DEF Check, Goto, tableVars, Locals
<1>20. ASSUME NEW t \in Threads, FreeRetired(t) PROVE Locals'
  BY <1>20 DEF FreeRetired, Goto, tableVars, Free, Locals
<1>21. ASSUME NEW t \in Threads, RetiredFreed(t) PROVE Locals'
  BY <1>21 DEF RetiredFreed, Goto, tableVars, Locals
<1>22. ASSUME NEW t \in Threads, BeginDestroy(t) PROVE Locals'
  BY <1>22, ZenonT(40) DEF BeginDestroy, Goto, tableVars, Locals
<1>23. ASSUME NEW t \in Threads, DestroyChain(t) PROVE Locals'
  BY <1>23, Zenon DEF DestroyChain, Goto, tableVars, Free, Locals
<1>24. ASSUME NEW t \in Threads, EndDestroy(t) PROVE Locals'
  BY <1>24, ZenonT(40) DEF EndDestroy, Goto, tableVars, Locals
<1>25. CASE Drain
  BY <1>25, Zenon DEF Drain, Locals
<1>26. CASE UNCHANGED vars
  BY <1>26, Zenon DEF vars, Locals
<1> QED
  BY <1>1, <1>2, <1>3, <1>4, <1>5, <1>6, <1>7, <1>8, <1>9, <1>10, <1>11, <1>12, <1>13,
  <1>14, <1>15, <1>16, <1>17, <1>18, <1>19, <1>20, <1>21, <1>22, <1>23, <1>24, <1>25, <1>26,
  ZenonT(30)
  DEF Next, Begin, Step, Reader, Writer, Reclaimer

(*****************************************************************************)
(* The chains: which routes a chain carries, which chains are in the table,  *)
(* and the one owner of each installed registration.                         *)
(*****************************************************************************)

(* Steps other than these leave the chains, and the procedure of every      *)
(* installed route, as they are.                                            *)
ChainsUnchanged ==
  /\ UNCHANGED <<slots, contents, finalProc, installed, state, finalized>>
  /\ \A r \in installed : proc'[r] = proc[r]

ChainsChange ==
  \E u \in Threads : \/ Add(u) \/ Remove(u) \/ FreeOld(u) \/ Push(u)
                      \/ PushFails(u) \/ FreeRetired(u) \/ DestroyChain(u)

(* Which actions touch the chains. *)
LEMMA ChainStep == RoutesInv /\ [Next]_vars => ChainsUnchanged \/ ChainsChange
<1> SUFFICES ASSUME RoutesInv, [Next]_vars PROVE ChainsUnchanged \/ ChainsChange
  BY Zenon
<1> USE DEF RoutesInv, TypeOK, ChainsUnchanged, ChainsChange
<1>1. ASSUME NEW t \in Threads, NEW p \in Procs, BeginLookup(t, p) PROVE ChainsUnchanged \/ ChainsChange
  BY <1>1, Zenon DEF BeginLookup, Goto, tableVars
<1>2. ASSUME NEW t \in Threads, NEW p \in Procs, BeginRemove(t, p) PROVE ChainsUnchanged \/ ChainsChange
  BY <1>2, Zenon DEF BeginRemove, Goto, tableVars
<1>3. ASSUME NEW t \in Threads, NEW p \in Procs, NEW r \in Regs, BeginAdd(t, p, r) PROVE ChainsUnchanged \/ ChainsChange
  BY <1>3, RouteAssumptions, Zenon DEF BeginAdd, tableVars, Locals
<1>4. ASSUME NEW t \in Threads, LoadSlot(t) PROVE ChainsUnchanged \/ ChainsChange
  BY <1>4, Zenon DEF LoadSlot, Goto, tableVars
<1>5. ASSUME NEW t \in Threads, Walk(t) PROVE ChainsUnchanged \/ ChainsChange
  BY <1>5, Zenon DEF Walk, Goto, tableVars, Found, RoutesOf, Matched
<1>6. ASSUME NEW t \in Threads, Leave(t) PROVE ChainsUnchanged \/ ChainsChange
  BY <1>6, Zenon DEF Leave, Goto, tableVars, Returned
<1>7. ASSUME NEW t \in Threads, HandlerReturns(t) PROVE ChainsUnchanged \/ ChainsChange
  BY <1>7, Zenon DEF HandlerReturns, Goto, tableVars
<1>8. ASSUME NEW t \in Threads, LockMutate(t) PROVE ChainsUnchanged \/ ChainsChange
  BY <1>8, Zenon DEF LockMutate, Goto, tableVars, Lock
<1>9. ASSUME NEW t \in Threads, LockReclaim(t) PROVE ChainsUnchanged \/ ChainsChange
  BY <1>9, Zenon DEF LockReclaim, Goto, tableVars, Lock
<1>10. ASSUME NEW t \in Threads, Unlock(t) PROVE ChainsUnchanged \/ ChainsChange
  BY <1>10, Zenon DEF Unlock, Goto, tableVars, Returned
<1>11. ASSUME NEW t \in Threads, Add(t) PROVE ChainsUnchanged \/ ChainsChange
  BY <1>11, Zenon
<1>12. ASSUME NEW t \in Threads, AddFails(t) PROVE ChainsUnchanged \/ ChainsChange
  BY <1>12, Zenon DEF AddFails, Goto, tableVars, Forget, Kept, RoutesOf, Matched
<1>13. ASSUME NEW t \in Threads, Remove(t) PROVE ChainsUnchanged \/ ChainsChange
  BY <1>13, Zenon
<1>14. ASSUME NEW t \in Threads, RemoveFails(t) PROVE ChainsUnchanged \/ ChainsChange
  BY <1>14, Zenon DEF RemoveFails, Goto, tableVars, Forget, Kept, RoutesOf, Matched
<1>15. ASSUME NEW t \in Threads, Retire(t) PROVE ChainsUnchanged \/ ChainsChange
  BY <1>15, Zenon DEF Retire, Goto, tableVars
<1>16. ASSUME NEW t \in Threads, FreeOld(t) PROVE ChainsUnchanged \/ ChainsChange
  BY <1>16, Zenon
<1>17. ASSUME NEW t \in Threads, Push(t) PROVE ChainsUnchanged \/ ChainsChange
  BY <1>17, Zenon
<1>18. ASSUME NEW t \in Threads, PushFails(t) PROVE ChainsUnchanged \/ ChainsChange
  BY <1>18, Zenon
<1>19. ASSUME NEW t \in Threads, Check(t) PROVE ChainsUnchanged \/ ChainsChange
  BY <1>19, Zenon DEF Check, Goto, tableVars
<1>20. ASSUME NEW t \in Threads, FreeRetired(t) PROVE ChainsUnchanged \/ ChainsChange
  BY <1>20, Zenon
<1>21. ASSUME NEW t \in Threads, RetiredFreed(t) PROVE ChainsUnchanged \/ ChainsChange
  BY <1>21, Zenon DEF RetiredFreed, Goto, tableVars
<1>22. ASSUME NEW t \in Threads, BeginDestroy(t) PROVE ChainsUnchanged \/ ChainsChange
  BY <1>22, Zenon DEF BeginDestroy, Goto, tableVars
<1>23. ASSUME NEW t \in Threads, DestroyChain(t) PROVE ChainsUnchanged \/ ChainsChange
  BY <1>23, Zenon
<1>24. ASSUME NEW t \in Threads, EndDestroy(t) PROVE ChainsUnchanged \/ ChainsChange
  BY <1>24, Zenon DEF EndDestroy, Goto, tableVars
<1>25. CASE Drain
  BY <1>25, Zenon DEF Drain
<1>26. CASE UNCHANGED vars
  BY <1>26, Zenon DEF vars
<1> QED
  BY <1>1, <1>2, <1>3, <1>4, <1>5, <1>6, <1>7, <1>8, <1>9, <1>10, <1>11, <1>12, <1>13,
  <1>14, <1>15, <1>16, <1>17, <1>18, <1>19, <1>20, <1>21, <1>22, <1>23, <1>24, <1>25, <1>26,
  ZenonT(30)
  DEF Next, Begin, Step, Reader, Writer, Reclaimer

(* Copying a chain keeps one route per procedure. *)
LEMMA ChainRoutesStep == RoutesInv /\ [Next]_vars => ChainRoutes'
<1> SUFFICES ASSUME RoutesInv, [Next]_vars PROVE ChainRoutes'
  BY Zenon
<1> USE RouteAssumptions DEF RoutesInv, TypeOK
<1>1. CASE ChainsUnchanged
  BY <1>1, SMTT(30) DEF ChainsUnchanged, ChainRoutes
<1>2. ASSUME NEW t \in Threads, Add(t) PROVE ChainRoutes'
  BY <1>2, SMTT(30) DEF Add, Install, Kept, RoutesOf, ChainRoutes, Locals, SlotChains
<1>3. ASSUME NEW t \in Threads, Remove(t) PROVE ChainRoutes'
  BY <1>3 DEF Remove, Goto, tableVars, Forget, Built, Install, Kept, RoutesOf, Matched,
     ChainRoutes, Locals, SlotChains
<1>4. ASSUME NEW t \in Threads, FreeOld(t) PROVE ChainRoutes'
  BY <1>4 DEF FreeOld, Goto, tableVars, Free, ChainRoutes, Locals, SlotChains
<1>5. ASSUME NEW t \in Threads, Push(t) PROVE ChainRoutes'
  BY <1>5 DEF Push, Goto, tableVars, Unlinking, ChainRoutes, Locals, SlotChains
<1>6. ASSUME NEW t \in Threads, PushFails(t) PROVE ChainRoutes'
  BY <1>6 DEF PushFails, Goto, tableVars, Unlinking, ChainRoutes, Locals, SlotChains
<1>7. ASSUME NEW t \in Threads, FreeRetired(t) PROVE ChainRoutes'
  BY <1>7 DEF FreeRetired, Goto, tableVars, Free, ChainRoutes, Locals, SlotChains
<1>8. ASSUME NEW t \in Threads, DestroyChain(t) PROVE ChainRoutes'
  BY <1>8 DEF DestroyChain, Goto, tableVars, Free, ChainRoutes, Locals, SlotChains
<1> QED BY <1>1, <1>2, <1>3, <1>4, <1>5, <1>6, <1>7, <1>8, ChainStep, Zenon
  DEF RoutesInv, ChainsChange

(* The live chains stay the ones in the table. *)
LEMMA SlotChainsStep == RoutesInv /\ [Next]_vars => SlotChains'
<1> SUFFICES ASSUME RoutesInv, [Next]_vars PROVE SlotChains'
  BY Zenon
<1> USE RouteAssumptions DEF RoutesInv, TypeOK
<1>1. CASE ChainsUnchanged
  BY <1>1, SMTT(30) DEF ChainsUnchanged, SlotChains, ChainRoutes
<1>2. ASSUME NEW t \in Threads, Add(t) PROVE SlotChains'
  BY <1>2, SMTT(30) DEF Add, Built, Install, Kept, RoutesOf, SlotChains, Locals
<1>3. ASSUME NEW t \in Threads, Remove(t) PROVE SlotChains'
  BY <1>3 DEF Remove, Goto, tableVars, Forget, Built, Install, Kept, RoutesOf, Matched,
     SlotChains, ChainRoutes, Locals, UnlinkedHeld, Unlinking
<1>4. ASSUME NEW t \in Threads, FreeOld(t) PROVE SlotChains'
  BY <1>4 DEF FreeOld, Goto, tableVars, Free, SlotChains, ChainRoutes, Locals, UnlinkedHeld,
     Unlinking
<1>5. ASSUME NEW t \in Threads, Push(t) PROVE SlotChains'
  BY <1>5 DEF Push, Goto, tableVars, Unlinking, SlotChains, ChainRoutes, Locals, UnlinkedHeld,
     Unlinking
<1>6. ASSUME NEW t \in Threads, PushFails(t) PROVE SlotChains'
  BY <1>6 DEF PushFails, Goto, tableVars, Unlinking, SlotChains, ChainRoutes, Locals,
     UnlinkedHeld, Unlinking
<1>7. ASSUME NEW t \in Threads, FreeRetired(t) PROVE SlotChains'
  BY <1>7 DEF FreeRetired, Goto, tableVars, Free, SlotChains, ChainRoutes, Locals,
     UnlinkedHeld, Unlinking
<1>8. ASSUME NEW t \in Threads, DestroyChain(t) PROVE SlotChains'
  <2>1. CASE UNCHANGED <<slots, visible>>
    BY <1>8, <2>1 DEF DestroyChain, Free, SlotChains, ChainRoutes, Locals
  <2>2. ASSUME NEW s \in Slots, slots[s] # NoChain,
               state' = [state EXCEPT ![slots[s]] = "freed"],
               slots' = [slots EXCEPT ![s] = NoChain],
               UNCHANGED <<contents, proc>>
        PROVE  SlotChains'
    <3>1. \A v \in Slots : v # s /\ slots[v] # NoChain => slots[v] # slots[s]
      BY <2>2 DEF SlotChains
    <3> QED BY <2>2, <3>1 DEF SlotChains
  <2> QED BY <1>8, <2>1, <2>2, Zenon DEF DestroyChain
<1> QED BY <1>1, <1>2, <1>3, <1>4, <1>5, <1>6, <1>7, <1>8, ChainStep, Zenon
  DEF RoutesInv, ChainsChange

(* Freeing an unlinked chain finalizes the routes it dooms, and no other. *)
LEMMA FreeKeepsOwner ==
  ASSUME RoutesInv, NEW c \in Chains, state[c] \in {"unlinked", "retired"}, Free(c),
         UNCHANGED <<contents, finalProc, proc, installed>>
  PROVE  OneOwner'
<1> TypeOK /\ ChainRoutes /\ OneOwner
  BY Zenon DEF RoutesInv
<1> USE DEF TypeOK
<1>1. \A r \in Regs : finalized'[r] = IF Doomed(c, r) THEN 1 ELSE finalized[r]
  BY DEF Free, OneOwner, Doomed
<1>2. \A d \in Chains, r \in Regs : Doomed(d, r)' <=> d # c /\ Doomed(d, r)
  BY Zenon DEF Free, Doomed
<1>3. \A d \in Chains : state'[d] = "live" <=> state[d] = "live"
  BY Zenon DEF Free
<1>5. \A d \in Chains : state'[d] = "live" => \A r \in contents'[d] : finalized'[r] = 0
  BY <1>1, <1>3, Zenon DEF OneOwner
<1>6. \A d \in Chains, r \in Regs : Doomed(d, r)' =>
        /\ finalized'[r] = 0
        /\ \A e \in Chains : state'[e] = "live" => r \notin contents'[e]
        /\ \A e \in Chains : Doomed(e, r)' => e = d
  BY <1>1, <1>2, <1>3, Zenon DEF OneOwner
<1>7. \A r \in Regs : finalized'[r] <= 1
  BY <1>1 DEF OneOwner
<1>8. \A r \in Regs \ installed' : finalized'[r] = 0
  BY <1>1, Zenon DEF OneOwner, Doomed, ChainRoutes
<1>9. \A r \in installed' :
        \/ finalized'[r] = 1
        \/ \E d \in Chains : state'[d] = "live" /\ r \in contents'[d]
        \/ \E d \in Chains : Doomed(d, r)'
  BY <1>1, <1>2, <1>3 DEF OneOwner
<1> QED
  BY <1>5, <1>6, <1>7, <1>8, <1>9, Zenon DEF OneOwner

(* Installing a copied chain moves the replaced route to the unlinked chain. *)
LEMMA InstallKeepsOwner ==
  ASSUME RoutesInv, NEW p \in Procs, NEW new \in Chains \cup {NoChain}, NEW rs \in SUBSET Regs,
         Built(new, rs), Install(RouteIndex[p], new, rs, p),
         Kept(slots[RouteIndex[p]], p) \subseteq rs,
         rs \cap installed \subseteq Kept(slots[RouteIndex[p]], p),
         installed' = installed \cup rs,
         UNCHANGED <<proc, finalized>>
  PROVE  OneOwner'
<1> DEFINE s == RouteIndex[p]
           old == slots[s]
<1>0. TypeOK /\ Locals /\ ChainRoutes /\ SlotChains /\ OneOwner
  BY Zenon DEF RoutesInv
<1>1. /\ s \in Slots /\ old \in Chains \cup {NoChain} /\ NoChain \notin Chains
      /\ \A d \in Chains : contents[d] \subseteq Regs
      /\ \A r \in installed : r \in Regs
  BY <1>0, RouteAssumptions, Zenon DEF TypeOK
<1>2. old # NoChain => old \in Chains /\ state[old] = "live" /\ old # new
  <2>1. old # NoChain => old \in Chains /\ state[old] = "live"
    BY <1>0, <1>1, Zenon DEF SlotChains
  <2>2. new = NoChain \/ state[new] = "unused"
    BY Zenon DEF Built
  <2> QED BY <2>1, <2>2, Zenon
<1>3. \A d \in Chains : state'[d] = "live" <=> d = new \/ (d # old /\ state[d] = "live")
  <2> SUFFICES ASSUME NEW d \in Chains
               PROVE  state'[d] = "live" <=> d = new \/ (d # old /\ state[d] = "live")
    BY Zenon
  <2>1. state'[d] = IF d = new THEN "live" ELSE IF d = old THEN "unlinked" ELSE state[d]
    BY Zenon DEF Install
  <2> QED BY <2>1, Zenon
<1>4. \A d \in Chains : state[d] = "live" /\ d # old => contents[d] \cap (RoutesOf(old) \cup rs) = {}
  <2> SUFFICES ASSUME NEW d \in Chains, state[d] = "live", d # old, NEW r \in contents[d]
               PROVE  r \notin RoutesOf(old) /\ r \notin rs
    BY Zenon
  <2>1. PICK v \in Slots : slots[v] = d
    BY <1>0, Zenon DEF SlotChains
  <2>2. RouteIndex[proc[r]] # s
    BY <1>0, <1>1, <2>1, Zenon DEF SlotChains
  <2>3. r \notin RoutesOf(old)
    BY <1>0, <1>1, <2>2, Zenon DEF SlotChains, RoutesOf
  <2>4. r \in installed
    BY <1>0, Zenon DEF ChainRoutes
  <2> QED BY <2>3, <2>4, Zenon DEF Kept
<1>5. \A r \in RoutesOf(old) : r \in Regs /\ finalized[r] = 0 /\ r \in installed /\ proc[r] \in Procs
  <2> SUFFICES ASSUME NEW r \in RoutesOf(old)
               PROVE  r \in Regs /\ finalized[r] = 0 /\ r \in installed /\ proc[r] \in Procs
    BY Zenon
  <2>1. old \in Chains /\ r \in contents[old] /\ state[old] = "live"
    BY <1>1, <1>2, Zenon DEF RoutesOf
  <2>2. r \in installed /\ r \in Regs /\ finalized[r] = 0
    BY <1>0, <1>1, <2>1, Zenon DEF ChainRoutes, OneOwner
  <2> QED BY <1>0, <2>2, Zenon DEF Locals
<1>6. \A d \in Chains, r \in Regs :
        Doomed(d, r)' <=> \/ d = old /\ r \in RoutesOf(old) /\ proc[r] = p
                          \/ Doomed(d, r)
  <2> SUFFICES ASSUME NEW d \in Chains, NEW r \in Regs
               PROVE  Doomed(d, r)' <=> \/ d = old /\ r \in RoutesOf(old) /\ proc[r] = p
                                        \/ Doomed(d, r)
    BY Zenon
  <2>0. /\ state'[d] = IF d = new THEN "live" ELSE IF d = old THEN "unlinked" ELSE state[d]
        /\ contents'[d] = IF d = new THEN rs ELSE contents[d]
        /\ finalProc'[d] = IF d # old THEN finalProc[d] ELSE IF Matched(old, p) THEN p ELSE NoProc
    BY Zenon DEF Install
  <2>1. CASE d = new
    <3>1. state[d] = "unused" /\ d # old
      BY <1>1, <1>2, <2>1, Zenon DEF Built
    <3> QED BY <2>0, <2>1, <3>1, Zenon DEF Doomed
  <2>2. CASE d = old
    <3>1. d # new /\ d # NoChain /\ state[d] = "live" /\ RoutesOf(old) = contents[d]
      BY <1>1, <1>2, <2>2, Zenon DEF RoutesOf
    <3>2. proc[r] = p => (r \in RoutesOf(old) => Matched(old, p))
      BY Zenon DEF Matched
    <3>3. r \in RoutesOf(old) => proc[r] \in Procs
      BY <1>5, Zenon
    <3> QED BY <2>0, <2>2, <3>1, <3>2, <3>3, RouteAssumptions, Zenon DEF Doomed
  <2>3. CASE d # new /\ d # old
    BY <2>0, <2>3, Zenon DEF Doomed
  <2> QED BY <2>1, <2>2, <2>3, Zenon
<1>7. \A d \in Chains : contents'[d] = IF d = new THEN rs ELSE contents[d]
  BY Zenon DEF Install
<1>8. \A d \in Chains : state'[d] = "live" => \A r \in contents'[d] : finalized'[r] = 0
  <2> SUFFICES ASSUME NEW d \in Chains, state'[d] = "live", NEW r \in contents'[d]
               PROVE  finalized[r] = 0
    BY Zenon
  <2>1. CASE d = new
    <3>1. r \in rs
      BY <1>7, <2>1, Zenon
    <3>2. CASE r \in installed
      BY <1>5, <3>1, <3>2, Zenon DEF Kept
    <3> QED BY <1>0, <3>1, <3>2, Zenon DEF OneOwner
  <2>2. CASE d # new
    BY <1>0, <1>3, <1>7, <2>2, Zenon DEF OneOwner
  <2> QED BY <2>1, <2>2, Zenon
<1>9. \A r \in RoutesOf(old) : proc[r] = p =>
        /\ \A d \in Chains : state'[d] = "live" => r \notin contents'[d]
        /\ \A d \in Chains : ~Doomed(d, r)
  <2> SUFFICES ASSUME NEW r \in RoutesOf(old), proc[r] = p
               PROVE  /\ \A d \in Chains : state'[d] = "live" => r \notin contents'[d]
                      /\ \A d \in Chains : ~Doomed(d, r)
    BY Zenon
  <2>1. r \notin rs
    BY <1>5, Zenon DEF Kept
  <2>2. \A d \in Chains : state'[d] = "live" => r \notin contents'[d]
    BY <2>1, <1>3, <1>4, <1>7, Zenon
  <2>3. old \in Chains /\ state[old] = "live" /\ r \in contents[old] /\ r \in Regs
    BY <1>1, <1>2, <1>5, Zenon DEF RoutesOf
  <2>4. \A d \in Chains : ~Doomed(d, r)
    BY <1>0, <2>3, Zenon DEF OneOwner
  <2> QED BY <2>2, <2>4, Zenon
<1>10. \A d \in Chains, r \in Regs : Doomed(d, r) =>
         \A e \in Chains : state'[e] = "live" => r \notin contents'[e]
  <2> SUFFICES ASSUME NEW d \in Chains, NEW r \in Regs, Doomed(d, r),
                      NEW e \in Chains, state'[e] = "live"
               PROVE  r \notin contents'[e]
    BY Zenon
  <2>1. \A c \in Chains : state[c] = "live" => r \notin contents[c]
    BY <1>0, Zenon DEF OneOwner
  <2>2. CASE e # new
    BY <1>3, <1>7, <2>1, <2>2, Zenon
  <2>3. CASE e = new
    <3>1. r \in installed
      BY <1>0, Zenon DEF Doomed, ChainRoutes
    <3>2. r \notin RoutesOf(old)
      BY <1>1, <1>2, <2>1, Zenon DEF RoutesOf
    <3>3. r \notin rs
      BY <3>1, <3>2, Zenon DEF Kept
    <3> QED BY <1>7, <2>3, <3>3, Zenon
  <2> QED BY <2>2, <2>3, Zenon
<1>11. \A d \in Chains, r \in Regs : Doomed(d, r)' =>
         /\ finalized'[r] = 0
         /\ \A e \in Chains : state'[e] = "live" => r \notin contents'[e]
         /\ \A e \in Chains : Doomed(e, r)' => e = d
  <2> SUFFICES ASSUME NEW d \in Chains, NEW r \in Regs, Doomed(d, r)'
               PROVE  /\ finalized[r] = 0
                      /\ \A e \in Chains : state'[e] = "live" => r \notin contents'[e]
                      /\ \A e \in Chains : Doomed(e, r)' => e = d
    BY Zenon
  <2>1. CASE Doomed(d, r)
    <3>1. finalized[r] = 0 /\ \A e \in Chains : Doomed(e, r) => e = d
      BY <1>0, <2>1, Zenon DEF OneOwner
    <3>2. ~(r \in RoutesOf(old) /\ proc[r] = p)
      BY <1>9, <2>1, Zenon
    <3> QED BY <1>6, <1>10, <2>1, <3>1, <3>2, Zenon
  <2>2. CASE d = old /\ r \in RoutesOf(old) /\ proc[r] = p
    BY <1>5, <1>6, <1>9, <2>2, Zenon
  <2> QED BY <1>6, <2>1, <2>2, Zenon
<1>12. \A r \in installed' :
         \/ finalized'[r] = 1
         \/ \E c \in Chains : state'[c] = "live" /\ r \in contents'[c]
         \/ \E c \in Chains : Doomed(c, r)'
  <2> SUFFICES ASSUME NEW r \in installed', finalized[r] # 1, \A c \in Chains : ~Doomed(c, r)'
               PROVE  \E c \in Chains : state'[c] = "live" /\ r \in contents'[c]
    BY Zenon
  <2>1. CASE r \in rs
    <3>1. new \in Chains
      BY <2>1, Zenon DEF Built
    <3> QED BY <1>3, <1>7, <2>1, <3>1, Zenon
  <2>2. CASE r \notin rs
    <3>1. r \in installed /\ r \in Regs
      BY <1>1, <2>2, Zenon
    <3>2. \A c \in Chains : ~Doomed(c, r)
      BY <1>6, <3>1, Zenon
    <3>3. PICK c \in Chains : state[c] = "live" /\ r \in contents[c]
      BY <1>0, <3>1, <3>2, Zenon DEF OneOwner
    <3>4. c # old
      <4>1. SUFFICES ASSUME c = old PROVE FALSE
        BY Zenon
      <4>2. r \in RoutesOf(old)
        BY <1>1, <3>3, <4>1, Zenon DEF RoutesOf
      <4>3. proc[r] = p
        BY <2>2, <4>2, Zenon DEF Kept
      <4> QED BY <1>6, <3>1, <4>1, <4>2, <4>3, Zenon
    <3>5. c # new
      <4>1. new = NoChain \/ state[new] = "unused"
        BY Zenon DEF Built
      <4> QED BY <1>1, <3>3, <4>1, Zenon
    <3> QED BY <3>3, <3>4, <3>5, <1>3, <1>7, Zenon
  <2> QED BY <2>1, <2>2, Zenon
<1>13. \A r \in Regs \ installed' : finalized'[r] = 0
  BY <1>0, Zenon DEF OneOwner
<1>14. \A r \in Regs : finalized'[r] <= 1
  BY <1>0, Zenon DEF OneOwner
<1> QED
  BY <1>8, <1>11, <1>12, <1>13, <1>14, Zenon DEF OneOwner

(* Every action keeps one owner per installed registration. *)
LEMMA OneOwnerStep == RoutesInv /\ [Next]_vars => OneOwner'
<1> SUFFICES ASSUME RoutesInv, [Next]_vars PROVE OneOwner'
  BY Zenon
<1> TypeOK /\ Locals /\ ChainRoutes /\ SlotChains /\ UnlinkedHeld /\ OneOwner
  BY Zenon DEF RoutesInv
<1> USE RouteAssumptions DEF TypeOK
<1>1. CASE ChainsUnchanged
  BY <1>1 DEF ChainsUnchanged, OneOwner, Doomed, SlotChains, ChainRoutes, Locals,
     UnlinkedHeld, Unlinking
<1>2. ASSUME NEW t \in Threads, Add(t) PROVE OneOwner'
  <2> DEFINE old == slots[RouteIndex[key[t]]]
             rs == Kept(old, key[t]) \cup {route[t]}
  <2>1. key[t] \in Procs /\ route[t] \in Regs \ installed
    BY <1>2, Zenon DEF Add, Locals
  <2>2. Kept(old, key[t]) \subseteq installed
    BY <2>1 DEF Kept, RoutesOf, ChainRoutes
  <2>3. PICK new \in Chains : Built(new, rs) /\ Install(RouteIndex[key[t]], new, rs, key[t])
    BY <1>2, Zenon DEF Add
  <2>4. installed' = installed \cup rs /\ UNCHANGED <<proc, finalized>>
    BY <1>2, <2>2, Zenon DEF Add
  <2>5. rs \in SUBSET Regs /\ rs \cap installed \subseteq Kept(old, key[t])
    BY <2>1, <2>2, Zenon
  <2> QED BY <2>1, <2>3, <2>4, <2>5, InstallKeepsOwner, Zenon
<1>3. ASSUME NEW t \in Threads, Remove(t) PROVE OneOwner'
  <2> DEFINE old == slots[RouteIndex[key[t]]]
             rs == Kept(old, key[t])
  <2>1. key[t] \in Procs
    BY <1>3, Zenon DEF Remove, Locals, Reading
  <2>2. rs \subseteq installed
    BY <2>1 DEF Kept, RoutesOf, ChainRoutes
  <2>3. PICK new \in Chains \cup {NoChain} :
          Built(new, rs) /\ Install(RouteIndex[key[t]], new, rs, key[t])
    BY <1>3, Zenon DEF Remove
  <2>4. installed' = installed \cup rs /\ UNCHANGED <<proc, finalized>>
    BY <1>3, <2>2, Zenon DEF Remove
  <2> QED BY <2>1, <2>2, <2>3, <2>4, InstallKeepsOwner, Zenon
<1>4. ASSUME NEW t \in Threads, FreeOld(t) PROVE OneOwner'
  BY <1>4, FreeKeepsOwner, ZenonT(40) DEF FreeOld, tableVars, UnlinkedHeld, Unlinking
<1>5. ASSUME NEW t \in Threads, Push(t) PROVE OneOwner'
  BY <1>5 DEF Push, Goto, tableVars, Unlinking, OneOwner, Doomed, SlotChains, ChainRoutes,
     Locals, UnlinkedHeld, Unlinking
<1>6. ASSUME NEW t \in Threads, PushFails(t) PROVE OneOwner'
  BY <1>6, SMTT(30) DEF PushFails, Goto, tableVars, Unlinking, OneOwner, Doomed, SlotChains,
     ChainRoutes, Locals, UnlinkedHeld, Unlinking
<1>7. ASSUME NEW t \in Threads, FreeRetired(t) PROVE OneOwner'
  BY <1>7, FreeKeepsOwner, Zenon DEF FreeRetired, tableVars
<1>8. ASSUME NEW t \in Threads, DestroyChain(t) PROVE OneOwner'
  <2>1. CASE UNCHANGED <<slots, visible>>
    <3>1. \A v \in Slots : slots[v] # NoChain => slots' # [slots EXCEPT ![v] = NoChain]
      BY <2>1, Zenon
    <3>2. PICK c \in Chains : state[c] = "retired" /\ Free(c)
      BY <1>8, <3>1, Zenon DEF DestroyChain
    <3> QED BY <1>8, <3>2, FreeKeepsOwner, Zenon DEF DestroyChain
  <2>2. ASSUME NEW s \in Slots, slots[s] # NoChain,
               finalized' = [r \in Regs |-> IF r \in contents[slots[s]]
                                            THEN finalized[r] + 1 ELSE finalized[r]],
               state' = [state EXCEPT ![slots[s]] = "freed"],
               UNCHANGED <<contents, finalProc, proc, installed>>
        PROVE  OneOwner'
    <3> DEFINE c == slots[s]
    <3>1. c \in Chains /\ state[c] = "live"
      BY <2>2, ZenonT(40) DEF SlotChains
    <3>2. \A d \in Chains : state[d] = "live" /\ d # c => contents[d] \cap contents[c] = {}
      BY <2>2, <3>1 DEF SlotChains
    <3>3. \A r \in Regs : finalized'[r] = IF r \in contents[c] THEN 1 ELSE finalized[r]
      BY <2>2, <3>1 DEF OneOwner
    <3>4. \A d \in Chains, r \in Regs : Doomed(d, r)' <=> Doomed(d, r)
      BY <2>2, <3>1, Zenon DEF Doomed
    <3>5. \A d \in Chains : state'[d] = "live" <=> state[d] = "live" /\ d # c
      BY <2>2, <3>1, Zenon
    <3>6. contents[c] \subseteq installed
      BY <3>1, Zenon DEF ChainRoutes
    <3> QED BY <2>2, <3>1, <3>2, <3>3, <3>4, <3>5, <3>6 DEF OneOwner
  <2> QED BY <1>8, <2>1, <2>2, Zenon DEF DestroyChain
<1> QED BY <1>1, <1>2, <1>3, <1>4, <1>5, <1>6, <1>7, <1>8, ChainStep, Zenon
  DEF RoutesInv, ChainsChange

(*****************************************************************************)
(* RoutesInv is an inductive invariant of the route table: the conjuncts     *)
(* that tie threads to chains, and the theorem itself. The safety properties *)
(* follow from it. SafeWalk is inductive on top of it when slot stores are   *)
(* not delayed, and DestroyedEmpty always. At the end, the route table is    *)
(* shown to implement RouteMap.                                              *)
(*****************************************************************************)

(* An unlinked chain stays in the hands of one thread until it is retired. *)
LEMMA UnlinkedHeldStep == RoutesInv /\ [Next]_vars => UnlinkedHeld'
<1> SUFFICES ASSUME RoutesInv, [Next]_vars PROVE UnlinkedHeld'
  BY Zenon
<1> USE RouteAssumptions DEF RoutesInv, TypeOK, Labels, Reading, Holding, Waiting, Unlinking
<1>1. ASSUME NEW t \in Threads, NEW p \in Procs, BeginLookup(t, p) PROVE UnlinkedHeld'
  BY <1>1 DEF BeginLookup, Goto, tableVars, UnlinkedHeld, LockOwner, SlotChains, Locals
<1>2. ASSUME NEW t \in Threads, NEW p \in Procs, BeginRemove(t, p) PROVE UnlinkedHeld'
  BY <1>2 DEF BeginRemove, Goto, tableVars, UnlinkedHeld, LockOwner, SlotChains, Locals
<1>3. ASSUME NEW t \in Threads, NEW p \in Procs, NEW r \in Regs, BeginAdd(t, p, r) PROVE UnlinkedHeld'
  BY <1>3 DEF BeginAdd, Goto, tableVars, UnlinkedHeld, LockOwner, SlotChains, Locals
<1>4. ASSUME NEW t \in Threads, LoadSlot(t) PROVE UnlinkedHeld'
  BY <1>4 DEF LoadSlot, Goto, tableVars, UnlinkedHeld, LockOwner, SlotChains, Locals
<1>5. ASSUME NEW t \in Threads, Walk(t) PROVE UnlinkedHeld'
  BY <1>5 DEF Walk, Goto, tableVars, Found, RoutesOf, Matched, UnlinkedHeld, LockOwner,
     SlotChains, Locals
<1>6. ASSUME NEW t \in Threads, Leave(t) PROVE UnlinkedHeld'
  BY <1>6 DEF Leave, Goto, tableVars, Returned, UnlinkedHeld, LockOwner, SlotChains, Locals
<1>7. ASSUME NEW t \in Threads, HandlerReturns(t) PROVE UnlinkedHeld'
  BY <1>7 DEF HandlerReturns, Goto, tableVars, UnlinkedHeld, LockOwner, SlotChains, Locals
<1>8. ASSUME NEW t \in Threads, LockMutate(t) PROVE UnlinkedHeld'
  BY <1>8 DEF LockMutate, Goto, tableVars, Lock, UnlinkedHeld, LockOwner, SlotChains, Locals
<1>9. ASSUME NEW t \in Threads, LockReclaim(t) PROVE UnlinkedHeld'
  BY <1>9 DEF LockReclaim, Goto, tableVars, Lock, UnlinkedHeld, LockOwner, SlotChains, Locals
<1>10. ASSUME NEW t \in Threads, Unlock(t) PROVE UnlinkedHeld'
  BY <1>10, SMTT(30) DEF Unlock, Goto, Returned, UnlinkedHeld
<1>11. ASSUME NEW t \in Threads, Add(t) PROVE UnlinkedHeld'
  BY <1>11, SMTT(30) DEF Add, Goto, tableVars, Forget, Built, Install, Kept, RoutesOf, Matched,
     UnlinkedHeld, LockOwner, SlotChains, Locals
<1>12. ASSUME NEW t \in Threads, AddFails(t) PROVE UnlinkedHeld'
  BY <1>12 DEF AddFails, Goto, UnlinkedHeld
<1>13. ASSUME NEW t \in Threads, Remove(t) PROVE UnlinkedHeld'
  BY <1>13, SMTT(30) DEF Remove, Goto, tableVars, Forget, Built, Install, Kept, RoutesOf, Matched,
     UnlinkedHeld, LockOwner, SlotChains, Locals
<1>14. ASSUME NEW t \in Threads, RemoveFails(t) PROVE UnlinkedHeld'
  BY <1>14 DEF RemoveFails, Goto, tableVars, Forget, Kept, RoutesOf, Matched, UnlinkedHeld,
     LockOwner, SlotChains, Locals
<1>15. ASSUME NEW t \in Threads, Retire(t) PROVE UnlinkedHeld'
  BY <1>15, SMTT(30) DEF Retire, Goto, UnlinkedHeld
<1>16. ASSUME NEW t \in Threads, FreeOld(t) PROVE UnlinkedHeld'
  BY <1>16, SMTT(30) DEF FreeOld, Goto, tableVars, Free, UnlinkedHeld, LockOwner, SlotChains, Locals
<1>17. ASSUME NEW t \in Threads, Push(t) PROVE UnlinkedHeld'
  BY <1>17 DEF Push, Goto, UnlinkedHeld, LockOwner
<1>18. ASSUME NEW t \in Threads, PushFails(t) PROVE UnlinkedHeld'
  BY <1>18, SMTT(30) DEF PushFails, Goto, UnlinkedHeld, LockOwner
<1>19. ASSUME NEW t \in Threads, Check(t) PROVE UnlinkedHeld'
  BY <1>19, SMTT(30) DEF Check, Goto, UnlinkedHeld
<1>20. ASSUME NEW t \in Threads, FreeRetired(t) PROVE UnlinkedHeld'
  BY <1>20, SMTT(30) DEF FreeRetired, Goto, tableVars, Free, UnlinkedHeld, LockOwner, SlotChains, Locals
<1>21. ASSUME NEW t \in Threads, RetiredFreed(t) PROVE UnlinkedHeld'
  BY <1>21 DEF RetiredFreed, Goto, tableVars, UnlinkedHeld, LockOwner, SlotChains, Locals
<1>22. ASSUME NEW t \in Threads, BeginDestroy(t) PROVE UnlinkedHeld'
  BY <1>22, SMTT(30) DEF BeginDestroy, Goto, UnlinkedHeld
<1>23. ASSUME NEW t \in Threads, DestroyChain(t) PROVE UnlinkedHeld'
  BY <1>23, SMTT(30) DEF DestroyChain, Free, UnlinkedHeld, Locals
<1>24. ASSUME NEW t \in Threads, EndDestroy(t) PROVE UnlinkedHeld'
  BY <1>24 DEF EndDestroy, Goto, tableVars, UnlinkedHeld, LockOwner, SlotChains, Locals
<1>25. CASE Drain
  BY <1>25, Zenon DEF Drain, UnlinkedHeld, LockOwner, SlotChains, Locals
<1>26. CASE UNCHANGED vars
  BY <1>26, ZenonT(40) DEF vars, UnlinkedHeld, LockOwner, SlotChains, Locals
<1> QED
  BY <1>1, <1>2, <1>3, <1>4, <1>5, <1>6, <1>7, <1>8, <1>9, <1>10, <1>11, <1>12, <1>13,
  <1>14, <1>15, <1>16, <1>17, <1>18, <1>19, <1>20, <1>21, <1>22, <1>23, <1>24, <1>25, <1>26,
  ZenonT(30)
  DEF Next, Begin, Step, Reader, Writer, Reclaimer

(* Whoever leaves a retired chain behind leaves a reclaimer behind. *)
LEMMA RetiredHasReclaimerStep == RoutesInv /\ [Next]_vars => RetiredHasReclaimer'
<1> SUFFICES ASSUME RoutesInv, [Next]_vars PROVE RetiredHasReclaimer'
  BY Zenon
<1> USE RouteAssumptions DEF RoutesInv, TypeOK, Labels, Reading, Holding, Waiting, Unlinking
<1>1. ASSUME NEW t \in Threads, NEW p \in Procs, BeginLookup(t, p) PROVE RetiredHasReclaimer'
  BY <1>1 DEF BeginLookup, Goto, tableVars, RetiredHasReclaimer, Freeing, NoReaders, LastReader
<1>2. ASSUME NEW t \in Threads, NEW p \in Procs, BeginRemove(t, p) PROVE RetiredHasReclaimer'
  BY <1>2, Zenon DEF BeginRemove, Goto, tableVars, RetiredHasReclaimer, Freeing, NoReaders, LastReader
<1>3. ASSUME NEW t \in Threads, NEW p \in Procs, NEW r \in Regs, BeginAdd(t, p, r) PROVE RetiredHasReclaimer'
  BY <1>3, Zenon DEF BeginAdd, Goto, tableVars, RetiredHasReclaimer, Freeing, NoReaders, LastReader
<1>4. ASSUME NEW t \in Threads, LoadSlot(t) PROVE RetiredHasReclaimer'
  BY <1>4, Zenon DEF LoadSlot, Goto, tableVars, RetiredHasReclaimer, Freeing, NoReaders, LastReader
<1>5. ASSUME NEW t \in Threads, Walk(t) PROVE RetiredHasReclaimer'
  BY <1>5, Zenon DEF Walk, Goto, tableVars, Found, RoutesOf, Matched, RetiredHasReclaimer, Freeing,
     NoReaders, LastReader
<1>6. ASSUME NEW t \in Threads, Leave(t) PROVE RetiredHasReclaimer'
  BY <1>6 DEF Leave, Goto, tableVars, Returned, RetiredHasReclaimer, Freeing, NoReaders,
     LastReader
<1>7. ASSUME NEW t \in Threads, HandlerReturns(t) PROVE RetiredHasReclaimer'
  BY <1>7, Zenon DEF HandlerReturns, Goto, tableVars, RetiredHasReclaimer, Freeing, NoReaders, LastReader
<1>8. ASSUME NEW t \in Threads, LockMutate(t) PROVE RetiredHasReclaimer'
  BY <1>8, Zenon DEF LockMutate, Goto, tableVars, Lock, RetiredHasReclaimer, Freeing, NoReaders,
     LastReader
<1>9. ASSUME NEW t \in Threads, LockReclaim(t) PROVE RetiredHasReclaimer'
  BY <1>9, Zenon DEF LockReclaim, Goto, tableVars, Lock, RetiredHasReclaimer, Freeing, NoReaders,
     LastReader
<1>10. ASSUME NEW t \in Threads, Unlock(t) PROVE RetiredHasReclaimer'
  BY <1>10, ZenonT(40) DEF Unlock, Goto, tableVars, Returned, RetiredHasReclaimer, Freeing, NoReaders,
     LastReader
<1>11. ASSUME NEW t \in Threads, Add(t) PROVE RetiredHasReclaimer'
  BY <1>11 DEF Add, Goto, tableVars, Forget, Built, Install, Kept, RoutesOf, Matched,
     RetiredHasReclaimer, Freeing, NoReaders, LastReader
<1>12. ASSUME NEW t \in Threads, AddFails(t) PROVE RetiredHasReclaimer'
  BY <1>12, ZenonT(40) DEF AddFails, Goto, tableVars, Forget, Kept, RoutesOf, Matched,
     RetiredHasReclaimer, Freeing, NoReaders, LastReader
<1>13. ASSUME NEW t \in Threads, Remove(t) PROVE RetiredHasReclaimer'
  BY <1>13 DEF Remove, Goto, tableVars, Forget, Built, Install, Kept, RoutesOf, Matched,
     RetiredHasReclaimer, Freeing, NoReaders, LastReader
<1>14. ASSUME NEW t \in Threads, RemoveFails(t) PROVE RetiredHasReclaimer'
  BY <1>14, Zenon DEF RemoveFails, Goto, tableVars, Forget, Kept, RoutesOf, Matched,
     RetiredHasReclaimer, Freeing, NoReaders, LastReader
<1>15. ASSUME NEW t \in Threads, Retire(t) PROVE RetiredHasReclaimer'
  BY <1>15, Zenon DEF Retire, Goto, tableVars, RetiredHasReclaimer, Freeing, NoReaders, LastReader
<1>16. ASSUME NEW t \in Threads, FreeOld(t) PROVE RetiredHasReclaimer'
  BY <1>16, Zenon DEF FreeOld, Goto, tableVars, Free, RetiredHasReclaimer, Freeing, NoReaders, LastReader
<1>17. ASSUME NEW t \in Threads, Push(t) PROVE RetiredHasReclaimer'
  BY <1>17, Zenon DEF Push, Goto, tableVars, Unlinking, RetiredHasReclaimer, Freeing, NoReaders,
     LastReader
<1>18. ASSUME NEW t \in Threads, PushFails(t) PROVE RetiredHasReclaimer'
  BY <1>18, Zenon DEF PushFails, Goto, tableVars, Unlinking, RetiredHasReclaimer, Freeing, NoReaders,
     LastReader
<1>19. ASSUME NEW t \in Threads, Check(t) PROVE RetiredHasReclaimer'
  BY <1>19 DEF Check, Goto, tableVars, RetiredHasReclaimer, Freeing, NoReaders, LastReader
<1>20. ASSUME NEW t \in Threads, FreeRetired(t) PROVE RetiredHasReclaimer'
  BY <1>20, Zenon DEF FreeRetired, Goto, tableVars, Free, RetiredHasReclaimer, Freeing, NoReaders,
     LastReader
<1>21. ASSUME NEW t \in Threads, RetiredFreed(t) PROVE RetiredHasReclaimer'
  BY <1>21, Zenon DEF RetiredFreed, Goto, tableVars, RetiredHasReclaimer, Freeing, NoReaders, LastReader
<1>22. ASSUME NEW t \in Threads, BeginDestroy(t) PROVE RetiredHasReclaimer'
  BY <1>22, Zenon DEF BeginDestroy, Goto, tableVars, RetiredHasReclaimer, Freeing, NoReaders, LastReader
<1>23. ASSUME NEW t \in Threads, DestroyChain(t) PROVE RetiredHasReclaimer'
  BY <1>23, Zenon DEF DestroyChain, Goto, tableVars, Free, RetiredHasReclaimer, Freeing, NoReaders,
     LastReader
<1>24. ASSUME NEW t \in Threads, EndDestroy(t) PROVE RetiredHasReclaimer'
  BY <1>24, Zenon DEF EndDestroy, Goto, tableVars, RetiredHasReclaimer, Freeing, NoReaders, LastReader
<1>25. CASE Drain
  BY <1>25, Zenon DEF Drain, RetiredHasReclaimer, Freeing, NoReaders, LastReader
<1>26. CASE UNCHANGED vars
  BY <1>26, Zenon DEF vars, RetiredHasReclaimer, Freeing, NoReaders, LastReader
<1> QED
  BY <1>1, <1>2, <1>3, <1>4, <1>5, <1>6, <1>7, <1>8, <1>9, <1>10, <1>11, <1>12, <1>13,
  <1>14, <1>15, <1>16, <1>17, <1>18, <1>19, <1>20, <1>21, <1>22, <1>23, <1>24, <1>25, <1>26,
  ZenonT(30)
  DEF Next, Begin, Step, Reader, Writer, Reclaimer

-----------------------------------------------------------------------------
(* The types, and active_readers, which counts the lookups in progress. *)
INSTANCE FiniteSetTheorems

(* The lookups in progress are finitely many. *)
LEMMA ReadersFinite == IsFiniteSet(Readers) /\ Cardinality(Readers) \in Nat
  BY RouteAssumptions, FS_Subset, FS_CardinalityType, Zenon DEF Readers

(* Between fetch_add and fetch_sub a lookup keeps active_readers above zero. *)
LEMMA ReaderIsCounted ==
  ASSUME ReaderCount, NEW t \in Threads, pc[t] \in Reading
  PROVE  active_readers \in Nat /\ active_readers > 0
<1>1. t \in Readers BY Zenon DEF Readers
<1>2. Cardinality(Readers) # 0 BY <1>1, ReadersFinite, FS_EmptySet, Zenon
<1> QED BY <1>2, ReadersFinite DEF ReaderCount

(* The initial table satisfies the invariants. *)
LEMMA InitInv == Init => RoutesInv /\ SafeWalk /\ DestroyedEmpty
<1> SUFFICES ASSUME Init PROVE RoutesInv /\ SafeWalk /\ DestroyedEmpty
  BY Zenon
<1> USE RouteAssumptions DEF Init
<1>1. TypeOK
  BY Zenon DEF TypeOK, Labels
<1>2. ReaderCount
  <2>1. Readers = {} BY Zenon DEF Readers, Reading
  <2> QED BY <2>1, FS_EmptySet, Zenon DEF ReaderCount
<1>3. LockOwner /\ Locals /\ UnlinkedHeld
  BY Zenon DEF LockOwner, Locals, UnlinkedHeld, Holding, Unlinking, Reading
<1>4. ChainRoutes /\ SlotChains /\ OneOwner /\ RetiredHasReclaimer
  BY DEF ChainRoutes, SlotChains, OneOwner, Doomed, RetiredHasReclaimer
<1>5. SafeWalk /\ DestroyedEmpty
  BY Zenon DEF SafeWalk, DestroyedEmpty
<1> QED BY <1>1, <1>2, <1>3, <1>4, <1>5, Zenon DEF RoutesInv

(* Every action preserves the types. *)
LEMMA TypeOKStep == RoutesInv /\ [Next]_vars => TypeOK'
<1> SUFFICES ASSUME RoutesInv, [Next]_vars PROVE TypeOK'
  BY Zenon
<1> USE RouteAssumptions DEF RoutesInv, TypeOK, Labels, Reading, Holding, Waiting, Unlinking
<1>1. ASSUME NEW t \in Threads, NEW p \in Procs, BeginLookup(t, p) PROVE TypeOK'
  BY <1>1 DEF BeginLookup, Goto, tableVars
<1>2. ASSUME NEW t \in Threads, NEW p \in Procs, BeginRemove(t, p) PROVE TypeOK'
  BY <1>2, Zenon DEF BeginRemove, Goto, tableVars
<1>3. ASSUME NEW t \in Threads, NEW p \in Procs, NEW r \in Regs, BeginAdd(t, p, r) PROVE TypeOK'
  BY <1>3, Zenon DEF BeginAdd, Goto, tableVars
<1>4. ASSUME NEW t \in Threads, LoadSlot(t) PROVE TypeOK'
  BY <1>4, Zenon DEF LoadSlot, Goto, tableVars, Locals
<1>5. ASSUME NEW t \in Threads, Walk(t) PROVE TypeOK'
  BY <1>5, SMTT(30) DEF Walk, Goto, tableVars, Found, RoutesOf
<1>6. ASSUME NEW t \in Threads, Leave(t) PROVE TypeOK'
  BY <1>6, ReaderIsCounted DEF Leave, Goto, tableVars, Returned
<1>7. ASSUME NEW t \in Threads, HandlerReturns(t) PROVE TypeOK'
  BY <1>7, Zenon DEF HandlerReturns, Goto, tableVars
<1>8. ASSUME NEW t \in Threads, LockMutate(t) PROVE TypeOK'
  BY <1>8 DEF LockMutate, Goto, tableVars, Lock
<1>9. ASSUME NEW t \in Threads, LockReclaim(t) PROVE TypeOK'
  BY <1>9, Zenon DEF LockReclaim, Goto, tableVars, Lock
<1>10. ASSUME NEW t \in Threads, Unlock(t) PROVE TypeOK'
  BY <1>10, ZenonT(40) DEF Unlock, Goto, Returned
<1>11. ASSUME NEW t \in Threads, Add(t) PROVE TypeOK'
  BY <1>11 DEF Add, Goto, tableVars, Forget, Built, Install, Kept, RoutesOf, Matched, Locals
<1>12. ASSUME NEW t \in Threads, AddFails(t) PROVE TypeOK'
  BY <1>12, ZenonT(40) DEF AddFails, Goto, tableVars, Forget, Kept, RoutesOf, Matched
<1>13. ASSUME NEW t \in Threads, Remove(t) PROVE TypeOK'
  BY <1>13 DEF Remove, Goto, Forget, Install, Kept, RoutesOf, Locals
<1>14. ASSUME NEW t \in Threads, RemoveFails(t) PROVE TypeOK'
  BY <1>14, Zenon DEF RemoveFails, Goto, tableVars, Forget, Kept, RoutesOf, Matched
<1>15. ASSUME NEW t \in Threads, Retire(t) PROVE TypeOK'
  BY <1>15, Zenon DEF Retire, Goto, tableVars
<1>16. ASSUME NEW t \in Threads, FreeOld(t) PROVE TypeOK'
  BY <1>16 DEF FreeOld, Goto, tableVars, Free, UnlinkedHeld
<1>17. ASSUME NEW t \in Threads, Push(t) PROVE TypeOK'
  BY <1>17, Zenon DEF Push, Goto, tableVars, Unlinking
<1>18. ASSUME NEW t \in Threads, PushFails(t) PROVE TypeOK'
  BY <1>18, Zenon DEF PushFails, Goto, tableVars, Unlinking
<1>19. ASSUME NEW t \in Threads, Check(t) PROVE TypeOK'
  BY <1>19, Zenon DEF Check, Goto, tableVars
<1>20. ASSUME NEW t \in Threads, FreeRetired(t) PROVE TypeOK'
  BY <1>20 DEF FreeRetired, Goto, tableVars, Free
<1>21. ASSUME NEW t \in Threads, RetiredFreed(t) PROVE TypeOK'
  BY <1>21, Zenon DEF RetiredFreed, Goto, tableVars
<1>22. ASSUME NEW t \in Threads, BeginDestroy(t) PROVE TypeOK'
  BY <1>22, Zenon DEF BeginDestroy, Goto, tableVars
<1>23. ASSUME NEW t \in Threads, DestroyChain(t) PROVE TypeOK'
  BY <1>23, SMTT(30) DEF DestroyChain, Goto, tableVars, Free
<1>24. ASSUME NEW t \in Threads, EndDestroy(t) PROVE TypeOK'
  BY <1>24, Zenon DEF EndDestroy, Goto, tableVars
<1>25. CASE Drain
  BY <1>25, Zenon DEF Drain
<1>26. CASE UNCHANGED vars
  BY <1>26, Zenon DEF vars
<1> QED
  BY <1>1, <1>2, <1>3, <1>4, <1>5, <1>6, <1>7, <1>8, <1>9, <1>10, <1>11, <1>12, <1>13,
  <1>14, <1>15, <1>16, <1>17, <1>18, <1>19, <1>20, <1>21, <1>22, <1>23, <1>24, <1>25, <1>26,
  ZenonT(30)
  DEF Next, Begin, Step, Reader, Writer, Reclaimer

(* fetch_add and fetch_sub are the only steps that enter or leave a lookup. *)
LEMMA ReaderCountStep == RoutesInv /\ [Next]_vars => ReaderCount'
<1> SUFFICES ASSUME RoutesInv, [Next]_vars PROVE ReaderCount'
  BY Zenon
<1> USE RouteAssumptions DEF RoutesInv, TypeOK, Reading, Labels, Holding, Waiting, Unlinking
<1>1. ASSUME NEW t \in Threads, NEW p \in Procs, BeginLookup(t, p) PROVE ReaderCount'
  <2>1. Readers' = Readers \cup {t} /\ t \notin Readers
    BY <1>1 DEF BeginLookup, Goto, Readers
  <2>2. Cardinality(Readers') = Cardinality(Readers) + 1
    BY <2>1, ReadersFinite, FS_AddElement, Zenon
  <2> QED BY <1>1, <2>2, Zenon DEF BeginLookup, ReaderCount
<1>2. ASSUME NEW t \in Threads, NEW p \in Procs, BeginRemove(t, p) PROVE ReaderCount'
  BY <1>2, Zenon DEF BeginRemove, Goto, tableVars, ReaderCount, Readers
<1>3. ASSUME NEW t \in Threads, NEW p \in Procs, NEW r \in Regs, BeginAdd(t, p, r) PROVE ReaderCount'
  BY <1>3, Zenon DEF BeginAdd, Goto, tableVars, ReaderCount, Readers
<1>4. ASSUME NEW t \in Threads, LoadSlot(t) PROVE ReaderCount'
  BY <1>4, Zenon DEF LoadSlot, Goto, tableVars, ReaderCount, Readers
<1>5. ASSUME NEW t \in Threads, Walk(t) PROVE ReaderCount'
  BY <1>5, Zenon DEF Walk, Goto, tableVars, Found, RoutesOf, Matched, ReaderCount, Readers
<1>6. ASSUME NEW t \in Threads, Leave(t) PROVE ReaderCount'
  <2>1. Readers' = Readers \ {t} /\ t \in Readers
    BY <1>6 DEF Leave, Goto, Returned, Readers
  <2>2. Cardinality(Readers') = Cardinality(Readers) - 1
    BY <2>1, ReadersFinite, FS_RemoveElement, Zenon
  <2> QED BY <1>6, <2>2, Zenon DEF Leave, ReaderCount
<1>7. ASSUME NEW t \in Threads, HandlerReturns(t) PROVE ReaderCount'
  BY <1>7, Zenon DEF HandlerReturns, Goto, tableVars, ReaderCount, Readers
<1>8. ASSUME NEW t \in Threads, LockMutate(t) PROVE ReaderCount'
  BY <1>8, Zenon DEF LockMutate, Goto, tableVars, Lock, ReaderCount, Readers
<1>9. ASSUME NEW t \in Threads, LockReclaim(t) PROVE ReaderCount'
  BY <1>9, Zenon DEF LockReclaim, Goto, tableVars, Lock, ReaderCount, Readers
<1>10. ASSUME NEW t \in Threads, Unlock(t) PROVE ReaderCount'
  BY <1>10, Zenon DEF Unlock, Goto, tableVars, Returned, ReaderCount, Readers
<1>11. ASSUME NEW t \in Threads, Add(t) PROVE ReaderCount'
  BY <1>11, Zenon DEF Add, Goto, tableVars, Forget, Built, Install, Kept, RoutesOf, Matched,
     ReaderCount, Readers
<1>12. ASSUME NEW t \in Threads, AddFails(t) PROVE ReaderCount'
  BY <1>12, Zenon DEF AddFails, Goto, tableVars, Forget, Kept, RoutesOf, Matched, ReaderCount, Readers
<1>13. ASSUME NEW t \in Threads, Remove(t) PROVE ReaderCount'
  BY <1>13, Zenon DEF Remove, Goto, tableVars, Forget, Built, Install, Kept, RoutesOf, Matched,
     ReaderCount, Readers
<1>14. ASSUME NEW t \in Threads, RemoveFails(t) PROVE ReaderCount'
  BY <1>14, Zenon DEF RemoveFails, Goto, tableVars, Forget, Kept, RoutesOf, Matched, ReaderCount, Readers
<1>15. ASSUME NEW t \in Threads, Retire(t) PROVE ReaderCount'
  BY <1>15, Zenon DEF Retire, Goto, tableVars, ReaderCount, Readers
<1>16. ASSUME NEW t \in Threads, FreeOld(t) PROVE ReaderCount'
  BY <1>16, Zenon DEF FreeOld, Goto, tableVars, Free, ReaderCount, Readers
<1>17. ASSUME NEW t \in Threads, Push(t) PROVE ReaderCount'
  BY <1>17, Zenon DEF Push, Goto, tableVars, Unlinking, ReaderCount, Readers
<1>18. ASSUME NEW t \in Threads, PushFails(t) PROVE ReaderCount'
  BY <1>18, Zenon DEF PushFails, Goto, tableVars, Unlinking, ReaderCount, Readers
<1>19. ASSUME NEW t \in Threads, Check(t) PROVE ReaderCount'
  BY <1>19, Zenon DEF Check, Goto, tableVars, ReaderCount, Readers
<1>20. ASSUME NEW t \in Threads, FreeRetired(t) PROVE ReaderCount'
  BY <1>20, Zenon DEF FreeRetired, Goto, tableVars, Free, ReaderCount, Readers
<1>21. ASSUME NEW t \in Threads, RetiredFreed(t) PROVE ReaderCount'
  BY <1>21, Zenon DEF RetiredFreed, Goto, tableVars, ReaderCount, Readers
<1>22. ASSUME NEW t \in Threads, BeginDestroy(t) PROVE ReaderCount'
  BY <1>22, Zenon DEF BeginDestroy, Goto, tableVars, ReaderCount, Readers
<1>23. ASSUME NEW t \in Threads, DestroyChain(t) PROVE ReaderCount'
  BY <1>23, Zenon DEF DestroyChain, Goto, tableVars, Free, ReaderCount, Readers
<1>24. ASSUME NEW t \in Threads, EndDestroy(t) PROVE ReaderCount'
  BY <1>24, Zenon DEF EndDestroy, Goto, tableVars, ReaderCount, Readers
<1>25. CASE Drain
  BY <1>25, Zenon DEF Drain, ReaderCount, Readers
<1>26. CASE UNCHANGED vars
  BY <1>26, Zenon DEF vars, ReaderCount, Readers
<1> QED
  BY <1>1, <1>2, <1>3, <1>4, <1>5, <1>6, <1>7, <1>8, <1>9, <1>10, <1>11, <1>12, <1>13,
  <1>14, <1>15, <1>16, <1>17, <1>18, <1>19, <1>20, <1>21, <1>22, <1>23, <1>24, <1>25, <1>26,
  ZenonT(30)
  DEF Next, Begin, Step, Reader, Writer, Reclaimer

-----------------------------------------------------------------------------
(* RoutesInv is inductive. *)
LEMMA RoutesInvStep == RoutesInv /\ [Next]_vars => RoutesInv'
  BY TypeOKStep, LockOwnerStep, ReaderCountStep, LocalsStep, ChainRoutesStep, SlotChainsStep,
     UnlinkedHeldStep, OneOwnerStep, RetiredHasReclaimerStep, Zenon DEF RoutesInv

(* The route table keeps its types, its lock discipline, its reader count   *)
(* and one owner per registration, with delayed stores and failing          *)
(* allocations included.                                                    *)
THEOREM RoutesInvariant == Spec => []RoutesInv
  BY InitInv, RoutesInvStep, PTL DEF Spec

(* Every variable of the route table keeps its type. *)
THEOREM RoutesTypeOK == Spec => []TypeOK
<1>1. RoutesInv => TypeOK BY Zenon DEF RoutesInv
<1> QED BY <1>1, RoutesInvariant, PTL

(* No finalizer runs twice, whoever frees the chains (route_chain_free). *)
THEOREM FinalizerRunsOnce == Spec => []FinalizedAtMostOnce
<1>1. RoutesInv => FinalizedAtMostOnce
  BY Zenon DEF RoutesInv, OneOwner, FinalizedAtMostOnce
<1> QED BY <1>1, RoutesInvariant, PTL

(* The state of a route in the table has not been finalized. *)
THEOREM RegisteredStateAlive == Spec => []RegisteredNotFinalized
<1>1. RoutesInv => RegisteredNotFinalized
  BY DEF RoutesInv, TypeOK, OneOwner, SlotChains, RegisteredNotFinalized, RoutesOf
<1> QED BY <1>1, RoutesInvariant, PTL

(* Lookups find one route per procedure. *)
THEOREM ChainsHaveOneRoutePerProc == Spec => []OneRoutePerProc
<1>1. RoutesInv => OneRoutePerProc
  <2>1. RoutesInv => ChainRoutes BY Zenon DEF RoutesInv
  <2>2. ChainRoutes => OneRoutePerProc BY DEF ChainRoutes, OneRoutePerProc
  <2> QED BY <2>1, <2>2, Zenon
<1> QED BY <1>1, RoutesInvariant, PTL

(* No retired chain is forgotten by the readers and the writers. *)
THEOREM RetiredChainsHaveReclaimer == Spec => []RetiredHasReclaimer
<1>1. RoutesInv => RetiredHasReclaimer
  BY Zenon DEF RoutesInv
<1> QED BY <1>1, RoutesInvariant, PTL

-----------------------------------------------------------------------------
(* Without store buffering nobody frees a chain that a lookup walks. *)
LEMMA SafeWalkStep == ~StoreBuffering /\ RoutesInv /\ SafeWalk /\ [Next]_vars => SafeWalk'
<1> SUFFICES ASSUME ~StoreBuffering /\ RoutesInv /\ SafeWalk, [Next]_vars PROVE SafeWalk'
  BY Zenon
<1> USE RouteAssumptions DEF RoutesInv, TypeOK, Labels, Reading, Holding, Waiting, Unlinking
<1>1. ASSUME NEW t \in Threads, NEW p \in Procs, BeginLookup(t, p) PROVE SafeWalk'
  BY <1>1 DEF BeginLookup, Goto, tableVars, SafeWalk
<1>2. ASSUME NEW t \in Threads, NEW p \in Procs, BeginRemove(t, p) PROVE SafeWalk'
  BY <1>2 DEF BeginRemove, Goto, tableVars, SafeWalk
<1>3. ASSUME NEW t \in Threads, NEW p \in Procs, NEW r \in Regs, BeginAdd(t, p, r) PROVE SafeWalk'
  BY <1>3, ZenonT(40) DEF BeginAdd, Goto, tableVars, SafeWalk
<1>4. ASSUME NEW t \in Threads, LoadSlot(t) PROVE SafeWalk'
  BY <1>4 DEF LoadSlot, Goto, tableVars, SafeWalk, SlotChains, UnlinkedHeld, Locals
<1>5. ASSUME NEW t \in Threads, Walk(t) PROVE SafeWalk'
  BY <1>5 DEF Walk, Goto, tableVars, Found, RoutesOf, Matched, SafeWalk
<1>6. ASSUME NEW t \in Threads, Leave(t) PROVE SafeWalk'
  BY <1>6 DEF Leave, Goto, tableVars, Returned, SafeWalk
<1>7. ASSUME NEW t \in Threads, HandlerReturns(t) PROVE SafeWalk'
  BY <1>7 DEF HandlerReturns, Goto, tableVars, SafeWalk
<1>8. ASSUME NEW t \in Threads, LockMutate(t) PROVE SafeWalk'
  BY <1>8 DEF LockMutate, Goto, tableVars, Lock, SafeWalk
<1>9. ASSUME NEW t \in Threads, LockReclaim(t) PROVE SafeWalk'
  BY <1>9 DEF LockReclaim, Goto, tableVars, Lock, SafeWalk
<1>10. ASSUME NEW t \in Threads, Unlock(t) PROVE SafeWalk'
  BY <1>10, ZenonT(40) DEF Unlock, Goto, tableVars, Returned, SafeWalk
<1>11. ASSUME NEW t \in Threads, Add(t) PROVE SafeWalk'
  BY <1>11 DEF Add, Goto, tableVars, Forget, Built, Install, Kept, RoutesOf, Matched, SafeWalk
<1>12. ASSUME NEW t \in Threads, AddFails(t) PROVE SafeWalk'
  BY <1>12, ZenonT(40) DEF AddFails, Goto, tableVars, Forget, Kept, RoutesOf, Matched, SafeWalk
<1>13. ASSUME NEW t \in Threads, Remove(t) PROVE SafeWalk'
  BY <1>13, SMTT(30) DEF Remove, Goto, tableVars, Forget, Built, Install, Kept, RoutesOf, Matched, SafeWalk
<1>14. ASSUME NEW t \in Threads, RemoveFails(t) PROVE SafeWalk'
  BY <1>14 DEF RemoveFails, Goto, tableVars, Forget, Kept, RoutesOf, Matched, SafeWalk
<1>15. ASSUME NEW t \in Threads, Retire(t) PROVE SafeWalk'
  <2>1. NoReaders => \A u \in Threads : pc[u] # "walk"
    BY ReaderIsCounted DEF NoReaders
  <2> QED BY <1>15, <2>1 DEF Retire, Goto, tableVars, SafeWalk
<1>16. ASSUME NEW t \in Threads, FreeOld(t) PROVE SafeWalk'
  BY <1>16 DEF FreeOld, Goto, tableVars, Free, SafeWalk
<1>17. ASSUME NEW t \in Threads, Push(t) PROVE SafeWalk'
  BY <1>17 DEF Push, Goto, tableVars, SafeWalk, LockOwner, UnlinkedHeld
<1>18. ASSUME NEW t \in Threads, PushFails(t) PROVE SafeWalk'
  BY <1>18 DEF PushFails, Goto, tableVars, Unlinking, SafeWalk
<1>19. ASSUME NEW t \in Threads, Check(t) PROVE SafeWalk'
  <2>1. NoReaders => \A u \in Threads : pc[u] # "walk"
    BY ReaderIsCounted DEF NoReaders
  <2> QED BY <1>19, <2>1 DEF Check, Goto, tableVars, SafeWalk
<1>20. ASSUME NEW t \in Threads, FreeRetired(t) PROVE SafeWalk'
  BY <1>20 DEF FreeRetired, Goto, tableVars, Free, SafeWalk
<1>21. ASSUME NEW t \in Threads, RetiredFreed(t) PROVE SafeWalk'
  BY <1>21 DEF RetiredFreed, Goto, tableVars, SafeWalk
<1>22. ASSUME NEW t \in Threads, BeginDestroy(t) PROVE SafeWalk'
  BY <1>22 DEF BeginDestroy, Goto, tableVars, SafeWalk
<1>23. ASSUME NEW t \in Threads, DestroyChain(t) PROVE SafeWalk'
  <2>1. \A u \in Threads : pc[u] # "walk"
    BY <1>23 DEF DestroyChain, Locals
  <2> QED BY <1>23, <2>1, Zenon DEF DestroyChain, SafeWalk
<1>24. ASSUME NEW t \in Threads, EndDestroy(t) PROVE SafeWalk'
  BY <1>24 DEF EndDestroy, Goto, tableVars, SafeWalk
<1>25. CASE Drain
  BY <1>25, Zenon DEF Drain, SafeWalk
<1>26. CASE UNCHANGED vars
  BY <1>26 DEF vars, SafeWalk
<1> QED
  BY <1>1, <1>2, <1>3, <1>4, <1>5, <1>6, <1>7, <1>8, <1>9, <1>10, <1>11, <1>12, <1>13,
  <1>14, <1>15, <1>16, <1>17, <1>18, <1>19, <1>20, <1>21, <1>22, <1>23, <1>24, <1>25, <1>26,
  ZenonT(30)
  DEF Next, Begin, Step, Reader, Writer, Reclaimer

(* Without store buffering the chain a lookup walks stays allocated. *)
THEOREM WalkIsSafe ==
  ASSUME ~StoreBuffering
  PROVE  Spec => [](SafeWalk /\ NoWalkOfFreedChain)
<1>1. SafeWalk => NoWalkOfFreedChain
  BY Zenon DEF SafeWalk, NoWalkOfFreedChain
<1>2. RoutesInv /\ SafeWalk /\ [Next]_vars => SafeWalk'
  BY SafeWalkStep, Zenon
<1> QED BY <1>1, <1>2, InitInv, RoutesInvariant, PTL DEF Spec

(* routes_destroy ends with an empty table, and nothing follows it. *)
LEMMA DestroyedEmptyStep == RoutesInv /\ DestroyedEmpty /\ [Next]_vars => DestroyedEmpty'
<1> SUFFICES ASSUME RoutesInv /\ DestroyedEmpty, [Next]_vars PROVE DestroyedEmpty'
  BY Zenon
<1> USE RouteAssumptions DEF RoutesInv, TypeOK, Labels, Reading, Holding, Waiting, Unlinking
<1>1. ASSUME NEW t \in Threads, NEW p \in Procs, BeginLookup(t, p) PROVE DestroyedEmpty'
  BY <1>1, Zenon DEF BeginLookup, Goto, tableVars, DestroyedEmpty, Locals
<1>2. ASSUME NEW t \in Threads, NEW p \in Procs, BeginRemove(t, p) PROVE DestroyedEmpty'
  BY <1>2, Zenon DEF BeginRemove, Goto, tableVars, DestroyedEmpty, Locals
<1>3. ASSUME NEW t \in Threads, NEW p \in Procs, NEW r \in Regs, BeginAdd(t, p, r) PROVE DestroyedEmpty'
  BY <1>3, Zenon DEF BeginAdd, Goto, tableVars, DestroyedEmpty, Locals
<1>4. ASSUME NEW t \in Threads, LoadSlot(t) PROVE DestroyedEmpty'
  BY <1>4, Zenon DEF LoadSlot, Goto, tableVars, DestroyedEmpty, Locals
<1>5. ASSUME NEW t \in Threads, Walk(t) PROVE DestroyedEmpty'
  BY <1>5, Zenon DEF Walk, Goto, tableVars, Found, RoutesOf, Matched, DestroyedEmpty, Locals
<1>6. ASSUME NEW t \in Threads, Leave(t) PROVE DestroyedEmpty'
  BY <1>6, Zenon DEF Leave, Goto, tableVars, Returned, DestroyedEmpty, Locals
<1>7. ASSUME NEW t \in Threads, HandlerReturns(t) PROVE DestroyedEmpty'
  BY <1>7, Zenon DEF HandlerReturns, Goto, tableVars, DestroyedEmpty, Locals
<1>8. ASSUME NEW t \in Threads, LockMutate(t) PROVE DestroyedEmpty'
  BY <1>8, Zenon DEF LockMutate, Goto, tableVars, Lock, DestroyedEmpty, Locals
<1>9. ASSUME NEW t \in Threads, LockReclaim(t) PROVE DestroyedEmpty'
  BY <1>9, Zenon DEF LockReclaim, Goto, tableVars, Lock, DestroyedEmpty, Locals
<1>10. ASSUME NEW t \in Threads, Unlock(t) PROVE DestroyedEmpty'
  BY <1>10, Zenon DEF Unlock, Goto, tableVars, Returned, DestroyedEmpty, Locals
<1>11. ASSUME NEW t \in Threads, Add(t) PROVE DestroyedEmpty'
  BY <1>11, Zenon DEF Add, Goto, tableVars, Forget, Built, Install, Kept, RoutesOf, Matched,
     DestroyedEmpty, Locals
<1>12. ASSUME NEW t \in Threads, AddFails(t) PROVE DestroyedEmpty'
  BY <1>12, Zenon DEF AddFails, Goto, tableVars, Forget, Kept, RoutesOf, Matched, DestroyedEmpty, Locals
<1>13. ASSUME NEW t \in Threads, Remove(t) PROVE DestroyedEmpty'
  BY <1>13, Zenon DEF Remove, Goto, tableVars, Forget, Built, Install, Kept, RoutesOf, Matched,
     DestroyedEmpty, Locals
<1>14. ASSUME NEW t \in Threads, RemoveFails(t) PROVE DestroyedEmpty'
  BY <1>14, Zenon DEF RemoveFails, Goto, tableVars, Forget, Kept, RoutesOf, Matched, DestroyedEmpty,
     Locals
<1>15. ASSUME NEW t \in Threads, Retire(t) PROVE DestroyedEmpty'
  BY <1>15, Zenon DEF Retire, Goto, tableVars, DestroyedEmpty, Locals
<1>16. ASSUME NEW t \in Threads, FreeOld(t) PROVE DestroyedEmpty'
  BY <1>16, Zenon DEF FreeOld, Goto, tableVars, Free, DestroyedEmpty, Locals
<1>17. ASSUME NEW t \in Threads, Push(t) PROVE DestroyedEmpty'
  BY <1>17, Zenon DEF Push, Goto, tableVars, Unlinking, DestroyedEmpty, Locals
<1>18. ASSUME NEW t \in Threads, PushFails(t) PROVE DestroyedEmpty'
  BY <1>18, Zenon DEF PushFails, Goto, tableVars, Unlinking, DestroyedEmpty, Locals
<1>19. ASSUME NEW t \in Threads, Check(t) PROVE DestroyedEmpty'
  BY <1>19, Zenon DEF Check, Goto, tableVars, DestroyedEmpty, Locals
<1>20. ASSUME NEW t \in Threads, FreeRetired(t) PROVE DestroyedEmpty'
  BY <1>20, Zenon DEF FreeRetired, Goto, tableVars, Free, DestroyedEmpty, Locals
<1>21. ASSUME NEW t \in Threads, RetiredFreed(t) PROVE DestroyedEmpty'
  BY <1>21, Zenon DEF RetiredFreed, Goto, tableVars, DestroyedEmpty, Locals
<1>22. ASSUME NEW t \in Threads, BeginDestroy(t) PROVE DestroyedEmpty'
  BY <1>22, Zenon DEF BeginDestroy, Goto, tableVars, DestroyedEmpty, Locals
<1>23. ASSUME NEW t \in Threads, DestroyChain(t) PROVE DestroyedEmpty'
  BY <1>23, Zenon DEF DestroyChain, Goto, tableVars, Free, DestroyedEmpty, Locals
<1>24. ASSUME NEW t \in Threads, EndDestroy(t) PROVE DestroyedEmpty'
  BY <1>24, Zenon DEF EndDestroy, Goto, tableVars, DestroyedEmpty, Locals
<1>25. CASE Drain
  BY <1>25, Zenon DEF Drain, DestroyedEmpty, Locals
<1>26. CASE UNCHANGED vars
  BY <1>26, Zenon DEF vars, DestroyedEmpty, Locals
<1> QED
  BY <1>1, <1>2, <1>3, <1>4, <1>5, <1>6, <1>7, <1>8, <1>9, <1>10, <1>11, <1>12, <1>13,
  <1>14, <1>15, <1>16, <1>17, <1>18, <1>19, <1>20, <1>21, <1>22, <1>23, <1>24, <1>25, <1>26,
  ZenonT(30)
  DEF Next, Begin, Step, Reader, Writer, Reclaimer

(* Only a failed allocation in retire_route leaks a chain. *)
NoLeak == \A c \in Chains : state[c] # "leaked"

(* With an allocator that does not fail no chain is leaked. *)
LEMMA NoLeakStep == ~AllocMayFail /\ RoutesInv /\ NoLeak /\ [Next]_vars => NoLeak'
<1> SUFFICES ASSUME ~AllocMayFail /\ RoutesInv /\ NoLeak, [Next]_vars PROVE NoLeak'
  BY Zenon
<1> USE RouteAssumptions DEF RoutesInv, TypeOK
<1>1. CASE ChainsUnchanged
  BY <1>1, Zenon DEF ChainsUnchanged, NoLeak
<1>2. ASSUME NEW t \in Threads, Add(t) PROVE NoLeak'
  BY <1>2, SMTT(30) DEF Add, Goto, tableVars, Forget, Built, Install, Kept, RoutesOf, Matched, NoLeak
<1>3. ASSUME NEW t \in Threads, Remove(t) PROVE NoLeak'
  BY <1>3 DEF Remove, Goto, tableVars, Forget, Built, Install, Kept, RoutesOf, Matched, NoLeak
<1>4. ASSUME NEW t \in Threads, FreeOld(t) PROVE NoLeak'
  BY <1>4, Zenon DEF FreeOld, Goto, tableVars, Free, NoLeak
<1>5. ASSUME NEW t \in Threads, Push(t) PROVE NoLeak'
  BY <1>5, Zenon DEF Push, Goto, tableVars, Unlinking, NoLeak
<1>6. ASSUME NEW t \in Threads, PushFails(t) PROVE NoLeak'
  BY <1>6, Zenon DEF PushFails, Goto, tableVars, Unlinking, NoLeak
<1>7. ASSUME NEW t \in Threads, FreeRetired(t) PROVE NoLeak'
  BY <1>7, Zenon DEF FreeRetired, Goto, tableVars, Free, NoLeak
<1>8. ASSUME NEW t \in Threads, DestroyChain(t) PROVE NoLeak'
  BY <1>8, Zenon DEF DestroyChain, Goto, tableVars, Free, NoLeak
<1> QED BY <1>1, <1>2, <1>3, <1>4, <1>5, <1>6, <1>7, <1>8, ChainStep, Zenon
  DEF RoutesInv, ChainsChange

(* With an allocator that does not fail, every route that was ever          *)
(* installed is finalized exactly once by the end of routes_destroy.        *)
THEOREM DestroyFinalizes ==
  ASSUME ~AllocMayFail
  PROVE  Spec => []FinalizedByDestroy
<1>1. RoutesInv /\ NoLeak /\ DestroyedEmpty => FinalizedByDestroy
  <2> SUFFICES ASSUME RoutesInv, NoLeak, DestroyedEmpty, Destroyed, NEW r \in installed
               PROVE  finalized[r] = 1
    BY Zenon DEF FinalizedByDestroy
  <2>1. \A c \in Chains : state[c] \in {"unused", "freed"}
    <3>1. \A c \in Chains : state[c] # "unlinked"
      BY Zenon DEF RoutesInv, Destroyed, UnlinkedHeld, Unlinking
    <3>2. (\A s \in Slots : slots[s] = NoChain) /\ \A c \in Chains : state[c] # "retired"
      BY Zenon DEF Destroyed, DestroyedEmpty
    <3>3. \A c \in Chains : state[c] # "live"
      BY <3>2, RouteAssumptions, Zenon DEF RoutesInv, SlotChains
    <3> QED BY <3>1, <3>2, <3>3, Zenon DEF RoutesInv, TypeOK, NoLeak
  <2> QED BY <2>1, Zenon DEF RoutesInv, TypeOK, OneOwner, Doomed
<1>2. Init => NoLeak
  BY Zenon DEF Init, NoLeak
<1>3. RoutesInv /\ NoLeak /\ [Next]_vars => NoLeak'
  BY NoLeakStep, Zenon
<1> QED BY <1>1, <1>2, <1>3, InitInv, DestroyedEmptyStep, RoutesInvariant, PTL DEF Spec

(*****************************************************************************)
(* The route table implements RouteMap when slot stores are not delayed:     *)
(* every step of Routes is a step of the map or leaves the map as it is.     *)
(*****************************************************************************)

(* The steps that change neither the table nor an answer. *)
Quiet(t) ==
  \/ HandlerReturns(t) \/ LockMutate(t) \/ LockReclaim(t) \/ AddFails(t)
  \/ RemoveFails(t) \/ Retire(t) \/ FreeOld(t) \/ Push(t) \/ PushFails(t)
  \/ Check(t) \/ FreeRetired(t) \/ RetiredFreed(t) \/ EndDestroy(t) \/ Unlock(t)

(* What a quiet step leaves alone. *)
LEMMA QuietStep ==
  ASSUME TypeOK, SafeWalk, NEW t \in Threads, Quiet(t)
  PROVE  /\ UNCHANGED <<visible, installed, up>>
         /\ pc[t] \notin {"walk", "leave"} /\ pc'[t] \notin {"walk", "leave"}
         /\ \A u \in Threads : u # t =>
              pc'[u] = pc[u] /\ cur'[u] = cur[u] /\ key'[u] = key[u] /\ route'[u] = route[u]
<1> USE DEF TypeOK, Goto, tableVars
<1>1. CASE HandlerReturns(t) BY <1>1, Zenon DEF HandlerReturns
<1>2. CASE LockMutate(t) BY <1>2, Zenon DEF LockMutate, Lock
<1>3. CASE LockReclaim(t) BY <1>3, Zenon DEF LockReclaim, Lock
<1>4. CASE AddFails(t) BY <1>4, Zenon DEF AddFails, Forget
<1>5. CASE RemoveFails(t) BY <1>5, Zenon DEF RemoveFails, Forget
<1>6. CASE Retire(t) BY <1>6, Zenon DEF Retire
<1>7. CASE FreeOld(t) BY <1>7, Zenon DEF FreeOld
<1>8. CASE Push(t) BY <1>8, Zenon DEF Push
<1>9. CASE PushFails(t) BY <1>9, Zenon DEF PushFails
<1>10. CASE Check(t) BY <1>10, Zenon DEF Check
<1>11. CASE FreeRetired(t) BY <1>11, Zenon DEF FreeRetired
<1>12. CASE RetiredFreed(t) BY <1>12, Zenon DEF RetiredFreed
<1>13. CASE EndDestroy(t) BY <1>13, Zenon DEF EndDestroy
<1>14. CASE Unlock(t) BY <1>14, Zenon DEF Unlock, Returned, SafeWalk
<1> QED BY <1>1, <1>2, <1>3, <1>4, <1>5, <1>6, <1>7, <1>8, <1>9, <1>10, <1>11, <1>12, <1>13, <1>14, ZenonT(40) DEF Quiet

(* A chain names at most one route for a procedure. *)
LEMMA RouteOnIs ==
  ASSUME RoutesInv, NEW c \in Chains \cup {NoChain}, NEW p, NEW r \in RoutesOf(c), proc[r] = p
  PROVE  RouteOn(c, p) = r
<1>1. \A q \in RoutesOf(c) : proc[q] = p => q = r
  BY DEF RoutesOf, RoutesInv, ChainRoutes
<1>2. Matched(c, p) BY Zenon DEF Matched
<1> QED BY <1>1, <1>2, Zenon DEF RouteOn

(* A lookup finds nothing, or a registration of the procedure. *)
LEMMA RouteOnCases ==
  ASSUME RoutesInv, NEW c \in Chains \cup {NoChain}, NEW p
  PROVE  \/ Matched(c, p) /\ RouteOn(c, p) \in RoutesOf(c) /\ RouteOn(c, p) \in Regs
         \/ ~Matched(c, p) /\ RouteOn(c, p) = NoReg
<1>1. CASE Matched(c, p)
  <2>1. PICK r \in RoutesOf(c) : proc[r] = p BY <1>1, Zenon DEF Matched
  <2>2. RouteOn(c, p) = r BY <2>1, RouteOnIs, Zenon
  <2> QED BY <1>1, <2>1, <2>2, Zenon DEF RoutesInv, TypeOK, RoutesOf
<1>2. CASE ~Matched(c, p)
  BY <1>2, Zenon DEF RouteOn
<1> QED BY <1>1, <1>2, Zenon

(* The routes of two chains that agree on a procedure. *)
LEMMA RouteOnSame ==
  ASSUME RoutesInv, RoutesInv', NEW p,
         NEW c \in Chains \cup {NoChain}, NEW d \in Chains \cup {NoChain},
         {r \in RoutesOf(d)' : proc'[r] = p} = {r \in RoutesOf(c) : proc[r] = p}
  PROVE  RouteOn(d, p)' = RouteOn(c, p)
<1>1. CASE Matched(c, p)
  <2>1. PICK r \in RoutesOf(c) : proc[r] = p BY <1>1, Zenon DEF Matched
  <2>2. r \in RoutesOf(d)' /\ proc'[r] = p BY <2>1, Zenon
  <2>3. RouteOn(c, p) = r BY <2>1, RouteOnIs, Zenon
  <2>4. \A q \in RoutesOf(d)' : proc'[q] = p => q = r
    BY <2>2 DEF RoutesOf, RoutesInv, ChainRoutes
  <2> QED BY <2>2, <2>3, <2>4, Zenon DEF RouteOn, Matched
<1>2. CASE ~Matched(c, p)
  <2>1. ~Matched(d, p)' BY <1>2, Zenon DEF Matched
  <2> QED BY <1>2, <2>1, Zenon DEF RouteOn
<1> QED BY <1>1, <1>2, Zenon

(* A chain that has been published never changes. *)
LEMMA PublishedChainsConstant ==
  ASSUME RoutesInv, [Next]_vars
  PROVE  /\ \A c \in Chains : state[c] # "unused" => contents'[c] = contents[c]
         /\ \A r \in installed : proc'[r] = proc[r]
<1> USE DEF RoutesInv, TypeOK
<1>1. CASE ChainsUnchanged
  BY <1>1, Zenon DEF ChainsUnchanged
<1>2. ASSUME NEW t \in Threads, Add(t) \/ Remove(t)
      PROVE  /\ \A c \in Chains : state[c] # "unused" => contents'[c] = contents[c]
             /\ \A r \in installed : proc'[r] = proc[r]
  BY <1>2, RouteAssumptions DEF Add, Remove, Install, Built
<1>3. ASSUME NEW t \in Threads,
             FreeOld(t) \/ Push(t) \/ PushFails(t) \/ FreeRetired(t) \/ DestroyChain(t)
      PROVE  contents' = contents /\ proc' = proc
  BY <1>3, Zenon DEF FreeOld, Push, PushFails, FreeRetired, DestroyChain, tableVars
<1> QED BY <1>1, <1>2, <1>3, ChainStep, Zenon DEF ChainsChange

(* So a lookup of a published chain gives the same answer at any time. *)
LEMMA RouteOnConstant ==
  ASSUME RoutesInv, RoutesInv', [Next]_vars, NEW p, NEW c \in Chains \cup {NoChain},
         c = NoChain \/ state[c] # "unused"
  PROVE  RouteOn(c, p)' = RouteOn(c, p)
<1>1. RoutesOf(c)' = RoutesOf(c)
  BY PublishedChainsConstant, Zenon DEF RoutesOf
<1>2. RoutesOf(c) \subseteq installed
  BY Zenon DEF RoutesOf, RoutesInv, ChainRoutes
<1>3. {r \in RoutesOf(c)' : proc'[r] = p} = {r \in RoutesOf(c) : proc[r] = p}
  BY <1>1, <1>2, PublishedChainsConstant, Zenon
<1> QED BY <1>3, RouteOnSame, Zenon

(* A thread that does not move keeps its answer. *)
LEMMA AnswerConstant ==
  ASSUME RoutesInv, RoutesInv', SafeWalk, [Next]_vars, NEW t \in Threads,
         pc'[t] = pc[t], cur'[t] = cur[t], key'[t] = key[t], route'[t] = route[t]
  PROVE  Answer(t)' = Answer(t)
<1>1. cur[t] \in Chains \cup {NoChain} BY Zenon DEF RoutesInv, TypeOK
<1>2. CASE pc[t] = "walk"
  <2>1. cur[t] = NoChain \/ state[cur[t]] # "unused" BY <1>2, Zenon DEF SafeWalk
  <2>2. RouteOn(cur[t], key[t])' = RouteOn(cur[t], key[t])
    <3> DEFINE c == cur[t]
               p == key[t]
    <3>1. \A k, d : d = c /\ k = p => RouteOn(d, k)' = RouteOn(d, k)
      BY <1>1, <2>1, RouteOnConstant, Zenon
    <3> QED BY <3>1, Zenon
  <2> QED BY <1>2, <2>2, Zenon DEF Answer
<1>3. CASE pc[t] # "walk"
  BY <1>3, Zenon DEF Answer
<1> QED BY <1>2, <1>3, Zenon

-----------------------------------------------------------------------------
TableOf == [p \in Procs |-> RouteOn(visible[RouteIndex[p]], p)]
AnswersOf == [t \in Threads |-> Answer(t)]

(* While no slot changes, the map does not. *)
LEMMA TableConstant ==
  ASSUME RoutesInv, RoutesInv', SafeWalk, [Next]_vars, UNCHANGED visible
  PROVE  TableOf' = TableOf
<1> SUFFICES ASSUME NEW p \in Procs
             PROVE  RouteOn(visible[RouteIndex[p]], p)' = RouteOn(visible[RouteIndex[p]], p)
  BY Zenon DEF TableOf
<1>1. RouteIndex[p] \in Slots BY RouteAssumptions, Zenon
<1>2. PICK c \in Chains \cup {NoChain} : c = visible[RouteIndex[p]] /\ c = visible'[RouteIndex[p]]
  BY <1>1, Zenon DEF RoutesInv, TypeOK
<1>3. c = NoChain \/ state[c] # "unused"
  BY <1>1, <1>2, Zenon DEF SafeWalk, RoutesInv, SlotChains
<1>4. RouteOn(c, p)' = RouteOn(c, p) BY <1>3, RouteOnConstant, Zenon
<1> QED BY <1>2, <1>4, Zenon

(* Unless a thread loads a slot, or enters or leaves a walk, answers stay. *)
LEMMA AnswersConstant ==
  ASSUME RoutesInv, RoutesInv', SafeWalk, [Next]_vars,
         \A t \in Threads :
           \/ /\ pc[t] \notin {"walk", "leave"}
              /\ pc'[t] \notin {"walk", "leave"}
           \/ pc'[t] = pc[t] /\ cur'[t] = cur[t] /\ key'[t] = key[t] /\ route'[t] = route[t]
  PROVE  AnswersOf' = AnswersOf
<1> SUFFICES ASSUME NEW t \in Threads PROVE Answer(t)' = Answer(t)
  BY Zenon DEF AnswersOf
<1>1. CASE pc[t] \notin {"walk", "leave"} /\ pc'[t] \notin {"walk", "leave"}
  BY <1>1, Zenon DEF Answer
<1> QED BY <1>1, AnswerConstant, Zenon

(* One thread's answer changes. *)
LEMMA AnswersExcept ==
  ASSUME NEW t \in Threads, NEW v, Answer(t)' = v,
         \A u \in Threads : u # t => Answer(u)' = Answer(u)
  PROVE  AnswersOf' = [AnswersOf EXCEPT ![t] = v] /\ AnswersOf[t] = Answer(t)
<1>1. AnswersOf' = [u \in Threads |-> IF u = t THEN v ELSE Answer(u)]
  BY Zenon DEF AnswersOf
<1>2. [AnswersOf EXCEPT ![t] = v] = [u \in Threads |-> IF u = t THEN v ELSE Answer(u)]
  BY ZenonT(40) DEF AnswersOf
<1> QED BY <1>1, <1>2, Zenon DEF AnswersOf

(* The table seen by lookups after routes_add_route stored the new chain. *)
LEMMA AddIsPut ==
  ASSUME RoutesInv, RoutesInv', SafeWalk, SafeWalk', [Next]_vars, NEW t \in Threads, Add(t)
  PROVE  TableOf' = [TableOf EXCEPT ![key[t]] = route[t]] /\ key[t] \in Procs /\ route[t] \in Regs
<1> DEFINE s == RouteIndex[key[t]]
           old == slots[s]
           rs == Kept(old, key[t]) \cup {route[t]}
<1> USE RouteAssumptions
<1>1. /\ key[t] \in Procs /\ route[t] \in Regs \ installed /\ proc[route[t]] = key[t]
      /\ s \in Slots /\ old \in Chains \cup {NoChain}
  BY Zenon DEF Add, RoutesInv, TypeOK, Locals
<1>2. PICK new \in Chains : Built(new, rs) /\ Install(s, new, rs, key[t])
  BY Zenon DEF Add
<1>3. proc' = proc /\ slots = visible /\ slots' = visible'
  BY ZenonT(40) DEF Add, SafeWalk
<1>4. /\ visible' = [visible EXCEPT ![s] = new]
      /\ RoutesOf(new)' = rs
  BY <1>2, <1>3, <1>1, ZenonT(40) DEF Install, RoutesOf
<1>5. ASSUME NEW p \in Procs
      PROVE  RouteOn(visible[RouteIndex[p]], p)' = TableOf[p] \/ p = key[t]
  <2>1. CASE RouteIndex[p] # s
    <3>1. PICK c \in Chains \cup {NoChain} : c = visible[RouteIndex[p]] /\ c = visible'[RouteIndex[p]]
      BY <2>1, <1>4, Zenon DEF RoutesInv, TypeOK
    <3>2. c = NoChain \/ state[c] # "unused"
      BY <3>1, ZenonT(40) DEF SafeWalk, RoutesInv, SlotChains
    <3>3. RouteOn(c, p)' = RouteOn(c, p) BY <3>2, RouteOnConstant, Zenon
    <3> QED BY <3>1, <3>3, ZenonT(40) DEF TableOf
  <2>2. CASE RouteIndex[p] = s /\ p # key[t]
    <3>1. {r \in RoutesOf(new)' : proc'[r] = p} = {r \in RoutesOf(old) : proc[r] = p}
      BY <2>2, <1>1, <1>3, <1>4, Zenon DEF Kept
    <3>2. RouteOn(new, p)' = RouteOn(old, p)
      BY <1>1, <3>1, RouteOnSame, Zenon
    <3>3. visible'[s] = new /\ visible[s] = old
      BY <1>1, <1>3, <1>4, Zenon DEF RoutesInv, TypeOK
    <3> QED BY <2>2, <3>2, <3>3, Zenon DEF TableOf
  <2> QED BY <2>1, <2>2, Zenon
<1>6. ASSUME NEW p \in Procs, p = key[t]
      PROVE  RouteOn(visible[RouteIndex[p]], p)' = route[t]
  <2>1. PICK r \in Regs : r = route[t]
    BY <1>1, Zenon
  <2>2. visible'[RouteIndex[p]] = new
    BY <1>1, <1>4, <1>6, Zenon DEF RoutesInv, TypeOK
  <2>3. r \in RoutesOf(new)' /\ proc'[r] = p
    BY <2>1, <1>1, <1>3, <1>4, <1>6, Zenon
  <2>4. \A q \in RoutesOf(new)' : proc'[q] = p => q = r
    BY <2>1, <1>3, <1>4, <1>6, Zenon DEF Kept
  <2>5. RouteOn(new, p)' = r
    BY <2>3, <2>4, Zenon DEF RouteOn, Matched
  <2> QED BY <2>1, <2>2, <2>5, Zenon
<1> QED BY <1>1, <1>5, <1>6, ZenonT(40) DEF TableOf

(* The table seen by lookups after wirecall_routes_remove. *)
LEMMA RemoveIsDelete ==
  ASSUME RoutesInv, RoutesInv', SafeWalk, SafeWalk', [Next]_vars, NEW t \in Threads, Remove(t)
  PROVE  /\ TableOf' = [TableOf EXCEPT ![key[t]] = NoReg]
         /\ key[t] \in Procs /\ TableOf[key[t]] # NoReg
<1> DEFINE s == RouteIndex[key[t]]
           old == slots[s]
           rs == Kept(old, key[t])
<1> USE RouteAssumptions
<1>1. key[t] \in Procs /\ s \in Slots /\ old \in Chains \cup {NoChain}
  BY Zenon DEF Remove, RoutesInv, TypeOK, Locals, Reading
<1>2. PICK new \in Chains \cup {NoChain} : Built(new, rs) /\ Install(s, new, rs, key[t])
  BY ZenonT(40) DEF Remove
<1>3. proc' = proc /\ slots = visible /\ slots' = visible'
  BY ZenonT(40) DEF Remove, SafeWalk
<1>4. /\ visible' = [visible EXCEPT ![s] = new]
      /\ RoutesOf(new)' = rs
  BY <1>2, <1>3, <1>1, ZenonT(40) DEF Install, RoutesOf, Built
<1>5. ASSUME NEW p \in Procs
      PROVE  RouteOn(visible[RouteIndex[p]], p)' = IF p = key[t] THEN NoReg ELSE TableOf[p]
  <2>1. CASE RouteIndex[p] # s
    <3>1. PICK c \in Chains \cup {NoChain} : c = visible[RouteIndex[p]] /\ c = visible'[RouteIndex[p]]
      BY <2>1, <1>4, Zenon DEF RoutesInv, TypeOK
    <3>2. c = NoChain \/ state[c] # "unused"
      BY <3>1, ZenonT(40) DEF SafeWalk, RoutesInv, SlotChains
    <3>3. RouteOn(c, p)' = RouteOn(c, p) BY <3>2, RouteOnConstant, Zenon
    <3> QED BY <2>1, <3>1, <3>3, ZenonT(40) DEF TableOf
  <2>2. CASE RouteIndex[p] = s /\ p # key[t]
    <3>1. {r \in RoutesOf(new)' : proc'[r] = p} = {r \in RoutesOf(old) : proc[r] = p}
      BY <2>2, <1>3, <1>4, Zenon DEF Kept
    <3>2. RouteOn(new, p)' = RouteOn(old, p)
      BY <1>1, <3>1, RouteOnSame, Zenon
    <3>3. visible'[s] = new /\ visible[s] = old
      BY <1>1, <1>3, <1>4, Zenon DEF RoutesInv, TypeOK
    <3> QED BY <2>2, <3>2, <3>3, Zenon DEF TableOf
  <2>3. CASE p = key[t]
    <3>1. visible'[RouteIndex[p]] = new
      BY <2>3, <1>1, <1>4 DEF RoutesInv, TypeOK
    <3>2. ~Matched(new, p)'
      BY <2>3, <1>3, <1>4, Zenon DEF Matched, Kept
    <3> QED BY <2>3, <3>1, <3>2, Zenon DEF RouteOn
  <2> QED BY <2>1, <2>2, <2>3, Zenon
<1>6. RouteOn(old, key[t]) # NoReg
  BY <1>1, RouteOnCases, Zenon DEF Remove
<1> QED BY <1>1, <1>3, <1>5, <1>6, Zenon DEF TableOf

(* Destroying the chain of a slot drops the procedures of that slot. *)
LEMMA DestroyIsDrop ==
  ASSUME RoutesInv, RoutesInv', SafeWalk, SafeWalk', [Next]_vars, NEW s \in Slots,
         slots' = [slots EXCEPT ![s] = NoChain]
  PROVE  TableOf' = [p \in Procs |-> IF p \in {q \in Procs : RouteIndex[q] = s}
                                     THEN NoReg ELSE TableOf[p]]
<1> USE RouteAssumptions
<1>1. visible = slots /\ visible' = slots'
  BY Zenon DEF SafeWalk
<1> SUFFICES ASSUME NEW p \in Procs
             PROVE  RouteOn(visible[RouteIndex[p]], p)' = IF RouteIndex[p] = s THEN NoReg ELSE TableOf[p]
  BY Zenon DEF TableOf
<1>2. CASE RouteIndex[p] = s
  <2>1. visible'[RouteIndex[p]] = NoChain
    BY <1>1, <1>2, Zenon DEF RoutesInv, TypeOK
  <2> QED BY <1>2, <2>1, Zenon DEF RouteOn, Matched, RoutesOf
<1>3. CASE RouteIndex[p] # s
  <2>1. PICK c \in Chains \cup {NoChain} : c = visible[RouteIndex[p]] /\ c = visible'[RouteIndex[p]]
    BY <1>1, <1>3, Zenon DEF RoutesInv, TypeOK
  <2>2. c = NoChain \/ state[c] # "unused"
    BY <2>1, <1>1, Zenon DEF RoutesInv, SlotChains
  <2>3. RouteOn(c, p)' = RouteOn(c, p) BY <2>2, RouteOnConstant, Zenon
  <2> QED BY <1>3, <2>1, <2>3, ZenonT(40) DEF TableOf
<1> QED BY <1>2, <1>3, Zenon

-----------------------------------------------------------------------------
(* Every step of the table is a step of the map, or none. *)
LEMMA MapStep ==
  ASSUME ~StoreBuffering, RoutesInv, RoutesInv', SafeWalk, SafeWalk', [Next]_vars
  PROVE  [Map!MapNext]_(Map!mapVars)
<1> DEFINE Same == UNCHANGED <<TableOf, installed, AnswersOf, up>>
<1>0. Same => UNCHANGED Map!mapVars
  BY Zenon DEF TableOf, AnswersOf, Map!mapVars
<1> TypeOK /\ Locals
  BY Zenon DEF RoutesInv
<1> USE RouteAssumptions DEF TypeOK, Labels, Reading, Holding, Waiting, Unlinking
<1>1. ASSUME NEW t \in Threads, Begin(t) PROVE [Map!MapNext]_(Map!mapVars)
  <2>1. UNCHANGED <<visible, installed>> /\ TableOf' = TableOf
    BY <1>1, TableConstant, Zenon
    DEF Begin, BeginLookup, BeginRemove, BeginAdd, BeginDestroy, tableVars
  <2>2. AnswersOf' = AnswersOf
    BY <1>1, AnswersConstant
    DEF Begin, BeginLookup, BeginRemove, BeginAdd, BeginDestroy, Goto, tableVars
  <2>3. CASE BeginDestroy(t)
    <3>1. AnswersOf = [u \in Threads |-> NoAnswer]
      BY <2>3, Zenon DEF BeginDestroy, AnswersOf, Answer
    <3>2. Map!MapClose
      BY <2>1, <2>2, <2>3, <3>1, Zenon DEF Map!MapClose, BeginDestroy, TableOf, AnswersOf
    <3> QED BY <3>2, Zenon DEF Map!MapNext
  <2>4. CASE ~BeginDestroy(t)
    <3>1. up' = up
      BY <1>1, <2>4, Zenon DEF Begin, BeginLookup, BeginRemove, BeginAdd
    <3> QED BY <1>0, <2>1, <2>2, <3>1, Zenon
  <2> QED BY <2>3, <2>4, Zenon
<1>2. ASSUME NEW t \in Threads, LoadSlot(t) PROVE [Map!MapNext]_(Map!mapVars)
  <2>1. PICK p \in Procs : p = key[t]
    BY <1>2, Zenon DEF LoadSlot, Locals
  <2>2. TableOf' = TableOf /\ UNCHANGED <<installed, up>> /\ up
    BY <1>2, TableConstant, Zenon DEF LoadSlot, tableVars, Locals
  <2>3. \A u \in Threads : u # t => Answer(u)' = Answer(u)
    BY <1>2, AnswerConstant, Zenon DEF LoadSlot, Goto
  <2>4. Answer(t) = NoAnswer
    BY <1>2, Zenon DEF LoadSlot, Answer
  <2>5. Answer(t)' = TableOf'[p]
    BY <1>2, <2>1, Zenon DEF LoadSlot, Goto, Answer, TableOf, tableVars
  <2>6. AnswersOf' = [AnswersOf EXCEPT ![t] = TableOf[p]] /\ AnswersOf[t] = NoAnswer
    BY <2>2, <2>3, <2>4, <2>5, AnswersExcept, Zenon
  <2>7. Map!MapLookup(t, p)
    BY <2>2, <2>6, Zenon DEF Map!MapLookup, TableOf, AnswersOf
  <2> QED BY <2>7, Zenon DEF Map!MapNext
<1>3. ASSUME NEW t \in Threads, Walk(t) PROVE [Map!MapNext]_(Map!mapVars)
  <2>1. TableOf' = TableOf /\ UNCHANGED <<installed, up>>
    BY <1>3, TableConstant, Zenon DEF Walk, tableVars
  <2>2. \A u \in Threads : u # t => Answer(u)' = Answer(u)
    BY <1>3, AnswerConstant, Zenon DEF Walk, Goto
  <2>3. cur[t] \in Chains \cup {NoChain} /\ (cur[t] # NoChain => state[cur[t]] # "freed")
    BY <1>3, Zenon DEF Walk, SafeWalk
  <2>4. \A r \in Found(cur[t], key[t]) : r = RouteOn(cur[t], key[t])
    BY <2>3, RouteOnIs, Zenon DEF Found, RouteOn
  <2>5. Answer(t)' = Answer(t)
    BY <1>3, <2>4, Zenon DEF Walk, Goto, Answer
  <2> QED BY <1>0, <2>1, <2>2, <2>5 DEF AnswersOf
<1>4. ASSUME NEW t \in Threads, Leave(t) PROVE [Map!MapNext]_(Map!mapVars)
  <2>1. TableOf' = TableOf /\ UNCHANGED <<installed, up>>
    BY <1>4, TableConstant, Zenon DEF Leave, tableVars
  <2>2. \A u \in Threads : u # t => Answer(u)' = Answer(u)
    BY <1>4, AnswerConstant, Zenon DEF Leave, Goto
  <2>3. Answer(t) # NoAnswer /\ Answer(t)' = NoAnswer
    BY <1>4 DEF Leave, Goto, Returned, Answer
  <2>4. AnswersOf' = [AnswersOf EXCEPT ![t] = NoAnswer] /\ AnswersOf[t] # NoAnswer
    BY <2>2, <2>3, AnswersExcept, Zenon
  <2>5. Map!MapReturn(t)
    BY <2>1, <2>4, Zenon DEF Map!MapReturn, TableOf, AnswersOf
  <2> QED BY <2>5, Zenon DEF Map!MapNext
<1>5. ASSUME NEW t \in Threads, Add(t) PROVE [Map!MapNext]_(Map!mapVars)
  <2>1. AnswersOf' = AnswersOf
    BY <1>5, AnswersConstant, Zenon DEF Add, Goto, Forget
  <2>2. PICK p \in Procs, r \in Regs :
          p = key[t] /\ r = route[t] /\ TableOf' = [TableOf EXCEPT ![p] = r]
    BY <1>5, AddIsPut, Zenon
  <2>3. installed' = installed \cup {r} /\ r \notin installed /\ up /\ up' = up
    BY <1>5, <2>2, Zenon DEF Add, Locals
  <2>4. Map!MapPut(p, r)
    BY <2>1, <2>2, <2>3, Zenon DEF Map!MapPut, TableOf, AnswersOf
  <2> QED BY <2>4, Zenon DEF Map!MapNext
<1>6. ASSUME NEW t \in Threads, Remove(t) PROVE [Map!MapNext]_(Map!mapVars)
  <2>1. AnswersOf' = AnswersOf
    BY <1>6, AnswersConstant, Zenon DEF Remove, Goto, Forget
  <2>2. PICK p \in Procs : TableOf' = [TableOf EXCEPT ![p] = NoReg] /\ TableOf[p] # NoReg
    BY <1>6, RemoveIsDelete, Zenon
  <2>3. UNCHANGED <<installed, up>> /\ up
    BY <1>6, Zenon DEF Remove, Locals
  <2>4. Map!MapDelete(p)
    BY <2>1, <2>2, <2>3, Zenon DEF Map!MapDelete, TableOf, AnswersOf
  <2> QED BY <2>4, Zenon DEF Map!MapNext
<1>7. ASSUME NEW t \in Threads, DestroyChain(t) PROVE [Map!MapNext]_(Map!mapVars)
  <2>1. AnswersOf' = AnswersOf /\ UNCHANGED <<installed, up>> /\ ~up
    BY <1>7, AnswersConstant, Zenon DEF DestroyChain, Locals
  <2>2. CASE UNCHANGED visible
    BY <1>0, <2>1, <2>2, TableConstant, Zenon
  <2>3. ASSUME NEW s \in Slots, slots' = [slots EXCEPT ![s] = NoChain]
        PROVE  Map!MapDrop({q \in Procs : RouteIndex[q] = s})
    <3>1. TableOf' = [p \in Procs |-> IF p \in {q \in Procs : RouteIndex[q] = s}
                                      THEN NoReg ELSE TableOf[p]]
      BY <2>3, DestroyIsDrop, ZenonT(40)
    <3> QED BY <2>1, <3>1, Zenon DEF Map!MapDrop, TableOf, AnswersOf
  <2> QED BY <1>7, <2>2, <2>3, ZenonT(40) DEF DestroyChain, Map!MapNext
<1>8. ASSUME NEW t \in Threads, Quiet(t) PROVE [Map!MapNext]_(Map!mapVars)
  BY <1>0, <1>8, QuietStep, TableConstant, AnswersConstant, Zenon
<1>9. CASE Drain \/ UNCHANGED vars
  BY <1>0, <1>9, TableConstant, AnswersConstant, Zenon DEF Drain, vars, SafeWalk
<1> QED
  BY <1>1, <1>2, <1>3, <1>4, <1>5, <1>6, <1>7, <1>8, <1>9, ZenonT(40)
  DEF Quiet, Next, Step, Reader, Writer, Reclaimer

(* Without store buffering, lookups, replacements and removals behave as    *)
(* single steps on a map, whatever interleaving the threads produce.        *)
THEOREM RoutesImplementMap ==
  ASSUME ~StoreBuffering
  PROVE  Spec => TableIsMap
<1>1. Init => Map!MapInit
  BY RouteAssumptions DEF Init, Map!MapInit, RouteOn, Matched, RoutesOf, Answer
<1>2. RoutesInv /\ RoutesInv' /\ SafeWalk /\ SafeWalk' /\ [Next]_vars => [Map!MapNext]_(Map!mapVars)
  BY MapStep, Zenon
<1> QED BY <1>1, <1>2, RoutesInvariant, WalkIsSafe, PTL DEF Spec, TableIsMap, Map!MapSpec

=============================================================================
