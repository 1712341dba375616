------------------------------ MODULE RouteMap ------------------------------
(***************************************************************************)
(* What the route table promises its callers: a map from procedures to      *)
(* registrations that lookups read, and mutations change, in one step.      *)
(***************************************************************************)
CONSTANTS Threads, Procs, Regs, NoReg, NoAnswer

VARIABLES
  table,   \* the registration of each procedure, NoReg when it has none
  used,    \* registrations that have ever been in the table
  answer,  \* per thread: what its lookup will return, NoAnswer outside one
  open     \* FALSE once the table is being destroyed

mapVars == <<table, used, answer, open>>

MapInit ==
  /\ table = [p \in Procs |-> NoReg]
  /\ used = {}
  /\ answer = [t \in Threads |-> NoAnswer]
  /\ open = TRUE

(* A lookup sees the table of one instant between its call and its return. *)
MapLookup(t, p) ==
  /\ open
  /\ answer[t] = NoAnswer
  /\ answer' = [answer EXCEPT ![t] = table[p]]
  /\ UNCHANGED <<table, used, open>>

MapReturn(t) ==
  /\ answer[t] # NoAnswer
  /\ answer' = [answer EXCEPT ![t] = NoAnswer]
  /\ UNCHANGED <<table, used, open>>

(* A registration enters the table once; it never comes back. *)
MapPut(p, r) ==
  /\ open
  /\ r \notin used
  /\ used' = used \cup {r}
  /\ table' = [table EXCEPT ![p] = r]
  /\ UNCHANGED <<answer, open>>

MapDelete(p) ==
  /\ open
  /\ table[p] # NoReg
  /\ table' = [table EXCEPT ![p] = NoReg]
  /\ UNCHANGED <<used, answer, open>>

MapClose ==
  /\ open
  /\ answer = [t \in Threads |-> NoAnswer]
  /\ open' = FALSE
  /\ UNCHANGED <<table, used, answer>>

(* Destroying drops the procedures of one slot after another. *)
MapDrop(gone) ==
  /\ ~open
  /\ table' = [p \in Procs |-> IF p \in gone THEN NoReg ELSE table[p]]
  /\ UNCHANGED <<used, answer, open>>

MapNext ==
  \/ \E t \in Threads, p \in Procs : MapLookup(t, p)
  \/ \E t \in Threads : MapReturn(t)
  \/ \E p \in Procs, r \in Regs : MapPut(p, r)
  \/ \E p \in Procs : MapDelete(p)
  \/ MapClose
  \/ \E gone \in SUBSET Procs : MapDrop(gone)

MapSpec == MapInit /\ [][MapNext]_mapVars

=============================================================================
