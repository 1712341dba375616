-------------------------------- MODULE Trace --------------------------------
(***************************************************************************)
(* The trace counters of src/src/trace.c and src/include/wirecall/trace.h: *)
(* threads record into three relaxed atomics that nothing updates together *)
(* while another thread resets or reads them. One metric is modelled; all  *)
(* of them, and those of the workers, run the same code.                   *)
(***************************************************************************)
EXTENDS Integers

CONSTANTS
  Recorders,     \* threads that record
  Durations,     \* values they record
  MaxRecords     \* bound on the records of the server's thread

VARIABLES
  trace_enabled,
  counter,       \* [count, total, max] of the metric
  rec,           \* per thread: [pc, value, old]
  recorded       \* history: [count, total, max] of what was recorded since enabled

traceVars == <<trace_enabled, counter, rec, recorded>>

Zero == [count |-> 0, total |-> 0, max |-> 0]
NotRecording == [pc |-> "idle", value |-> 0, old |-> 0]

TraceInit ==
  /\ trace_enabled = FALSE
  /\ counter = Zero
  /\ rec = [t \in Recorders |-> NotRecording]
  /\ recorded = Zero

(* wirecall_trace_set_enabled *)
SetEnabled(e) ==
  /\ trace_enabled' = e
  /\ recorded' = IF e THEN Zero ELSE recorded
  /\ UNCHANGED <<counter, rec>>

(* wirecall_trace_begin: the time, or 0 if tracing is off. *)
TraceBegin(t) ==
  /\ rec[t].pc = "idle"
  /\ trace_enabled /\ recorded.count < MaxRecords
  /\ rec' = [rec EXCEPT ![t].pc = "begun"]
  /\ UNCHANGED <<trace_enabled, counter, recorded>>

(* Thread t calls wirecall_trace_add_slow with value v. *)
Adding(v) == [pc |-> "count", value |-> v, old |-> 0]

(* wirecall_trace_end: recorded if tracing was on and still is. *)
TraceEnd(t) ==
  /\ rec[t].pc = "begun"
  /\ IF trace_enabled
     THEN \E v \in Durations : rec' = [rec EXCEPT ![t] = Adding(v)]
     ELSE rec' = [rec EXCEPT ![t] = NotRecording]
  /\ UNCHANGED <<trace_enabled, counter, recorded>>

(* A whole begin and end around a call of thread t, into this metric or     *)
(* into another one.                                                        *)
TraceCall(t) ==
  /\ \/ UNCHANGED rec
     \/ trace_enabled /\ \E v \in Durations : rec' = [rec EXCEPT ![t] = Adding(v)]
  /\ UNCHANGED <<trace_enabled, counter, recorded>>

Larger(a, b) == IF a < b THEN b ELSE a

AddCount(t) ==
  /\ rec[t].pc = "count"
  /\ counter' = [counter EXCEPT !.count = @ + 1]
  /\ rec' = [rec EXCEPT ![t].pc = "total"]
  /\ recorded' = [count |-> recorded.count + 1, total |-> recorded.total + rec[t].value,
                  max |-> Larger(recorded.max, rec[t].value)]
  /\ UNCHANGED trace_enabled

AddTotal(t) ==
  /\ rec[t].pc = "total"
  /\ counter' = [counter EXCEPT !.total = @ + rec[t].value]
  /\ rec' = [rec EXCEPT ![t].pc = "load"]
  /\ UNCHANGED <<trace_enabled, recorded>>

LoadMax(t) ==
  /\ rec[t].pc = "load"
  /\ rec' = [rec EXCEPT ![t].pc = "max", ![t].old = counter.max]
  /\ UNCHANGED <<trace_enabled, counter, recorded>>

(* Mutant of RaiseMax: a plain store. *)
StoreMax(t) ==
  /\ rec[t].pc = "max"
  /\ rec' = [rec EXCEPT ![t] = NotRecording]
  /\ counter' = IF rec[t].old < rec[t].value THEN [counter EXCEPT !.max = rec[t].value] ELSE counter
  /\ UNCHANGED <<trace_enabled, recorded>>

(* The loop around the compare-exchange; a failure reloads old. (One that   *)
(* fails without reason changes nothing.)                                   *)
RaiseMax(t) ==
  /\ rec[t].pc = "max"
  /\ \/ /\ rec[t].old >= rec[t].value
        /\ rec' = [rec EXCEPT ![t] = NotRecording]
        /\ UNCHANGED counter
     \/ /\ rec[t].old < rec[t].value /\ counter.max = rec[t].old
        /\ counter' = [counter EXCEPT !.max = rec[t].value]
        /\ rec' = [rec EXCEPT ![t] = NotRecording]
     \/ /\ rec[t].old < rec[t].value /\ counter.max # rec[t].old
        /\ rec' = [rec EXCEPT ![t].old = counter.max]
        /\ UNCHANGED counter
  /\ UNCHANGED <<trace_enabled, recorded>>

Recording(t) == AddCount(t) \/ AddTotal(t) \/ LoadMax(t) \/ RaiseMax(t)

(* wirecall_trace_reset, one store of it. *)
ResetField(f) ==
  /\ counter' = [counter EXCEPT ![f] = 0]
  /\ UNCHANGED <<trace_enabled, rec, recorded>>

=============================================================================
