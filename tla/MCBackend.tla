----------------------------- MODULE MCBackend -----------------------------
(***************************************************************************)
(* The three backends for TLC, one per behaviour: part says which. All have *)
(* sockets that come and go on few descriptor numbers or places; io_uring   *)
(* has one that becomes readable and writable and one that fails.           *)
(***************************************************************************)
EXTENDS Backends

CONSTANTS talker, failer

TwoSockets == {talker, failer}

RaisedOn == [f \in TwoSockets |-> IF f = talker THEN {"in", "out"} ELSE {"err"}]

VARIABLE part

(* io_uring with sockets that fail, or with wakes at any moment. *)
UringParts == {"io_uring", "wake"}

WithinPart ==
  IF part = "wake" THEN \A f \in Files : "err" \notin ready[f] ELSE ready[WakeFile] = {}

BackendInit ==
  Init /\ Kq!Init /\ Win!Init /\ part \in UringParts \cup {"kqueue", "windows"}

BackendNext ==
  \/ part \in UringParts /\ Next /\ UNCHANGED <<part, kqueueVars, windowsVars>> /\ WithinPart'
  \/ part = "kqueue" /\ Kq!Next /\ UNCHANGED <<part, vars, windowsVars>>
  \/ part = "windows" /\ Win!Next /\ UNCHANGED <<part, vars, kqueueVars>>

Polling ==
  \/ part \in UringParts /\ PollStep /\ UNCHANGED <<part, kqueueVars, windowsVars>>
  \/ part = "kqueue" /\ Kq!PollStep /\ UNCHANGED <<part, vars, windowsVars>>
  \/ part = "windows" /\ Win!PollStep /\ UNCHANGED <<part, vars, kqueueVars>>

(* The worker goes on polling; the kernel completes io_uring's polls. *)
BackendSpec ==
  /\ BackendInit /\ [][BackendNext]_<<part, vars, kqueueVars, windowsVars>>
  /\ WF_<<part, vars, kqueueVars, windowsVars>>(Polling)
  /\ KernelFairness

-----------------------------------------------------------------------------
Unreported(f) ==
  CASE part \in UringParts -> Unread(f) /\ ~Reports(f, "READ")
    [] part = "kqueue" -> Kq!Unread(f) /\ ~Kq!Reports(f)
    [] part = "windows" -> Win!Unread(f) /\ ~Win!Reports(f)

(* Data on a connection is reported to the worker by any backend, unless it *)
(* is read for an earlier event or the connection closed first: polls are    *)
(* one-shot, batches may be full, and on Windows only the first connections  *)
(* of the table are waited for (those alone are promised anything here). A   *)
(* wake of io_uring's eventfd is reported too, whenever it comes.            *)
DataIsReported ==
  /\ \A f \in Files : Unreported(f) ~> ~Unreported(f)
  /\ WakeIsReported
=============================================================================
