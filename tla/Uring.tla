-------------------------------- MODULE Uring --------------------------------
(***************************************************************************)
(* The io_uring backend (src/backend/io_uring.c) as a worker uses it. A     *)
(* watch is kept per descriptor number for ever; readiness is asked for     *)
(* with one-shot polls that carry the address of the watch, and reported by *)
(* completions in a queue. The kernel's half is modelled from that use.     *)
(*                                                                         *)
(* A descriptor number is reused for another socket once it is closed, so   *)
(* sockets are Files and `open` says which file a number stands for. The    *)
(* connection given as `user` is named by its file.                         *)
(***************************************************************************)
EXTENDS Naturals, Sequences, FiniteSets

CONSTANTS
  Fds,       \* descriptor numbers of connections
  WakeFd,    \* the number of the eventfd
  Files,     \* sockets
  WakeFile,  \* the eventfd itself
  NoFile,
  NoWatch,   \* user_data of a POLL_REMOVE
  Raised,    \* the conditions that arise on each socket (bound)
  MaxEvents, \* WIRECALL_EVENT_BATCH
  MaxPolls,  \* polls of a watch when one more is asked for (bound)
  MaxQueue   \* completions not yet reaped (bound)

ASSUME UringAssumptions ==
  /\ WakeFd \notin Fds /\ NoWatch \notin Fds \cup {WakeFd}
  /\ NoFile \notin Files \cup {WakeFile} /\ WakeFile \notin Files
  /\ Raised \in [Files -> SUBSET {"in", "out", "err"}]
  /\ MaxEvents \in Nat \ {0} /\ MaxPolls \in Nat /\ MaxQueue \in Nat

Watches    == Fds \cup {WakeFd}
AllFiles   == Files \cup {WakeFile}
Interests  == {"READ", "WRITE"}
Conditions == {"in", "out", "err"}

VARIABLES
  \* the kernel
  open,    \* the file behind each descriptor number
  fresh,   \* sockets not accepted yet
  ready,   \* the conditions that hold on each file
  polls,   \* how many polls of each kind are outstanding
  cq,      \* the completion queue
  \* backend->watches, and wake_watch
  events, user, active, armed,
  \* wirecall_backend_poll
  polling, \* the worker is inside it, after uring_enter
  left,    \* completions between head and the tail it loaded
  out      \* the events of this call, or of the last one

watchVars  == <<events, user, active, armed>>
pollVars   == <<polling, left, out>>
kernelVars == <<open, fresh, ready, polls, cq>>
vars == <<kernelVars, watchVars, pollVars>>

poll_mask(ev) ==
  (IF "READ" \in ev THEN {"in"} ELSE {}) \cup (IF "WRITE" \in ev THEN {"out"} ELSE {})

PollKinds == [watch : Watches, file : AllFiles, mask : {poll_mask(ev) : ev \in SUBSET Interests}]

Poll(w, f, ev) == [watch |-> w, file |-> f, mask |-> poll_mask(ev)]

Completions == [watch : Watches \cup {NoWatch}, ok : BOOLEAN, res : SUBSET Conditions]

TypeOK ==
  /\ open \in [Watches -> AllFiles \cup {NoFile}]
  /\ fresh \subseteq Files
  /\ ready \in [AllFiles -> SUBSET Conditions]
  /\ polls \in [PollKinds -> Nat]
  /\ cq \in Seq(Completions)
  /\ events \in [Watches -> SUBSET Interests]
  /\ user \in [Watches -> AllFiles \cup {NoFile}]
  /\ active \in [Watches -> BOOLEAN] /\ armed \in [Watches -> BOOLEAN]
  /\ polling \in BOOLEAN /\ left \in Nat
  /\ out \in Seq([watch : Watches, flags : SUBSET (Interests \cup {"WAKE"}),
                  user : AllFiles \cup {NoFile}])

(* wirecall_backend_create: only the wake watch is armed. *)
Init ==
  /\ open = [w \in Watches |-> IF w = WakeFd THEN WakeFile ELSE NoFile]
  /\ fresh = Files
  /\ ready = [f \in AllFiles |-> {}]
  /\ polls = [k \in PollKinds |-> IF k = Poll(WakeFd, WakeFile, {"READ"}) THEN 1 ELSE 0]
  /\ cq = <<>>
  /\ events = [w \in Watches |-> IF w = WakeFd THEN {"READ"} ELSE {}]
  /\ user = [w \in Watches |-> NoFile]
  /\ active = [w \in Watches |-> w = WakeFd]
  /\ armed = [w \in Watches |-> w = WakeFd]
  /\ polling = FALSE /\ left = 0 /\ out = <<>>

-----------------------------------------------------------------------------
(* The kernel *)

(* What a poll reports; POLLHUP and POLLERR need not be asked for. *)
Result(k) == ready[k.file] \cap (k.mask \cup {"err"})

Fired(k) == [watch |-> k.watch, ok |-> TRUE, res |-> Result(k)]
Canceled(w) == [watch |-> w, ok |-> FALSE, res |-> {}]
Removed == [watch |-> NoWatch, ok |-> TRUE, res |-> {}]

(* A POLL_ADD on a file that is ready completes at once. *)
PollAdd(k, p, q) ==
  IF Result(k) # {} THEN [polls |-> p, cq |-> Append(q, Fired(k))]
                    ELSE [polls |-> [p EXCEPT ![k] = @ + 1], cq |-> q]

Outstanding(w) == {k \in PollKinds : k.watch = w /\ polls[k] > 0}

(* A POLL_REMOVE ends one poll that carries the watch, if any is left. *)
PollRemove(w) ==
  IF Outstanding(w) = {}
    THEN {[polls |-> polls, cq |-> Append(cq, Removed)]}
    ELSE {[polls |-> [polls EXCEPT ![k] = @ - 1], cq |-> cq \o <<Canceled(w), Removed>>] :
            k \in Outstanding(w)}

(* A poll completes when its file becomes ready. *)
Fire(k) ==
  /\ polls[k] > 0 /\ Result(k) # {}
  /\ polls' = [polls EXCEPT ![k] = @ - 1]
  /\ cq' = Append(cq, Fired(k))
  /\ UNCHANGED <<open, fresh, ready, watchVars, pollVars>>

(* The peer sends, drains or resets; the send buffer fills up. *)
Change(f) ==
  /\ \E c \in Raised[f] :
       /\ c \in ready[f] => c = "out"
       /\ ready' = [ready EXCEPT ![f] = IF c \in @ THEN @ \ {c} ELSE @ \cup {c}]
  /\ UNCHANGED <<open, fresh, polls, cq, watchVars, pollVars>>

(* wirecall_backend_wake by any thread. *)
Wake ==
  /\ ready' = [ready EXCEPT ![WakeFile] = {"in"}]
  /\ UNCHANGED <<open, fresh, polls, cq, watchVars, pollVars>>

-----------------------------------------------------------------------------
(* The worker between two polls *)

(* Mutant: `armed` survives the cancellation, so nothing is armed again. *)
KeepPoll(w) ==
  IF ~armed[w] THEN {[polls |-> polls, cq |-> cq, armed |-> FALSE]}
  ELSE {[polls |-> o.polls, cq |-> o.cq, armed |-> TRUE] : o \in PollRemove(w)}

cancel_watch(w) ==
  IF ~armed[w] THEN {[polls |-> polls, cq |-> cq, armed |-> FALSE]}
  ELSE {[polls |-> o.polls, cq |-> o.cq, armed |-> FALSE] : o \in PollRemove(w)}

(* arm_watch, given the watch's fields. *)
arm_watch(w, f, ev, isActive, isArmed, p, q) ==
  IF ~isActive \/ isArmed \/ ev = {} THEN [polls |-> p, cq |-> q, armed |-> isArmed]
  ELSE LET o == PollAdd(Poll(w, f, ev), p, q)
       IN [polls |-> o.polls, cq |-> o.cq, armed |-> TRUE]

(* wirecall_backend_register on a number that stands for file f. *)
Watch(w, f, ev) ==
  /\ \E c \in cancel_watch(w) :
       LET a == arm_watch(w, f, ev, TRUE, c.armed, c.polls, c.cq)
       IN /\ polls' = a.polls
          /\ cq' = a.cq
          /\ armed' = [armed EXCEPT ![w] = a.armed]
  /\ events' = [events EXCEPT ![w] = ev]
  /\ user' = [user EXCEPT ![w] = f]
  /\ active' = [active EXCEPT ![w] = TRUE]

WithinBounds(w) ==
  /\ Len(cq) < MaxQueue
  /\ Cardinality(Outstanding(w)) <= MaxPolls
  /\ \A k \in Outstanding(w) : polls[k] <= MaxPolls

(* worker_add_connection: a new socket, on a number that may have been used *)
(* before.                                                                  *)
Register(w, f) ==
  /\ ~polling /\ open[w] = NoFile /\ f \in fresh /\ WithinBounds(w)
  /\ open' = [open EXCEPT ![w] = f]
  /\ fresh' = fresh \ {f}
  /\ Watch(w, f, {"READ"})
  /\ UNCHANGED <<ready, pollVars>>

(* The watch of a number never used before cannot be allocated, and *)
(* connection_destroy closes the socket again.                       *)
RegisterFails(w, f) ==
  /\ ~polling /\ open[w] = NoFile /\ f \in fresh /\ events[w] = {}
  /\ fresh' = fresh \ {f}
  /\ UNCHANGED <<open, ready, polls, cq, watchVars, pollVars>>

(* connection_set_interests and wirecall_backend_modify. *)
Modify(w) ==
  /\ ~polling /\ open[w] # NoFile /\ WithinBounds(w)
  /\ Watch(w, open[w], IF events[w] = {"READ"} THEN {"READ", "WRITE"} ELSE {"READ"})
  /\ UNCHANGED <<open, fresh, ready, pollVars>>

(* wirecall_backend_remove and the close in connection_destroy. *)
Remove(w) ==
  /\ ~polling /\ open[w] # NoFile /\ Len(cq) < MaxQueue
  /\ \E c \in cancel_watch(w) :
       /\ polls' = c.polls
       /\ cq' = c.cq
       /\ armed' = [armed EXCEPT ![w] = c.armed]
  /\ active' = [active EXCEPT ![w] = FALSE]
  /\ open' = [open EXCEPT ![w] = NoFile]
  /\ UNCHANGED <<fresh, ready, events, user, pollVars>>

(* connection_read for a READ event: it reads until recv would block. *)
Read(w) ==
  /\ ~polling /\ open[w] # NoFile
  /\ \E i \in DOMAIN out : out[i].watch = w /\ "READ" \in out[i].flags
  /\ "in" \in ready[open[w]]
  /\ ready' = [ready EXCEPT ![open[w]] = @ \ {"in"}]
  /\ UNCHANGED <<open, fresh, polls, cq, watchVars, pollVars>>

-----------------------------------------------------------------------------
(* wirecall_backend_poll *)

(* uring_enter returns once there is a completion; the tail is loaded once. *)
PollBegin ==
  /\ ~polling /\ cq # <<>>
  /\ polling' = TRUE
  /\ left' = Len(cq)
  /\ out' = <<>>
  /\ UNCHANGED <<kernelVars, watchVars>>

Reaping == polling /\ left > 0 /\ Len(out) < MaxEvents

Reaped ==
  /\ left' = left - 1
  /\ UNCHANGED <<open, fresh, events, user, active, polling>>

(* The completion of a POLL_REMOVE. *)
ReapRemoved ==
  /\ Reaping /\ Head(cq).watch = NoWatch
  /\ cq' = Tail(cq)
  /\ Reaped
  /\ UNCHANGED <<ready, polls, armed, out>>

WakeEvent == [watch |-> WakeFd, flags |-> {"WAKE"}, user |-> NoFile]

(* Mutant: armed = 0 is forgotten, so arm_watch does nothing. *)
ReapWakeOnce ==
  /\ Reaping /\ Head(cq).watch = WakeFd
  /\ ready' = [ready EXCEPT ![WakeFile] = {}]
  /\ out' = Append(out, WakeEvent)
  /\ cq' = Tail(cq)
  /\ Reaped
  /\ UNCHANGED <<polls, armed>>

(* The eventfd is read empty and polled again; a wake in between is one after. *)
ReapWake ==
  /\ Reaping /\ Head(cq).watch = WakeFd
  /\ ready' = [ready EXCEPT ![WakeFile] = {}]
  /\ out' = Append(out, WakeEvent)
  /\ polls' = [polls EXCEPT ![Poll(WakeFd, WakeFile, {"READ"})] = @ + 1]
  /\ armed' = [armed EXCEPT ![WakeFd] = TRUE]
  /\ cq' = Tail(cq)
  /\ Reaped

Flags(res) ==
  (IF res \cap {"in", "err"} # {} THEN {"READ"} ELSE {})
    \cup (IF res \cap {"out", "err"} # {} THEN {"WRITE"} ELSE {})

(* Mutant: the watch of a closed connection still reports. *)
AnyWatch(cqe) == cqe.ok

Reportable(cqe) == active[cqe.watch] /\ cqe.ok

(* Mutant: a reported watch waits for the next modify to be armed. *)
ReportOnly(w, flags) ==
  /\ out' = IF flags = {} THEN out
            ELSE Append(out, [watch |-> w, flags |-> flags, user |-> user[w]])
  /\ polls' = polls
  /\ cq' = Tail(cq)
  /\ armed' = [armed EXCEPT ![w] = FALSE]

Report(w, flags) ==
  LET a == arm_watch(w, open[w], events[w], active[w], FALSE, polls, Tail(cq))
  IN /\ out' = IF flags = {} THEN out
               ELSE Append(out, [watch |-> w, flags |-> flags, user |-> user[w]])
     /\ polls' = a.polls
     /\ cq' = a.cq
     /\ armed' = [armed EXCEPT ![w] = a.armed]

(* A poll of a connection, possibly one armed for an earlier socket. *)
ReapReady(w) ==
  /\ Reaping /\ Head(cq).watch = w /\ Reportable(Head(cq))
  /\ Report(w, Flags(Head(cq).res))
  /\ Reaped
  /\ UNCHANGED ready

(* A canceled poll, or one of a connection that is gone. *)
ReapStale(w) ==
  /\ Reaping /\ Head(cq).watch = w /\ ~Reportable(Head(cq))
  /\ armed' = [armed EXCEPT ![w] = FALSE]
  /\ cq' = Tail(cq)
  /\ Reaped
  /\ UNCHANGED <<ready, polls, out>>

PollReturns ==
  /\ polling /\ ~Reaping
  /\ polling' = FALSE
  /\ left' = 0
  /\ UNCHANGED <<kernelVars, watchVars, out>>

PollStep ==
  \/ PollBegin \/ ReapRemoved \/ ReapWake \/ PollReturns
  \/ \E w \in Fds : ReapReady(w) \/ ReapStale(w)

Connection(w) ==
  \/ \E f \in Files : Register(w, f) \/ RegisterFails(w, f)
  \/ Modify(w) \/ Remove(w) \/ Read(w)

Next ==
  \/ \E k \in PollKinds : Fire(k)
  \/ \E f \in Files : Change(f)
  \/ Wake
  \/ \E w \in Fds : Connection(w)
  \/ PollStep

Spec == Init /\ [][Next]_vars

(* The kernel completes the polls of files that stay ready. *)
KernelFairness ==
  /\ WF_vars(Fire(Poll(WakeFd, WakeFile, {"READ"})))
  /\ \A w \in Fds, f \in Files, ev \in {{"READ"}, Interests} : WF_vars(Fire(Poll(w, f, ev)))

-----------------------------------------------------------------------------
(* Properties *)

(* The kernel will report, or has reported and the worker not yet seen, the *)
(* conditions watch w asks for, on the socket its number stands for now.    *)
Covered(w) ==
  \/ polls[Poll(w, open[w], events[w])] > 0
  \/ \E i \in DOMAIN cq : cq[i].watch = w /\ cq[i].ok

(* Readiness is never missed: polls are one-shot, cancellation may hit any  *)
(* poll of the number, and `armed` may be out of date, yet every registered  *)
(* connection and the wake descriptor are polled for their current           *)
(* interests, or a completion that re-arms them is in the queue.             *)
ActiveIsPolled == \A w \in Watches : active[w] => Covered(w)

(* A completion may outlive the connection, and even the socket, it was for. *)
(* The events wirecall_backend_poll returns still name the connection that   *)
(* is registered on the number.                                              *)
BatchIsCurrent ==
  polling => \A i \in DOMAIN out :
    out[i].watch # WakeFd => active[out[i].watch] /\ out[i].user = open[out[i].watch]

(* The inductive invariant: besides the two above, a number is active while a *)
(* socket is open on it, for that socket and with some interest.             *)
UringInv ==
  /\ TypeOK /\ ActiveIsPolled /\ BatchIsCurrent
  /\ left <= Len(cq)
  /\ open[WakeFd] = WakeFile /\ active[WakeFd] /\ events[WakeFd] = {"READ"}
  /\ \A w \in Fds :
       /\ open[w] # WakeFile
       /\ active[w] <=> open[w] # NoFile
       /\ active[w] => user[w] = open[w] /\ events[w] # {}

Reports(f, flag) ==
  polling /\ \E i \in DOMAIN out : out[i].user = f /\ flag \in out[i].flags

Unread(f) == "in" \in ready[f] /\ \E w \in Fds : open[w] = f

(* No wirecall_backend_wake is lost, not even one that races with the reset *)
(* of the eventfd: the worker sees a WAKE event after it.                    *)
WakeIsReported == ("in" \in ready[WakeFile]) ~> Reports(NoFile, "WAKE")
=============================================================================
