------------------------------- MODULE Kqueue -------------------------------
(***************************************************************************)
(* The kqueue backend (src/backend/kqueue.c) as a worker uses it. Each      *)
(* interest of a connection is a filter of the kernel's, a knote, that      *)
(* carries the connection and stays until it is deleted or the socket       *)
(* closed. Sockets and descriptor numbers are as in module Uring.           *)
(***************************************************************************)
EXTENDS Integers, Sequences, Folds

CONSTANTS
  Fds, Files, NoFile,
  MaxEvents, \* the smaller of WIRECALL_EVENT_BATCH and KQUEUE_MAX_EVENTS
  MayFail    \* a knote may not be allocated

Interests == {"READ", "WRITE"}
Filters   == Fds \X Interests
WakeNote  == <<"wake", "USER">>

VARIABLES
  open,      \* the file behind each descriptor number
  fresh,     \* sockets not accepted yet
  ready,     \* the interests each file is ready for; an EOF readies both
  interests, \* conn->interests
  udata,     \* the connection each filter carries, NoFile where there is none
  active,    \* the knotes the kernel has found ready, in order
  polling,   \* the worker is inside wirecall_backend_poll, after kevent
  out        \* the events of this poll, or of the last one

vars == <<open, fresh, ready, interests, udata, active, polling, out>>

Init ==
  /\ open = [w \in Fds |-> NoFile]
  /\ fresh = Files
  /\ ready = [f \in Files |-> {}]
  /\ interests = [w \in Fds |-> {}]
  /\ udata = [k \in Filters |-> NoFile]
  /\ active = <<>> /\ polling = FALSE /\ out = <<>>

-----------------------------------------------------------------------------
(* The kernel *)

Activated(q, k) == IF \E i \in DOMAIN q : q[i] = k THEN q ELSE Append(q, k)

Without(q, k) == SelectSeq(q, LAMBDA j : j # k)

(* The peer sends, takes or ends: the knotes of the file become active. *)
Change(f) ==
  /\ \E r \in {{"READ"}, {"WRITE"}, Interests} :
       /\ ready' = [ready EXCEPT ![f] = @ \cup r]
       /\ active' = MapThenFoldSet(LAMBDA k, q : Activated(q, k), active,
                                   LAMBDA k : k, LAMBDA s : CHOOSE k \in s : TRUE,
                                   {k \in Filters : k[2] \in r /\ udata[k] = f})
  /\ UNCHANGED <<open, fresh, interests, udata, polling, out>>

(* The send buffer fills up. *)
Fill(f) ==
  /\ ready[f] = {"WRITE"}
  /\ ready' = [ready EXCEPT ![f] = {}]
  /\ UNCHANGED <<open, fresh, interests, udata, active, polling, out>>

(* wirecall_backend_wake, by any thread: NOTE_TRIGGER. *)
Wake ==
  /\ active' = Activated(active, WakeNote)
  /\ UNCHANGED <<open, fresh, ready, interests, udata, polling, out>>

-----------------------------------------------------------------------------
(* The worker between two polls *)

(* What a change has made of the filters and the knotes, and its result. *)
Tried(u, a, rc) == [udata |-> u, active |-> a, rc |-> rc]

(* EV_ADD: only a filter that is not there yet can fail. *)
Add(s, k, f) ==
  {Tried([s.udata EXCEPT ![k] = f],
         IF k[2] \in ready[f] THEN Activated(s.active, k) ELSE s.active, s.rc)}
  \cup (IF MayFail /\ s.udata[k] = NoFile THEN {Tried(s.udata, s.active, -1)} ELSE {})

(* EV_DELETE: ENOENT is no failure. *)
Delete(s, k) == Tried([s.udata EXCEPT ![k] = NoFile], Without(s.active, k), s.rc)

apply_filter(s, k, events, f) == IF k[2] \in events THEN Add(s, k, f) ELSE {Delete(s, k)}

(* Both filters are applied, whatever came of the first. *)
set_interest(w, events, f) ==
  UNION {apply_filter(s, <<w, "WRITE">>, events, f) :
           s \in apply_filter(Tried(udata, active, 0), <<w, "READ">>, events, f)}

(* wirecall_backend_remove; it precedes the close. *)
Removed(s, w) == Delete(Delete(s, <<w, "READ">>), <<w, "WRITE">>)

Applied(s) == udata' = s.udata /\ active' = s.active

(* worker_add_connection; a connection that cannot be registered is destroyed. *)
Register(w, f) ==
  /\ ~polling /\ open[w] = NoFile /\ f \in fresh
  /\ fresh' = fresh \ {f}
  /\ \E s \in set_interest(w, {"READ"}, f) :
       \/ /\ s.rc = 0
          /\ Applied(s)
          /\ open' = [open EXCEPT ![w] = f]
          /\ interests' = [interests EXCEPT ![w] = {"READ"}]
       \/ /\ s.rc # 0
          /\ Applied(Removed(s, w))
          /\ UNCHANGED <<open, interests>>
  /\ UNCHANGED <<ready, polling, out>>

(* Mutant: conn->interests is set before the backend is asked. *)
ModifyFirst(w, events) ==
  /\ ~polling /\ open[w] # NoFile /\ interests[w] # events
  /\ \E s \in set_interest(w, events, open[w]) : Applied(s)
  /\ interests' = [interests EXCEPT ![w] = events]
  /\ UNCHANGED <<open, fresh, ready, polling, out>>

(* connection_set_interests: a failure leaves conn->interests as it was. *)
Modify(w, events) ==
  /\ ~polling /\ open[w] # NoFile /\ interests[w] # events
  /\ \E s \in set_interest(w, events, open[w]) :
       /\ Applied(s)
       /\ interests' = IF s.rc = 0 THEN [interests EXCEPT ![w] = events] ELSE interests
  /\ UNCHANGED <<open, fresh, ready, polling, out>>

(* connection_destroy *)
Close(w) ==
  /\ ~polling /\ open[w] # NoFile
  /\ Applied(Removed(Tried(udata, active, 0), w))
  /\ open' = [open EXCEPT ![w] = NoFile]
  /\ interests' = [interests EXCEPT ![w] = {}]
  /\ UNCHANGED <<fresh, ready, polling, out>>

(* connection_read for a READ event: it reads until recv would block. *)
Read(w) ==
  /\ ~polling /\ open[w] # NoFile
  /\ \E i \in DOMAIN out : out[i].fd = w /\ out[i].events = "READ"
  /\ ready' = [ready EXCEPT ![open[w]] = @ \ {"READ"}]
  /\ UNCHANGED <<open, fresh, interests, udata, active, polling, out>>

-----------------------------------------------------------------------------
(* wirecall_backend_poll *)

(* kevent tests a knote again before it reports it. *)
Holds(k) == k = WakeNote \/ k[2] \in ready[udata[k]]

Event(k) ==
  IF k = WakeNote THEN [fd |-> "wake", events |-> "WAKE", user |-> NoFile]
  ELSE [fd |-> k[1], events |-> k[2], user |-> udata[k]]

(* Mutant: filters are added with EV_CLEAR, and report a condition once. *)
AllCleared(k) == FALSE

(* EVFILT_USER has EV_CLEAR; READ and WRITE go on being reported. *)
Kept(k) == k # WakeNote

Poll ==
  /\ ~polling
  /\ LET holding == SelectSeq(active, Holds)
         n       == IF Len(holding) < MaxEvents THEN Len(holding) ELSE MaxEvents
         taken   == SubSeq(holding, 1, n)
     IN /\ n > 0
        /\ out' = [i \in 1 .. n |-> Event(taken[i])]
        /\ active' = SubSeq(holding, n + 1, Len(holding)) \o SelectSeq(taken, Kept)
  /\ polling' = TRUE
  /\ UNCHANGED <<open, fresh, ready, interests, udata>>

PollReturns ==
  /\ polling
  /\ polling' = FALSE
  /\ UNCHANGED <<open, fresh, ready, interests, udata, active, out>>

(* What the worker goes on doing: it returns to poll after each batch *)
(* (worker_run), and not every wait is interrupted.                   *)
PollStep == Poll \/ PollReturns

(* kevent returns EINTR: no events. *)
PollInterrupted ==
  /\ ~polling
  /\ out' = <<>>
  /\ UNCHANGED <<open, fresh, ready, interests, udata, active, polling>>

Connection(w) ==
  \/ \E f \in Files : Register(w, f)
  \/ \E events \in {{"READ"}, Interests} : Modify(w, events)
  \/ Close(w) \/ Read(w)

Next ==
  \/ \E f \in Files : Change(f) \/ Fill(f)
  \/ \E w \in Fds : Connection(w)
  \/ Wake \/ PollStep \/ PollInterrupted

Spec == Init /\ [][Next]_vars

-----------------------------------------------------------------------------
(* Properties *)

(* The kernel's filters are those the connection has recorded, and carry    *)
(* it: through partly failed changes, closing, and the reuse of a number,   *)
(* connection_set_interests may skip a change that is already recorded.     *)
KqueueFilters ==
  \A k \in Filters :
    udata[k] = IF k[2] \in interests[k[1]] THEN open[k[1]] ELSE NoFile

Reports(f) == polling /\ \E i \in DOMAIN out : out[i].user = f /\ out[i].events = "READ"

Unread(f) == "READ" \in ready[f] /\ \E w \in Fds : open[w] = f
=============================================================================
