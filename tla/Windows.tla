------------------------------- MODULE Windows -------------------------------
(***************************************************************************)
(* The Windows backend (src/backend/windows.c) as a worker uses it. Each    *)
(* connection has a watch in a fixed table and an event object there, which *)
(* the system sets when it records a network event of the socket. A poll    *)
(* waits for the wake event and the first active watches of the table, as   *)
(* many as one wait takes.                                                  *)
(*                                                                         *)
(* Connections are named by their socket numbers. Winsock is modelled from  *)
(* its use here: FD_READ is recorded when data is there and recv has been   *)
(* called, or the events selected, since it was last recorded. When         *)
(* FD_WRITE is recorded is left open. The events of a poll never exceed     *)
(* max_events, which is larger than MAXIMUM_WAIT_OBJECTS.                   *)
(***************************************************************************)
EXTENDS Naturals, Sequences, FiniteSets

CONSTANTS
  Socks, NoSock,
  MaxWatches, \* WIRECALL_WINDOWS_MAX_WATCHES
  MaxWait,    \* MAXIMUM_WAIT_OBJECTS
  MayFail     \* an event object may not be created, a selection may fail

Slots == 1 .. MaxWatches
Wake  == 0
Empty == [socket |-> NoSock, interests |-> {}, user |-> NoSock]

VARIABLES
  fresh,    \* socket numbers not in use
  open,     \* those the worker has a connection for
  data,     \* sockets with data, or an end, to read
  armed,    \* sockets on which recv was called since FD_READ was recorded
  recorded, \* the network events recorded for each socket
  selected, \* the network events asked for with WSAEventSelect
  watches,  \* backend->watches; one without a socket is not active
  signaled, \* wake_event
  polling,  \* the worker is inside wirecall_backend_poll, after the wait
  handles,  \* what is still to be looked at: the slots, and Wake
  out       \* the events of this poll, or of the last one

kernelVars == <<data, armed, recorded, selected, signaled>>
vars == <<fresh, open, kernelVars, watches, polling, handles, out>>

Init ==
  /\ fresh = Socks /\ open = {} /\ data = {} /\ armed = Socks
  /\ recorded = [s \in Socks |-> {}]
  /\ selected = [s \in Socks |-> {}]
  /\ watches = [i \in Slots |-> Empty]
  /\ signaled = FALSE /\ polling = FALSE /\ handles = <<>> /\ out = <<>>

-----------------------------------------------------------------------------
(* Winsock *)

RecordWrite(s) ==
  /\ "WRITE" \in selected[s]
  /\ recorded' = [recorded EXCEPT ![s] = @ \cup {"WRITE"}]
  /\ UNCHANGED <<fresh, open, data, armed, selected, signaled, watches, polling, handles, out>>

(* Data, or the peer's end; FD_READ is recorded where it is due. *)
PeerSends(s) ==
  /\ s \in fresh \cup open
  /\ data' = data \cup {s}
  /\ IF s \in armed /\ "READ" \in selected[s]
       THEN /\ recorded' = [recorded EXCEPT ![s] = @ \cup {"READ"}]
            /\ armed' = armed \ {s}
       ELSE UNCHANGED <<recorded, armed>>
  /\ UNCHANGED <<fresh, open, selected, signaled, watches, polling, handles, out>>

(* wirecall_backend_wake, by any thread *)
SetWake ==
  /\ signaled' = TRUE
  /\ UNCHANGED <<fresh, open, data, armed, recorded, selected, watches, polling, handles, out>>

-----------------------------------------------------------------------------
(* The worker between two polls *)

(* FD_CLOSE, always asked for, is reported as READ and is one with it here. *)
network_events(interests) == {"READ"} \cup interests

First(S) == CHOOSE i \in S : \A j \in S : i <= j

Watched(s) == \E i \in Slots : watches[i].socket = s

find_watch(s) == First({i \in Slots : watches[i].socket = s})

alloc_watch == First({i \in Slots : watches[i] = Empty})

Full == \A i \in Slots : watches[i] # Empty

(* WSAEventSelect clears what was recorded and records what there is. *)
Select(s, events) ==
  LET due == IF s \in data THEN {"READ"} \cap events ELSE {}
  IN /\ selected' = [selected EXCEPT ![s] = events]
     /\ recorded' = [recorded EXCEPT ![s] = due]
     /\ armed' = IF due = {} THEN armed \cup {s} ELSE armed \ {s}

(* Mutant: wirecall_backend_register always takes a new watch. *)
SlotForNew(s) == alloc_watch

SlotFor(s) == IF Watched(s) THEN find_watch(s) ELSE alloc_watch

(* wirecall_backend_register; conn is the connection of socket s. *)
Selects(s, interests) ==
  /\ watches' = [watches EXCEPT ![SlotFor(s)] =
                   [socket |-> s, interests |-> interests, user |-> s]]
  /\ Select(s, network_events(interests))

(* worker_add_connection. A failure, of the table, the event object or the  *)
(* selection, ends in connection_destroy, whose wirecall_backend_remove     *)
(* empties the watch again if there is one.                                 *)
Register(s) ==
  /\ ~polling /\ s \in fresh
  /\ fresh' = fresh \ {s}
  /\ \/ ~Full /\ Selects(s, {"READ"}) /\ open' = open \cup {s}
     \/ (Full \/ MayFail) /\ UNCHANGED <<open, watches, selected, recorded, armed>>
  /\ UNCHANGED <<data, signaled, polling, handles, out>>

(* connection_set_interests, whose conn->interests is what was selected     *)
(* last; a selection that fails leaves the old one.                         *)
Modify(s, interests) ==
  /\ ~polling /\ s \in open /\ selected[s] # network_events(interests)
  /\ \/ Selects(s, interests)
     \/ /\ MayFail
        /\ watches' = [watches EXCEPT ![SlotFor(s)].interests = interests]
        /\ UNCHANGED <<selected, recorded, armed>>
  /\ UNCHANGED <<fresh, open, data, signaled, polling, handles, out>>

(* connection_destroy: wirecall_backend_remove and the close, after the     *)
(* connection's own event if it has one. The socket's number is free again. *)
Close(s) ==
  /\ ~polling /\ s \in open
  /\ watches' = IF Watched(s) THEN [watches EXCEPT ![find_watch(s)] = Empty] ELSE watches
  /\ Select(s, {})
  /\ data' = data \ {s}
  /\ open' = open \ {s}
  /\ fresh' = fresh \cup {s}
  /\ out' = SelectSeq(out, LAMBDA e : e.user # s)
  /\ UNCHANGED <<signaled, polling, handles>>

Readable(e) == e.user \in open /\ "READ" \in e.events

(* connection_read for the next READ event: recv until it would block. *)
Read ==
  /\ ~polling /\ \E i \in DOMAIN out : Readable(out[i])
  /\ LET e == Head(SelectSeq(out, Readable))
     IN /\ data' = data \ {e.user}
        /\ armed' = armed \cup {e.user}
        /\ out' = SelectSeq(out, LAMBDA o : o # e)
  /\ UNCHANGED <<fresh, open, recorded, selected, signaled, watches, polling, handles>>

-----------------------------------------------------------------------------
(* wirecall_backend_poll *)

IsSet(h) == IF h = Wake THEN signaled ELSE recorded[watches[h].socket] # {}

(* handles[]: the wake event, then active watches as far as there is room. *)
Handles ==
  LET slots == SelectSeq([i \in Slots |-> i], LAMBDA i : watches[i] # Empty)
      room  == IF Len(slots) < MaxWait - 1 THEN Len(slots) ELSE MaxWait - 1
  IN <<Wake>> \o SubSeq(slots, 1, room)

(* Mutant: the loop starts behind the handle that ended the wait. *)
FromAfter(n) == SubSeq(Handles, n + 1, Len(Handles))

(* The wait ends with the first handle that is set. *)
From(n) == SubSeq(Handles, n, Len(Handles))

PollBegin ==
  /\ ~polling /\ \A i \in DOMAIN out : ~Readable(out[i])
  /\ \E n \in DOMAIN Handles :
       /\ IsSet(Handles[n]) /\ \A m \in 1 .. n - 1 : ~IsSet(Handles[m])
       /\ handles' = From(n)
  /\ polling' = TRUE
  /\ out' = <<>>
  /\ UNCHANGED <<fresh, open, kernelVars, watches>>

(* A handle that is not set is passed over. *)
PassOver ==
  /\ polling /\ handles # <<>> /\ ~IsSet(Head(handles))
  /\ handles' = Tail(handles)
  /\ UNCHANGED <<fresh, open, kernelVars, watches, polling, out>>

TakeWake ==
  /\ polling /\ handles # <<>> /\ Head(handles) = Wake /\ signaled
  /\ signaled' = FALSE
  /\ out' = Append(out, [user |-> NoSock, events |-> {"WAKE"}])
  /\ handles' = Tail(handles)
  /\ UNCHANGED <<fresh, open, data, armed, recorded, selected, watches, polling>>

(* WSAEnumNetworkEvents takes what is recorded and resets the event object. *)
TakeEvents ==
  /\ polling /\ handles # <<>> /\ Head(handles) # Wake /\ IsSet(Head(handles))
  /\ LET watch == watches[Head(handles)]
     IN /\ recorded' = [recorded EXCEPT ![watch.socket] = {}]
        /\ out' = Append(out, [user |-> watch.user, events |-> recorded[watch.socket]])
  /\ handles' = Tail(handles)
  /\ UNCHANGED <<fresh, open, data, armed, selected, signaled, watches, polling>>

PollReturns ==
  /\ polling /\ handles = <<>>
  /\ polling' = FALSE
  /\ UNCHANGED <<fresh, open, kernelVars, watches, handles, out>>

(* What the worker goes on doing: it reads what is reported and polls again. *)
PollStep == Read \/ PollBegin \/ PassOver \/ TakeWake \/ TakeEvents \/ PollReturns

Connection(s) ==
  \/ Register(s) \/ Close(s)
  \/ \E interests \in {{"READ"}, {"READ", "WRITE"}} : Modify(s, interests)

Next ==
  \/ \E s \in Socks : RecordWrite(s) \/ PeerSends(s) \/ Connection(s)
  \/ SetWake \/ PollStep

Spec == Init /\ [][Next]_vars

-----------------------------------------------------------------------------
(* Properties *)

(* The table has one watch for each connection, with its socket and its     *)
(* address, and no other: failed registrations and closed connections leave *)
(* nothing that takes a place in the wait.                                  *)
WatchesAreConnections ==
  /\ \A i \in Slots : watches[i] # Empty => /\ watches[i].socket \in open
                                            /\ watches[i].user = watches[i].socket
  /\ \A s \in open : Cardinality({i \in Slots : watches[i].socket = s}) = 1

(* The watch of s is among those one wait takes. *)
Waited(s) == \E i \in DOMAIN Handles : Handles[i] # Wake /\ watches[Handles[i]].socket = s

(* The first MaxWait - 1 watches of the table are waited for, the rest not. *)
Unread(s) == s \in open /\ s \in data /\ Waited(s)

Reports(s) == polling /\ \E i \in DOMAIN out : out[i].user = s /\ "READ" \in out[i].events
=============================================================================
