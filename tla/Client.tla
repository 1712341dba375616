------------------------------- MODULE Client -------------------------------
(***************************************************************************)
(* The client of src/src/client.c on one connection: calls, pipelined      *)
(* calls, pings and close over a byte stream that is sent and received in  *)
(* pieces, against a server that answers in any order.                     *)
(*                                                                         *)
(* A byte is a cell [p, i]: cell i of packet p. A header is HeaderCells    *)
(* long. That a receiver takes exactly the intact packets that its         *)
(* integrity settings protect is what module Message shows of verify_ex.   *)
(***************************************************************************)
EXTENDS Integers, Sequences, FiniteSets

CONSTANTS
  HeaderCells,      \* WIRECALL_HEADER_SIZE
  BodySizes,        \* payload sizes of responses
  FirstCap,         \* first capacity of the read buffer, 65536 in the code
  MaxIds,           \* bound on next_call_id
  ServerIntegrity,  \* the protections the server applies
  IntegrityChoices, \* what the application may pass to set_integrity
  AllocMayFail,     \* an allocation of the client may fail
  MayBreak          \* the connection may break and sends may fail

ASSUME ClientAssumption == HeaderCells \in Nat \ {0} /\ BodySizes \subseteq Nat

VARIABLES
  state,        \* "none", "open" or "closed"
  next_call_id,
  read,         \* [buf, off, cap]: read_buf up to read_len, read_off, read_cap
  integrity,    \* the client's settings
  pc,           \* "idle", "sending", "header", "body"
  call,         \* [fn, id]: the library call in progress
  out,          \* cells that call has still to send
  header,       \* header read: [p, size], p = 0 if its bytes are not a header's
  c2s, s2c,     \* cells under way
  open,         \* the server has not closed the connection
  owed,         \* calls the server has to answer
  log,          \* the packets the server queued: [op, call_id, size, whole]
  frail,        \* an allocation of the server may fail
  taken,        \* cells that recv_packet has consumed
  outstanding,  \* pipelined calls whose response was not received yet
  abandoned,    \* calls and pings that failed before taking their response
  swallowed,    \* pipelined calls whose response went to another call
  poisoned,     \* the packet at read_off has failed to verify
  blind,        \* a packet has been taken without any check
  delivered     \* [fn, id, p, intact]: responses handed to the caller

client == <<state, next_call_id, read, integrity, pc, call, out, header>>
server == <<open, owed, log, frail>>
history == <<taken, outstanding, abandoned, swallowed, poisoned, blind, delivered>>
vars == <<client, server, history, c2s, s2c>>

NoCall == [fn |-> "none", id |-> 0]
NoHeader == [p |-> 0, size |-> 0]

Init ==
  /\ state = "none"
  /\ next_call_id = 1
  /\ read = [buf |-> <<>>, off |-> 0, cap |-> 0]
  /\ integrity = {"checksum"}
  /\ pc = "idle"
  /\ call = NoCall
  /\ out = <<>>
  /\ header = NoHeader
  /\ c2s = <<>> /\ s2c = <<>>
  /\ open = TRUE
  /\ owed = {}
  /\ log = <<>>
  /\ frail \in BOOLEAN
  /\ taken = 0
  /\ outstanding = {} /\ abandoned = {} /\ swallowed = {}
  /\ poisoned = FALSE
  /\ blind = FALSE
  /\ delivered = {}

-----------------------------------------------------------------------------
(* The server, as far as a client can tell *)

Cells(p, size) == [i \in 1 .. HeaderCells + size |-> [p |-> p, i |-> i]]

(* The cells of a queued packet; queue_packet may fail between header and   *)
(* payload.                                                                 *)
Queued(p) == Cells(p, IF log[p].whole THEN log[p].size ELSE 0)

Queue(op, id, size, whole) ==
  /\ log' = Append(log, [op |-> op, call_id |-> id, size |-> size, whole |-> whole])
  /\ s2c' = s2c \o Cells(Len(log) + 1, IF whole THEN size ELSE 0)

(* A request: its header, and one cell of arguments for a call. *)
Request(fn, id) ==
  [i \in 1 .. (IF fn \in {"call", "send"} THEN 2 ELSE 1) |-> [fn |-> fn, id |-> id, i |-> i]]

(* The first packet of c2s is complete. *)
Complete(stream) ==
  /\ stream # <<>>
  /\ LET request == Request(stream[1].fn, stream[1].id)
     IN  Len(request) <= Len(stream) /\ request = SubSeq(stream, 1, Len(request))

(* parse_available takes a request. *)
ServerTakes ==
  /\ open
  /\ Complete(c2s)
  /\ LET fn == c2s[1].fn
         id == c2s[1].id
         rest == SubSeq(c2s, Len(Request(fn, id)) + 1, Len(c2s))
     IN  /\ c2s' = rest
         /\ CASE fn = "ping"  -> /\ Queue("response", id, 0, TRUE)
                                 /\ UNCHANGED <<open, owed>>
              [] fn = "close" -> /\ open' = FALSE
                                 /\ UNCHANGED <<owed, log, s2c>>
              [] OTHER        -> /\ owed' = owed \cup {id}
                                 /\ UNCHANGED <<open, log, s2c>>
  /\ UNCHANGED <<client, history, frail>>

(* Bytes of two requests run into each other: the server closes. *)
ServerRejects ==
  /\ open
  /\ Len(c2s) >= 2
  /\ ~Complete(c2s)
  /\ open' = FALSE
  /\ UNCHANGED <<client, history, owed, log, frail, c2s, s2c>>

(* A handler's answer, in whatever order the handlers finish. *)
ServerAnswers(id) ==
  /\ open
  /\ id \in owed
  /\ owed' = owed \ {id}
  /\ \E op \in {"response", "error"}, size \in BodySizes, whole \in BOOLEAN :
       /\ op = "error" => size > 0
       /\ ~whole => frail /\ size > 0
       /\ Queue(op, id, size, whole)
  /\ UNCHANGED <<client, history, open, frail, c2s>>

ServerCloses ==
  /\ MayBreak
  /\ open
  /\ open' = FALSE
  /\ UNCHANGED <<client, history, owed, log, frail, c2s, s2c>>

-----------------------------------------------------------------------------
(* Connecting, closing, settings *)

(* wirecall_client_connect: one of the addresses accepts, or the half-made  *)
(* client is closed again.                                                  *)
Connect ==
  /\ state = "none"
  /\ state' \in {"open", "closed"}
  /\ UNCHANGED <<next_call_id, read, integrity, pc, call, out, header, server, history, c2s, s2c>>

SetIntegrity(i) ==
  /\ state = "open"
  /\ pc = "idle"
  /\ integrity' = i
  /\ poisoned' = FALSE
  /\ UNCHANGED <<state, next_call_id, read, pc, call, out, header, server, taken, outstanding,
                 abandoned, swallowed, blind, delivered, c2s, s2c>>

-----------------------------------------------------------------------------
(* Sending *)

(* A call that sends takes a call id, which is spent even if it fails. *)
Begin(fn) ==
  /\ state = "open"
  /\ pc = "idle"
  /\ fn # "close" => next_call_id <= MaxIds
  /\ next_call_id' = next_call_id + 1
  /\ call' = [fn |-> fn, id |-> next_call_id]
  /\ out' = Request(fn, next_call_id)
  /\ pc' = "sending"
  /\ UNCHANGED <<state, read, integrity, header, server, history, c2s, s2c>>

(* The library call returns to the application. *)
Return ==
  /\ pc' = "idle"
  /\ call' = NoCall
  /\ out' = <<>>
  /\ header' = NoHeader
  /\ state' = IF call.fn = "close" THEN "closed" ELSE state

(* sendmsg took n bytes, of one buffer or of both. *)
SendSome(n) ==
  /\ pc = "sending"
  /\ n \in 1 .. Len(out)
  /\ c2s' = IF open THEN c2s \o SubSeq(out, 1, n) ELSE c2s
  /\ IF n < Len(out)
     THEN /\ out' = SubSeq(out, n + 1, Len(out))
          /\ UNCHANGED <<state, pc, call, header, outstanding>>
     ELSE IF call.fn \in {"ping", "call"}
     THEN /\ pc' = "header"
          /\ out' = <<>>
          /\ UNCHANGED <<state, call, header, outstanding>>
     ELSE /\ outstanding' = IF call.fn = "send" THEN outstanding \cup {call.id} ELSE outstanding
          /\ Return
  /\ UNCHANGED <<next_call_id, read, integrity, server, taken, abandoned, swallowed, poisoned,
                 blind, delivered, s2c>>

(* sendmsg fails: whatever was sent of the packet stays sent. *)
SendFails ==
  /\ MayBreak
  /\ pc = "sending"
  /\ Return
  /\ UNCHANGED <<next_call_id, read, integrity, server, history, c2s, s2c>>

-----------------------------------------------------------------------------
(* The read buffer *)

Available(r) == Len(r.buf) - r.off

(* Mutant of Enough: off by one. *)
EnoughLess(cap, need) ==
  LET grow[c \in 1 .. 2 * (cap + need)] == IF c >= need - 1 THEN c ELSE grow[2 * c]
  IN  grow[IF cap = 0 THEN FirstCap ELSE cap]

Enough(cap, need) ==
  LET grow[c \in 1 .. 2 * (cap + need)] == IF c >= need THEN c ELSE grow[2 * c]
  IN  grow[IF cap = 0 THEN FirstCap ELSE cap]

(* Mutant of Compacted: read_off is not reset. *)
CompactedKeepsOff(r) == [r EXCEPT !.buf = SubSeq(r.buf, r.off + 1, Len(r.buf))]

Compacted(r) ==
  [r EXCEPT !.buf = SubSeq(r.buf, r.off + 1, Len(r.buf)), !.off = 0]

(* client_read_reserve: the outcomes [rc, r]. *)
client_read_reserve(r, need) ==
  LET c == Compacted(r)
      grown == [rc |-> 0, r |-> [c EXCEPT !.cap = Enough(c.cap, need)]]
  IN  IF Available(r) >= need THEN {[rc |-> 0, r |-> r]}
      ELSE IF c.cap >= need THEN {[rc |-> 0, r |-> c]}
      ELSE {grown} \cup (IF AllocMayFail THEN {[rc |-> -1, r |-> c]} ELSE {})

(* The two reserves of client_read_fill before it receives. *)
Reserved(r, need) ==
  UNION {IF a.rc = 0 /\ Len(a.r.buf) = a.r.cap
         THEN client_read_reserve(a.r, a.r.cap + 1) ELSE {a} : a \in client_read_reserve(r, need)}

Need == IF pc = "body" THEN HeaderCells + header.size ELSE HeaderCells

Filling == pc \in {"header", "body"} /\ Available(read) < Need

(* What a receive that fails leaves: the response of this call is still to come. *)
Fails ==
  /\ Return
  /\ abandoned' = IF call.fn = "recv" THEN abandoned ELSE abandoned \cup {call.id}
  /\ UNCHANGED <<next_call_id, integrity, server, taken, outstanding, swallowed, blind, delivered, c2s>>

(* One turn of client_read_fill: the buffer cannot be made large enough, or *)
(* recv returns n bytes, the end or an error.                               *)
ReserveFails ==
  /\ Filling
  /\ \E a \in Reserved(read, Need) : a.rc # 0 /\ read' = a.r
  /\ Fails
  /\ UNCHANGED <<s2c, poisoned>>

ReadFill(n) ==
  /\ Filling
  /\ n \in 1 .. Len(s2c)
  /\ \E a \in Reserved(read, Need) :
       /\ a.rc = 0
       /\ n <= a.r.cap - Len(a.r.buf)
       /\ read' = [a.r EXCEPT !.buf = @ \o SubSeq(s2c, 1, n)]
  /\ s2c' = SubSeq(s2c, n + 1, Len(s2c))
  /\ UNCHANGED <<state, next_call_id, integrity, pc, call, out, header, server, history, c2s>>

(* Mutant of ReadEnds: a recv of 0 bytes is tried again. *)
ReadEndsRetries ==
  /\ Filling
  /\ ~open
  /\ \E a \in Reserved(read, Need) : read' = a.r
  /\ UNCHANGED <<state, next_call_id, integrity, pc, call, out, header, server, history, c2s, s2c>>

ReadEnds ==
  /\ Filling
  /\ ~open
  /\ \E a \in Reserved(read, Need) : read' = a.r
  /\ Fails
  /\ UNCHANGED <<s2c, poisoned>>

-----------------------------------------------------------------------------
(* recv_packet and what its callers make of the packet *)

At(n) == SubSeq(read.buf, read.off + 1, read.off + n)

(* The header is complete. Bytes that are not a header's are refused, or    *)
(* pass for a header of some size.                                          *)
HeaderRead ==
  /\ pc = "header"
  /\ Available(read) >= HeaderCells
  /\ LET p == read.buf[read.off + 1].p
         found == At(HeaderCells) = Cells(p, 0)
     IN  \/ /\ header' \in IF found THEN {[p |-> p, size |-> log[p].size]}
                                    ELSE [p : {0}, size : BodySizes]
            /\ pc' = "body"
            /\ UNCHANGED <<state, next_call_id, integrity, call, out, server, history, c2s>>
         \/ ~found /\ Fails /\ UNCHANGED poisoned
  /\ UNCHANGED <<read, s2c>>

Intact == header.p # 0 /\ At(Need) = Cells(header.p, header.size)

(* verify_ex: see VerifiedIfIntact of module Message. *)
Verified == integrity = {} \/ (Intact /\ integrity \subseteq ServerIntegrity)

PacketReady == pc = "body" /\ Available(read) >= Need

(* read_off moves past the packet; an empty buffer starts over. *)
Consumed(r, n) ==
  IF r.off + n = Len(r.buf) THEN [r EXCEPT !.buf = <<>>, !.off = 0]
  ELSE [r EXCEPT !.off = r.off + n]

(* Mutants of VerifyFails and BodyFails: read_off has moved already. *)
Skips ==
  /\ Return
  /\ abandoned' = IF call.fn = "recv" THEN abandoned ELSE abandoned \cup {call.id}
  /\ read' = Consumed(read, Need)
  /\ taken' = taken + Need
  /\ UNCHANGED <<next_call_id, integrity, server, outstanding, swallowed, blind, delivered, c2s, s2c>>
VerifyFailsSkips == PacketReady /\ ~Verified /\ poisoned' = TRUE /\ Skips
BodyFailsSkips == PacketReady /\ Verified /\ AllocMayFail /\ UNCHANGED poisoned /\ Skips

(* A packet that does not verify stays in the buffer. *)
VerifyFails ==
  /\ PacketReady
  /\ ~Verified
  /\ Fails
  /\ poisoned' = TRUE
  /\ UNCHANGED <<read, s2c>>

(* So does one whose body cannot be allocated. *)
BodyFails ==
  /\ PacketReady
  /\ Verified
  /\ AllocMayFail
  /\ Fails
  /\ UNCHANGED <<read, s2c, poisoned>>

(* What the header says: anything, when its bytes were not a header's. *)
Fields == IF header.p = 0 THEN [op : {"response", "error"}, call_id : 0 .. MaxIds]
          ELSE {[op |-> log[header.p].op, call_id |-> log[header.p].call_id]}

(* Mutant of Expected: the call id is not compared. *)
ExpectedAnyId(h) == h.op = "response" /\ (call.fn = "ping" => header.size = 0)

(* The checks of wirecall_client_ping, client_call_id and                    *)
(* wirecall_client_recv_response, but for the decoding of the payload.       *)
Expected(h) ==
  /\ h.op = "response"
  /\ call.fn \in {"ping", "call"} => h.call_id = call.id
  /\ call.fn = "ping" => header.size = 0

(* The packet is taken; a payload that cannot be decoded, or not be         *)
(* allocated, makes the call fail too.                                      *)
PacketTaken ==
  /\ PacketReady
  /\ Verified
  /\ \E h \in Fields, decoded \in {TRUE} \cup (IF AllocMayFail \/ ~Intact THEN {FALSE} ELSE {}) :
       LET waits == call.fn # "recv" /\ h.call_id # call.id
       IN  /\ delivered' = IF Expected(h) /\ (decoded \/ call.fn = "ping")
                           THEN delivered \cup
                                  {[fn |-> call.fn, id |-> IF call.fn = "recv" THEN h.call_id ELSE call.id,
                                    p |-> header.p, intact |-> Intact]}
                           ELSE delivered
           /\ outstanding' = IF call.fn = "recv" THEN outstanding \ {h.call_id} ELSE outstanding
           /\ swallowed' = IF waits /\ h.call_id \in outstanding
                           THEN swallowed \cup {h.call_id} ELSE swallowed
           /\ abandoned' = (abandoned \ {h.call_id}) \cup (IF waits THEN {call.id} ELSE {})
  /\ read' = Consumed(read, Need)
  /\ taken' = taken + Need
  /\ blind' = (blind \/ integrity = {})
  /\ Return
  /\ UNCHANGED <<next_call_id, integrity, server, poisoned, c2s, s2c>>

(* wirecall_client_recv_response is called while a response is awaited. *)
BeginRecv ==
  /\ state = "open"
  /\ pc = "idle"
  /\ outstanding # {}
  /\ pc' = "header"
  /\ call' = [fn |-> "recv", id |-> 0]
  /\ UNCHANGED <<state, next_call_id, read, integrity, out, header, server, history, c2s, s2c>>

ServerNext ==
  \/ ServerTakes \/ ServerRejects \/ ServerCloses
  \/ \E id \in owed : ServerAnswers(id)

LibraryNext ==
  \/ \E n \in 1 .. 2 : SendSome(n)
  \/ \E n \in 1 .. Len(s2c) : ReadFill(n)
  \/ ReadEnds
  \/ HeaderRead \/ VerifyFails \/ PacketTaken

ResourceNext == SendFails \/ ReserveFails \/ BodyFails

ApplicationNext ==
  \/ Connect
  \/ \E i \in IntegrityChoices : SetIntegrity(i)
  \/ \E fn \in {"ping", "call", "send", "close"} : Begin(fn)
  \/ BeginRecv

Next == ServerNext \/ LibraryNext \/ ResourceNext \/ ApplicationNext

Spec == Init /\ [][Next]_vars

(* The library runs while it can, and the server goes on taking requests    *)
(* and answering them; nothing makes the application call, the connection   *)
(* break or an allocation fail.                                             *)
Fairness ==
  /\ WF_vars(LibraryNext)
  /\ WF_vars(ServerTakes \/ ServerRejects)
  /\ WF_vars(\E id \in owed : ServerAnswers(id))

FairSpec == Spec /\ Fairness

-----------------------------------------------------------------------------
Sent ==
  LET upTo[p \in 0 .. Len(log)] == IF p = 0 THEN <<>> ELSE upTo[p - 1] \o Queued(p)
  IN  upTo[Len(log)]
Unread == SubSeq(read.buf, read.off + 1, Len(read.buf)) \o s2c

(* The bytes after read_off followed by those on the wire are the bytes the *)
(* server queued after the last packet taken: moving, growing and resetting *)
(* the read buffer loses, repeats or reorders none. And when                *)
(* client_read_fill calls recv there is room in the buffer: with a length   *)
(* of 0 recv would return 0, which is read as the end of the stream.        *)
StreamInOrder ==
  /\ read.off <= Len(read.buf) /\ Len(read.buf) <= read.cap
  /\ Unread = SubSeq(Sent, taken + 1, Len(Sent))
  /\ Filling => \A a \in Reserved(read, Need) : a.rc = 0 => Len(a.r.buf) < a.r.cap

(* A call or a ping returns 0 only with the response to its own request,    *)
(* and under integrity checks no call returns a payload made of bytes of    *)
(* two packets, even after the server lost a payload behind its header.     *)
DeliveredIsOwn ==
  ~blind => \A d \in delivered :
    /\ d.intact
    /\ log[d.p].op = "response"
    /\ d.id = log[d.p].call_id

(* The calls answered by whole packets that were not taken yet. *)
ToCome == {p \in 1 .. Len(log) : \E i \in 1 .. Len(Unread) : Unread[i] = [p |-> p, i |-> 1]}

(* Every response is owed to someone: to a pipelined call, to the call in   *)
(* progress, or to a call that failed before it read its response, whose    *)
(* response the next call will meet. No call is answered twice, and a       *)
(* pipelined call loses its response only to a ping or a call made while it *)
(* was outstanding, to a packet the server could not queue, or to a broken  *)
(* connection.                                                              *)
ResponsesAccounted ==
  ~blind =>
    /\ \A p \in ToCome : log[p].call_id \in outstanding \cup abandoned \cup {call.id}
    /\ \A p, q \in 1 .. Len(log) : log[p].call_id = log[q].call_id => p = q
    /\ open /\ (\A p \in 1 .. Len(log) : log[p].whole) =>
         \A id \in outstanding \ swallowed :
           \/ id \in owed
           \/ \E p \in ToCome : log[p].call_id = id
           \/ \E i \in 1 .. Len(c2s) : c2s[i].id = id

(* A packet that failed to verify is never skipped: as long as the settings *)
(* are the same nothing after it is taken, so no later call of this         *)
(* connection returns a response.                                           *)
PoisonSticks == [][poisoned /\ poisoned' => taken' = taken]_vars

(* Every library call returns, unless it waits for a response that another  *)
(* call has taken or whose payload the server could not queue.              *)
CallsReturn ==
  pc # "idle" ~> \/ pc = "idle"
                 \/ swallowed # {}
                 \/ \E p \in 1 .. Len(log) : ~log[p].whole

=============================================================================
