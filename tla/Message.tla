------------------------------- MODULE Message -------------------------------
(***************************************************************************)
(* The way of one message: a caller writes values, the sender signs and    *)
(* encodes a packet (send_packet of the client, queue_packet of the        *)
(* server), a byte may be damaged on the way, the receiver decodes the     *)
(* header, verifies the packet and decodes the payload, one value a step.  *)
(*                                                                         *)
(* A caller may go on after a call that failed. Each end has its own       *)
(* integrity settings and key.                                             *)
(***************************************************************************)
EXTENDS Payload

CONSTANTS
  Values,       \* what the caller may write
  MaxWrites,    \* bound on the calls of the caller
  Headers,      \* [op, flags, proc_id, call_id] the packet may have
  Ends          \* [sender, receiver]: the settings [integrity, key] of the two ends

VARIABLES
  stage,        \* "writing", "sent", "decoding", "decoded", "rejected", "malformed", "freed"
  writer,       \* the caller's wirecall_writer
  calls,        \* writer calls made
  written,      \* the values whose call returned 0
  cut,          \* a length prefix was written and its data was not
  oom,          \* an allocation has failed
  sender, receiver,  \* settings of the ends
  wire,         \* the packet's bytes
  damaged,      \* position of the damaged byte, 0 if none
  decoder       \* state of wirecall_payload_decode

vars == <<stage, writer, calls, written, cut, oom, sender, receiver, wire, damaged, decoder>>

Body == SubSeq(wire, HeaderSize + 1, Len(wire))

Init ==
  /\ stage = "writing"
  /\ writer = EmptyWriter
  /\ calls = 0
  /\ written = <<>>
  /\ cut = FALSE
  /\ oom = FALSE
  /\ \E e \in Ends : sender = e.sender /\ receiver = e.receiver
  /\ wire = <<>>
  /\ damaged = 0
  /\ decoder = NoArray

(* The bytes a value takes. *)
WriteSize(v) == IF Sized(v) THEN 5 + Len(v.as) ELSE Len(FixedBytes(v))

(* One call of a wirecall_writer function. *)
Write(v) ==
  /\ stage = "writing"
  /\ calls < MaxWrites
  /\ calls' = calls + 1
  /\ \E r \in WriteValue(writer, v) :
       /\ writer' = r.w
       /\ written' = IF r.rc = 0 THEN Append(written, v) ELSE written
       /\ cut' = (cut \/ (r.rc # 0 /\ r.w.data # writer.data))
       /\ oom' = (oom \/ (r.rc # 0 /\ ~OverLimit(writer, WriteSize(v))))
  /\ UNCHANGED <<stage, sender, receiver, wire, damaged, decoder>>

(* wirecall_writer_reset keeps the buffer, wirecall_writer_free does not. *)
Clear(cap) ==
  /\ stage = "writing"
  /\ calls < MaxWrites
  /\ writer.data # <<>>
  /\ calls' = calls + 1
  /\ writer' = [data |-> <<>>, cap |-> cap]
  /\ written' = <<>>
  /\ cut' = FALSE
  /\ UNCHANGED <<stage, oom, sender, receiver, wire, damaged, decoder>>

Reset == Clear(writer.cap)
Free == Clear(0)

(* Sign, encode, and append the payload. *)
Send(f) ==
  LET h == [op |-> f.op, flags |-> f.flags, proc_id |-> f.proc_id, call_id |-> f.call_id,
            size |-> Len(writer.data), checksum |-> NoDigest, mac |-> NoDigest]
      header == HeaderEncode(Sign(h, writer.data, sender.integrity, sender.key))
  IN  /\ stage = "writing"
      /\ ~Refused(h, writer.data)
      /\ header # <<>>
      /\ wire' = header \o writer.data
      /\ stage' = "sent"
      /\ UNCHANGED <<writer, calls, written, cut, oom, sender, receiver, damaged, decoder>>

(* A byte changes on the way. *)
Damage(i) ==
  /\ stage = "sent"
  /\ damaged = 0
  /\ damaged' = i
  /\ wire' = [wire EXCEPT ![i] =
                IF i \in 23 .. HeaderSize THEN [@ EXCEPT !.of = Garbled]
                ELSE (@ + 1) % ByteBase]
  /\ UNCHANGED <<stage, writer, calls, written, cut, oom, sender, receiver, decoder>>

(* recv_packet, parse_available: a packet of the announced size is verified; *)
(* one that announces more bytes than come is never taken.                   *)
Receive ==
  /\ stage = "sent"
  /\ stage' = IF \E h \in HeaderDecode(SubSeq(wire, 1, HeaderSize)) :
                   /\ h.size <= Len(Body)
                   /\ Verified(h, SubSeq(Body, 1, h.size), receiver.integrity, receiver.key)
              THEN "decoding" ELSE "rejected"
  /\ UNCHANGED <<writer, calls, written, cut, oom, sender, receiver, wire, damaged, decoder>>

(* The payload the receiver took: as long as the header says. *)
Payload == SubSeq(Body, 1, GetU(wire, 10, 4))

(* One turn of the loop of wirecall_payload_decode. *)
DecodeValue ==
  LET d == IF Len(decoder.values) = decoder.cap THEN GrowArray(decoder) ELSE decoder
      r == ValueAt(d, Payload)
      mayFail == Len(decoder.values) = decoder.cap \/ NeedsCopy(r.value)
      Malformed == /\ stage' = "malformed"
                   /\ decoder' = Freed(decoder, Len(decoder.values))
  IN  /\ stage = "decoding"
      /\ decoder.off < Len(Payload)
      /\ IF ~WellFormed(d, Payload) THEN Malformed /\ UNCHANGED oom
         ELSE \/ decoder' = Store(d, r) /\ UNCHANGED <<stage, oom>>
              \/ AllocMayFail /\ mayFail /\ Malformed /\ oom' = TRUE
      /\ UNCHANGED <<writer, calls, written, cut, sender, receiver, wire, damaged>>

DecodeReturns ==
  /\ stage = "decoding"
  /\ decoder.off >= Len(Payload)
  /\ stage' = "decoded"
  /\ UNCHANGED <<writer, calls, written, cut, oom, sender, receiver, wire, damaged, decoder>>

(* The caller frees what it was given. *)
ValuesFree ==
  /\ stage = "decoded"
  /\ stage' = "freed"
  /\ decoder' = values_free(decoder)
  /\ UNCHANGED <<writer, calls, written, cut, oom, sender, receiver, wire, damaged>>

Next ==
  \/ \E v \in Values : Write(v)
  \/ Reset \/ Free
  \/ \E f \in Headers : Send(f)
  \/ \E i \in 1 .. Len(wire) : Damage(i)
  \/ Receive
  \/ DecodeValue \/ DecodeReturns
  \/ ValuesFree

Spec == Init /\ [][Next]_vars

-----------------------------------------------------------------------------
(* wirecall_packet_mac feeds SipHash the same words as one pass over the    *)
(* header's fields and the payload would, whatever the payload's length:    *)
(* the tail kept between the two calls of sip_update loses no byte.         *)
MacIsOnePass ==
  LET h == [op |-> OpRpc, flags |-> 0, proc_id |-> 1, call_id |-> 1,
            size |-> Len(writer.data), checksum |-> NoDigest]
      all == Meta(h, Len(writer.data)) \o writer.data
      k == Len(all) \div 8
  IN  Mac(h, writer.data, 0) =
        <<"mac", 0, Words(all, k), SubSeq(all, 8 * k + 1, Len(all)), Len(all) % 256>>

(* Which bytes of a packet the receiver's settings protect: the MAC all of  *)
(* them, the checksum all but the MAC.                                      *)
Protected(i) ==
  \/ "mac" \in receiver.integrity
  \/ "checksum" \in receiver.integrity /\ i \notin 27 .. HeaderSize

Compatible ==
  /\ receiver.integrity \subseteq sender.integrity
  /\ "mac" \in receiver.integrity => sender.key = receiver.key

(* verify_ex takes an undamaged packet exactly when the sender protected it *)
(* the way the receiver checks, and never one with a damaged byte that its  *)
(* settings protect: a header field, the checksum itself or the payload.    *)
VerifiedIfIntact ==
  /\ stage = "rejected" => damaged # 0 \/ ~Compatible
  /\ stage \notin {"writing", "sent", "rejected"} =>
       IF damaged = 0 THEN Compatible ELSE ~Protected(damaged)

(* The receiver decodes the values whose writer calls returned 0, in order. *)
(* A bytes or string call that fails at the size limit leaves its prefix    *)
(* behind; a caller who goes on and sends the writer then sends a payload   *)
(* that is refused, never one that reads as other values. (An allocation    *)
(* that fails at that place does not have this effect: what is written next *)
(* is then read as the missing data.)                                       *)
ReadsAsWritten ==
  ~oom /\ damaged = 0 =>
    /\ stage \in {"decoded", "freed"} => decoder.values = written
    /\ stage = "malformed" => cut

(* Writer and decoder keep to their buffers. The writer's bytes fit its     *)
(* buffer, and the buffer the largest payload, whichever calls failed.      *)
(* Decoding stays within the payload and the value array, damaged payloads  *)
(* included: the sentinel follows the last value and has a slot. Neither a  *)
(* refusal, wherever it happens, nor wirecall_values_free leaves a copy of  *)
(* a string behind.                                                         *)
BuffersSafe ==
  /\ Len(writer.data) <= writer.cap /\ writer.cap <= MaxPayload
  /\ stage \in {"decoding", "decoded"} =>
       /\ decoder.off <= Len(Payload)
       /\ decoder.sentinel = IF decoder.cap = 0 THEN -1 ELSE Len(decoder.values)
       /\ Len(decoder.values) <= decoder.cap
  /\ stage \in {"malformed", "freed"} => decoder.copies = {} /\ decoder.cap = 0

=============================================================================
