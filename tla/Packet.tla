------------------------------- MODULE Packet -------------------------------
(***************************************************************************)
(* The packet format of src/src/protocol.c: the header's bytes, and what   *)
(* the checksum and the MAC cover.                                         *)
(*                                                                         *)
(* A byte has ByteBase values instead of 256; widths and offsets are the   *)
(* code's. The hash functions are ideal: a digest is the tuple of what was *)
(* fed to it, so two digests are equal exactly when the same data was      *)
(* hashed. How the data is cut into the 64-bit words the hashes consume is *)
(* modelled.                                                               *)
(***************************************************************************)
EXTENDS Integers, Sequences, SequencesExt

CONSTANTS
  ByteBase,     \* the number of values of a byte
  MaxPayload    \* WIRECALL_MAX_PAYLOAD_SIZE

HeaderSize == 34
OpRpc == 1
OpPing == 2
OpDisconnect == 3
OpResponse == 4
OpError == 5

Byte == 0 .. ByteBase - 1

(* put_u32 and put_u64: n bytes, the most significant first. *)
PutU(value, n) == [i \in 1 .. n |-> (value \div ByteBase ^ (n - i)) % ByteBase]

(* get_u32 and get_u64 at offset off. *)
GetU(in, off, n) ==
  FoldLeft(LAMBDA value, b : value * ByteBase + b, 0, SubSeq(in, off + 1, off + n))

(* A digest field: byte i of a digest, for the zero of a field that was not *)
(* computed too. Bytes of different digests make no digest of a packet.     *)
NoDigest == <<>>
Garbled == <<"garbled">>
PutDigest(digest, n) == [i \in 1 .. n |-> [of |-> digest, i |-> i]]
GetDigest(in, off, n) ==
  LET digest == in[off + 1].of
  IN  IF SubSeq(in, off + 1, off + n) = PutDigest(digest, n) THEN digest ELSE Garbled

-----------------------------------------------------------------------------
(* The header *)

valid_op(op) == op \in {OpRpc, OpPing, OpDisconnect, OpResponse, OpError}

(* wirecall_header_encode: the bytes, or the empty sequence on failure. *)
HeaderEncode(h) ==
  IF ~valid_op(h.op) \/ h.size > MaxPayload
  THEN <<>>
  ELSE <<h.op, h.flags>> \o PutU(h.proc_id, 8) \o PutU(h.size, 4)
         \o PutU(h.call_id, 8) \o PutDigest(h.checksum, 4) \o PutDigest(h.mac, 8)

(* wirecall_header_decode: the set of headers the bytes stand for, empty    *)
(* on failure.                                                              *)
HeaderDecode(in) ==
  LET h == [op |-> in[1], flags |-> in[2], proc_id |-> GetU(in, 2, 8),
            size |-> GetU(in, 10, 4), call_id |-> GetU(in, 14, 8),
            checksum |-> GetDigest(in, 22, 4), mac |-> GetDigest(in, 26, 8)]
  IN  IF valid_op(in[1]) /\ h.size <= MaxPayload THEN {h} ELSE {}

-----------------------------------------------------------------------------
(* What the hashes are fed *)

(* The first k words of eight bytes of data. *)
Words(data, k) == [w \in 1 .. k |-> SubSeq(data, 8 * w - 7, 8 * w)]

(* cheap_hash_update: whole words, then the rest with its length. *)
cheap_hash_update(data) ==
  LET k == Len(data) \div 8
      tail == SubSeq(data, 8 * k + 1, Len(data))
  IN  <<Words(data, k), tail, Len(tail)>>

(* Mutant of packet_seed: the flags are left out. *)
packet_seedNoFlags(h) == <<h.op, h.size, h.proc_id, h.call_id>>

packet_seed(h) == <<h.op, h.flags, h.size, h.proc_id, h.call_id>>

Checksum(h, payload) == <<"checksum", packet_seed(h), cheap_hash_update(payload)>>

(* Mutant of sip_update: the tail left by the update before is dropped. *)
sip_updateDropsTail(sip, data) ==
  LET k == Len(data) \div 8
  IN  [words |-> sip.words \o Words(data, k), tail |-> SubSeq(data, 8 * k + 1, Len(data)),
       total |-> sip.total + Len(data)]

(* sip_update: complete the tail left by the update before, then whole      *)
(* words, then a new tail.                                                  *)
sip_update(sip, data) ==
  LET fill == IF sip.tail = <<>> THEN 0
              ELSE IF Len(data) < 8 - Len(sip.tail) THEN Len(data) ELSE 8 - Len(sip.tail)
      filled == sip.tail \o SubSeq(data, 1, fill)
      full == Len(filled) = 8
      rest == SubSeq(data, fill + 1, Len(data))
      k == Len(rest) \div 8
  IN  [words |-> sip.words \o (IF full THEN <<filled>> ELSE <<>>) \o Words(rest, k),
       tail |-> (IF full THEN <<>> ELSE filled) \o SubSeq(rest, 8 * k + 1, Len(rest)),
       total |-> sip.total + Len(data)]

(* The part of the header that wirecall_packet_mac hashes before the payload. *)
Meta(h, payload_len) ==
  <<h.op, h.flags>> \o PutU(h.proc_id, 8) \o PutU(h.size, 4) \o PutU(h.call_id, 8)
    \o PutDigest(h.checksum, 4) \o PutU(payload_len, 4)

SipInit == [words |-> <<>>, tail |-> <<>>, total |-> 0]

Mac(h, payload, key) ==
  LET sip == sip_update(sip_update(SipInit, Meta(h, Len(payload))), payload)
  IN  <<"mac", key, sip.words, sip.tail, sip.total % 256>>

-----------------------------------------------------------------------------
(* Signing and verifying; integrity is the set of the protections asked for. *)

Refused(h, payload) == Len(payload) > MaxPayload \/ h.size # Len(payload)

(* wirecall_packet_sign_ex: the MAC covers the checksum computed before it. *)
Sign(h, payload, integrity, key) ==
  LET checked == [h EXCEPT !.checksum =
                    IF "checksum" \in integrity THEN Checksum(h, payload) ELSE NoDigest]
  IN  [checked EXCEPT !.mac =
         IF "mac" \in integrity THEN Mac(checked, payload, key) ELSE NoDigest]

(* wirecall_packet_verify_ex returns 0. *)
Verified(h, payload, integrity, key) ==
  /\ ~Refused(h, payload)
  /\ "checksum" \in integrity => Checksum(h, payload) = h.checksum
  /\ "mac" \in integrity => Mac(h, payload, key) = h.mac

=============================================================================
