------------------------------- MODULE Payload -------------------------------
(***************************************************************************)
(* Typed payloads of src/src/payload.c: the writer's calls, the steps of   *)
(* wirecall_payload_decode and wirecall_values_free, as operators.         *)
(*                                                                         *)
(* A value is [type, as]: as is the sequence of its bytes for bytes and    *)
(* strings, and of its one number otherwise (a double is its bits).        *)
(***************************************************************************)
EXTENDS Packet

CONSTANTS
  FirstCap,      \* a writer's first capacity, 64 in the code
  FirstSlots,    \* the value array's first capacity, 4 in the code
  AllocMayFail   \* whether an allocation may fail

Types == <<"null", "bool", "i64", "u64", "f64", "bytes", "string">>
Tag(type) == CHOOSE t \in 0 .. 6 : Types[t + 1] = type

Word64 == ByteBase ^ 8

(* The alternatives of a call that allocates. *)
AllocFails == IF AllocMayFail THEN {TRUE, FALSE} ELSE {FALSE}

-----------------------------------------------------------------------------
(* The writer: [data, cap] *)

EmptyWriter == [data |-> <<>>, cap |-> 0]

(* Mutant of Grown: doubled past the limit. *)
GrownUnclamped(cap, need) ==
  LET grow[c \in 1 .. 2 * MaxPayload] == IF c >= need THEN c ELSE grow[2 * c]
  IN  grow[IF cap = 0 THEN FirstCap ELSE cap]

(* writer_reserve's growth: doubled until it is enough, clamped to the limit. *)
Grown(cap, need) ==
  LET grow[c \in 1 .. MaxPayload] ==
        IF c >= need THEN c
        ELSE IF c > MaxPayload \div 2 THEN MaxPayload
        ELSE grow[2 * c]
  IN  grow[IF cap = 0 THEN FirstCap ELSE cap]

OverLimit(w, extra) == extra > MaxPayload \/ Len(w.data) > MaxPayload - extra

(* writer_push: the outcomes [rc, w]; the data is appended or not at all. *)
writer_push(w, data) ==
  LET need == Len(w.data) + Len(data)
      fails == [rc |-> -1, w |-> w]
      done(cap) == [rc |-> 0, w |-> [data |-> w.data \o data, cap |-> cap]]
  IN  IF OverLimit(w, Len(data)) THEN {fails}
      ELSE IF need <= w.cap THEN {done(w.cap)}
      ELSE {IF f THEN fails ELSE done(Grown(w.cap, need)) : f \in AllocFails}

(* What wirecall_writer_null, _bool, _i64, _u64 and _f64 push. *)
FixedBytes(v) ==
  CASE v.type = "null" -> <<Tag(v.type)>>
    [] v.type = "bool" -> <<Tag(v.type), v.as[1]>>
    [] OTHER -> <<Tag(v.type)>> \o PutU(v.as[1] % Word64, 8)

Sized(v) == v.type \in {"bytes", "string"}

(* wirecall_writer_bytes and wirecall_writer_string push the prefix first:  *)
(* when the data does not follow, the prefix stays.                         *)
WriteSized(w, v) ==
  LET prefix == <<Tag(v.type)>> \o PutU(Len(v.as), 4)
  IN  UNION {IF p.rc = 0 THEN writer_push(p.w, v.as) ELSE {p} : p \in writer_push(w, prefix)}

WriteValue(w, v) == IF Sized(v) THEN WriteSized(w, v) ELSE writer_push(w, FixedBytes(v))

-----------------------------------------------------------------------------
(* wirecall_payload_decode: [off, values, cap, sentinel, copies], with the  *)
(* index of the sentinel (-1: no array) and the values that own a copy.     *)

NoArray == [off |-> 0, values |-> <<>>, cap |-> 0, sentinel |-> -1, copies |-> {}]

(* The array has cap + 1 slots, the last for the sentinel. *)
GrowArray(d) ==
  [d EXCEPT !.cap = IF d.cap = 0 THEN FirstSlots ELSE 2 * d.cap,
            !.sentinel = Len(d.values)]

(* The checks of a value at d.off whose tag is t. *)
WellFormed(d, in) ==
  LET t == in[d.off + 1]
      left == Len(in) - d.off - 1
  IN  /\ t \in 0 .. 6
      /\ t = 1 => (left >= 1 /\ in[d.off + 2] \in {0, 1})
      /\ t \in 2 .. 4 => left >= 8
      /\ t \in 5 .. 6 => (left >= 4 /\ left - 4 >= GetU(in, d.off + 1, 4))

(* Mutant of Signed: the sign is lost. *)
Unsigned(u) == u

Signed(u) == IF u >= Word64 \div 2 THEN u - Word64 ELSE u

(* The value at d.off and the number of its bytes, the tag included. *)
ValueAt(d, in) ==
  LET t == in[d.off + 1]
      u64 == GetU(in, d.off + 1, 8)
      len == GetU(in, d.off + 1, 4)
      v(as, n) == [value |-> [type |-> Types[t + 1], as |-> as], size |-> n]
  IN  CASE t = 0 -> v(<<>>, 1)
        [] t = 1 -> v(<<in[d.off + 2]>>, 2)
        [] t = 2 -> v(<<Signed(u64)>>, 9)
        [] t \in 3 .. 4 -> v(<<u64>>, 9)
        [] OTHER -> v(SubSeq(in, d.off + 6, d.off + 5 + len), 5 + len)

(* A string is copied with its terminator, bytes only if there are any. *)
NeedsCopy(v) == v.type = "string" \/ (v.type = "bytes" /\ v.as # <<>>)

Store(d, r) ==
  LET count == Len(d.values) + 1
  IN  [d EXCEPT !.off = d.off + r.size,
                !.values = Append(d.values, r.value),
                !.sentinel = count,
                !.copies = IF NeedsCopy(r.value) THEN @ \cup {count} ELSE @]

(* Mutant of Freed: off by one. *)
FreedButLast(d, count) == [d EXCEPT !.cap = 0, !.sentinel = -1, !.copies = @ \ (1 .. count - 1)]

(* values_cleanup of the first count values, and the array. *)
Freed(d, count) == [d EXCEPT !.cap = 0, !.sentinel = -1, !.copies = @ \ (1 .. count)]

(* wirecall_values_free counts up to the sentinel. *)
values_free(d) == Freed(d, d.sentinel)

=============================================================================
