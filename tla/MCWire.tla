------------------------------- MODULE MCWire -------------------------------
(***************************************************************************)
(* The client's side of the wire, layer by layer: part says whether a      *)
(* behaviour follows one message through writing, signing, damage and      *)
(* decoding (module Message), a client and its connection (module Client,  *)
(* which uses what the first shows of verify_ex), or the benchmark program *)
(* with its client threads (module Bench, which uses the order of          *)
(* responses).                                                             *)
(***************************************************************************)
EXTENDS Client

CONSTANTS ByteBase, MaxPayload, WriterCap, FirstSlots, Values, MaxWrites, Headers, Ends,
          Args, Clients, ServerThread, Recorders, Durations, MaxRecords

VARIABLES
  part,
  stage, writer, calls, written, cut, oom, sender, receiver, wire, damaged, decoder,
  trace_enabled, counter, rec, recorded,
  args, main, mi, rpc, offset, gate, failed, w, latencies, stats

messageVars ==
  <<stage, writer, calls, written, cut, oom, sender, receiver, wire, damaged, decoder>>

benchVars ==
  <<trace_enabled, counter, rec, recorded, args, main, mi, rpc, offset, gate, failed, w,
    latencies, stats>>

M == INSTANCE Message WITH FirstCap <- WriterCap

B == INSTANCE Bench WITH Server <- ServerThread, MayFail <- TRUE

SomeValues ==
  {[type |-> "null", as |-> <<>>], [type |-> "bool", as |-> <<1>>],
   [type |-> "i64", as |-> <<-2>>], [type |-> "u64", as |-> <<9>>],
   [type |-> "f64", as |-> <<5>>], [type |-> "bytes", as |-> <<>>],
   [type |-> "bytes", as |-> <<6, 0>>], [type |-> "string", as |-> <<1, 1, 0>>]}

(* An ERROR packet; every field of its header takes more than one byte. *)
SomeHeaders == {[op |-> 5, flags |-> 1, proc_id |-> 10, call_id |-> 70]}

(* Both ends alike, one end without, one with more, and two keys. *)
None == [integrity |-> {}, key |-> 0]
Sum == [integrity |-> {"checksum"}, key |-> 0]
Key(k) == [integrity |-> {"mac"}, key |-> k]
Both == [integrity |-> {"checksum", "mac"}, key |-> 0]
SomeEnds ==
  {[sender |-> e[1], receiver |-> e[2]] :
     e \in {<<None, None>>, <<Sum, None>>, <<None, Sum>>, <<Sum, Sum>>, <<Sum, Both>>,
            <<Both, Key(0)>>, <<Key(0), Key(1)>>}}

(* Command lines: uneven shares, with and without a pipeline, a window that *)
(* wraps around the slots, and more clients than requests.                  *)
SomeArgs ==
  {[total |-> 3, clients |-> 2, warmup |-> 1, pipeline |-> 1],
   [total |-> 5, clients |-> 2, warmup |-> 1, pipeline |-> 2],
   [total |-> 4, clients |-> 1, warmup |-> 2, pipeline |-> 3],
   [total |-> 1, clients |-> 2, warmup |-> 0, pipeline |-> 2]}

(* What the parts a behaviour does not follow start with is of no account. *)
WireInit ==
  /\ Init /\ M!Init /\ B!Init
  /\ part \in {"client", "message", "bench"}
  /\ part # "client" => frail
  /\ part # "message" => sender = None /\ receiver = None
  /\ part # "bench" => args = CHOOSE a \in Args : TRUE

WireNext ==
  \/ part = "client" /\ Next /\ UNCHANGED <<part, messageVars, benchVars>>
  \/ part = "message" /\ M!Next /\ UNCHANGED <<part, vars, benchVars>>
  \/ part = "bench" /\ B!Next /\ UNCHANGED <<part, vars, messageVars>>

(* The fairness of modules Client and Bench. *)
WireSpec ==
  /\ WireInit /\ [][WireNext]_<<part, vars, messageVars, benchVars>>
  /\ Fairness
  /\ WF_benchVars(part = "bench" /\ B!MainNext)
  /\ WF_benchVars(part = "bench" /\ B!ServerRecords)
  /\ \A i \in Clients : WF_benchVars(part = "bench" /\ B!ClientNext(i))

-----------------------------------------------------------------------------
(* The properties of module Message, stated there: that the MAC is computed *)
(* over every byte once, that verify_ex accepts exactly the packets it      *)
(* should, that the receiver reads what was written, and that writer and    *)
(* decoder keep to their buffers and free their copies.                     *)
MacIsOnePass == part = "message" => M!MacIsOnePass
VerifiedIfIntact == part = "message" => M!VerifiedIfIntact
ReadsAsWritten == part = "message" => M!ReadsAsWritten
BuffersSafe == part = "message" => M!BuffersSafe

(* The properties of module Bench, stated there: the latencies are          *)
(* complete, call slots are not shared, the trace is exact, and the program *)
(* ends.                                                                    *)
LatenciesComplete == part = "bench" => B!LatenciesComplete
SlotsHoldOutstanding == part = "bench" => B!SlotsHoldOutstanding
StatsExact == part = "bench" => B!StatsExact
BenchEnds == part = "bench" => B!BenchEnds

=============================================================================
