------------------------------ MODULE MCWorker ------------------------------
(* Worker on small instances: a few client sockets and small arenas. *)
EXTENDS Worker, SequencesExt

(* Sockets are interchangeable: no definition of Worker orders them. *)
Symmetric == Permutations(Socks)
=============================================================================
