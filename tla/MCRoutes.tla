------------------------------ MODULE MCRoutes ------------------------------
(* Routes on small instances: two procedures that share a slot.     *)
EXTENDS Routes, TLC

CONSTANTS p1, p2, s1

SharedSlot == p1 :> s1 @@ p2 :> s1

(* Threads, registrations and chains are interchangeable. *)
Symmetric ==
  Permutations(Threads) \cup Permutations(Regs) \cup Permutations(Chains)

=============================================================================
