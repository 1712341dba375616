------------------------------ MODULE MCTraffic -----------------------------
(* MCWorker with a traffic per behaviour, so that one client may send more   *)
(* and other packets than several can on an instance of this size.           *)
EXTENDS MCWorker

(* The traffic of a behaviour: one client that sends any packets, or several *)
(* that send up to MaxDeferred deferred calls each.                          *)
CONSTANTS MaxDeferred

VARIABLE traffic

WithinTraffic ==
  \A s \in Socks :
    \/ traffic = s
    \/ fd[s] = "backlog" /\ sent[s] = 0
    \/ /\ traffic = "deferred" /\ sent[s] <= MaxDeferred
       /\ inbox[s] # <<>> => Last(inbox[s]).kind = "deferred"

TrafficSpec ==
  /\ Init /\ traffic \in Socks \cup {"deferred"}
  /\ [][UNCHANGED traffic /\ Next /\ WithinTraffic']_<<vars, traffic>>
=============================================================================
