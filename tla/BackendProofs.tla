---------------------------- MODULE BackendProofs ----------------------------
(***************************************************************************)
(* What the three backends keep beside the kernel's own state is true of   *)
(* it, for any number of descriptors and sockets, any size of a batch and  *)
(* of the table of watches. First io_uring: no readiness is missed and no  *)
(* event is misdirected. Then kqueue: the filters the kernel has are the   *)
(* recorded interests. Then Windows: a watch for each connection.          *)
(***************************************************************************)
EXTENDS Backends, Integers, TLAPS

(* What poll_mask gives is the mask of a kind of poll. *)
LEMMA PollIsKind ==
  ASSUME NEW w \in Watches, NEW f \in AllFiles, NEW ev \in SUBSET Interests
  PROVE  /\ Poll(w, f, ev) \in PollKinds
         /\ Poll(w, f, ev).watch = w /\ Poll(w, f, ev).file = f
BY Zenon DEF Poll, PollKinds

(* A completion of a poll has the type of a completion. *)
LEMMA CompletionTypes ==
  ASSUME TypeOK
  PROVE  /\ \A k \in PollKinds : Fired(k) \in Completions
         /\ \A w \in Watches : Canceled(w) \in Completions
         /\ Removed \in Completions
<1>1. \A k \in PollKinds : k.watch \in Watches /\ Result(k) \in SUBSET Conditions
  BY Zenon DEF PollKinds, Result, TypeOK
<1> QED BY <1>1, Zenon DEF Fired, Canceled, Removed, Completions

(* What a queue holds after one or two more completions. *)
LEMMA AppendFacts ==
  ASSUME NEW S, NEW q \in Seq(S), NEW x \in S
  PROVE  /\ Append(q, x) \in Seq(S) /\ Len(Append(q, x)) = Len(q) + 1
         /\ Append(q, x)[Len(q) + 1] = x /\ \A i \in 1..Len(q) : Append(q, x)[i] = q[i]
OBVIOUS

(* Asking for a poll adds it, or its completion, and takes nothing away. *)
LEMMA AddCovers ==
  ASSUME TypeOK, NEW k0 \in PollKinds,
         NEW p \in [PollKinds -> Nat], NEW q \in Seq(Completions),
         NEW a, a = PollAdd(k0, p, q)
  PROVE  /\ a.polls \in [PollKinds -> Nat] /\ a.cq \in Seq(Completions)
         /\ Len(a.cq) >= Len(q) /\ \A i \in 1..Len(q) : a.cq[i] = q[i]
         /\ \A k \in PollKinds : a.polls[k] >= p[k]
         /\ a.polls[k0] > 0 \/ \E i \in 1..Len(a.cq) : a.cq[i].watch = k0.watch /\ a.cq[i].ok
<1>2. Fired(k0) \in Completions /\ Fired(k0).watch = k0.watch /\ Fired(k0).ok
  BY CompletionTypes, Zenon DEF Fired
<1>4. CASE Result(k0) # {}
  <2>1. a.polls = p /\ a.cq = Append(q, Fired(k0)) BY <1>4, Zenon DEF PollAdd
  <2>2. /\ a.cq \in Seq(Completions) /\ Len(a.cq) = Len(q) + 1
        /\ a.cq[Len(q) + 1] = Fired(k0) /\ \A i \in 1..Len(q) : a.cq[i] = q[i]
    BY <2>1, <1>2, AppendFacts
  <2>3. Len(q) + 1 \in 1..Len(a.cq) /\ Len(a.cq) >= Len(q) BY <2>2
  <2>4. \A k \in PollKinds : a.polls[k] >= p[k] BY <2>1
  <2> QED BY <2>1, <2>2, <2>3, <2>4, <1>2, Zenon
<1>5. CASE Result(k0) = {}
  <2>1. a.polls = [p EXCEPT ![k0] = @ + 1] /\ a.cq = q BY <1>5, Zenon DEF PollAdd
  <2>2. a.polls \in [PollKinds -> Nat] /\ a.polls[k0] > 0 BY <2>1
  <2>3. \A k \in PollKinds : a.polls[k] >= p[k] BY <2>1
  <2> QED BY <2>1, <2>2, <2>3
<1> QED BY <1>4, <1>5, Zenon

(* Cancelling a watch may end a poll that carries it and no other.          *)
LEMMA CancelSpares ==
  ASSUME TypeOK, NEW w \in Watches, NEW c \in cancel_watch(w)
  PROVE  /\ c.polls \in [PollKinds -> Nat] /\ c.cq \in Seq(Completions) /\ c.armed = FALSE
         /\ Len(c.cq) >= Len(cq) /\ \A i \in 1..Len(cq) : c.cq[i] = cq[i]
         /\ \A k \in PollKinds : k.watch # w => c.polls[k] = polls[k]
<1>0. polls \in [PollKinds -> Nat] /\ cq \in Seq(Completions) BY Zenon DEF TypeOK
<1>1. CASE ~armed[w]
  <2>1. c = [polls |-> polls, cq |-> cq, armed |-> FALSE] BY <1>1, Zenon DEF cancel_watch
  <2> QED BY <2>1, <1>0
<1>2. CASE armed[w]
  <2>1. PICK o \in PollRemove(w) : c = [polls |-> o.polls, cq |-> o.cq, armed |-> FALSE]
    BY <1>2, Zenon DEF cancel_watch
  <2>2. CASE Outstanding(w) = {}
    <3>1. o = [polls |-> polls, cq |-> Append(cq, Removed)] BY <2>1, <2>2, Zenon DEF PollRemove
    <3>2. Removed \in Completions BY CompletionTypes, Zenon
    <3>3. c.polls = polls /\ c.cq = Append(cq, Removed) /\ c.armed = FALSE BY <2>1, <3>1, Zenon
    <3> QED BY <1>0, <3>2, <3>3
  <2>3. CASE Outstanding(w) # {}
    <3>1. PICK k \in Outstanding(w) :
            o = [polls |-> [polls EXCEPT ![k] = @ - 1], cq |-> cq \o <<Canceled(w), Removed>>]
      BY <2>1, <2>3, Zenon DEF PollRemove
    <3>2. k \in PollKinds /\ k.watch = w /\ polls[k] > 0 BY Zenon DEF Outstanding
    <3>3. <<Canceled(w), Removed>> \in Seq(Completions) BY CompletionTypes
    <3>4. /\ c.polls = [polls EXCEPT ![k] = @ - 1] /\ c.armed = FALSE
          /\ c.cq = cq \o <<Canceled(w), Removed>>
      BY <2>1, <3>1, Zenon
    <3>5. c.polls \in [PollKinds -> Nat] BY <1>0, <3>2, <3>4
    <3>6. \A x \in PollKinds : x.watch # w => c.polls[x] = polls[x] BY <1>0, <3>2, <3>4, Zenon
    <3>7. /\ c.cq \in Seq(Completions) /\ Len(c.cq) >= Len(cq)
          /\ \A i \in 1..Len(cq) : c.cq[i] = cq[i]
      BY <1>0, <3>3, <3>4
    <3> QED BY <3>4, <3>5, <3>6, <3>7, Zenon
  <2> QED BY <2>2, <2>3, Zenon
<1> QED BY <1>1, <1>2, <1>0, Zenon DEF TypeOK

(* A watch stays covered while its polls and the completions in the queue do. *)
LEMMA StaysCovered ==
  ASSUME UringInv, NEW w \in Watches, active[w], TypeOK',
         open'[w] = open[w], events'[w] = events[w],
         \A k \in PollKinds : k.watch = w => polls'[k] >= polls[k],
         Len(cq') >= Len(cq), \A i \in 1..Len(cq) : cq'[i] = cq[i]
  PROVE  Covered(w)'
<1>1. Covered(w) BY Zenon DEF UringInv, ActiveIsPolled
<1>2. open[w] \in AllFiles /\ events[w] \in SUBSET Interests
  BY Zenon DEF UringInv, TypeOK, Watches, AllFiles
<1> DEFINE k0 == Poll(w, open[w], events[w])
<1>3. k0 \in PollKinds /\ k0.watch = w BY <1>2, PollIsKind
<1>4. Poll(w, open'[w], events'[w]) = k0 BY Zenon
<1>5. polls[k0] \in Nat /\ polls'[k0] \in Nat BY <1>3 DEF UringInv, TypeOK
<1>6. DOMAIN cq = 1..Len(cq) /\ DOMAIN cq' = 1..Len(cq') /\ Len(cq) \in Nat /\ Len(cq') \in Nat
  BY DEF UringInv, TypeOK
<1> HIDE DEF k0
<1>7. CASE polls[k0] > 0
  <2>1. polls'[k0] > 0 BY <1>3, <1>5, <1>7
  <2> QED BY <2>1, <1>4, Zenon DEF Covered
<1>8. CASE \E i \in DOMAIN cq : cq[i].watch = w /\ cq[i].ok
  <2>1. \E i \in DOMAIN cq' : cq'[i].watch = w /\ cq'[i].ok BY <1>6, <1>8
  <2> QED BY <2>1, Zenon DEF Covered
<1> QED BY <1>1, <1>7, <1>8, Zenon DEF Covered, k0

(* Init satisfies the invariant. *)
LEMMA UringInit == Init => UringInv
<1> SUFFICES ASSUME Init PROVE UringInv BY Zenon
<1> USE UringAssumptions DEF Init
<1>1. WakeFd \in Watches /\ WakeFile \in AllFiles BY Zenon DEF Watches, AllFiles
<1>2. Poll(WakeFd, WakeFile, {"READ"}) \in PollKinds
  BY <1>1, PollIsKind, Zenon DEF Interests
<1>3. TypeOK
  <2>1. polls \in [PollKinds -> Nat] BY <1>2, Zenon
  <2>2. open \in [Watches -> AllFiles \cup {NoFile}] BY <1>1, Zenon
  <2>3. events \in [Watches -> SUBSET Interests] BY Zenon DEF Interests
  <2>4. active \in [Watches -> BOOLEAN] /\ armed \in [Watches -> BOOLEAN] BY Zenon
  <2>5. ready \in [AllFiles -> SUBSET Conditions] /\ user \in [Watches -> AllFiles \cup {NoFile}]
    BY Zenon
  <2>6. left \in Nat /\ fresh \subseteq Files /\ polling \in BOOLEAN BY Zenon
  <2>7. \A S : <<>> \in Seq(S) OBVIOUS
  <2>8. /\ cq \in Seq(Completions)
        /\ out \in Seq([watch : Watches, flags : SUBSET (Interests \cup {"WAKE"}),
                        user : AllFiles \cup {NoFile}])
    BY <2>7, Zenon
  <2> QED BY <2>1, <2>2, <2>3, <2>4, <2>5, <2>6, <2>8, Zenon DEF TypeOK
<1>4. polls[Poll(WakeFd, open[WakeFd], events[WakeFd])] > 0 BY <1>1, <1>2
<1>5. ActiveIsPolled BY <1>4, Zenon DEF ActiveIsPolled, Covered
<1>6. BatchIsCurrent /\ left <= Len(cq) BY DEF BatchIsCurrent
<1>7. open[WakeFd] = WakeFile /\ active[WakeFd] /\ events[WakeFd] = {"READ"} BY <1>1, Zenon
<1>8. ASSUME NEW w \in Fds PROVE open[w] = NoFile /\ ~active[w] /\ open[w] # WakeFile
  BY Zenon DEF Watches
<1> QED BY <1>3, <1>5, <1>6, <1>7, <1>8, Zenon DEF UringInv

(* Only the wake descriptor and open sockets are active, each on a file. *)
LEMMA ActiveFile ==
  ASSUME UringInv, NEW w \in Watches, active[w]
  PROVE  open[w] \in AllFiles /\ events[w] \in SUBSET Interests /\ events[w] # {}
BY UringAssumptions, Zenon DEF UringInv, TypeOK, Watches, AllFiles

(* wirecall_backend_register and modify preserve the invariant. *)
LEMMA WatchStep ==
  ASSUME UringInv, NEW w \in Fds, NEW f \in Files, NEW ev \in SUBSET Interests, ev # {},
         Watch(w, f, ev), open' = [open EXCEPT ![w] = f], fresh' \subseteq Files,
         ready' = ready, pollVars' = pollVars, ~polling
  PROVE  UringInv'
<1>0. TypeOK /\ w \in Watches /\ f \in AllFiles /\ w # WakeFd
  BY UringAssumptions, Zenon DEF UringInv, Watches, AllFiles
<1>1. PICK c \in cancel_watch(w) :
        LET a == arm_watch(w, f, ev, TRUE, c.armed, c.polls, c.cq)
        IN polls' = a.polls /\ cq' = a.cq /\ armed' = [armed EXCEPT ![w] = a.armed]
  BY Zenon DEF Watch
<1>2. /\ c.polls \in [PollKinds -> Nat] /\ c.cq \in Seq(Completions) /\ c.armed = FALSE
      /\ Len(c.cq) >= Len(cq) /\ \A i \in 1..Len(cq) : c.cq[i] = cq[i]
      /\ \A k \in PollKinds : k.watch # w => c.polls[k] = polls[k]
  BY <1>0, CancelSpares, Zenon
<1> DEFINE k0 == Poll(w, f, ev)
           o  == PollAdd(k0, c.polls, c.cq)
<1>3. k0 \in PollKinds /\ k0.watch = w BY <1>0, PollIsKind
<1>4. polls' = o.polls /\ cq' = o.cq /\ armed' = [armed EXCEPT ![w] = TRUE]
  BY <1>1, <1>2, Zenon DEF arm_watch
<1> HIDE DEF k0
<1>5. /\ o.polls \in [PollKinds -> Nat] /\ o.cq \in Seq(Completions)
      /\ Len(o.cq) >= Len(c.cq) /\ \A i \in 1..Len(c.cq) : o.cq[i] = c.cq[i]
      /\ \A k \in PollKinds : o.polls[k] >= c.polls[k]
      /\ o.polls[k0] > 0 \/ \E i \in 1..Len(o.cq) : o.cq[i].watch = k0.watch /\ o.cq[i].ok
  BY <1>0, <1>2, <1>3, AddCovers, Zenon
<1> HIDE DEF o
<1>6. /\ events' = [events EXCEPT ![w] = ev] /\ user' = [user EXCEPT ![w] = f]
      /\ active' = [active EXCEPT ![w] = TRUE]
  BY Zenon DEF Watch
<1>7. polling' = polling /\ left' = left /\ out' = out BY Zenon DEF pollVars
<1>8. TypeOK'
  <2>1. active' \in [Watches -> BOOLEAN] /\ armed' \in [Watches -> BOOLEAN]
    BY <1>0, <1>4, <1>6, Zenon DEF TypeOK
  <2>2. open' \in [Watches -> AllFiles \cup {NoFile}] /\ user' \in [Watches -> AllFiles \cup {NoFile}]
    BY <1>0, <1>6, Zenon DEF TypeOK
  <2>3. events' \in [Watches -> SUBSET Interests] BY <1>0, <1>6, Zenon DEF TypeOK
  <2>4. polls' \in [PollKinds -> Nat] /\ cq' \in Seq(Completions) BY <1>4, <1>5, Zenon
  <2> QED BY <1>0, <1>7, <2>1, <2>2, <2>3, <2>4, Zenon DEF TypeOK
<1>9. Len(cq') >= Len(cq) /\ \A i \in 1..Len(cq) : cq'[i] = cq[i]
  <2>1. Len(cq) \in Nat /\ Len(c.cq) \in Nat /\ Len(o.cq) \in Nat BY <1>0, <1>2, <1>5 DEF TypeOK
  <2> QED BY <2>1, <1>2, <1>4, <1>5
<1>10. ActiveIsPolled'
  <2> SUFFICES ASSUME NEW x \in Watches, active'[x] PROVE Covered(x)' BY Zenon DEF ActiveIsPolled
  <2>1. CASE x = w
    <3>1. Poll(w, open'[w], events'[w]) = k0 BY <1>0, <1>6, Zenon DEF k0, TypeOK
    <3>2. polls'[k0] > 0 \/ \E i \in 1..Len(cq') : cq'[i].watch = w /\ cq'[i].ok
      BY <1>3, <1>4, <1>5, Zenon
    <3>3. DOMAIN cq' = 1..Len(cq') BY <1>8 DEF TypeOK
    <3> QED BY <2>1, <3>1, <3>2, <3>3, Zenon DEF Covered
  <2>2. CASE x # w
    <3>1. active[x] /\ open'[x] = open[x] /\ events'[x] = events[x]
      BY <2>2, <1>0, <1>6, Zenon DEF TypeOK
    <3>2. \A k \in PollKinds : polls[k] \in Nat BY <1>0, Zenon DEF TypeOK
    <3>3. \A k \in PollKinds : k.watch = x => polls'[k] >= polls[k]
      BY <2>2, <3>2, <1>2, <1>4, <1>5, Zenon
    <3> QED BY <3>1, <3>3, <1>8, <1>9, StaysCovered, Zenon
  <2> QED BY <2>1, <2>2, Zenon
<1>11. BatchIsCurrent' BY <1>7, Zenon DEF BatchIsCurrent
<1>12. left' <= Len(cq') BY <1>7, <1>8, <1>9, <1>0 DEF UringInv, TypeOK
<1>13. open'[WakeFd] = WakeFile /\ active'[WakeFd] /\ events'[WakeFd] = {"READ"}
  BY <1>0, <1>6, Zenon DEF UringInv, TypeOK, Watches
<1>14. ASSUME NEW x \in Fds
       PROVE  /\ open'[x] # WakeFile /\ (active'[x] <=> open'[x] # NoFile)
              /\ active'[x] => user'[x] = open'[x] /\ events'[x] # {}
  <2>1. x \in Watches BY Zenon DEF Watches
  <2>2. CASE x = w
    BY <2>1, <2>2, <1>0, <1>6, UringAssumptions, Zenon DEF TypeOK
  <2>3. CASE x # w
    <3>1. /\ open'[x] = open[x] /\ active'[x] = active[x] /\ user'[x] = user[x]
          /\ events'[x] = events[x]
      BY <2>1, <2>3, <1>0, <1>6, Zenon DEF TypeOK
    <3> QED BY <3>1, Zenon DEF UringInv
  <2> QED BY <2>2, <2>3, Zenon
<1> QED BY <1>8, <1>10, <1>11, <1>12, <1>13, <1>14, Zenon DEF UringInv

(* wirecall_backend_remove and close preserve the invariant. *)
LEMMA RemoveStep ==
  ASSUME UringInv, NEW w \in Fds, Remove(w)
  PROVE  UringInv'
<1>0. TypeOK /\ w \in Watches /\ w # WakeFd BY UringAssumptions, Zenon DEF UringInv, Watches
<1>1. PICK c \in cancel_watch(w) :
        polls' = c.polls /\ cq' = c.cq /\ armed' = [armed EXCEPT ![w] = c.armed]
  BY Zenon DEF Remove
<1>2. /\ c.polls \in [PollKinds -> Nat] /\ c.cq \in Seq(Completions) /\ c.armed = FALSE
      /\ Len(c.cq) >= Len(cq) /\ \A i \in 1..Len(cq) : c.cq[i] = cq[i]
      /\ \A k \in PollKinds : k.watch # w => c.polls[k] = polls[k]
  BY <1>0, CancelSpares, Zenon
<1>3. /\ active' = [active EXCEPT ![w] = FALSE] /\ open' = [open EXCEPT ![w] = NoFile]
      /\ fresh' = fresh /\ ready' = ready /\ events' = events /\ user' = user
      /\ polling' = polling /\ left' = left /\ out' = out /\ ~polling
  BY Zenon DEF Remove, pollVars
<1>4. TypeOK'
  <2>1. active' \in [Watches -> BOOLEAN] /\ armed' \in [Watches -> BOOLEAN]
    BY <1>0, <1>1, <1>2, <1>3, Zenon DEF TypeOK
  <2>2. open' \in [Watches -> AllFiles \cup {NoFile}] BY <1>0, <1>3, Zenon DEF TypeOK
  <2>3. polls' \in [PollKinds -> Nat] /\ cq' \in Seq(Completions) BY <1>1, <1>2, Zenon
  <2> QED BY <1>0, <1>3, <2>1, <2>2, <2>3, Zenon DEF TypeOK
<1>5. ActiveIsPolled'
  <2> SUFFICES ASSUME NEW x \in Watches, active'[x] PROVE Covered(x)' BY Zenon DEF ActiveIsPolled
  <2>1. x # w /\ active[x] /\ open'[x] = open[x] /\ events'[x] = events[x]
    BY <1>0, <1>3, Zenon DEF TypeOK
  <2>2. \A k \in PollKinds : polls[k] \in Nat BY <1>0, Zenon DEF TypeOK
  <2>3. \A k \in PollKinds : k.watch = x => polls'[k] >= polls[k]
    BY <2>1, <2>2, <1>1, <1>2
  <2>4. Len(cq') >= Len(cq) /\ \A i \in 1..Len(cq) : cq'[i] = cq[i] BY <1>1, <1>2, Zenon
  <2> QED BY <2>1, <2>3, <2>4, <1>4, StaysCovered, Zenon
<1>6. BatchIsCurrent' BY <1>3, Zenon DEF BatchIsCurrent
<1>7. left' <= Len(cq') BY <1>0, <1>1, <1>2, <1>3, <1>4 DEF UringInv, TypeOK
<1>8. open'[WakeFd] = WakeFile /\ active'[WakeFd] /\ events'[WakeFd] = {"READ"}
  BY <1>0, <1>3, Zenon DEF UringInv, TypeOK, Watches
<1>9. ASSUME NEW x \in Fds
      PROVE  /\ open'[x] # WakeFile /\ (active'[x] <=> open'[x] # NoFile)
             /\ active'[x] => user'[x] = open'[x] /\ events'[x] # {}
  <2>1. x \in Watches BY Zenon DEF Watches
  <2>2. CASE x = w BY <2>1, <2>2, <1>0, <1>3, UringAssumptions, Zenon DEF TypeOK
  <2>3. CASE x # w
    <3>1. open'[x] = open[x] /\ active'[x] = active[x]
      BY <2>1, <2>3, <1>0, <1>3, Zenon DEF TypeOK
    <3> QED BY <3>1, <1>3, Zenon DEF UringInv
  <2> QED BY <2>2, <2>3, Zenon
<1> QED BY <1>4, <1>5, <1>6, <1>7, <1>8, <1>9, Zenon DEF UringInv

(* Conditions come and go, sockets are read or dropped, wakes are written and *)
(* the tail is loaded: steps that touch neither polls, completions nor watches. *)
LEMMA QuietStep ==
  ASSUME UringInv, TypeOK',
         UNCHANGED <<open, polls, cq, watchVars>>,
         \/ UNCHANGED pollVars
         \/ polling' = TRUE /\ left' = Len(cq) /\ out' = <<>>
         \/ polling' = FALSE /\ left' = 0 /\ out' = out
  PROVE  UringInv'
<1>1. /\ open' = open /\ polls' = polls /\ cq' = cq /\ events' = events /\ user' = user
      /\ active' = active
  BY Zenon DEF watchVars
<1>2. ActiveIsPolled' BY <1>1, Zenon DEF UringInv, ActiveIsPolled, Covered
<1>3. BatchIsCurrent'
  <2>1. CASE UNCHANGED pollVars BY <2>1, <1>1, Zenon DEF UringInv, BatchIsCurrent, pollVars
  <2>2. CASE polling' = FALSE BY <2>2, Zenon DEF BatchIsCurrent
  <2>3. CASE out' = <<>>
    <3>1. DOMAIN out' = {} BY <2>3
    <3> QED BY <3>1, Zenon DEF BatchIsCurrent
  <2> QED BY <2>1, <2>2, <2>3, Zenon
<1>4. left' <= Len(cq') BY <1>1 DEF UringInv, TypeOK, pollVars
<1> QED BY <1>1, <1>2, <1>3, <1>4, Zenon DEF UringInv

(* A poll that completes leaves its completion in the queue. *)
LEMMA FireStep ==
  ASSUME UringInv, NEW k \in PollKinds, Fire(k)
  PROVE  UringInv'
<1>0. TypeOK /\ Fired(k) \in Completions /\ Fired(k).watch = k.watch /\ Fired(k).ok
  BY CompletionTypes, Zenon DEF UringInv, Fired
<1>1. /\ open' = open /\ fresh' = fresh /\ ready' = ready /\ events' = events /\ user' = user
      /\ active' = active /\ armed' = armed /\ polling' = polling /\ left' = left /\ out' = out
      /\ polls' = [polls EXCEPT ![k] = @ - 1] /\ cq' = Append(cq, Fired(k)) /\ polls[k] > 0
  BY Zenon DEF Fire, watchVars, pollVars
<1>2. /\ cq' \in Seq(Completions) /\ Len(cq') = Len(cq) + 1
      /\ cq'[Len(cq) + 1] = Fired(k) /\ \A i \in 1..Len(cq) : cq'[i] = cq[i]
  BY <1>0, <1>1, AppendFacts DEF TypeOK
<1>3. TypeOK'
  <2>1. polls' \in [PollKinds -> Nat] BY <1>0, <1>1 DEF TypeOK
  <2> QED BY <2>1, <1>0, <1>1, <1>2, Zenon DEF TypeOK
<1>4. Len(cq) \in Nat /\ DOMAIN cq' = 1..Len(cq') BY <1>0, <1>3 DEF TypeOK
<1>5. ActiveIsPolled'
  <2> SUFFICES ASSUME NEW x \in Watches, active'[x] PROVE Covered(x)' BY Zenon DEF ActiveIsPolled
  <2>1. CASE x = k.watch
    <3>1. Len(cq) + 1 \in DOMAIN cq' BY <1>2, <1>4
    <3>2. cq'[Len(cq) + 1].watch = x /\ cq'[Len(cq) + 1].ok BY <2>1, <1>0, <1>2, Zenon
    <3> QED BY <3>1, <3>2, Zenon DEF Covered
  <2>2. CASE x # k.watch
    <3>1. \A j \in PollKinds : j.watch = x => polls'[j] >= polls[j]
      BY <2>2, <1>0, <1>1 DEF TypeOK
    <3> QED BY <3>1, <1>1, <1>2, <1>3, <1>4, StaysCovered
  <2> QED BY <2>1, <2>2, Zenon
<1>6. BatchIsCurrent' BY <1>1, Zenon DEF UringInv, BatchIsCurrent
<1>7. left' <= Len(cq') BY <1>0, <1>1, <1>2, <1>4 DEF UringInv, TypeOK
<1> QED BY <1>1, <1>3, <1>5, <1>6, <1>7, Zenon DEF UringInv

(*****************************************************************************)
(* What wirecall_backend_poll does, and the theorems.                        *)
(*****************************************************************************)

(* What is left of the queue when its head is reaped. *)
LEMMA TailFacts ==
  ASSUME UringInv, Reaping
  PROVE  /\ cq # <<>> /\ Tail(cq) \in Seq(Completions) /\ Head(cq) \in Completions
         /\ Len(Tail(cq)) = Len(cq) - 1 /\ left - 1 \in Nat /\ left - 1 <= Len(Tail(cq))
         /\ Head(cq) = cq[1] /\ \A i \in 2..Len(cq) : Tail(cq)[i - 1] = cq[i]
<1>1. cq \in Seq(Completions) /\ left \in Nat /\ left > 0 /\ left <= Len(cq)
  BY Zenon DEF UringInv, TypeOK, Reaping
<1>2. Len(cq) \in Nat /\ Len(cq) >= 1 BY <1>1
<1>3. cq # <<>> BY <1>2
<1> QED BY <1>1, <1>2, <1>3

(* What is left of the batch is still queued after a completion is taken. *)
LEMMA StillFits ==
  ASSUME UringInv, Reaping, left' = left - 1, cq' \in Seq(Completions), Len(cq') >= Len(Tail(cq))
  PROVE  left' <= Len(cq')
<1>1. Tail(cq) \in Seq(Completions) /\ left - 1 \in Nat /\ left - 1 <= Len(Tail(cq))
  BY TailFacts, Zenon
<1>2. Len(cq') \in Nat /\ Len(Tail(cq)) \in Nat BY <1>1
<1> QED BY <1>1, <1>2

(* Reaping a completion uncovers no watch but the one it was for. *)
LEMMA ReapKeepsCovered ==
  ASSUME UringInv, Reaping, NEW x \in Watches, active[x], TypeOK',
         ~(Head(cq).watch = x /\ Head(cq).ok),
         open'[x] = open[x], events'[x] = events[x],
         \A k \in PollKinds : k.watch = x => polls'[k] >= polls[k],
         Len(cq') >= Len(Tail(cq)), \A i \in 1..Len(Tail(cq)) : cq'[i] = Tail(cq)[i]
  PROVE  Covered(x)'
<1>1. Covered(x) BY Zenon DEF UringInv, ActiveIsPolled
<1>2. open[x] \in AllFiles /\ events[x] \in SUBSET Interests BY ActiveFile, Zenon
<1> DEFINE k0 == Poll(x, open[x], events[x])
<1>3. k0 \in PollKinds /\ k0.watch = x BY <1>2, PollIsKind
<1>4. Poll(x, open'[x], events'[x]) = k0 BY Zenon
<1>5. polls[k0] \in Nat /\ polls'[k0] \in Nat BY <1>3, Zenon DEF UringInv, TypeOK
<1>6. DOMAIN cq = 1..Len(cq) /\ DOMAIN cq' = 1..Len(cq') /\ Len(cq) \in Nat /\ Len(cq') \in Nat
  BY DEF UringInv, TypeOK
<1> HIDE DEF k0
<1>7. CASE polls[k0] > 0
  <2>1. polls'[k0] > 0 BY <1>3, <1>5, <1>7
  <2> QED BY <2>1, <1>4, Zenon DEF Covered
<1>8. CASE \E i \in DOMAIN cq : cq[i].watch = x /\ cq[i].ok
  <2>1. PICK i \in DOMAIN cq : cq[i].watch = x /\ cq[i].ok BY <1>8, Zenon
  <2>2. i # 1 BY <2>1, TailFacts, Zenon
  <2>3. i \in 2..Len(cq) BY <2>2, <1>6
  <2>4. i - 1 \in 1..Len(Tail(cq)) /\ Tail(cq)[i - 1] = cq[i] BY <2>3, <1>6, TailFacts
  <2>5. i - 1 \in DOMAIN cq' /\ cq'[i - 1] = cq[i] BY <2>4, <1>6, TailFacts
  <2> QED BY <2>1, <2>5, Zenon DEF Covered
<1> QED BY <1>1, <1>7, <1>8, Zenon DEF Covered, k0

(* Completions that report nothing. *)
LEMMA ReapSilentStep ==
  ASSUME UringInv, ReapRemoved \/ \E w \in Fds : ReapStale(w)
  PROVE  UringInv'
<1>1. /\ Reaping /\ cq' = Tail(cq) /\ polls' = polls /\ ready' = ready /\ out' = out
      /\ left' = left - 1 /\ open' = open /\ fresh' = fresh /\ events' = events
      /\ user' = user /\ active' = active /\ polling' = polling
  BY Zenon DEF ReapRemoved, ReapStale, Reaped
<1>2. TypeOK BY Zenon DEF UringInv
<1>3. armed' \in [Watches -> BOOLEAN]
  <2>1. CASE ReapRemoved BY <2>1, <1>2, Zenon DEF ReapRemoved, TypeOK
  <2>2. CASE \E w \in Fds : ReapStale(w)
    <3>1. PICK w \in Fds : armed' = [armed EXCEPT ![w] = FALSE] BY <2>2, Zenon DEF ReapStale
    <3> QED BY <3>1, <1>2, Zenon DEF TypeOK, Watches
  <2> QED BY <2>1, <2>2, Zenon
<1>4. TypeOK'
  <2>1. cq' \in Seq(Completions) /\ left' \in Nat BY <1>1, TailFacts, Zenon
  <2> QED BY <2>1, <1>1, <1>2, <1>3, Zenon DEF TypeOK
<1>5. ActiveIsPolled'
  <2> SUFFICES ASSUME NEW x \in Watches, active'[x] PROVE Covered(x)' BY Zenon DEF ActiveIsPolled
  <2>1. ~(Head(cq).watch = x /\ Head(cq).ok)
    <3>1. CASE ReapRemoved BY <3>1, UringAssumptions, Zenon DEF ReapRemoved, Watches
    <3>2. CASE \E w \in Fds : ReapStale(w)
      <4>1. PICK w \in Fds : Head(cq).watch = w /\ ~Reportable(Head(cq))
        BY <3>2, Zenon DEF ReapStale
      <4> QED BY <4>1, <1>1, Zenon DEF Reportable
    <3> QED BY <3>1, <3>2, Zenon
  <2>2. \A k \in PollKinds : k.watch = x => polls'[k] >= polls[k] BY <1>1, <1>2 DEF TypeOK
  <2>3. Len(cq') >= Len(Tail(cq)) /\ \A i \in 1..Len(Tail(cq)) : cq'[i] = Tail(cq)[i]
    BY <1>1, TailFacts
  <2> QED BY <2>1, <2>2, <2>3, <1>1, <1>4, ReapKeepsCovered, Zenon
<1>6. BatchIsCurrent' BY <1>1, Zenon DEF UringInv, BatchIsCurrent
<1>7. left' <= Len(cq') BY <1>1, TailFacts, Zenon
<1> QED BY <1>1, <1>4, <1>5, <1>6, <1>7, Zenon DEF UringInv

(* The events of a batch, with one more for the connection on a number. *)
LEMMA OneMoreEvent ==
  ASSUME UringInv, NEW e \in [watch : Watches, flags : SUBSET (Interests \cup {"WAKE"}),
                              user : AllFiles \cup {NoFile}],
         e.watch # WakeFd => active[e.watch] /\ e.user = open[e.watch],
         out' = Append(out, e), open' = open, active' = active, polling
  PROVE  /\ BatchIsCurrent'
         /\ out' \in Seq([watch : Watches, flags : SUBSET (Interests \cup {"WAKE"}),
                          user : AllFiles \cup {NoFile}])
<1> DEFINE E == [watch : Watches, flags : SUBSET (Interests \cup {"WAKE"}),
                 user : AllFiles \cup {NoFile}]
<1>1. out \in Seq(E) /\ e \in E BY Zenon DEF UringInv, TypeOK
<1>2. \A i \in DOMAIN out : out[i].watch # WakeFd =>
        active[out[i].watch] /\ out[i].user = open[out[i].watch]
  BY Zenon DEF UringInv, BatchIsCurrent
<1> HIDE DEF E
<1>3. /\ out' \in Seq(E) /\ Len(out') = Len(out) + 1
      /\ out'[Len(out) + 1] = e /\ \A i \in 1..Len(out) : out'[i] = out[i]
  BY <1>1, AppendFacts
<1>4. DOMAIN out = 1..Len(out) /\ DOMAIN out' = 1..Len(out') /\ Len(out) \in Nat BY <1>1, <1>3
<1>5. ASSUME NEW i \in DOMAIN out', out'[i].watch # WakeFd
      PROVE  active'[out'[i].watch] /\ out'[i].user = open'[out'[i].watch]
  <2>1. CASE i = Len(out) + 1 BY <2>1, <1>3, <1>5, Zenon
  <2>2. CASE i \in DOMAIN out BY <2>2, <1>2, <1>3, <1>4, <1>5, Zenon
  <2> QED BY <2>1, <2>2, <1>3, <1>4
<1> QED BY <1>3, <1>5, Zenon DEF BatchIsCurrent, E

(* The wake descriptor is polled again. *)
LEMMA ReapWakeStep ==
  ASSUME UringInv, ReapWake
  PROVE  UringInv'
<1> DEFINE k0 == Poll(WakeFd, WakeFile, {"READ"})
<1>0. TypeOK /\ WakeFd \in Watches /\ WakeFile \in AllFiles
  BY Zenon DEF UringInv, Watches, AllFiles
<1>1. k0 \in PollKinds /\ k0.watch = WakeFd BY <1>0, PollIsKind DEF Interests
<1>2. /\ Reaping /\ polling /\ cq' = Tail(cq) /\ polls' = [polls EXCEPT ![k0] = @ + 1]
      /\ ready' = [ready EXCEPT ![WakeFile] = {}] /\ out' = Append(out, WakeEvent)
      /\ armed' = [armed EXCEPT ![WakeFd] = TRUE]
      /\ left' = left - 1 /\ open' = open /\ fresh' = fresh /\ events' = events
      /\ user' = user /\ active' = active /\ polling' = polling
  BY Zenon DEF ReapWake, Reaped, Reaping
<1>3. Poll(WakeFd, open'[WakeFd], events'[WakeFd]) = k0 BY <1>2, Zenon DEF UringInv
<1> HIDE DEF k0
<1>4. /\ BatchIsCurrent'
      /\ out' \in Seq([watch : Watches, flags : SUBSET (Interests \cup {"WAKE"}),
                       user : AllFiles \cup {NoFile}])
  <2>1. WakeEvent \in [watch : Watches, flags : SUBSET (Interests \cup {"WAKE"}),
                       user : AllFiles \cup {NoFile}] /\ WakeEvent.watch = WakeFd
    BY <1>0, Zenon DEF WakeEvent
  <2> QED BY <2>1, <1>2, OneMoreEvent, Zenon
<1>5. TypeOK'
  <2>1. polls' \in [PollKinds -> Nat] BY <1>0, <1>1, <1>2 DEF TypeOK
  <2>2. ready' \in [AllFiles -> SUBSET Conditions] BY <1>0, <1>2, Zenon DEF TypeOK
  <2>3. armed' \in [Watches -> BOOLEAN] BY <1>0, <1>2, Zenon DEF TypeOK
  <2>4. cq' \in Seq(Completions) /\ left' \in Nat BY <1>2, TailFacts, Zenon
  <2> QED BY <2>1, <2>2, <2>3, <2>4, <1>0, <1>2, <1>4, Zenon DEF TypeOK
<1>6. cq' = Tail(cq) /\ cq' \in Seq(Completions) /\ Len(cq') \in Nat /\ Len(cq') >= Len(Tail(cq))
  <2>1. cq' = Tail(cq) /\ Tail(cq) \in Seq(Completions) BY <1>2, TailFacts, Zenon
  <2> QED BY <2>1
<1>7. ActiveIsPolled'
  <2> SUFFICES ASSUME NEW x \in Watches, active'[x] PROVE Covered(x)' BY Zenon DEF ActiveIsPolled
  <2>1. CASE x = WakeFd
    <3>1. polls'[k0] > 0 BY <1>0, <1>1, <1>2 DEF TypeOK
    <3> QED BY <2>1, <3>1, <1>3, Zenon DEF Covered
  <2>2. CASE x # WakeFd
    <3>1. ~(Head(cq).watch = x /\ Head(cq).ok) BY <2>2, Zenon DEF ReapWake
    <3>2. \A k \in PollKinds : k.watch = x => polls'[k] >= polls[k]
      BY <2>2, <1>0, <1>1, <1>2 DEF TypeOK
    <3>3. Len(cq') >= Len(Tail(cq)) /\ \A i \in 1..Len(Tail(cq)) : cq'[i] = Tail(cq)[i]
      BY <1>6, Zenon
    <3> QED BY <3>1, <3>2, <3>3, <1>2, <1>5, ReapKeepsCovered, Zenon
  <2> QED BY <2>1, <2>2, Zenon
<1>8. left' <= Len(cq') BY <1>2, <1>6, StillFits, Zenon
<1> QED BY <1>2, <1>4, <1>5, <1>7, <1>8, Zenon DEF UringInv

(* A connection is reported and polled again. *)
LEMMA ReapReadyStep ==
  ASSUME UringInv, NEW w \in Fds, ReapReady(w)
  PROVE  UringInv'
<1> DEFINE k0 == Poll(w, open[w], events[w])
           o  == PollAdd(k0, polls, Tail(cq))
           fl == Flags(Head(cq).res)
<1>0. TypeOK /\ w \in Watches /\ w # WakeFd BY UringAssumptions, Zenon DEF UringInv, Watches
<1>1. Reaping /\ polling /\ active[w] /\ Head(cq).watch = w
  BY Zenon DEF ReapReady, Reportable, Reaping
<1>2. open[w] \in AllFiles /\ events[w] \in SUBSET Interests /\ events[w] # {}
  BY <1>0, <1>1, ActiveFile, Zenon
<1>3. k0 \in PollKinds /\ k0.watch = w BY <1>0, <1>2, PollIsKind
<1>4. polls' = o.polls /\ cq' = o.cq /\ armed' = [armed EXCEPT ![w] = TRUE]
  BY <1>1, <1>2, Zenon DEF ReapReady, Report, arm_watch
<1>5. /\ left' = left - 1 /\ open' = open /\ fresh' = fresh /\ events' = events
      /\ user' = user /\ active' = active /\ polling' = polling /\ ready' = ready
      /\ out' = IF fl = {} THEN out
                ELSE Append(out, [watch |-> w, flags |-> fl, user |-> user[w]])
  BY Zenon DEF ReapReady, Reaped, Report
<1>6. fl \in SUBSET (Interests \cup {"WAKE"}) BY Zenon DEF Flags, Interests
<1> HIDE DEF k0, fl
<1>7. /\ o.polls \in [PollKinds -> Nat] /\ o.cq \in Seq(Completions)
      /\ Len(o.cq) >= Len(Tail(cq)) /\ \A i \in 1..Len(Tail(cq)) : o.cq[i] = Tail(cq)[i]
      /\ \A k \in PollKinds : o.polls[k] >= polls[k]
      /\ o.polls[k0] > 0 \/ \E i \in 1..Len(o.cq) : o.cq[i].watch = k0.watch /\ o.cq[i].ok
  <2>1. polls \in [PollKinds -> Nat] /\ Tail(cq) \in Seq(Completions)
    BY <1>0, <1>1, TailFacts, Zenon DEF TypeOK
  <2> QED BY <2>1, <1>0, <1>3, AddCovers, Zenon
<1> HIDE DEF o
<1>8. /\ BatchIsCurrent'
      /\ out' \in Seq([watch : Watches, flags : SUBSET (Interests \cup {"WAKE"}),
                       user : AllFiles \cup {NoFile}])
  <2>1. CASE fl = {}
    <3>1. out' = out BY <2>1, <1>5, Zenon
    <3> QED BY <3>1, <1>0, <1>5, Zenon DEF UringInv, BatchIsCurrent, TypeOK
  <2>2. CASE fl # {}
    <3> DEFINE e == [watch |-> w, flags |-> fl, user |-> user[w]]
    <3>1. out' = Append(out, e) BY <2>2, <1>5, Zenon
    <3>2. user[w] = open[w] BY <1>1, Zenon DEF UringInv
    <3>3. e \in [watch : Watches, flags : SUBSET (Interests \cup {"WAKE"}),
                 user : AllFiles \cup {NoFile}]
      BY <1>0, <1>2, <1>6, <3>2, Zenon
    <3>4. e.watch = w /\ e.user = open[w] BY <3>2, Zenon
    <3> HIDE DEF e
    <3> QED BY <3>1, <3>3, <3>4, <1>1, <1>5, OneMoreEvent, Zenon
  <2> QED BY <2>1, <2>2, Zenon
<1>9. TypeOK'
  <2>1. armed' \in [Watches -> BOOLEAN] BY <1>0, <1>4, Zenon DEF TypeOK
  <2>2. polls' \in [PollKinds -> Nat] /\ cq' \in Seq(Completions) BY <1>4, <1>7, Zenon
  <2>3. left' \in Nat BY <1>1, <1>5, TailFacts, Zenon
  <2> QED BY <2>1, <2>2, <2>3, <1>0, <1>5, <1>8, Zenon DEF TypeOK
<1>10. ActiveIsPolled'
  <2> SUFFICES ASSUME NEW x \in Watches, active'[x] PROVE Covered(x)' BY Zenon DEF ActiveIsPolled
  <2>1. CASE x = w
    <3>1. Poll(w, open'[w], events'[w]) = k0 BY <1>5, Zenon DEF k0
    <3>2. polls'[k0] > 0 \/ \E i \in 1..Len(cq') : cq'[i].watch = w /\ cq'[i].ok
      BY <1>3, <1>4, <1>7, Zenon
    <3>3. DOMAIN cq' = 1..Len(cq') BY <1>9 DEF TypeOK
    <3> QED BY <2>1, <3>1, <3>2, <3>3, Zenon DEF Covered
  <2>2. CASE x # w
    <3>1. ~(Head(cq).watch = x /\ Head(cq).ok) BY <2>2, <1>1, Zenon
    <3> QED BY <3>1, <1>1, <1>4, <1>5, <1>7, <1>9, ReapKeepsCovered, Zenon
  <2> QED BY <2>1, <2>2, Zenon
<1>11. left' <= Len(cq')
  <2>1. Reaping /\ left' = left - 1 BY <1>1, <1>5, Zenon
  <2>2. cq' \in Seq(Completions) /\ Len(cq') >= Len(Tail(cq)) BY <1>4, <1>7, Zenon
  <2> QED BY <2>1, <2>2, StillFits, Zenon
<1> QED BY <1>5, <1>8, <1>9, <1>10, <1>11, Zenon DEF UringInv

(* Every step of the kernel, of other threads and of the worker preserves the *)
(* invariant.                                                                 *)
LEMMA UringStep ==
  ASSUME UringInv, [Next]_vars
  PROVE  UringInv'
<1>0. TypeOK BY Zenon DEF UringInv
<1>1. CASE \E k \in PollKinds : Fire(k) BY <1>1, FireStep, Zenon
<1>2. CASE \E f \in Files : Change(f)
  <2>1. PICK f \in Files : Change(f) BY <1>2, Zenon
  <2>2. /\ open' = open /\ fresh' = fresh /\ polls' = polls /\ cq' = cq
        /\ UNCHANGED watchVars /\ UNCHANGED pollVars
    BY <2>1, Zenon DEF Change
  <2>3. ready' \in [AllFiles -> SUBSET Conditions]
    <3>0. f \in AllFiles /\ ready \in [AllFiles -> SUBSET Conditions]
          /\ Raised[f] \subseteq Conditions
      BY <1>0, UringAssumptions, Zenon DEF TypeOK, AllFiles, Conditions
    <3>1. PICK c \in Raised[f] :
            ready' = [ready EXCEPT ![f] = IF c \in @ THEN @ \ {c} ELSE @ \cup {c}]
      BY <2>1, Zenon DEF Change
    <3> QED BY <3>0, <3>1, Zenon
  <2>4. TypeOK' BY <1>0, <2>2, <2>3, Zenon DEF TypeOK, watchVars, pollVars
  <2> QED BY <2>2, <2>4, QuietStep, Zenon
<1>3. CASE Wake
  <2>1. /\ open' = open /\ fresh' = fresh /\ polls' = polls /\ cq' = cq
        /\ UNCHANGED watchVars /\ UNCHANGED pollVars
    BY <1>3, Zenon DEF Wake
  <2>2. ready' \in [AllFiles -> SUBSET Conditions]
    BY <1>0, <1>3, Zenon DEF Wake, TypeOK, AllFiles, Conditions
  <2>3. TypeOK' BY <1>0, <2>1, <2>2, Zenon DEF TypeOK, watchVars, pollVars
  <2> QED BY <2>1, <2>3, QuietStep, Zenon
<1>4. CASE \E w \in Fds : Connection(w)
  <2>0. PICK w \in Fds : Connection(w) BY <1>4, Zenon
  <2>1. ASSUME NEW f \in Files, Register(w, f) PROVE UringInv'
    <3>1. {"READ"} \in SUBSET Interests /\ {"READ"} # {} BY Zenon DEF Interests
    <3>2. fresh' \subseteq Files BY <2>1, <1>0, Zenon DEF Register, TypeOK
    <3>3. /\ Watch(w, f, {"READ"}) /\ open' = [open EXCEPT ![w] = f] /\ ready' = ready
          /\ pollVars' = pollVars /\ ~polling
      BY <2>1, Zenon DEF Register
    <3> QED BY <3>1, <3>2, <3>3, WatchStep, Zenon
  <2>2. ASSUME NEW f \in Files, RegisterFails(w, f) PROVE UringInv'
    <3>1. /\ open' = open /\ ready' = ready /\ polls' = polls /\ cq' = cq
          /\ UNCHANGED watchVars /\ UNCHANGED pollVars /\ fresh' = fresh \ {f}
      BY <2>2, Zenon DEF RegisterFails
    <3>2. fresh' \subseteq Files BY <3>1, <1>0, Zenon DEF TypeOK
    <3>3. TypeOK' BY <1>0, <3>1, <3>2, Zenon DEF TypeOK, watchVars, pollVars
    <3> QED BY <3>1, <3>3, QuietStep, Zenon
  <2>3. CASE Modify(w)
    <3> DEFINE ev == IF events[w] = {"READ"} THEN {"READ", "WRITE"} ELSE {"READ"}
    <3>1. ev \in SUBSET Interests /\ ev # {} BY Zenon DEF Interests
    <3>2. /\ Watch(w, open[w], ev) /\ open' = open /\ ready' = ready /\ fresh' = fresh
          /\ pollVars' = pollVars /\ ~polling /\ open[w] # NoFile
      BY <2>3, Zenon DEF Modify
    <3>3. open[w] \in Files
      BY <3>2, <1>0, UringAssumptions, Zenon DEF UringInv, TypeOK, Watches, AllFiles
    <3>4. open' = [open EXCEPT ![w] = open[w]] BY <3>2, <1>0, Zenon DEF TypeOK, Watches
    <3>5. fresh' \subseteq Files BY <3>2, <1>0, Zenon DEF TypeOK
    <3> HIDE DEF ev
    <3> QED BY <3>1, <3>2, <3>3, <3>4, <3>5, WatchStep, Zenon
  <2>4. CASE Remove(w) BY <2>4, RemoveStep, Zenon
  <2>5. CASE Read(w)
    <3>1. /\ open' = open /\ fresh' = fresh /\ polls' = polls /\ cq' = cq
          /\ UNCHANGED watchVars /\ UNCHANGED pollVars
          /\ ready' = [ready EXCEPT ![open[w]] = @ \ {"in"}]
      BY <2>5, Zenon DEF Read
    <3>2. ready' \in [AllFiles -> SUBSET Conditions] BY <3>1, <1>0, Zenon DEF TypeOK
    <3>3. TypeOK' BY <1>0, <3>1, <3>2, Zenon DEF TypeOK, watchVars, pollVars
    <3> QED BY <3>1, <3>3, QuietStep, Zenon
  <2> QED BY <2>0, <2>1, <2>2, <2>3, <2>4, <2>5, Zenon DEF Connection
<1>5. CASE PollStep
  <2>1. CASE PollBegin
    <3>1. /\ UNCHANGED kernelVars /\ UNCHANGED watchVars
          /\ polling' = TRUE /\ left' = Len(cq) /\ out' = <<>>
      BY <2>1, Zenon DEF PollBegin
    <3>2. open' = open /\ fresh' = fresh /\ ready' = ready /\ polls' = polls /\ cq' = cq
      BY <3>1, Zenon DEF kernelVars
    <3>3. left' \in Nat BY <3>1, <1>0 DEF TypeOK
    <3>4. \A S : <<>> \in Seq(S) OBVIOUS
    <3>5. TypeOK' BY <1>0, <3>1, <3>2, <3>3, <3>4, Zenon DEF TypeOK, watchVars
    <3> QED BY <3>1, <3>2, <3>5, QuietStep, Zenon
  <2>2. CASE ReapRemoved BY <2>2, ReapSilentStep, Zenon
  <2>3. CASE ReapWake BY <2>3, ReapWakeStep, Zenon
  <2>4. CASE PollReturns
    <3>1. /\ UNCHANGED kernelVars /\ UNCHANGED watchVars
          /\ polling' = FALSE /\ left' = 0 /\ out' = out
      BY <2>4, Zenon DEF PollReturns
    <3>2. open' = open /\ fresh' = fresh /\ ready' = ready /\ polls' = polls /\ cq' = cq
      BY <3>1, Zenon DEF kernelVars
    <3>3. left' \in Nat BY <3>1, Zenon
    <3>4. TypeOK' BY <1>0, <3>1, <3>2, <3>3, Zenon DEF TypeOK, watchVars
    <3> QED BY <3>1, <3>2, <3>4, QuietStep, Zenon
  <2>5. CASE \E w \in Fds : ReapReady(w) BY <2>5, ReapReadyStep, Zenon
  <2>6. CASE \E w \in Fds : ReapStale(w) BY <2>6, ReapSilentStep, Zenon
  <2> QED BY <1>5, <2>1, <2>2, <2>3, <2>4, <2>5, <2>6, Zenon DEF PollStep
<1>6. CASE UNCHANGED vars
  <2>1. /\ open' = open /\ fresh' = fresh /\ ready' = ready /\ polls' = polls /\ cq' = cq
        /\ UNCHANGED watchVars /\ UNCHANGED pollVars
    BY <1>6, Zenon DEF vars, kernelVars
  <2>2. TypeOK' BY <1>0, <2>1, Zenon DEF TypeOK, watchVars, pollVars
  <2> QED BY <2>1, <2>2, QuietStep, Zenon
<1> QED BY <1>1, <1>2, <1>3, <1>4, <1>5, <1>6, Zenon DEF Next

(* The invariant of the io_uring backend holds in every reachable state. *)
THEOREM UringInvariant == Spec => []UringInv
BY UringInit, UringStep, PTL DEF Spec

(* wirecall_backend_poll misses no readiness: every registered connection and *)
(* the wake descriptor are polled for, or about to be.                        *)
THEOREM NothingUnpolled == Spec => []ActiveIsPolled
<1>1. UringInv => ActiveIsPolled BY Zenon DEF UringInv
<1> QED BY <1>1, UringInvariant, PTL

(* The events wirecall_backend_poll returns name the connections registered   *)
(* on their descriptors, whatever earlier completions were for.               *)
THEOREM EventsNameTheirConnection == Spec => []BatchIsCurrent
<1>1. UringInv => BatchIsCurrent BY Zenon DEF UringInv
<1> QED BY <1>1, UringInvariant, PTL

-----------------------------------------------------------------------------
(* The filters of the kqueue backend. *)

Values == Files \cup {NoFile}

(* What makes KqueueFilters inductive: a connection always has its READ     *)
(* filter, so only the other one can be missing when a change fails.        *)
KqueueInv ==
  /\ kopen \in [Fds -> Values]
  /\ kinterests \in [Fds -> SUBSET Kq!Interests]
  /\ kudata \in [Kq!Filters -> Values]
  /\ KqueueFilters
  /\ \A w \in Fds : kopen[w] # NoFile => "READ" \in kinterests[w]

(* What a filter carries once the interests are events. *)
Asked(k, ev, f) == IF k[2] \in ev THEN f ELSE NoFile

(* One filter of a change (apply_filter): it is what the interests ask for, *)
(* or it was missing and still is, and the change has failed. EV_DELETE     *)
(* does not fail, EV_ADD only where there was no filter.                    *)
LEMMA FilterTried ==
  ASSUME NEW u \in [Kq!Filters -> Values], NEW a, NEW rc, NEW k \in Kq!Filters, NEW ev,
         NEW f \in Values,
         NEW t \in Kq!apply_filter(Kq!Tried(u, a, rc), k, ev, f)
  PROVE  \E v, b, sc :
           /\ t = Kq!Tried(v, b, sc)
           /\ v \in [Kq!Filters -> Values]
           /\ \A j \in Kq!Filters : j # k => v[j] = u[j]
           /\ \/ v[k] = Asked(k, ev, f) /\ sc = rc
              \/ /\ k[2] \in ev /\ sc = -1
                 /\ u[k] = NoFile /\ v[k] = NoFile
<1>. DEFINE s == Kq!Tried(u, a, rc)
<1>1. s.udata = u /\ s.rc = rc
  BY Zenon DEF Kq!Tried
<1>2. CASE k[2] \in ev /\ t = Kq!Tried(u, s.active, -1) /\ u[k] = NoFile
  BY <1>2, Zenon
<1>3. CASE /\ k[2] \in ev
           /\ t = Kq!Tried([u EXCEPT ![k] = f],
                        IF k[2] \in kready[f] THEN Kq!Activated(s.active, k) ELSE s.active, rc)
  <2>. DEFINE v == [u EXCEPT ![k] = f]
              b == IF k[2] \in kready[f] THEN Kq!Activated(s.active, k) ELSE s.active
  <2>1. v \in [Kq!Filters -> Values] /\ v[k] = f /\ \A j \in Kq!Filters : j # k => v[j] = u[j]
    BY Zenon
  <2>2. t = Kq!Tried(v, b, rc) /\ Asked(k, ev, f) = f
    BY <1>3, Zenon DEF Asked
  <2>. HIDE DEF v, b
  <2>. QED  BY <2>1, <2>2, Zenon
<1>4. CASE k[2] \notin ev /\ t = Kq!Tried([u EXCEPT ![k] = NoFile], Kq!Without(s.active, k), rc)
  <2>. DEFINE v == [u EXCEPT ![k] = NoFile]
              b == Kq!Without(s.active, k)
  <2>1. v \in [Kq!Filters -> Values] /\ v[k] = NoFile /\ \A j \in Kq!Filters : j # k => v[j] = u[j]
    BY Zenon DEF Values
  <2>2. t = Kq!Tried(v, b, rc) /\ Asked(k, ev, f) = NoFile
    BY <1>4, Zenon DEF Asked
  <2>. HIDE DEF v, b
  <2>. QED  BY <2>1, <2>2, Zenon
<1>. QED
  <2>1. CASE k[2] \in ev
    <3>1. t \in Kq!Add(s, k, f)
      BY <2>1, Zenon DEF Kq!apply_filter
    <3>. QED  BY <1>1, <1>2, <1>3, <2>1, <3>1, Zenon DEF Kq!Add
  <2>2. CASE k[2] \notin ev
    <3>1. t = Kq!Delete(s, k)
      BY <2>2, Zenon DEF Kq!apply_filter
    <3>. QED  BY <1>1, <1>4, <2>2, <3>1, Zenon DEF Kq!Delete
  <2>. QED  BY <2>1, <2>2, Zenon

(* A descriptor has two filters. *)
LEMMA TwoFilters ==
  ASSUME NEW w \in Fds
  PROVE  /\ <<w, "READ">> \in Kq!Filters /\ <<w, "WRITE">> \in Kq!Filters
         /\ <<w, "READ">> # <<w, "WRITE">>
         /\ \A k \in Kq!Filters : k[1] = w <=> k \in {<<w, "READ">>, <<w, "WRITE">>}
<1>1. \A k \in Kq!Filters : k = <<k[1], k[2]>> /\ k[2] \in Kq!Interests
  BY DEF Kq!Filters
<1>2. /\ <<w, "READ">> \in Kq!Filters /\ <<w, "WRITE">> \in Kq!Filters
      /\ <<w, "READ">> # <<w, "WRITE">>
  BY Zenon DEF Kq!Filters, Kq!Interests
<1>. QED  BY <1>1, <1>2, Zenon DEF Kq!Interests

(* A change as a whole (set_interest): other descriptors keep their filters, *)
(* each filter of this one is what was asked for or was missing and still    *)
(* is, and the result tells of one that is missing.                          *)
LEMMA InterestTried ==
  ASSUME NEW w \in Fds, NEW ev, NEW f \in Values,
         kudata \in [Kq!Filters -> Values],
         NEW s \in Kq!set_interest(w, ev, f)
  PROVE  /\ s = Kq!Tried(s.udata, s.active, s.rc)
         /\ s.udata \in [Kq!Filters -> Values]
         /\ \A k \in Kq!Filters : k[1] # w => s.udata[k] = kudata[k]
         /\ \A k \in Kq!Filters : k[1] = w =>
              \/ s.udata[k] = Asked(k, ev, f)
              \/ kudata[k] = NoFile /\ s.udata[k] = NoFile
         /\ s.rc # 0 => \E k \in Kq!Filters : /\ k[1] = w /\ k[2] \in ev
                                           /\ kudata[k] = NoFile /\ s.udata[k] = NoFile
         /\ s.rc = 0 => \A k \in Kq!Filters : k[1] = w => s.udata[k] = Asked(k, ev, f)
<1>. DEFINE R == <<w, "READ">>
            W == <<w, "WRITE">>
<1>1. R \in Kq!Filters /\ W \in Kq!Filters /\ R # W /\ \A k \in Kq!Filters : k[1] = w <=> k \in {R, W}
  BY TwoFilters, Zenon
<1>2. PICK r \in Kq!apply_filter(Kq!Tried(kudata, kactive, 0), R, ev, f) :
        s \in Kq!apply_filter(r, W, ev, f)
  BY Zenon DEF Kq!set_interest
<1>. HIDE DEF R, W
<1>3. PICK u, b, rc :
        /\ r = Kq!Tried(u, b, rc)
        /\ u \in [Kq!Filters -> Values]
        /\ \A j \in Kq!Filters : j # R => u[j] = kudata[j]
        /\ \/ u[R] = Asked(R, ev, f) /\ rc = 0
           \/ R[2] \in ev /\ rc = -1 /\ kudata[R] = NoFile /\ u[R] = NoFile
  BY <1>1, <1>2, FilterTried, SMTT(30)
<1>4. PICK v, c, sc :
        /\ s = Kq!Tried(v, c, sc)
        /\ v \in [Kq!Filters -> Values]
        /\ \A j \in Kq!Filters : j # W => v[j] = u[j]
        /\ \/ v[W] = Asked(W, ev, f) /\ sc = rc
           \/ W[2] \in ev /\ sc = -1 /\ u[W] = NoFile /\ v[W] = NoFile
  BY <1>1, <1>2, <1>3, FilterTried
<1>5. s.udata = v /\ s.active = c /\ s.rc = sc
  BY <1>4, Zenon DEF Kq!Tried
<1>6. /\ \A k \in Kq!Filters : k[1] # w => v[k] = kudata[k]
      /\ v[R] = u[R] /\ u[W] = kudata[W]
  BY <1>1, <1>3, <1>4, Zenon
<1>7. \A k \in {R, W} : v[k] = Asked(k, ev, f) \/ (kudata[k] = NoFile /\ v[k] = NoFile)
  BY <1>3, <1>4, <1>6, Zenon
<1>8. sc # 0 => \E k \in {R, W} : k[2] \in ev /\ kudata[k] = NoFile /\ v[k] = NoFile
  BY <1>3, <1>4, <1>6, Zenon
<1>9. sc = 0 => \A k \in {R, W} : v[k] = Asked(k, ev, f)
  BY <1>3, <1>4, <1>6
<1>. QED  BY <1>1, <1>4, <1>5, <1>6, <1>7, <1>8, <1>9, Zenon

(* wirecall_backend_remove leaves a descriptor without filters. *)
LEMMA RemovedTried ==
  ASSUME NEW w \in Fds, NEW u \in [Kq!Filters -> Values], NEW a, NEW rc
  PROVE  /\ Kq!Removed(Kq!Tried(u, a, rc), w).udata \in [Kq!Filters -> Values]
         /\ \A k \in Kq!Filters : Kq!Removed(Kq!Tried(u, a, rc), w).udata[k] = IF k[1] = w THEN NoFile ELSE u[k]
<1>. DEFINE R == <<w, "READ">>
            W == <<w, "WRITE">>
            v == [u EXCEPT ![R] = NoFile]
<1>1. Kq!Delete(Kq!Tried(u, a, rc), R) = Kq!Tried(v, Kq!Without(a, R), rc)
  BY Zenon DEF Kq!Delete, Kq!Tried
<1>2. Kq!Removed(Kq!Tried(u, a, rc), w).udata = [v EXCEPT ![W] = NoFile]
  <2>. HIDE DEF v
  <2>. QED  BY <1>1, Zenon DEF Kq!Removed, Kq!Delete, Kq!Tried
<1>. QED  BY <1>2, TwoFilters DEF Values

(* A connection is registered with its READ filter, or left with none. *)
LEMMA RegisterKept ==
  ASSUME KqueueInv, NEW w \in Fds, NEW f \in Files, Kq!Register(w, f)
  PROVE  KqueueInv'
<1>1. PICK s \in Kq!set_interest(w, {"READ"}, f) :
        \/ /\ s.rc = 0
           /\ Kq!Applied(s)
           /\ kopen' = [kopen EXCEPT ![w] = f]
           /\ kinterests' = [kinterests EXCEPT ![w] = {"READ"}]
        \/ /\ s.rc # 0
           /\ Kq!Applied(Kq!Removed(s, w))
           /\ UNCHANGED <<kopen, kinterests>>
  BY Zenon DEF Kq!Register
<1>2. /\ s = Kq!Tried(s.udata, s.active, s.rc)
      /\ s.udata \in [Kq!Filters -> Values]
      /\ \A k \in Kq!Filters : k[1] # w => s.udata[k] = kudata[k]
      /\ s.rc = 0 => \A k \in Kq!Filters : k[1] = w => s.udata[k] = Asked(k, {"READ"}, f)
  BY InterestTried DEF KqueueInv, Values
<1>3. kopen[w] = NoFile
  BY Zenon DEF Kq!Register
<1>4. CASE /\ s.rc = 0
           /\ Kq!Applied(s)
           /\ kopen' = [kopen EXCEPT ![w] = f]
           /\ kinterests' = [kinterests EXCEPT ![w] = {"READ"}]
  <2>1. /\ kopen' \in [Fds -> Values] /\ kinterests' \in [Fds -> SUBSET Kq!Interests]
        /\ kudata' \in [Kq!Filters -> Values]
    BY <1>2, <1>4, Zenon DEF KqueueInv, Values, Kq!Interests, Kq!Applied
  <2>2. KqueueFilters'
    <3>1. ASSUME NEW k \in Kq!Filters
          PROVE  kudata'[k] = IF k[2] \in kinterests'[k[1]] THEN kopen'[k[1]] ELSE NoFile
      <4>1. k[1] \in Fds
        BY Zenon DEF Kq!Filters
      <4>2. CASE k[1] = w
        BY <1>2, <1>4, <4>1, <4>2, Zenon DEF KqueueInv, Kq!Applied, Asked
      <4>3. CASE k[1] # w
        BY <1>2, <1>4, <4>1, <4>3, Zenon DEF KqueueInv, KqueueFilters, Kq!KqueueFilters, Kq!Applied
      <4>. QED  BY <4>2, <4>3, Zenon
    <3>. QED  BY <3>1, Zenon DEF KqueueFilters, Kq!KqueueFilters
  <2>3. \A v \in Fds : kopen'[v] # NoFile => "READ" \in kinterests'[v]
    BY <1>4, Zenon DEF KqueueInv
  <2>. QED  BY <2>1, <2>2, <2>3, Zenon DEF KqueueInv, Values
<1>5. CASE s.rc # 0 /\ Kq!Applied(Kq!Removed(s, w)) /\ UNCHANGED <<kopen, kinterests>>
  <2>1. /\ kudata' \in [Kq!Filters -> Values]
        /\ \A k \in Kq!Filters : kudata'[k] = IF k[1] = w THEN NoFile ELSE kudata[k]
    BY <1>2, <1>5, RemovedTried DEF Kq!Applied
  <2>2. KqueueFilters'
    BY <1>3, <1>5, <2>1, Zenon DEF KqueueInv, KqueueFilters, Kq!KqueueFilters
  <2>. QED  BY <1>5, <2>1, <2>2, Zenon DEF KqueueInv, Values
<1>. QED  BY <1>1, <1>4, <1>5, Zenon

(* A change of interests that fails leaves the filters as they were: the    *)
(* READ filter is there, so only WRITE, which is missing, can have failed.  *)
LEMMA ModifyKept ==
  ASSUME KqueueInv, NEW w \in Fds, NEW ev \in {{"READ"}, Kq!Interests}, Kq!Modify(w, ev)
  PROVE  KqueueInv'
<1>. DEFINE R == <<w, "READ">>
            W == <<w, "WRITE">>
<1>0. /\ R \in Kq!Filters /\ W \in Kq!Filters /\ \A k \in Kq!Filters : k[1] = w <=> k \in {R, W}
      /\ R[1] = w /\ R[2] = "READ" /\ W[1] = w /\ W[2] = "WRITE"
  BY TwoFilters, Zenon
<1>1. PICK s \in Kq!set_interest(w, ev, kopen[w]) :
        /\ Kq!Applied(s)
        /\ kinterests' = IF s.rc = 0 THEN [kinterests EXCEPT ![w] = ev] ELSE kinterests
  BY Zenon DEF Kq!Modify
<1>2. kopen[w] \in Values /\ kudata \in [Kq!Filters -> Values] /\ kopen[w] # NoFile
  BY Zenon DEF KqueueInv, Values, Kq!Modify
<1>3. /\ s.udata \in [Kq!Filters -> Values]
      /\ \A k \in Kq!Filters : k[1] # w => s.udata[k] = kudata[k]
      /\ \A k \in Kq!Filters : k[1] = w =>
           s.udata[k] = Asked(k, ev, kopen[w]) \/ (kudata[k] = NoFile /\ s.udata[k] = NoFile)
      /\ s.rc # 0 => \E k \in Kq!Filters : /\ k[1] = w /\ k[2] \in ev
                                        /\ kudata[k] = NoFile /\ s.udata[k] = NoFile
      /\ s.rc = 0 => \A k \in Kq!Filters : k[1] = w => s.udata[k] = Asked(k, ev, kopen[w])
  <2>1. PICK f : f = kopen[w]
    BY Zenon
  <2>. QED  BY <1>2, <2>1, InterestTried
<1>4. kudata[R] = kopen[w] /\ "READ" \in kinterests[w]
  BY <1>0, <1>2, Zenon DEF KqueueInv, KqueueFilters, Kq!KqueueFilters
<1>5. kudata' = s.udata /\ kopen' = kopen
  BY <1>1, Zenon DEF Kq!Applied, Kq!Modify
<1>6. kinterests' \in [Fds -> SUBSET Kq!Interests]
  BY <1>1, Zenon DEF KqueueInv, Kq!Interests
<1>7. CASE s.rc = 0
  <2>1. ASSUME NEW k \in Kq!Filters
        PROVE  kudata'[k] = IF k[2] \in kinterests'[k[1]] THEN kopen'[k[1]] ELSE NoFile
    <3>1. k[1] \in Fds
      BY Zenon DEF Kq!Filters
    <3>2. CASE k[1] = w
      BY <1>1, <1>3, <1>5, <1>7, <3>1, <3>2, Zenon DEF KqueueInv, Asked
    <3>3. CASE k[1] # w
      BY <1>1, <1>3, <1>5, <1>7, <3>1, <3>3, Zenon DEF KqueueInv, KqueueFilters, Kq!KqueueFilters
    <3>. QED  BY <3>2, <3>3, Zenon
  <2>2. \A v \in Fds : kopen'[v] # NoFile => "READ" \in kinterests'[v]
    BY <1>1, <1>5, <1>7, Zenon DEF KqueueInv, Kq!Interests
  <2>. QED  BY <1>2, <1>3, <1>5, <1>6, <2>1, <2>2, Zenon DEF KqueueInv, KqueueFilters, Kq!KqueueFilters, Values
<1>8. CASE s.rc # 0
  <2>1. kudata[W] = NoFile /\ s.udata[W] = NoFile
    BY <1>0, <1>2, <1>3, <1>4, <1>8, Zenon
  <2>2. s.udata[R] = kudata[R]
    <3>1. "READ" \in ev
      BY Zenon DEF Kq!Interests
    <3>. QED  BY <1>0, <1>2, <1>3, <1>4, <3>1, Zenon DEF Asked
  <2>3. \A k \in Kq!Filters : kudata'[k] = kudata[k]
    BY <1>0, <1>3, <1>5, <2>1, <2>2, Zenon
  <2>. QED  BY <1>1, <1>3, <1>5, <1>8, <2>3, Zenon DEF KqueueInv, KqueueFilters, Kq!KqueueFilters, Values
<1>. QED  BY <1>7, <1>8, Zenon

(* connection_destroy removes the filters before the number is free again. *)
LEMMA CloseKept ==
  ASSUME KqueueInv, NEW w \in Fds, Kq!Close(w)
  PROVE  KqueueInv'
<1>1. kudata \in [Kq!Filters -> Values]
  BY Zenon DEF KqueueInv, Values
<1>2. /\ kudata' \in [Kq!Filters -> Values]
      /\ \A k \in Kq!Filters : kudata'[k] = IF k[1] = w THEN NoFile ELSE kudata[k]
  BY <1>1, RemovedTried DEF Kq!Close, Kq!Applied
<1>3. /\ kopen' \in [Fds -> Values] /\ kinterests' \in [Fds -> SUBSET Kq!Interests]
      /\ \A v \in Fds \ {w} : kopen'[v] = kopen[v] /\ kinterests'[v] = kinterests[v]
      /\ kopen'[w] = NoFile /\ kinterests'[w] = {}
  BY Zenon DEF Kq!Close, KqueueInv, Values
<1>4. ASSUME NEW k \in Kq!Filters
      PROVE  kudata'[k] = IF k[2] \in kinterests'[k[1]] THEN kopen'[k[1]] ELSE NoFile
  <2>1. k[1] \in Fds
    BY Zenon DEF Kq!Filters
  <2>. QED  BY <1>2, <1>3, <2>1, Zenon DEF KqueueInv, KqueueFilters, Kq!KqueueFilters
<1>. QED  BY <1>2, <1>3, <1>4, Zenon DEF KqueueInv, KqueueFilters, Kq!KqueueFilters, Values

(* The steps of the kernel and of a poll change no filter and no interest. *)
LEMMA FiltersUntouched ==
  ASSUME KqueueInv, UNCHANGED <<kopen, kinterests, kudata>>
  PROVE  KqueueInv'
  BY Zenon DEF KqueueInv, KqueueFilters, Kq!KqueueFilters

(* The invariant holds initially and every step preserves it. *)
LEMMA KqueueInvNext == KqueueInv /\ [Kq!Next]_(Kq!vars) => KqueueInv'
<1>. SUFFICES ASSUME KqueueInv, [Kq!Next]_(Kq!vars)
              PROVE  KqueueInv'
  BY Zenon
<1>1. ASSUME NEW f \in Files, Kq!Change(f)
      PROVE  KqueueInv'
  <2>1. UNCHANGED <<kopen, kinterests, kudata>>
    BY <1>1, Zenon DEF Kq!Change
  <2>. QED  BY <2>1, FiltersUntouched, Zenon
<1>2. ASSUME NEW f \in Files, Kq!Fill(f)
      PROVE  KqueueInv'
  BY <1>2, FiltersUntouched, Zenon DEF Kq!Fill
<1>3. ASSUME NEW w \in Fds, NEW f \in Files, Kq!Register(w, f)
      PROVE  KqueueInv'
  BY <1>3, RegisterKept, Zenon
<1>4. ASSUME NEW w \in Fds, NEW ev \in {{"READ"}, Kq!Interests}, Kq!Modify(w, ev)
      PROVE  KqueueInv'
  BY <1>4, ModifyKept, Zenon
<1>5. ASSUME NEW w \in Fds, Kq!Close(w)
      PROVE  KqueueInv'
  BY <1>5, CloseKept, Zenon
<1>6. ASSUME NEW w \in Fds, Kq!Read(w)
      PROVE  KqueueInv'
  BY <1>6, FiltersUntouched, Zenon DEF Kq!Read
<1>7. CASE Kq!Wake
  BY <1>7, FiltersUntouched, Zenon DEF Kq!Wake
<1>8. CASE Kq!PollStep
  <2>1. UNCHANGED <<kopen, kinterests, kudata>>
    BY <1>8, Zenon DEF Kq!PollStep, Kq!Poll, Kq!PollReturns
  <2>. QED  BY <2>1, FiltersUntouched, Zenon
<1>9. CASE Kq!PollInterrupted
  BY <1>9, FiltersUntouched, Zenon DEF Kq!PollInterrupted
<1>10. CASE UNCHANGED Kq!vars
  BY <1>10, FiltersUntouched, Zenon DEF Kq!vars
<1>. QED
  BY <1>1, <1>2, <1>3, <1>4, <1>5, <1>6, <1>7, <1>8, <1>9, <1>10, Zenon DEF Kq!Next, Kq!Connection

(* The kernel's filters are those the connections have recorded, for any     *)
(* number of descriptors and sockets: connection_set_interests may skip a    *)
(* change that conn->interests says has been made, after changes of which    *)
(* one filter failed, and when a number is used again.                       *)
THEOREM FiltersAreRecorded == Kq!Spec => []KqueueFilters
<1>1. Kq!Init => KqueueInv
  BY Zenon DEF Kq!Init, KqueueInv, KqueueFilters, Kq!KqueueFilters, Kq!Filters, Kq!Interests, Values
<1>2. KqueueInv => KqueueFilters
  BY Zenon DEF KqueueInv
<1>. QED  BY <1>1, <1>2, KqueueInvNext, PTL DEF Kq!Spec

-----------------------------------------------------------------------------
(* The table of watches of the Windows backend. *)
INSTANCE FiniteSetTheorems
INSTANCE WellFoundedInduction

WatchRecords == [socket : Files \cup {NoFile}, interests : SUBSET Interests, user : Files \cup {NoFile}]

(* What makes WatchesAreConnections inductive: no number is both free and   *)
(* in use, and two watches never have the same socket.                      *)
WindowsInv ==
  /\ wwatches \in [Win!Slots -> WatchRecords]
  /\ wopen \subseteq Files /\ wfresh \subseteq Files /\ wfresh \cap wopen = {}
  /\ \A i \in Win!Slots : wwatches[i] # Win!Empty => /\ wwatches[i].socket \in wopen
                                            /\ wwatches[i].user = wwatches[i].socket
  /\ \A s \in wopen : Win!Watched(s)
  /\ \A i, j \in Win!Slots : wwatches[i].socket \in wopen /\ wwatches[i].socket = wwatches[j].socket => i = j

(* Nat is well ordered. *)
LEMMA LeastNat ==
  ASSUME NEW S \in SUBSET Nat, S # {}
  PROVE  \E i \in S : \A j \in S : i <= j
<1>. DEFINE R == OpToRel(<, Nat)
<1>1. IsWellFoundedOn(R, Nat)
  BY NatLessThanWellFounded, Zenon
<1>2. \A a, b \in Nat : a < b => <<a, b>> \in R
  BY Zenon DEF OpToRel
<1>. HIDE DEF R
<1>3. PICK i \in S : \A j \in S : ~(<<j, i>> \in R)
  BY <1>1, WFMin, Zenon
<1>4. \A j \in S : ~(j < i)
  BY <1>2, <1>3, Zenon
<1>5. \A j \in S : i <= j
  BY <1>4
<1>. QED  BY <1>5, Zenon

(* A search of the table that can succeed finds a slot that fits. *)
LEMMA FirstFits ==
  ASSUME NEW S \in SUBSET Win!Slots, S # {}
  PROVE  Win!First(S) \in S
<1>1. S \subseteq Nat
  BY DEF Win!Slots
<1>2. \E i \in S : \A j \in S : i <= j
  BY <1>1, LeastNat, Zenon
<1>. QED  BY <1>2, Zenon DEF Win!First

(* find_watch finds the socket's watch when there is one. *)
LEMMA FindWatch ==
  ASSUME NEW s, Win!Watched(s)
  PROVE  Win!find_watch(s) \in Win!Slots /\ wwatches[Win!find_watch(s)].socket = s
  BY FirstFits DEF Win!Watched, Win!find_watch

(* alloc_watch finds an empty watch unless the table is full. *)
LEMMA AllocWatch ==
  ASSUME ~Win!Full
  PROVE  Win!alloc_watch \in Win!Slots /\ wwatches[Win!alloc_watch] = Win!Empty
  BY FirstFits DEF Win!Full, Win!alloc_watch

(* A watch whose socket is the worker's is not empty. *)
LEMMA EmptySocket ==
  ASSUME NoFile \notin Files
  PROVE  Win!Empty \in WatchRecords /\ Win!Empty.socket = NoFile /\ Win!Empty.socket \notin Files
  BY Zenon DEF Win!Empty, WatchRecords

(* A new connection gets an empty watch of the table. *)
LEMMA WatchRegisterKept ==
  ASSUME NoFile \notin Files, WindowsInv, NEW s \in Files, Win!Register(s)
  PROVE  WindowsInv'
<1>1. s \in wfresh /\ s \notin wopen /\ wfresh' = wfresh \ {s}
  BY Zenon DEF Win!Register, WindowsInv
<1>2. CASE UNCHANGED <<wopen, wwatches>>
  BY <1>1, <1>2, ZenonT(40) DEF WindowsInv, Win!Watched
<1>3. CASE ~Win!Full /\ Win!Selects(s, {"READ"}) /\ wopen' = wopen \cup {s}
  <2>. DEFINE n == Win!alloc_watch
              new == [socket |-> s, interests |-> {"READ"}, user |-> s]
  <2>1. ~Win!Watched(s)
    BY <1>1, EmptySocket, Zenon DEF Win!Watched, WindowsInv
  <2>2. n \in Win!Slots /\ wwatches[n] = Win!Empty
    BY <1>3, AllocWatch, Zenon
  <2>3. wwatches' = [wwatches EXCEPT ![n] = new]
    BY <1>3, <2>1, Zenon DEF Win!Selects, Win!SlotFor
  <2>. HIDE DEF n
  <2>4. new \in WatchRecords /\ new.socket = s /\ new.user = s
    BY Zenon DEF WatchRecords, Interests
  <2>5. /\ wwatches' \in [Win!Slots -> WatchRecords] /\ wwatches'[n] = new
        /\ \A i \in Win!Slots : i # n => wwatches'[i] = wwatches[i]
    BY <2>2, <2>3, <2>4, SMTT(30) DEF WindowsInv
  <2>. HIDE DEF new
  <2>6. /\ wopen' \subseteq Files /\ wfresh' \subseteq Files /\ wfresh' \cap wopen' = {}
    BY <1>1, <1>3, Zenon DEF WindowsInv
  <2>7. \A i \in Win!Slots : wwatches'[i] # Win!Empty => /\ wwatches'[i].socket \in wopen'
                                                /\ wwatches'[i].user = wwatches'[i].socket
    BY <1>3, <2>4, <2>5, SMTT(30) DEF WindowsInv
  <2>8. ASSUME NEW t \in wopen'
        PROVE  \E i \in Win!Slots : wwatches'[i].socket = t
    <3>1. CASE t = s
      BY <2>2, <2>4, <2>5, <3>1, ZenonT(40)
    <3>2. CASE t \in wopen
      <4>1. PICK i \in Win!Slots : wwatches[i].socket = t
        BY <3>2, Zenon DEF WindowsInv, Win!Watched
      <4>2. i # n
        BY <2>2, <3>2, <4>1, EmptySocket, ZenonT(40) DEF WindowsInv
      <4>. QED  BY <2>5, <4>1, <4>2, Zenon
    <3>. QED  BY <1>3, <3>1, <3>2, Zenon
  <2>9. ASSUME NEW i \in Win!Slots, NEW j \in Win!Slots,
               wwatches'[i].socket \in wopen', wwatches'[i].socket = wwatches'[j].socket
        PROVE  i = j
    <3>1. \A k \in Win!Slots : wwatches[k].socket # s
      BY <2>1, Zenon DEF Win!Watched
    <3>. QED  BY <1>3, <2>4, <2>5, <2>9, <3>1, ZenonT(40) DEF WindowsInv
  <2>. QED  BY <2>5, <2>6, <2>7, <2>8, <2>9, SMTT(30) DEF WindowsInv, Win!Watched
<1>. QED  BY <1>2, <1>3, Zenon DEF Win!Register

(* A change of interests keeps to the connection's own watch. *)
LEMMA WatchModifyKept ==
  ASSUME NoFile \notin Files, WindowsInv, NEW s \in Files,
         NEW ev \in {{"READ"}, {"READ", "WRITE"}}, Win!Modify(s, ev)
  PROVE  WindowsInv'
<1>. DEFINE n == Win!find_watch(s)
            new == [socket |-> s, interests |-> ev, user |-> s]
<1>1. s \in wopen /\ wopen' = wopen /\ wfresh' = wfresh
  BY Zenon DEF Win!Modify
<1>2. n \in Win!Slots /\ wwatches[n].socket = s /\ Win!SlotFor(s) = n
  BY <1>1, FindWatch, Zenon DEF WindowsInv, Win!SlotFor
<1>3. \/ wwatches' = [wwatches EXCEPT ![n] = new]
      \/ wwatches' = [wwatches EXCEPT ![n].interests = ev]
  BY <1>2, Zenon DEF Win!Modify, Win!Selects
<1>4. wwatches[n] \in WatchRecords /\ wwatches[n] # Win!Empty /\ wwatches[n].user = s
  BY <1>1, <1>2, EmptySocket, ZenonT(40) DEF WindowsInv
<1>. HIDE DEF n
<1>5. /\ new \in WatchRecords /\ new.socket = s /\ new.user = s
      /\ LET w == [wwatches[n] EXCEPT !.interests = ev]
         IN  w \in WatchRecords /\ w.socket = s /\ w.user = s
  BY <1>2, <1>4, Zenon DEF WatchRecords, Interests
<1>6. \E w \in WatchRecords : /\ w.socket = s /\ w.user = s
                         /\ wwatches' = [wwatches EXCEPT ![n] = w]
  BY <1>3, <1>5, Zenon
<1>7. PICK w \in WatchRecords : /\ w.socket = s /\ w.user = s
                           /\ wwatches' = [wwatches EXCEPT ![n] = w]
  BY <1>6, Zenon
<1>8. /\ wwatches' \in [Win!Slots -> WatchRecords] /\ wwatches'[n] = w
      /\ \A i \in Win!Slots : i # n => wwatches'[i] = wwatches[i]
  BY <1>2, <1>7, Zenon DEF WindowsInv
<1>9. \A i \in Win!Slots : wwatches'[i].socket = wwatches[i].socket
  BY <1>2, <1>7, <1>8, ZenonT(40)
<1>10. \A i \in Win!Slots : wwatches'[i] # Win!Empty => /\ wwatches'[i].socket \in wopen'
                                               /\ wwatches'[i].user = wwatches'[i].socket
  BY <1>1, <1>7, <1>8, ZenonT(40) DEF WindowsInv
<1>. QED  BY <1>1, <1>8, <1>9, <1>10, SMTT(30) DEF WindowsInv, Win!Watched

(* A closed connection leaves its watch empty, and its number free. *)
LEMMA WatchCloseKept ==
  ASSUME NoFile \notin Files, WindowsInv, NEW s \in Files, Win!Close(s)
  PROVE  WindowsInv'
<1>. DEFINE n == Win!find_watch(s)
<1>1. s \in wopen /\ wopen' = wopen \ {s} /\ wfresh' = wfresh \cup {s} /\ Win!Watched(s)
  BY Zenon DEF Win!Close, WindowsInv
<1>2. n \in Win!Slots /\ wwatches[n].socket = s /\ wwatches' = [wwatches EXCEPT ![n] = Win!Empty]
  BY <1>1, FindWatch, Zenon DEF Win!Close
<1>. HIDE DEF n
<1>3. /\ wwatches' \in [Win!Slots -> WatchRecords] /\ wwatches'[n] = Win!Empty
      /\ \A i \in Win!Slots : i # n => wwatches'[i] = wwatches[i]
  BY <1>2, EmptySocket, Zenon DEF WindowsInv
<1>4. \A i \in Win!Slots : i # n => wwatches[i].socket # s
  BY <1>1, <1>2, Zenon DEF WindowsInv
<1>5. wopen' \subseteq Files /\ wfresh' \subseteq Files /\ wfresh' \cap wopen' = {}
  BY <1>1, Zenon DEF WindowsInv
<1>6. \A i \in Win!Slots : wwatches'[i] # Win!Empty => /\ wwatches'[i].socket \in wopen'
                                              /\ wwatches'[i].user = wwatches'[i].socket
  BY <1>1, <1>3, <1>4, SMTT(30) DEF WindowsInv
<1>7. \A t \in wopen' : \E i \in Win!Slots : wwatches'[i].socket = t
  BY <1>1, <1>2, <1>3, Zenon DEF WindowsInv, Win!Watched
<1>8. \A i, j \in Win!Slots :
        wwatches'[i].socket \in wopen' /\ wwatches'[i].socket = wwatches'[j].socket => i = j
  BY <1>3, <1>5, <1>1, EmptySocket, ZenonT(40) DEF WindowsInv
<1>. QED  BY <1>3, <1>5, <1>6, <1>7, <1>8, ZenonT(40) DEF WindowsInv, Win!Watched

(* Winsock and the poll change neither the table nor the connections. *)
LEMMA TableUntouched ==
  ASSUME WindowsInv, UNCHANGED <<wfresh, wopen, wwatches>>
  PROVE  WindowsInv'
  BY Zenon DEF WindowsInv, Win!Watched

(* Every step preserves the invariant. *)
LEMMA WindowsInvNext ==
  ASSUME NoFile \notin Files
  PROVE  WindowsInv /\ [Win!Next]_(Win!vars) => WindowsInv'
<1>. SUFFICES ASSUME WindowsInv, [Win!Next]_(Win!vars)
              PROVE  WindowsInv'
  BY Zenon
<1>1. ASSUME NEW s \in Files, Win!RecordWrite(s) \/ Win!PeerSends(s)
      PROVE  WindowsInv'
  BY <1>1, TableUntouched, ZenonT(40) DEF Win!RecordWrite, Win!PeerSends
<1>2. ASSUME NEW s \in Files, Win!Register(s)
      PROVE  WindowsInv'
  BY <1>2, WatchRegisterKept, Zenon
<1>3. ASSUME NEW s \in Files, Win!Close(s)
      PROVE  WindowsInv'
  BY <1>3, WatchCloseKept, Zenon
<1>4. ASSUME NEW s \in Files, NEW ev \in {{"READ"}, {"READ", "WRITE"}},
             Win!Modify(s, ev)
      PROVE  WindowsInv'
  BY <1>4, WatchModifyKept, ZenonT(40)
<1>5. CASE Win!SetWake
  BY <1>5, TableUntouched, Zenon DEF Win!SetWake
<1>6. CASE Win!PollStep
  <2>1. UNCHANGED <<wfresh, wopen, wwatches>>
    BY <1>6, Zenon DEF Win!PollStep, Win!Read, Win!PollBegin, Win!PassOver, Win!TakeWake, Win!TakeEvents, Win!PollReturns
  <2>. QED  BY <2>1, TableUntouched, ZenonT(40)
<1>7. CASE UNCHANGED Win!vars
  BY <1>7, TableUntouched, Zenon DEF Win!vars
<1>. QED  BY <1>1, <1>2, <1>3, <1>4, <1>5, <1>6, <1>7, ZenonT(40) DEF Win!Next, Win!Connection

(* Cardinality as module Windows has it. *)
LEMMA SameCardinality == \A S : Win!Cardinality(S) = Cardinality(S)
  BY Zenon DEF Cardinality, Win!Cardinality

(* Two watches with one socket would be the same: the count is one. *)
LEMMA OneWatchEach ==
  ASSUME WindowsInv
  PROVE  WatchesAreConnections
<1>1. ASSUME NEW s \in wopen
      PROVE  Cardinality({i \in Win!Slots : wwatches[i].socket = s}) = 1
  <2>1. PICK n \in Win!Slots : wwatches[n].socket = s
    BY Zenon DEF WindowsInv, Win!Watched
  <2>2. {i \in Win!Slots : wwatches[i].socket = s} = {n}
    BY <2>1, Zenon DEF WindowsInv
  <2>. QED  BY <2>2, FS_Singleton, Zenon
<1>. QED  BY <1>1, SameCardinality, Zenon DEF WindowsInv, WatchesAreConnections, Win!WatchesAreConnections

(* The table has one watch for each connection, with its socket and its     *)
(* address, and no other, for every size of the table: a full table, failed *)
(* registrations and selections, closed connections and numbers used again  *)
(* leave nothing that takes a place in the wait (alloc_watch, find_watch).  *)
THEOREM OneWatchPerConnection == Win!Spec => []WatchesAreConnections
<1>0. NoFile \notin Files BY UringAssumptions, ZenonT(40) DEF UringAssumptions
<1>1. Win!Init => WindowsInv
  <2>. SUFFICES ASSUME Win!Init
                PROVE  WindowsInv
    BY Zenon
  <2>1. wwatches = [i \in Win!Slots |-> Win!Empty] /\ wopen = {} /\ wfresh = Files
    BY Zenon DEF Win!Init
  <2>2. wwatches \in [Win!Slots -> WatchRecords]
    BY <1>0, <2>1, EmptySocket, SMTT(30)
  <2>. QED  BY <2>1, <2>2, ZenonT(40) DEF WindowsInv
<1>2. WindowsInv => WatchesAreConnections
  BY <1>0, OneWatchEach, ZenonT(40)
<1>3. WindowsInv /\ [Win!Next]_(Win!vars) => WindowsInv'
  BY <1>0, WindowsInvNext, Zenon
<1>. QED  BY <1>1, <1>2, <1>3, PTL DEF Win!Spec

=============================================================================
