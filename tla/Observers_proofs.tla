-------------------------- MODULE Observers_proofs --------------------------
(* What the user of an observer is told. First PipeWire's: what a           *)
(* connection shows, whatever the graph and however often it changes, the   *)
(* callbacks and then the snapshot; a reconnect() forgets what was          *)
(* announced, so what a user was told is related to the mirror up to the    *)
(* first one. Then the observers that have a thread of their own (Hotplug)  *)
(* and those that a service calls (Watchers): their callbacks alternate.    *)
EXTENDS PwGraph, MCHotplug, DataLemmas

\* A port is listed from the step that announces it until its removal, and
\* what a user was told is about a port that was announced.
Mirrored ==
  /\ emitted \subseteq bound \cap Ports
  /\ listed \cap Ports \subseteq emitted

Told ==
  FirstConnection => /\ told \in [Ports -> {0, 1}]
                     /\ \A p \in Ports : told[p] = 1 => p \in emitted

IInv == reconnects \in Nat /\ Mirrored /\ Told

LEMMA InitIInv == ASSUME Init PROVE IInv
<1>1. listed \cap Ports = {} /\ emitted = {} /\ reconnects = 0 /\ told = [p \in Ports |-> 0]
  BY DEF Init
<1>2. Told
  BY <1>1 DEF Told
<1>. QED  BY <1>1, <1>2 DEF IInv, Mirrored

\* The steps the mirror and the observer have no part in.
LEMMA DaemonStep == ASSUME IInv, Daemon PROVE IInv'
<1>1. UNCHANGED <<reconnects, bound, emitted, listed, told>>
  BY DEF Daemon, Appear, Vanish, Update, Serve, mirror_vars, observer_vars
<1>. QED  BY <1>1 DEF IInv, Mirrored, Told, FirstConnection

LEMMA RegistryStep == ASSUME IInv, OnRegistryGlobal PROVE IInv'
<1>1. UNCHANGED <<reconnects, emitted, told>> /\ bound \subseteq bound'
  BY DEF OnRegistryGlobal, RegisterNode, RegisterPort, observer_vars
<1>2. listed' \cap Ports = listed \cap Ports
  BY IdsAssumption, SubsetsAssumption DEF OnRegistryGlobal, RegisterNode, RegisterPort
<1>. QED  BY <1>1, <1>2 DEF IInv, Mirrored, Told, FirstConnection

LEMMA NodeInfoStep == ASSUME IInv, OnNodeInfo PROVE IInv'
<1>1. UNCHANGED <<reconnects, bound, emitted, told>>
  BY DEF OnNodeInfo, observer_vars
<1>2. listed' \cap Ports = listed \cap Ports
  BY IdsAssumption DEF OnNodeInfo
<1>. QED  BY <1>1, <1>2 DEF IInv, Mirrored, Told, FirstConnection

LEMMA PortInfoStep == ASSUME IInv, OnPortInfo PROVE IInv'
<1>. DEFINE i == Head(wire).id
<1>1. i \in Ports /\ UNCHANGED <<reconnects, bound>>
  BY DEF OnPortInfo
<1>2. CASE i \notin bound
  <2>1. UNCHANGED <<listed, emitted, told>>
    BY <1>2 DEF OnPortInfo, observer_vars
  <2>. QED  BY <1>1, <2>1 DEF IInv, Mirrored, Told, FirstConnection
<1>3. CASE i \in bound
  <2>1. emitted' = emitted \cup {i} /\ listed' = listed \cup {i, NodeOf[i]}
    BY <1>3 DEF OnPortInfo, MirrorPort
  <2>2. NodeOf[i] \notin Ports
    BY <1>1, IdsAssumption, NodeOfAssumption
  <2>3. Mirrored'
    BY <1>1, <1>3, <2>1, <2>2 DEF IInv, Mirrored
  <2>4. CASE i \in emitted
    <3>1. told' = told
      BY <1>3, <2>4 DEF OnPortInfo, observer_vars
    <3>. QED  BY <1>1, <2>1, <2>3, <3>1 DEF IInv, Told, FirstConnection
  <2>5. CASE i \notin emitted
    <3>1. told' = told \/ told' = [told EXCEPT ![i] = @ + 1]
      BY <1>3, <2>5 DEF OnPortInfo, CallAdded
    <3>2. FirstConnection => told[i] = 0
      BY <1>1, <2>5 DEF IInv, Told, FirstConnection
    <3>3. FirstConnection => told' = told \/ told' = [told EXCEPT ![i] = 1]
      BY <3>1, <3>2
    <3>. QED  BY <1>1, <2>1, <2>3, <3>3 DEF IInv, Told, FirstConnection
  <2>. QED  BY <2>4, <2>5
<1>. QED  BY <1>2, <1>3

LEMMA RemoveStep == ASSUME IInv, OnRegistryGlobalRemove PROVE IInv'
<1>. DEFINE i == Head(wire).id
<1>1. reconnects' = reconnects /\ bound' = bound \ {i} /\ emitted' = emitted \ {i}
  BY DEF OnRegistryGlobalRemove
<1>2. listed' \subseteq listed /\ (i \in bound => i \notin listed')
  BY DEF OnRegistryGlobalRemove
<1>3. Mirrored'
  BY <1>1, <1>2 DEF IInv, Mirrored
<1>4. CASE i \in bound \cap Ports
  <2>1. told' = [told EXCEPT ![i] = 0]
    BY <1>4 DEF OnRegistryGlobalRemove, CallRemoved
  <2>. QED  BY <1>1, <1>3, <1>4, <2>1 DEF IInv, Told, FirstConnection
<1>5. CASE i \notin bound \cap Ports
  <2>1. told' = told /\ i \notin emitted
    BY <1>5 DEF OnRegistryGlobalRemove, observer_vars, IInv, Mirrored
  <2>. QED  BY <1>1, <1>3, <2>1 DEF IInv, Told, FirstConnection
<1>. QED  BY <1>4, <1>5

LEMMA ApplicationStep == ASSUME IInv, OnCoreDone \/ Application PROVE IInv'
<1>1. CASE OnCoreDone \/ (\E n \in Syncs : Synchronize(n))
  <2>1. UNCHANGED <<reconnects, bound, emitted, listed, told>>
    BY <1>1 DEF OnCoreDone, Synchronize, mirror_vars, observer_vars
  <2>. QED  BY <2>1 DEF IInv, Mirrored, Told, FirstConnection
<1>2. CASE \E notify \in BOOLEAN : Construct(notify)
  <2>1. UNCHANGED <<reconnects, bound, emitted, listed>>
    BY <1>2 DEF Construct, mirror_vars
  <2>2. PICK shown \in SUBSET listed : told' = [p \in Ports |-> IF p \in shown THEN 1 ELSE 0]
    <3>1. PICK notify \in BOOLEAN : Construct(notify)
      BY <1>2
    <3> DEFINE shown == IF notify THEN listed \cap Tracked ELSE {}
    <3>2. shown \in SUBSET listed /\ told' = [p \in Ports |-> IF p \in shown THEN 1 ELSE 0]
      BY <3>1 DEF Construct
    <3> HIDE DEF shown
    <3>. QED  BY <3>2
  <2>. QED  BY <2>1, <2>2 DEF IInv, Mirrored, Told, FirstConnection
<1>3. CASE Destroy
  <2>1. UNCHANGED <<reconnects, bound, emitted, listed>> /\ told' = [p \in Ports |-> 0]
    BY <1>3 DEF Destroy, mirror_vars
  <2>. QED  BY <2>1 DEF IInv, Mirrored, Told, FirstConnection
<1>4. CASE Reconnect
  <2>1. reconnects' = reconnects + 1 /\ emitted' = {} /\ listed' = {}
    BY <1>4 DEF Reconnect
  <2>2. reconnects' \in Nat /\ ~FirstConnection'
    BY <2>1 DEF IInv, FirstConnection
  <2>. QED  BY <2>1, <2>2 DEF IInv, Mirrored, Told
<1>. QED  BY <1>1, <1>2, <1>3, <1>4 DEF Application

LEMMA StepIInv == ASSUME IInv, [Next]_vars PROVE IInv'
<1>1. CASE UNCHANGED vars
  BY <1>1 DEF vars, mirror_vars, observer_vars, IInv, Mirrored, Told, FirstConnection
<1>2. CASE Next
  BY <1>2, DaemonStep, RegistryStep, NodeInfoStep, PortInfoStep, RemoveStep, ApplicationStep
  DEF Next, Worker
<1>. QED  BY <1>1, <1>2

\* No port fires twice: the walk of the snapshot in the constructor of the
\* observer and the added events that follow it never announce the same one.
THEOREM AddedOnceTheorem == Spec => []AddedOnce
<1>1. Init => IInv
  BY InitIInv
<1>2. IInv /\ [Next]_vars => IInv'
  BY StepIInv
<1>3. IInv => AddedOnce
  BY DEF IInv, Told, AddedOnce
<1>. QED  BY <1>1, <1>2, <1>3, PTL DEF Spec

-----------------------------------------------------------------------------
(* An observer that only listens is a PortDirectory.                       *)

\* Its user believes in the ports of the cache that he tracks.
Counted ==
  /\ cache \subseteq emitted
  /\ count = [p \in Ports |-> IF p \in cache \cap Tracked THEN 1 ELSE 0]

Believed == (~observer => cache = {} /\ ~walked) /\ (Listening => Counted)

\* Nothing is heard of an observer that has walked, or after a reconnect().
LEMMA Unheard == ASSUME ~Listening' PROVE Directory!Next
<1>1. Heard' = [p \in Ports |-> 0]
  BY DEF Heard
<1>. QED  BY <1>1 DEF Directory!Next, Directory!Closed

LEMMA QuietBelieved ==
  ASSUME Believed, emitted \subseteq emitted', UNCHANGED <<reconnects, observer, walked, cache, count>>
  PROVE Believed' /\ UNCHANGED Heard
<1>1. Listening' <=> Listening
  BY DEF Listening, FirstConnection
<1>. QED  BY <1>1 DEF Believed, Counted, Heard

LEMMA AddedCounted ==
  ASSUME NEW i \in Ports, Counted, Listening, Listening', CallAdded(i),
         i \notin emitted, emitted' = emitted \cup {i}
  PROVE  Counted' /\ [Directory!Next]_Heard
<1>1. Heard = count /\ Heard' = count' /\ i \notin cache
  BY DEF Heard, Counted
<1>2. CASE observer /\ i \in Tracked
  <2>1. cache' = cache \cup {i} /\ count' = [count EXCEPT ![i] = @ + 1]
    BY <1>2, SubsetsAssumption DEF CallAdded
  <2>2. count[i] = 0
    BY <1>1 DEF Counted
  <2>3. count' = [count EXCEPT ![i] = 1]
    BY <2>1, <2>2
  <2>4. Directory!Added({i})
    BY <1>1, <2>2, <2>3 DEF Directory!Added, Counted
  <2>5. Counted'
    BY <1>2, <2>1, <2>3 DEF Counted
  <2>6. {i} \in SUBSET Ports
    OBVIOUS
  <2>7. Directory!Next
    BY <2>4, <2>6 DEF Directory!Next
  <2>. QED  BY <2>5, <2>7
<1>3. CASE ~(observer /\ i \in Tracked)
  <2>1. count' = count
    BY <1>3 DEF CallAdded
  <2>2. cache' \subseteq cache \cup {i} /\ cache' \cap Tracked = cache \cap Tracked
    BY <1>1, <1>3 DEF CallAdded
  <2>. QED  BY <1>1, <2>1, <2>2 DEF Counted
<1>. QED  BY <1>2, <1>3

LEMMA AddedBelieved ==
  ASSUME IInv, Believed, OnPortInfo PROVE Believed' /\ [Directory!Next]_Heard
<1>. DEFINE i == Head(wire).id
<1>1. CASE i \notin bound \/ i \in emitted
  <2>1. emitted \subseteq emitted' /\ UNCHANGED <<reconnects, observer, walked, cache, count>>
    BY <1>1 DEF OnPortInfo, observer_vars
  <2>. QED  BY <2>1, QuietBelieved
<1>2. CASE i \in bound /\ i \notin emitted
  <2>1. i \in Ports /\ emitted' = emitted \cup {i} /\ CallAdded(i) /\ UNCHANGED reconnects
    BY <1>2 DEF OnPortInfo
  <2>2. UNCHANGED <<observer, walked>> /\ (~observer => cache' = cache)
    BY <2>1 DEF CallAdded
  <2>3. Listening' <=> Listening
    BY <2>1, <2>2 DEF Listening, FirstConnection
  <2>4. CASE Listening
    BY <1>2, <2>1, <2>2, <2>3, <2>4, AddedCounted DEF Believed
  <2>5. CASE ~Listening
    BY <2>2, <2>3, <2>5, Unheard DEF Believed
  <2>. QED  BY <2>4, <2>5
<1>. QED  BY <1>1, <1>2

LEMMA RemovedCounted ==
  ASSUME NEW i \in Ports, Counted, Listening, Listening', CallRemoved(i),
         emitted' = emitted \ {i}
  PROVE  Counted' /\ [Directory!Next]_Heard
<1>1. Heard = count /\ Heard' = count' /\ cache' = cache \ {i}
  BY DEF Heard, CallRemoved
<1>2. CASE i \in cache \cap Tracked
  <2>1. count' = [count EXCEPT ![i] = @ - 1] /\ count[i] = 1
    BY <1>2 DEF CallRemoved, Counted
  <2>2. count' = [count EXCEPT ![i] = 0]
    BY <2>1
  <2>3. Directory!Removed(i)
    BY <1>1, <2>1, <2>2 DEF Directory!Removed
  <2>4. Counted'
    BY <1>1, <2>2 DEF Counted
  <2>. QED  BY <2>3, <2>4 DEF Directory!Next
<1>3. CASE i \notin cache \cap Tracked
  <2>1. count' = count /\ cache' \cap Tracked = cache \cap Tracked
    BY <1>1, <1>3 DEF CallRemoved
  <2>. QED  BY <1>1, <2>1 DEF Counted
<1>. QED  BY <1>2, <1>3

LEMMA RemovedBelieved ==
  ASSUME IInv, Believed, OnRegistryGlobalRemove
  PROVE  Believed' /\ [Directory!Next]_Heard
<1>. DEFINE i == Head(wire).id
<1>1. emitted' = emitted \ {i} /\ UNCHANGED reconnects
  BY DEF OnRegistryGlobalRemove
<1>2. CASE i \notin bound \cap Ports
  <2>1. UNCHANGED <<observer, walked, cache, count>> /\ i \notin emitted
    BY <1>2 DEF OnRegistryGlobalRemove, observer_vars, IInv, Mirrored
  <2>2. emitted \subseteq emitted'
    BY <1>1, <2>1
  <2>. QED  BY <1>1, <2>1, <2>2, QuietBelieved
<1>3. CASE i \in bound \cap Ports
  <2>1. CallRemoved(i) /\ UNCHANGED <<observer, walked>> /\ cache' \subseteq cache
    BY <1>3 DEF OnRegistryGlobalRemove, CallRemoved
  <2>2. Listening' <=> Listening
    BY <1>1, <2>1 DEF Listening, FirstConnection
  <2>3. CASE Listening
    BY <1>1, <1>3, <2>1, <2>2, <2>3, RemovedCounted DEF Believed
  <2>4. CASE ~Listening
    BY <2>1, <2>2, <2>4, Unheard DEF Believed
  <2>. QED  BY <2>3, <2>4
<1>. QED  BY <1>2, <1>3

\* A new observer has announced nothing that its user counts, and an observer
\* that goes takes what was counted with it.
LEMMA ClosedBelieved ==
  ASSUME Believed, (\E notify \in BOOLEAN : Construct(notify)) \/ Destroy
  PROVE  Believed' /\ [Directory!Next]_Heard
<1>1. cache' = {} /\ (~observer' => ~walked')
  BY DEF Construct, Destroy, Believed
<1>2. CASE Listening'
  <2>1. count' = [p \in Ports |-> 0]
    BY <1>2 DEF Construct, Destroy, Listening
  <2>2. Heard' = [p \in Ports |-> 0]
    BY <1>2, <2>1 DEF Heard
  <2>3. Directory!Next
    BY <2>2 DEF Directory!Next, Directory!Closed
  <2>4. Counted'
    BY <1>1, <2>1 DEF Counted
  <2>. QED  BY <1>1, <2>3, <2>4 DEF Believed
<1>3. CASE ~Listening'
  BY <1>1, <1>3, Unheard DEF Believed
<1>. QED  BY <1>2, <1>3

LEMMA ReconnectBelieved ==
  ASSUME IInv, Believed, Reconnect PROVE Believed' /\ [Directory!Next]_Heard
<1>1. reconnects' = reconnects + 1 /\ UNCHANGED <<observer, walked, cache>>
  BY DEF Reconnect, observer_vars
<1>2. ~Listening'
  BY <1>1 DEF IInv, Listening, FirstConnection
<1>. QED  BY <1>1, <1>2, Unheard DEF Believed

LEMMA StepBelieved ==
  ASSUME IInv, Believed, [Next]_vars PROVE Believed' /\ [Directory!Next]_Heard
<1>1. CASE UNCHANGED vars \/ Daemon \/ OnRegistryGlobal \/ OnNodeInfo \/ OnCoreDone
           \/ (\E n \in Syncs : Synchronize(n))
  <2>1. UNCHANGED <<reconnects, emitted, observer, walked, cache, count>>
    BY <1>1 DEF vars, Daemon, Appear, Vanish, Update, Serve, OnRegistryGlobal, OnNodeInfo,
                OnCoreDone, Synchronize, mirror_vars, observer_vars
  <2>. QED  BY <2>1, QuietBelieved
<1>. QED  BY <1>1, AddedBelieved, RemovedBelieved, ClosedBelieved, ReconnectBelieved
          DEF Next, Worker, Application

\* The callbacks of an observer that does not walk the snapshot alternate per
\* port, added first, whatever the daemon announces and in whatever order the
\* observer comes and goes: PwGraph implements PortDirectory.
THEOREM RefinementTheorem == Spec => CallbacksAlternate
<1>1. Init => IInv /\ Believed /\ Directory!Init
  <2>1. ASSUME Init PROVE Believed /\ Directory!Init
    <3>1. count = [p \in Ports |-> 0] /\ cache = {} /\ emitted = {} /\ walked = FALSE
      BY <2>1 DEF Init
    <3>2. Counted /\ Heard = [p \in Ports |-> 0]
      BY <3>1 DEF Counted, Heard
    <3>. QED  BY <3>1, <3>2 DEF Believed, Directory!Init
  <2>. QED  BY <2>1, InitIInv
<1>2. IInv /\ Believed /\ [Next]_vars => (IInv /\ Believed)' /\ [Directory!Next]_Heard
  BY StepIInv, StepBelieved
<1>. QED  BY <1>1, <1>2, PTL DEF Spec, CallbacksAlternate, Directory!Spec

-----------------------------------------------------------------------------
(* Types. *)

Requests == [kind : {"bind", "refused"}, id : Ids] \cup [kind : {"sync"}, id : Syncs]
Happenings == [kind : {"global", "info", "remove"}, id : Ids] \cup [kind : {"done"}, id : Syncs]

GraphTypes == /\ graph \subseteq Ids /\ changes \in 0..MaxChanges /\ reconnects \in 0..MaxReconnects
              /\ resources \subseteq graph /\ initial \subseteq Ports /\ making \in Making
QueueTypes == requests \in Seq(Requests) /\ wire \in Seq(Happenings)
MirrorTypes == bound \subseteq Ids /\ emitted \subseteq Ports /\ listed \subseteq Ids
ObserverTypes == /\ observer \in BOOLEAN /\ walked \in BOOLEAN /\ cache \subseteq Matching
                 /\ count \in [Ports -> Nat] /\ told \in [Ports -> Nat]

\* A removed callback is the answer to an added one.
Paired == \A p \in cache \cap Tracked : count[p] # 0

Life(i) == Occurs(Event("global", i), wire) \/ Occurs(Event("remove", i), wire)
Asking(i) == Occurs(Event("bind", i), requests)
Answered(i) == Occurs(Event("info", i), wire)

\* What the daemon has bound, or is asked to bind, exists, and the worker will
\* hear no more of its coming or going.
Served == \A i \in Ids : i \in resources \/ Asking(i) => i \in graph \cap bound /\ ~Life(i)

LEMMA TypeParts ==
  /\ TypeOK <=> GraphTypes /\ QueueTypes /\ MirrorTypes /\ ObserverTypes
  /\ TypeOK' <=> GraphTypes' /\ QueueTypes' /\ MirrorTypes' /\ ObserverTypes'
BY DEF TypeOK, GraphTypes, QueueTypes, MirrorTypes, ObserverTypes, Requests, Happenings

LEMMA EventTypes ==
  /\ \A i \in Ids : \A k \in {"global", "info", "remove"} : Event(k, i) \in Happenings
  /\ \A i \in Ids : \A k \in {"bind", "refused"} : Event(k, i) \in Requests
  /\ \A n \in Syncs : Event("sync", n) \in Requests /\ Event("done", n) \in Happenings
  /\ \A e \in Happenings : /\ e.kind \in {"global", "info", "remove"} => e.id \in Ids /\ e = Event(e.kind, e.id)
                           /\ e.kind \in {"global", "info", "remove", "done"}
                           /\ e.kind = "done" => e.id \in Syncs /\ e = Event("done", e.id)
  /\ \A r \in Requests : /\ r.kind \in {"bind", "refused"} => r.id \in Ids /\ r = Event(r.kind, r.id)
                         /\ r.kind \in {"bind", "refused", "sync"}
                         /\ r.kind = "sync" => r.id \in Syncs /\ r = Event("sync", r.id)
  /\ \A k, l, i, j : Event(k, i) = Event(l, j) <=> k = l /\ i = j
  /\ \A k, i : Event(k, i).kind = k /\ Event(k, i).id = i
BY DEF Event, Happenings, Requests

\* A dump announces each global once, a node before its ports.
LEMMA DumpLaw ==
  ASSUME NEW s \in Dumps
  PROVE  \E n \in Nat :
           /\ DOMAIN s = 1..n /\ \A i \in 1..n : s[i] \in Ids
           /\ \A i, j \in 1..n : i # j => s[i] # s[j]
           /\ \A i \in 1..n : s[i] \in Ports => \E j \in 1..i : s[j] = NodeOf[s[i]]
           /\ Globals(s) \in Seq(Happenings) /\ DOMAIN Globals(s) = 1..n /\ Len(Globals(s)) = n
           /\ \A i \in 1..n : Globals(s)[i] = Event("global", s[i])
           /\ Announced(s) \subseteq Ids
<1>1. PICK n \in Nat : s \in [1..n -> Ids]
  BY DEF Dumps
<1>2. /\ DOMAIN s = 1..n /\ \A i \in 1..n : s[i] \in Ids
      /\ \A i, j \in 1..n : i # j => s[i] # s[j]
      /\ \A i \in 1..n : s[i] \in Ports => \E j \in 1..i : s[j] = NodeOf[s[i]]
  BY <1>1 DEF Dumps
<1>3. Globals(s) = [i \in 1..n |-> Event("global", s[i])]
  BY <1>2 DEF Globals
<1>4. \A i \in 1..n : Event("global", s[i]) \in Happenings
  BY <1>2, EventTypes
<1>5. Globals(s) \in Seq(Happenings) /\ DOMAIN Globals(s) = 1..n /\ Len(Globals(s)) = n
  BY <1>3, <1>4
<1> QED  BY <1>2, <1>3, <1>5 DEF Announced

LEMMA MarkLaw ==
  ASSUME NEW i, QueueTypes
  PROVE  LET marked == [k \in DOMAIN requests |-> Refuse(requests[k], i)] IN
         /\ marked \in Seq(Requests) /\ DOMAIN marked = DOMAIN requests
         /\ \A k \in DOMAIN requests : requests[k] # Event("bind", i) => marked[k] = requests[k]
         /\ \A k \in DOMAIN requests : requests[k] = Event("bind", i) => marked[k] = Event("refused", i)
<1> DEFINE marked == [k \in DOMAIN requests |-> Refuse(requests[k], i)]
<1>1. requests \in Seq(Requests) /\ DOMAIN requests = 1..Len(requests) /\ Len(requests) \in Nat
  BY DEF QueueTypes
<1>2. ASSUME NEW k \in 1..Len(requests) PROVE Refuse(requests[k], i) \in Requests
  <2>1. requests[k] \in Requests
    BY <1>1, ElementOfSeq
  <2>2. CASE requests[k] = Event("bind", i)
    <3>1. i \in Ids
      BY <2>1, <2>2, EventTypes
    <3> QED  BY <2>2, <3>1, EventTypes DEF Refuse
  <2>3. CASE requests[k] # Event("bind", i)
    BY <2>1, <2>3 DEF Refuse
  <2> QED  BY <2>2, <2>3
<1>3. marked \in Seq(Requests)
  BY <1>1, <1>2
<1> QED  BY <1>1, <1>3 DEF Refuse

\* What the worker takes from the wire.
LEMMA ReceiveLaw ==
  ASSUME QueueTypes, NEW k, Receive(k)
  PROVE  LET i == Head(wire).id IN
         /\ wire \in Seq(Happenings) /\ wire # <<>> /\ wire' = Tail(wire) /\ wire' \in Seq(Happenings)
         /\ Head(wire) = Event(k, i)
         /\ k \in {"global", "info", "remove"} => i \in Ids
         /\ k = "done" => i \in Syncs
<1>1. wire \in Seq(Happenings) /\ wire # <<>> /\ wire' = Tail(wire) /\ Head(wire).kind = k
  BY DEF QueueTypes, Receive
<1>2. Head(wire) \in Happenings /\ Tail(wire) \in Seq(Happenings)
  BY <1>1, OneLess
<1> QED  BY <1>1, <1>2, EventTypes

\* A change of the graph is counted.
LEMMA ChangeLaw == ASSUME GraphTypes, Change PROVE changes' \in 0..MaxChanges
<1>1. changes \in 0..MaxChanges /\ changes < MaxChanges /\ changes' = changes + 1 /\ MaxChanges \in Nat
  BY BoundsAssumption DEF GraphTypes, Change
<1> QED  BY <1>1

LEMMA TypeStep == ASSUME TypeOK, Paired, Served, Believed, [Next]_vars PROVE TypeOK' /\ Paired'
<1>0. GraphTypes /\ QueueTypes /\ MirrorTypes /\ ObserverTypes /\ wire \in Seq(Happenings) /\ requests \in Seq(Requests)
  BY TypeParts DEF QueueTypes
<1>1. ASSUME UNCHANGED observer_vars PROVE ObserverTypes' /\ Paired'
  BY <1>0, <1>1 DEF observer_vars, ObserverTypes, Paired
<1>2. ASSUME UNCHANGED mirror_vars PROVE MirrorTypes'
  BY <1>0, <1>2 DEF mirror_vars, MirrorTypes
<1>3. ASSUME UNCHANGED <<daemon_vars, reconnects>>, making' \in Making PROVE GraphTypes'
  BY <1>0, <1>3 DEF daemon_vars, GraphTypes
<1>4. ASSUME NEW i \in Ids, Appear(i) \/ Update(i) PROVE TypeOK' /\ Paired'
  <2>1. \E e \in Happenings : wire' = Append(wire, e)
    BY <1>4, EventTypes DEF Appear, Update
  <2>2. QueueTypes'
    BY <1>0, <1>4, <2>1, OneMore DEF QueueTypes, Appear, Update
  <2>3. GraphTypes'
    <3>1. changes' \in 0..MaxChanges
      BY <1>0, <1>4, ChangeLaw DEF Appear, Update
    <3>2. graph' \subseteq Ids /\ graph \subseteq graph' /\ UNCHANGED <<resources, initial, making, reconnects>>
      BY <1>0, <1>4 DEF GraphTypes, Appear, Update
    <3> QED  BY <1>0, <3>1, <3>2 DEF GraphTypes
  <2>4. UNCHANGED <<mirror_vars, observer_vars>>
    BY <1>4 DEF Appear, Update
  <2> QED  BY <1>1, <1>2, <2>2, <2>3, <2>4, TypeParts
<1>5. ASSUME NEW i \in Ids, Vanish(i) PROVE TypeOK' /\ Paired'
  <2>1. QueueTypes'
    <3>1. wire' \in Seq(Happenings)
      BY <1>0, <1>5, EventTypes, OneMore DEF Vanish
    <3>2. requests' \in Seq(Requests)
      BY <1>0, <1>5, MarkLaw DEF Vanish
    <3> QED  BY <3>1, <3>2 DEF QueueTypes
  <2>2. GraphTypes'
    <3>1. changes' \in 0..MaxChanges
      BY <1>0, <1>5, ChangeLaw DEF Vanish
    <3>2. /\ graph' = graph \ {i} /\ resources' = resources \ {i} /\ initial' = initial \ {i}
          /\ UNCHANGED <<making, reconnects>>
      BY <1>5 DEF Vanish
    <3> QED  BY <1>0, <3>1, <3>2 DEF GraphTypes
  <2>3. UNCHANGED <<mirror_vars, observer_vars>>
    BY <1>5 DEF Vanish
  <2> QED  BY <1>1, <1>2, <2>1, <2>2, <2>3, TypeParts
<1>6. CASE Serve
  <2> DEFINE r == Head(requests)
  <2>1. requests # <<>> /\ r \in Requests /\ Tail(requests) \in Seq(Requests) /\ Occurs(r, requests)
    BY <1>0, <1>6, OneLess DEF Serve
  <2>2. wire' = wire \/ \E e \in Happenings : wire' = Append(wire, e)
    <3>1. r.kind = "bind" => Event("info", r.id) \in Happenings
      BY <2>1, EventTypes
    <3>2. r.kind = "sync" => Event("done", r.id) \in Happenings
      BY <2>1, EventTypes
    <3>3. wire' = CASE r.kind = "bind" -> Append(wire, Event("info", r.id))
                    [] r.kind = "sync" -> Append(wire, Event("done", r.id))
                    [] OTHER -> wire
      BY <1>6 DEF Serve
    <3> HIDE DEF r
    <3> QED  BY <3>1, <3>2, <3>3
  <2>3. QueueTypes'
    BY <1>0, <1>6, <2>1, <2>2, OneMore DEF QueueTypes, Serve
  <2>4. GraphTypes'
    <3>1. r.kind = "bind" => r.id \in graph
      BY <2>1, EventTypes DEF Served, Asking
    <3>2. resources' \subseteq graph /\ UNCHANGED <<graph, changes, initial, making, reconnects>>
      BY <1>0, <1>6, <3>1 DEF GraphTypes, Serve
    <3> QED  BY <1>0, <3>2 DEF GraphTypes
  <2>5. UNCHANGED <<mirror_vars, observer_vars>>
    BY <1>6 DEF Serve
  <2> QED  BY <1>1, <1>2, <2>3, <2>4, <2>5, TypeParts
<1>7. CASE OnRegistryGlobal
  <2> DEFINE i == Head(wire).id
  <2>1. Receive("global") /\ i \in Ids /\ wire' \in Seq(Happenings)
    BY <1>0, <1>7, ReceiveLaw DEF OnRegistryGlobal
  <2>2. /\ bound' = bound \cup {i} /\ listed' \subseteq listed \cup {i} /\ emitted' = emitted
        /\ requests' = requests \/ requests' = Append(requests, Event("bind", i))
    BY <1>7 DEF OnRegistryGlobal, RegisterNode, RegisterPort, Bind
  <2>3. QueueTypes'
    <3>1. requests \in Seq(Requests)
      BY <1>0 DEF QueueTypes
    <3>2. Event("bind", i) \in Requests
      BY <2>1, EventTypes
    <3> DEFINE e == Event("bind", i)
    <3> HIDE DEF e
    <3>3. e \in Requests => Append(requests, e) \in Seq(Requests)
      BY <3>1
    <3>4. requests' \in Seq(Requests)
      BY <2>2, <3>1, <3>2, <3>3, Zenon DEF e
    <3> QED  BY <2>1, <3>4 DEF QueueTypes
  <2>4. MirrorTypes'
    BY <1>0, <2>1, <2>2 DEF MirrorTypes
  <2>5. UNCHANGED <<daemon_vars, making, reconnects, observer_vars>> /\ making' \in Making
    BY <1>0, <1>7 DEF OnRegistryGlobal, GraphTypes
  <2> QED  BY <1>1, <1>3, <2>3, <2>4, <2>5, TypeParts
<1>8. CASE OnNodeInfo
  <2> DEFINE i == Head(wire).id
  <2>1. i \in Ids /\ wire' \in Seq(Happenings)
    BY <1>0, <1>8, ReceiveLaw DEF OnNodeInfo
  <2>2. /\ listed' \subseteq listed \cup {i} /\ UNCHANGED <<daemon_vars, requests, bound, emitted, reconnects, observer_vars>>
        /\ making' \in Making
    BY <1>0, <1>8 DEF OnNodeInfo, GraphTypes
  <2>3. QueueTypes' /\ MirrorTypes'
    BY <1>0, <2>1, <2>2 DEF QueueTypes, MirrorTypes
  <2> QED  BY <1>1, <1>3, <2>2, <2>3, TypeParts
<1>9. CASE OnPortInfo
  <2> DEFINE i == Head(wire).id
  <2>1. i \in Ports /\ NodeOf[i] \in Ids /\ i \in Ids /\ wire' \in Seq(Happenings)
    BY <1>0, <1>9, ReceiveLaw, NodeOfAssumption DEF OnPortInfo, Ids
  <2>2. /\ listed' \subseteq listed \cup {i, NodeOf[i]} /\ emitted' \subseteq emitted \cup {i}
        /\ UNCHANGED <<daemon_vars, requests, bound, reconnects>> /\ making' \in Making
    BY <1>0, <1>9 DEF OnPortInfo, GraphTypes, MirrorPort
  <2>3. QueueTypes' /\ MirrorTypes'
    BY <1>0, <2>1, <2>2 DEF QueueTypes, MirrorTypes
  <2>4. ObserverTypes' /\ Paired'
    <3>1. CASE UNCHANGED observer_vars
      BY <1>1, <3>1
    <3>2. CASE CallAdded(i)
      <4>1. UNCHANGED <<observer, walked>> /\ cache' = IF observer /\ i \in Matching THEN cache \cup {i} ELSE cache
        BY <3>2 DEF CallAdded
      <4>2. CASE observer /\ i \in Tracked
        <5>1. count' = [count EXCEPT ![i] = count[i] + 1] /\ told' = [told EXCEPT ![i] = told[i] + 1]
          BY <3>2, <4>2 DEF CallAdded
        <5>2. count[i] + 1 \in Nat \ {0} /\ told[i] + 1 \in Nat
          BY <1>0, <2>1 DEF ObserverTypes
        <5> HIDE DEF i
        <5>3. ObserverTypes'
          BY <1>0, <2>1, <4>1, <5>1, <5>2 DEF ObserverTypes
        <5>4. ASSUME NEW p \in cache' \cap Tracked PROVE count'[p] # 0
          BY <1>0, <2>1, <4>1, <5>1, <5>2, SubsetsAssumption DEF ObserverTypes, Paired
        <5> QED  BY <5>3, <5>4 DEF Paired
      <4>3. CASE ~(observer /\ i \in Tracked)
        <5>1. UNCHANGED <<count, told>>
          BY <3>2, <4>3 DEF CallAdded
        <5>2. cache' \cap Tracked \subseteq cache \cap Tracked
          BY <4>1, <4>3
        <5> QED  BY <1>0, <4>1, <5>1, <5>2 DEF ObserverTypes, Paired
      <4> QED  BY <4>2, <4>3
    <3> QED  BY <1>9, <3>1, <3>2 DEF OnPortInfo, observer_vars
  <2> QED  BY <1>3, <2>2, <2>3, <2>4, TypeParts
<1>10. CASE OnRegistryGlobalRemove
  <2> DEFINE i == Head(wire).id
  <2>1. i \in Ids /\ wire' \in Seq(Happenings)
    BY <1>0, <1>10, ReceiveLaw DEF OnRegistryGlobalRemove
  <2>2. /\ listed' \subseteq listed /\ emitted' \subseteq emitted /\ bound' \subseteq bound
        /\ UNCHANGED <<daemon_vars, requests, reconnects>> /\ making' \in Making
    BY <1>0, <1>10 DEF OnRegistryGlobalRemove, GraphTypes
  <2>3. QueueTypes' /\ MirrorTypes'
    BY <1>0, <2>1, <2>2 DEF QueueTypes, MirrorTypes
  <2>4. ObserverTypes' /\ Paired'
    <3>1. CASE UNCHANGED observer_vars
      BY <1>1, <3>1
    <3>2. CASE i \in Ports /\ CallRemoved(i)
      <4>1. UNCHANGED <<observer, walked>> /\ cache' = cache \ {i} /\ told' = [told EXCEPT ![i] = 0]
        BY <3>2 DEF CallRemoved
      <4>2. count' = count \/ (count' = [count EXCEPT ![i] = count[i] - 1] /\ i \in cache \cap Tracked)
        BY <3>2 DEF CallRemoved
      <4>3. i \in cache \cap Tracked => count[i] - 1 \in Nat
        BY <1>0, <3>2 DEF ObserverTypes, Paired
      <4> HIDE DEF i
      <4>4. ObserverTypes'
        BY <1>0, <4>1, <4>2, <4>3 DEF ObserverTypes
      <4>5. ASSUME NEW p \in cache' \cap Tracked PROVE count'[p] # 0
        BY <1>0, <4>1, <4>2, SubsetsAssumption DEF ObserverTypes, Paired
      <4> QED  BY <4>4, <4>5 DEF Paired
    <3> QED  BY <1>10, <3>1, <3>2 DEF OnRegistryGlobalRemove
  <2> QED  BY <1>3, <2>2, <2>3, <2>4, TypeParts
<1>11. CASE OnCoreDone
  <2>1. wire' \in Seq(Happenings)
    BY <1>0, <1>11, ReceiveLaw DEF OnCoreDone
  <2>2. UNCHANGED <<daemon_vars, requests, mirror_vars, reconnects, observer_vars>> /\ making' \in Making
    BY <1>0, <1>11 DEF OnCoreDone, GraphTypes, Making
  <2>3. QueueTypes'
    BY <1>0, <2>1, <2>2 DEF QueueTypes
  <2> QED  BY <1>1, <1>2, <1>3, <2>2, <2>3, TypeParts
<1>12. ASSUME NEW n \in Syncs, Synchronize(n) PROVE TypeOK' /\ Paired'
  <2>1. QueueTypes'
    BY <1>0, <1>12, EventTypes, OneMore DEF QueueTypes, Synchronize
  <2>2. UNCHANGED <<daemon_vars, mirror_vars, reconnects, observer_vars>> /\ making' \in Making
    BY <1>12 DEF Synchronize, Making
  <2> QED  BY <1>1, <1>2, <1>3, <2>1, <2>2, TypeParts
<1>13. CASE (\E notify \in BOOLEAN : Construct(notify)) \/ Destroy
  <2>1. /\ UNCHANGED <<daemon_vars, requests, wire, mirror_vars, reconnects>> /\ making' = making
        /\ observer' \in BOOLEAN /\ walked' \in BOOLEAN /\ (cache' = {} \/ cache' = cache)
    BY <1>13 DEF Construct, Destroy
  <2>2. QueueTypes' /\ making' \in Making
    BY <1>0, <2>1 DEF QueueTypes, GraphTypes
  <2>3. count' \in [Ports -> Nat] /\ told' \in [Ports -> Nat]
    <3>1. CASE Destroy
      BY <3>1 DEF Destroy
    <3>2. ASSUME NEW notify \in BOOLEAN, Construct(notify) PROVE count' \in [Ports -> Nat] /\ told' \in [Ports -> Nat]
      <4>1. PICK shown : count' = [p \in Ports |-> IF p \in shown THEN 1 ELSE 0] /\ told' = count'
        BY <3>2 DEF Construct
      <4> QED  BY <4>1
    <3> QED  BY <1>13, <3>1, <3>2
  <2>4. cache' = {}
    BY <1>13 DEF Construct, Destroy, Believed
  <2> QED  BY <1>0, <1>2, <1>3, <2>1, <2>2, <2>3, <2>4, TypeParts DEF ObserverTypes, Paired
<1>14. CASE Reconnect
  <2>1. PICK s \in Dumps : wire' = Globals(s)
    BY <1>14 DEF Reconnect
  <2>2. QueueTypes'
    <3>1. Globals(s) \in Seq(Happenings)
      BY DumpLaw
    <3>2. requests' = <<>>
      BY <1>14 DEF Reconnect
    <3> QED  BY <2>1, <3>1, <3>2 DEF QueueTypes
  <2>3. GraphTypes'
    <3>1. reconnects \in 0..MaxReconnects /\ reconnects < MaxReconnects /\ reconnects' = reconnects + 1 /\ MaxReconnects \in Nat
      BY <1>0, <1>14, BoundsAssumption DEF Reconnect, GraphTypes
    <3>2. reconnects' \in 0..MaxReconnects
      BY <3>1
    <3> QED  BY <1>0, <1>14, <3>2 DEF Reconnect, GraphTypes, Making
  <2>4. MirrorTypes' /\ UNCHANGED observer_vars
    BY <1>14 DEF Reconnect, MirrorTypes
  <2> QED  BY <1>1, <2>2, <2>3, <2>4, TypeParts
<1>15. CASE UNCHANGED vars
  <2>1. /\ UNCHANGED <<daemon_vars, mirror_vars, observer_vars, requests, wire, making, reconnects>>
    BY <1>15 DEF vars
  <2>2. QueueTypes' /\ making' \in Making
    BY <1>0, <2>1 DEF QueueTypes, GraphTypes
  <2> QED  BY <1>1, <1>2, <1>3, <2>1, <2>2, TypeParts
<1> QED
  BY <1>4, <1>5, <1>6, <1>7, <1>8, <1>9, <1>10, <1>11, <1>12, <1>13, <1>14, <1>15
  DEF Next, Daemon, Worker, Application

-----------------------------------------------------------------------------
(* What the worker will hear of the graph. Read in order, the globals and     *)
(* removes on the wire lead from the globals it has bound to those that exist *)
(* by way of graphs that the daemon once had.                                 *)

\* A port's node is there as long as the port.
Whole(b) == \A p \in b \cap Ports : NodeOf[p] \in b

\* c is b when e has happened to it.
Lived(b, e, c) ==
  /\ e.kind = "global" => e.id \notin b /\ c = b \cup {e.id}
  /\ e.kind = "remove" => e.id \in b /\ c = b \ {e.id}
  /\ e.kind \notin {"global", "remove"} => c = b

Foresees(B, w, b, g) ==
  /\ B[0] = b /\ B[Len(w)] = g
  /\ \A k \in 0..Len(w) : Whole(B[k])
  /\ \A k \in 1..Len(w) : Lived(B[k - 1], w[k], B[k])

Foreseen == \E B : Foresees(B, wire, bound, graph)

LEMMA ForeseeMore ==
  ASSUME NEW w \in Seq(Happenings), NEW e \in Happenings, NEW B, NEW b, NEW g, NEW h,
         Foresees(B, w, b, g), Lived(g, e, h), Whole(h)
  PROVE  \E C : Foresees(C, Append(w, e), b, h)
<1> DEFINE n == Len(w)
           v == Append(w, e)
           C == [k \in 0..(n + 1) |-> IF k \in 0..n THEN B[k] ELSE h]
<1>1. n \in Nat /\ Len(v) = n + 1 /\ (\A k \in 1..n : v[k] = w[k]) /\ v[n + 1] = e
  BY AppendLaw
<1>2. /\ C[0] = B[0] /\ C[n + 1] = h /\ C[n] = B[n]
      /\ \A k \in 0..n : C[k] = B[k]
  BY <1>1
<1> HIDE DEF n, v, C
<1>3. \A k \in 0..(n + 1) : Whole(C[k])
  <2>1. \A k \in 0..(n + 1) : k \in 0..n \/ k = n + 1
    BY <1>1
  <2> QED  BY <1>2, <2>1 DEF Foresees, n
<1>4. ASSUME NEW k \in 1..(n + 1) PROVE Lived(C[k - 1], v[k], C[k])
  <2>1. CASE k \in 1..n
    <3>1. k - 1 \in 0..n /\ k \in 0..n
      BY <1>1, <2>1
    <3> QED  BY <1>1, <1>2, <2>1, <3>1 DEF Foresees, n
  <2>2. CASE k = n + 1
    <3>1. k - 1 = n
      BY <1>1, <2>2
    <3> QED  BY <1>1, <1>2, <2>2, <3>1 DEF Foresees, n
  <2> QED  BY <1>1, <2>1, <2>2
<1>5. Foresees(C, v, b, h)
  BY <1>1, <1>2, <1>3, <1>4 DEF Foresees
<1> QED  BY <1>5 DEF v

LEMMA ForeseeTail ==
  ASSUME NEW w \in Seq(Happenings), w # <<>>, NEW B, NEW b, NEW g, Foresees(B, w, b, g)
  PROVE  \E c, C : Lived(b, Head(w), c) /\ Foresees(C, Tail(w), c, g)
<1> DEFINE n == Len(w)
           v == Tail(w)
           C == [k \in 0..(n - 1) |-> B[k + 1]]
<1>1. n \in Nat \ {0} /\ Head(w) = w[1] /\ Len(v) = n - 1 /\ \A k \in 1..(n - 1) : v[k] = w[k + 1]
  BY TailLaw
<1>2. /\ C[0] = B[1] /\ C[n - 1] = B[n] /\ \A k \in 0..(n - 1) : C[k] = B[k + 1]
  BY <1>1
<1> HIDE DEF n, v, C
<1>3. Lived(b, Head(w), C[0])
  <2>1. 1 \in 1..n /\ 1 - 1 = 0
    BY <1>1
  <2>2. Lived(B[1 - 1], w[1], B[1])
    BY <2>1 DEF Foresees, n
  <2> QED  BY <1>1, <1>2, <2>1, <2>2 DEF Foresees
<1>4. ASSUME NEW k \in 0..(n - 1) PROVE Whole(C[k])
  <2>1. k + 1 \in 0..n
    BY <1>1
  <2> QED  BY <1>2, <2>1 DEF Foresees, n
<1>5. ASSUME NEW k \in 1..(n - 1) PROVE Lived(C[k - 1], v[k], C[k])
  <2>1. k + 1 \in 1..n /\ k - 1 \in 0..(n - 1) /\ k \in 0..(n - 1) /\ (k - 1) + 1 = k /\ (k + 1) - 1 = k
    BY <1>1
  <2>2. C[k - 1] = B[k] /\ C[k] = B[k + 1]
    BY <1>2, <2>1
  <2>3. Lived(B[(k + 1) - 1], w[k + 1], B[k + 1])
    BY <2>1 DEF Foresees, n
  <2>4. v[k] = w[k + 1]
    BY <1>1
  <2> QED  BY <2>1, <2>2, <2>3, <2>4
<1>6. Foresees(C, v, C[0], g)
  BY <1>1, <1>2, <1>4, <1>5 DEF Foresees, n
<1> QED  BY <1>3, <1>6 DEF v

LEMMA ForeseeDump ==
  ASSUME NEW s \in Dumps PROVE \E B : Foresees(B, Globals(s), {}, Announced(s))
<1>1. PICK n \in Nat :
        /\ DOMAIN s = 1..n /\ \A i \in 1..n : s[i] \in Ids
        /\ \A i, j \in 1..n : i # j => s[i] # s[j]
        /\ \A i \in 1..n : s[i] \in Ports => \E j \in 1..i : s[j] = NodeOf[s[i]]
        /\ Len(Globals(s)) = n /\ \A i \in 1..n : Globals(s)[i] = Event("global", s[i])
  BY DumpLaw
<1> DEFINE B == [k \in 0..n |-> {s[i] : i \in 1..k}]
<1>2. B[0] = {} /\ B[n] = Announced(s)
  <2>1. 1..0 = {} /\ 0 \in 0..n /\ n \in 0..n
    OBVIOUS
  <2> QED  BY <1>1, <2>1 DEF Announced
<1>3. ASSUME NEW k \in 0..n, NEW p \in B[k] \cap Ports PROVE NodeOf[p] \in B[k]
  <2>1. PICK i \in 1..k : p = s[i]
    BY <1>3
  <2>2. i \in 1..n
    OBVIOUS
  <2>3. PICK j \in 1..i : s[j] = NodeOf[s[i]]
    BY <1>1, <1>3, <2>1, <2>2
  <2>4. j \in 1..k
    OBVIOUS
  <2> QED  BY <2>1, <2>3, <2>4
<1>4. ASSUME NEW k \in 1..n PROVE Lived(B[k - 1], Globals(s)[k], B[k])
  <2>1. k - 1 \in 0..n /\ k \in 0..n
    OBVIOUS
  <2>2. B[k - 1] = {s[i] : i \in 1..(k - 1)} /\ B[k] = {s[i] : i \in 1..k}
    BY <2>1
  <2>3. Globals(s)[k].kind = "global" /\ Globals(s)[k].id = s[k]
    BY <1>1, EventTypes
  <2>4. s[k] \notin {s[i] : i \in 1..(k - 1)}
    <3>1. \A i \in 1..(k - 1) : i \in 1..n /\ i # k
      OBVIOUS
    <3> QED  BY <1>1, <3>1
  <2>5. {s[i] : i \in 1..k} = {s[i] : i \in 1..(k - 1)} \cup {s[k]}
    <3>1. \A i : i \in 1..k <=> i \in 1..(k - 1) \/ i = k
      OBVIOUS
    <3> QED  BY <3>1
  <2> HIDE DEF B
  <2>6. Globals(s)[k].kind # "remove" /\ B[k] = B[k - 1] \cup {s[k]} /\ s[k] \notin B[k - 1]
    BY <2>2, <2>3, <2>4, <2>5
  <2> QED  BY <2>3, <2>6 DEF Lived
<1> HIDE DEF B
<1>5. Foresees(B, Globals(s), {}, Announced(s))
  BY <1>1, <1>2, <1>3, <1>4 DEF Foresees, Whole
<1> QED  BY <1>5

\* Where the wire says nothing of a global, it is bound if it exists; a bound
\* global of which no remove is on the way still exists, and is not announced
\* again.
LEMMA Foresight ==
  ASSUME NEW w \in Seq(Happenings), NEW B, NEW b, NEW g, Foresees(B, w, b, g), NEW i
  PROVE  /\ Whole(b) /\ Whole(g)
         /\ ~Occurs(Event("global", i), w) /\ ~Occurs(Event("remove", i), w) => (i \in b <=> i \in g)
         /\ i \in b /\ ~Occurs(Event("remove", i), w) => i \in g /\ ~Occurs(Event("global", i), w)
<1> DEFINE n == Len(w)
<1>1. n \in Nat /\ DOMAIN w = 1..n /\ \A k \in 1..n : w[k] \in Happenings
  BY ElementOfSeq
<1>2. ASSUME NEW k \in 1..n
      PROVE  /\ w[k].kind = "global" => w[k] = Event("global", w[k].id)
             /\ w[k].kind = "remove" => w[k] = Event("remove", w[k].id)
  BY <1>1, EventTypes
<1> HIDE DEF n
<1>3. ASSUME ~Occurs(Event("global", i), w), ~Occurs(Event("remove", i), w) PROVE i \in b <=> i \in g
  <2> DEFINE P == {k \in Nat : k <= n => (i \in B[k] <=> i \in b)}
  <2>1. 0 \in P
    BY DEF Foresees
  <2>2. ASSUME NEW k \in Nat, k \in P PROVE k + 1 \in P
    <3> SUFFICES ASSUME k + 1 <= n PROVE i \in B[k + 1] <=> i \in b
      OBVIOUS
    <3>1. k + 1 \in 1..n /\ (k + 1) - 1 = k /\ (i \in B[k] <=> i \in b)
      BY <1>1, <2>2
    <3>2. Lived(B[k], w[k + 1], B[k + 1])
      BY <3>1 DEF Foresees, n
    <3>3. ~(w[k + 1].kind \in {"global", "remove"} /\ w[k + 1].id = i)
      BY <1>1, <1>2, <1>3, <3>1 DEF Occurs
    <3> QED  BY <3>1, <3>2, <3>3 DEF Lived
  <2>3. n \in P
    <3> HIDE DEF P
    <3> QED  BY <1>1, <2>1, <2>2, Induction
  <2> QED  BY <1>1, <2>3 DEF Foresees, n
<1>4. ASSUME i \in b, ~Occurs(Event("remove", i), w) PROVE i \in g /\ ~Occurs(Event("global", i), w)
  <2> DEFINE P == {k \in Nat : k <= n => i \in B[k]}
  <2>1. 0 \in P
    BY <1>4 DEF Foresees
  <2>2. ASSUME NEW k \in Nat, k \in P PROVE k + 1 \in P
    <3> SUFFICES ASSUME k + 1 <= n PROVE i \in B[k + 1]
      OBVIOUS
    <3>1. k + 1 \in 1..n /\ (k + 1) - 1 = k /\ i \in B[k]
      BY <1>1, <2>2
    <3>2. Lived(B[k], w[k + 1], B[k + 1])
      BY <3>1 DEF Foresees, n
    <3>3. ~(w[k + 1].kind = "remove" /\ w[k + 1].id = i)
      BY <1>1, <1>2, <1>4, <3>1 DEF Occurs
    <3> QED  BY <3>1, <3>2, <3>3 DEF Lived
  <2>3. \A k \in Nat : k <= n => i \in B[k]
    <3>1. Nat \subseteq P
      <4> HIDE DEF P
      <4> QED  BY <2>1, <2>2, Induction
    <3> QED  BY <3>1
  <2>4. ASSUME NEW k \in 1..n, w[k] = Event("global", i) PROVE FALSE
    <3>1. k - 1 \in Nat /\ k - 1 <= n
      BY <1>1
    <3>2. Lived(B[k - 1], w[k], B[k])
      BY DEF Foresees, n
    <3>3. w[k].kind = "global" /\ w[k].id = i
      BY <2>4, EventTypes
    <3> QED  BY <2>3, <3>1, <3>2, <3>3 DEF Lived
  <2> QED  BY <1>1, <2>3, <2>4 DEF Foresees, Occurs, n
<1>5. Whole(b) /\ Whole(g)
  <2>1. 0 \in 0..Len(w) /\ Len(w) \in 0..Len(w)
    BY <1>1 DEF n
  <2> QED  BY <2>1 DEF Foresees
<1> QED  BY <1>3, <1>4, <1>5


LEMMA InitForeseen == ASSUME Init PROVE Foreseen
<1>1. PICK s \in Dumps : graph = Announced(s) /\ wire = Globals(s)
  BY DEF Init
<1>2. bound = {}
  BY DEF Init
<1> QED  BY <1>1, <1>2, ForeseeDump DEF Foreseen

LEMMA ForeseenStep == ASSUME TypeOK, Foreseen, [Next]_vars PROVE Foreseen'
<1>0. QueueTypes /\ wire \in Seq(Happenings) /\ requests \in Seq(Requests)
  BY TypeParts DEF QueueTypes
<1>1. PICK B : Foresees(B, wire, bound, graph)
  BY DEF Foreseen
<1>2. Whole(bound) /\ Whole(graph)
  BY <1>0, <1>1, Foresight
<1>3. ASSUME NEW e \in Happenings, wire' = Append(wire, e), bound' = bound, Lived(graph, e, graph'), Whole(graph')
      PROVE  Foreseen'
  BY <1>0, <1>1, <1>3, ForeseeMore DEF Foreseen
<1>4. ASSUME wire # <<>>, wire' = Tail(wire), graph' = graph, \A c : Lived(bound, Head(wire), c) => c = bound'
      PROVE  Foreseen'
  <2>1. PICK c, C : Lived(bound, Head(wire), c) /\ Foresees(C, Tail(wire), c, graph)
    BY <1>0, <1>1, <1>4, ForeseeTail
  <2>2. c = bound'
    BY <1>4, <2>1
  <2> QED  BY <1>4, <2>1, <2>2 DEF Foreseen
<1>5. ASSUME UNCHANGED <<wire, bound, graph>> PROVE Foreseen'
  BY <1>5 DEF Foreseen
<1>6. ASSUME NEW i \in Ids, Appear(i) PROVE Foreseen'
  <2>1. /\ i \notin graph /\ (i \in Ports => NodeOf[i] \in graph) /\ graph' = graph \cup {i}
        /\ wire' = Append(wire, Event("global", i)) /\ bound' = bound
    BY <1>6 DEF Appear, mirror_vars
  <2>2. Lived(graph, Event("global", i), graph') /\ Event("global", i) \in Happenings
    BY <2>1, EventTypes DEF Lived
  <2>3. Whole(graph')
    BY <1>2, <2>1 DEF Whole
  <2> QED  BY <1>3, <2>1, <2>2, <2>3
<1>7. ASSUME NEW i \in Ids, Vanish(i) PROVE Foreseen'
  <2>1. /\ i \in graph /\ (\A p \in graph \cap Ports : NodeOf[p] # i) /\ graph' = graph \ {i}
        /\ wire' = Append(wire, Event("remove", i)) /\ bound' = bound
    BY <1>7 DEF Vanish, mirror_vars
  <2>2. Lived(graph, Event("remove", i), graph') /\ Event("remove", i) \in Happenings
    BY <2>1, EventTypes DEF Lived
  <2>3. Whole(graph')
    BY <1>2, <2>1 DEF Whole
  <2> QED  BY <1>3, <2>1, <2>2, <2>3
<1>8. ASSUME NEW i \in Ids, Update(i) PROVE Foreseen'
  <2>1. wire' = Append(wire, Event("info", i)) /\ UNCHANGED <<bound, graph>>
    BY <1>8 DEF Update, mirror_vars
  <2>2. Lived(graph, Event("info", i), graph') /\ Event("info", i) \in Happenings
    BY <2>1, EventTypes DEF Lived
  <2> QED  BY <1>2, <1>3, <2>1, <2>2
<1>9. CASE Serve
  <2> DEFINE r == Head(requests)
  <2>1. UNCHANGED <<bound, graph>> /\ r \in Requests
    BY <1>0, <1>9, OneLess DEF Serve, mirror_vars
  <2>2. CASE r.kind = "bind"
    <3>1. wire' = Append(wire, Event("info", r.id))
      BY <1>9, <2>2 DEF Serve
    <3>2. Lived(graph, Event("info", r.id), graph') /\ Event("info", r.id) \in Happenings
      BY <2>1, <2>2, EventTypes DEF Lived
    <3> QED  BY <1>2, <1>3, <2>1, <3>1, <3>2
  <2>3. CASE r.kind = "sync"
    <3>1. wire' = Append(wire, Event("done", r.id))
      BY <1>9, <2>3 DEF Serve
    <3>2. Lived(graph, Event("done", r.id), graph') /\ Event("done", r.id) \in Happenings
      BY <2>1, <2>3, EventTypes DEF Lived
    <3> QED  BY <1>2, <1>3, <2>1, <3>1, <3>2
  <2>4. CASE r.kind \notin {"bind", "sync"}
    <3>1. wire' = wire
      BY <1>9, <2>4 DEF Serve
    <3> QED  BY <1>5, <2>1, <3>1
  <2> QED  BY <2>2, <2>3, <2>4
<1>10. CASE OnRegistryGlobal
  <2>1. Receive("global") /\ bound' = bound \cup {Head(wire).id} /\ graph' = graph
    BY <1>10 DEF OnRegistryGlobal, RegisterNode, RegisterPort, daemon_vars
  <2> QED  BY <1>4, <2>1 DEF Receive, Lived
<1>11. CASE OnRegistryGlobalRemove
  <2>1. Receive("remove") /\ bound' = bound \ {Head(wire).id} /\ graph' = graph
    BY <1>11 DEF OnRegistryGlobalRemove, daemon_vars
  <2> QED  BY <1>4, <2>1 DEF Receive, Lived
<1>12. CASE OnNodeInfo \/ OnPortInfo \/ OnCoreDone
  <2>1. PICK k \in {"info", "done"} : Receive(k) /\ bound' = bound /\ graph' = graph
    BY <1>12 DEF OnNodeInfo, OnPortInfo, OnCoreDone, daemon_vars, mirror_vars
  <2> QED  BY <1>4, <2>1 DEF Receive, Lived
<1>13. CASE Reconnect
  <2>1. PICK s \in Dumps : Announced(s) = graph /\ wire' = Globals(s)
    BY <1>13 DEF Reconnect
  <2>2. bound' = {} /\ graph' = graph
    BY <1>13 DEF Reconnect
  <2> QED  BY <2>1, <2>2, ForeseeDump DEF Foreseen
<1>14. CASE (\E n \in Syncs : Synchronize(n)) \/ (\E notify \in BOOLEAN : Construct(notify)) \/ Destroy \/ UNCHANGED vars
  <2>1. UNCHANGED <<wire, bound, graph>>
    BY <1>14 DEF Synchronize, Construct, Destroy, vars, daemon_vars, mirror_vars
  <2> QED  BY <1>5, <2>1
<1> QED
  BY <1>6, <1>7, <1>8, <1>9, <1>10, <1>11, <1>12, <1>13, <1>14 DEF Next, Daemon, Worker, Application

-----------------------------------------------------------------------------
(* The snapshot follows the graph. *)

\* A bound global is listed unless the worker waits to hear of it.
Pending == \A i \in bound : ~Life(i) => i \in listed \/ Asking(i) \/ Answered(i)

Listings == listed \subseteq bound /\ emitted = listed \cap Ports

\* What make() promises to list stays.
Kept == \A p \in initial : p \in graph /\ ~Occurs(Event("remove", p), wire)

\* The first sync of make() is answered after the globals, the second after
\* what the worker asked about each of them.
FirstSync ==
  /\ \A p \in initial : NoneAfter(Event("global", p), Event("done", 1), wire)
  /\ making \in {"issue 2", "wait 2", "ready"} => initial \subseteq bound

Unasked == ~Occurs(Event("sync", 2), requests) /\ ~Occurs(Event("done", 2), wire)

Ahead(p) ==
  /\ Answered(p) \/ Precedes(Event("bind", p), Event("sync", 2), requests)
  /\ Precedes(Event("info", p), Event("done", 2), wire)

SecondSync ==
  /\ making \in {"issue 1", "wait 1", "issue 2"} => Unasked
  /\ making = "wait 2" => \A p \in initial \ listed : Ahead(p)
  /\ making = "ready" => initial \subseteq listed

\* After a walk the user knows each port that is listed.
Walk == walked => \A p \in listed \cap Tracked : told[p] > 0

Snapshot == Foreseen /\ Served /\ Pending /\ Listings /\ Kept /\ FirstSync /\ SecondSync /\ Walk

SInv == TypeOK /\ Paired /\ IInv /\ Believed /\ Snapshot

\* What the conjuncts are about in a state, before and after a step.
LEMMA Known ==
  ASSUME TypeOK, Foreseen
  PROVE  /\ QueueTypes /\ wire \in Seq(Happenings) /\ requests \in Seq(Requests)
         /\ graph \subseteq Ids /\ initial \subseteq Ports /\ bound \subseteq Ids /\ Whole(bound)
         /\ \A i : ~Life(i) => (i \in bound <=> i \in graph)
         /\ \A i : i \in bound /\ ~Occurs(Event("remove", i), wire)
                     => i \in graph /\ ~Occurs(Event("global", i), wire)
<1>1. QueueTypes /\ GraphTypes /\ MirrorTypes
  BY TypeParts
<1>2. PICK B : Foresees(B, wire, bound, graph)
  BY DEF Foreseen
<1>3. wire \in Seq(Happenings) /\ requests \in Seq(Requests)
  BY <1>1 DEF QueueTypes
<1> QED  BY <1>1, <1>2, <1>3, Foresight DEF Life, GraphTypes, MirrorTypes

\* The second sync is not overtaken.
LEMMA SecondKept ==
  ASSUME SecondSync, making' = making, initial' \subseteq initial, initial' \cap listed \subseteq listed',
         Unasked => Unasked',
         making = "wait 2" => \A p \in initial' \ listed' : p \notin listed /\ Ahead(p) => Ahead(p)'
  PROVE  SecondSync'
<1>1. making = "wait 2" => \A p \in initial' \ listed' : p \in initial \ listed
  OBVIOUS
<1> QED  BY <1>1 DEF SecondSync

\* Nothing of it changes when the mirror does not, nor what is said and asked.
LEMMA Unchanged ==
  ASSUME TypeOK, Snapshot, Foreseen', UNCHANGED <<graph, resources, initial, bound, emitted, listed, wire, requests>>,
         FirstSync', SecondSync', Walk'
  PROVE  Snapshot'
BY DEF Snapshot, Served, Pending, Listings, Kept, Life, Asking, Answered

\* The daemon announces what has come, or changed.
LEMMA AnnounceSnapshot ==
  ASSUME TypeOK, Snapshot, Foreseen', NEW i \in Ids, Appear(i) \/ Update(i) PROVE Snapshot'
<1>1. PICK e \in Happenings : /\ wire' = Append(wire, e)
                              /\ (e = Event("global", i) /\ i \notin graph) \/ e = Event("info", i)
  BY EventTypes DEF Appear, Update
<1>2. /\ wire \in Seq(Happenings) /\ graph \subseteq graph'
      /\ UNCHANGED <<resources, initial, requests, bound, emitted, listed, making, walked, told>>
  BY Known DEF Snapshot, Appear, Update, mirror_vars, observer_vars
<1>3. \A x : Occurs(x, wire') <=> Occurs(x, wire) \/ x = e
  BY <1>1, <1>2, OneMore
<1>4. /\ \A p : e = Event("global", p) => p = i /\ i \notin graph
      /\ \A p : e # Event("remove", p) /\ e # Event("done", p)
  BY <1>1 DEF Event
<1>5. Served'
  BY <1>4, <1>2, <1>3 DEF Snapshot, Served, Life, Asking
<1>6. Pending'
  BY <1>2, <1>3 DEF Snapshot, Pending, Life, Asking, Answered
<1>7. Kept'
  BY <1>4, <1>2, <1>3 DEF Snapshot, Kept
<1>8. FirstSync'
  <2>1. \A p \in initial : e # Event("global", p)
    BY <1>4 DEF Snapshot, Kept
  <2>2. \A p \in initial : NoneAfter(Event("global", p), Event("done", 1), wire')
    BY <1>1, <1>2, <2>1, OneMore DEF Snapshot, FirstSync
  <2> QED  BY <1>2, <2>2 DEF Snapshot, FirstSync
<1>9. SecondSync'
  <2>1. Unasked => Unasked'
    BY <1>4, <1>2, <1>3 DEF Unasked
  <2>2. ASSUME NEW p, Ahead(p) PROVE Ahead(p)'
    <3>1. Precedes(Event("info", p), Event("done", 2), wire')
      BY <1>4, <1>1, <1>2, <2>2, OneMore DEF Ahead
    <3> QED  BY <1>2, <1>3, <2>2, <3>1 DEF Ahead, Answered
  <2> QED  BY <1>2, <2>1, <2>2, SecondKept DEF Snapshot
<1>10. Listings' /\ Walk'
  BY <1>2 DEF Snapshot, Listings, Walk
<1> QED  BY <1>5, <1>6, <1>7, <1>8, <1>9, <1>10 DEF Snapshot

\* Refusing the binds of one global leaves the other requests where they are.
LEMMA MarkOrder ==
  ASSUME NEW i, QueueTypes, requests' = [k \in DOMAIN requests |-> Refuse(requests[k], i)]
  PROVE  /\ \A j : Occurs(Event("bind", j), requests') <=> Occurs(Event("bind", j), requests) /\ j # i
         /\ \A n : Occurs(Event("sync", n), requests') <=> Occurs(Event("sync", n), requests)
         /\ \A j, n : j # i /\ Precedes(Event("bind", j), Event("sync", n), requests)
                        => Precedes(Event("bind", j), Event("sync", n), requests')
<1>1. /\ DOMAIN requests' = DOMAIN requests
      /\ \A k \in DOMAIN requests : requests[k] # Event("bind", i) => requests'[k] = requests[k]
      /\ \A k \in DOMAIN requests : requests[k] = Event("bind", i) => requests'[k] = Event("refused", i)
  BY MarkLaw
<1>2. \A j, n : /\ Event("bind", j) # Event("refused", i) /\ Event("sync", n) # Event("refused", i)
                /\ Event("sync", n) # Event("bind", i) /\ (Event("bind", j) = Event("bind", i) <=> j = i)
  BY DEF Event
<1>3. ASSUME NEW j PROVE Occurs(Event("bind", j), requests') <=> Occurs(Event("bind", j), requests) /\ j # i
  BY <1>1, <1>2 DEF Occurs
<1>4. ASSUME NEW n PROVE Occurs(Event("sync", n), requests') <=> Occurs(Event("sync", n), requests)
  BY <1>1, <1>2 DEF Occurs
<1>5. ASSUME NEW j, NEW n, j # i, Precedes(Event("bind", j), Event("sync", n), requests)
      PROVE  Precedes(Event("bind", j), Event("sync", n), requests')
  <2>1. ASSUME NEW k \in DOMAIN requests, requests'[k] = Event("sync", n)
        PROVE  \E l \in DOMAIN requests : l < k /\ requests'[l] = Event("bind", j)
    <3>1. requests[k] = Event("sync", n)
      BY <1>1, <1>2, <2>1
    <3>2. PICK l \in DOMAIN requests : l < k /\ requests[l] = Event("bind", j)
      BY <1>5, <3>1 DEF Precedes
    <3> QED  BY <1>1, <1>2, <1>5, <3>2
  <2> QED  BY <1>1, <2>1 DEF Precedes
<1> QED  BY <1>3, <1>4, <1>5

LEMMA VanishSnapshot == ASSUME TypeOK, Snapshot, Foreseen', NEW i \in Ids, Vanish(i) PROVE Snapshot'
<1> DEFINE e == Event("remove", i)
<1>1. /\ wire \in Seq(Happenings) /\ e \in Happenings /\ wire' = Append(wire, e) /\ QueueTypes
      /\ graph' = graph \ {i} /\ resources' = resources \ {i} /\ initial' = initial \ {i}
      /\ requests' = [k \in DOMAIN requests |-> Refuse(requests[k], i)]
      /\ UNCHANGED <<bound, emitted, listed, making, walked, told>>
  BY Known, EventTypes DEF Snapshot, Vanish, mirror_vars, observer_vars
<1>2. \A x : Occurs(x, wire') <=> Occurs(x, wire) \/ x = e
  BY <1>1, OneMore
<1>3. \A j : Asking(j)' <=> Asking(j) /\ j # i
  BY <1>1, MarkOrder DEF Asking
<1>4. Served'
  <2>1. \A j : j # i => (Life(j)' <=> Life(j))
    BY <1>2 DEF Life, Event
  <2> QED  BY <1>1, <1>3, <2>1 DEF Snapshot, Served
<1>5. Pending'
  <2>1. ASSUME NEW j \in bound', ~Life(j)' PROVE j \in listed' \/ Asking(j)' \/ Answered(j)'
    <3>1. ~Life(j) /\ j # i
      BY <1>2, <2>1 DEF Life
    <3>2. j \in listed \/ Asking(j) \/ Answered(j)
      BY <1>1, <3>1 DEF Snapshot, Pending
    <3> QED  BY <1>1, <1>2, <1>3, <3>1, <3>2 DEF Answered
  <2> QED  BY <2>1 DEF Pending
<1>6. Kept'
  BY <1>1, <1>2 DEF Snapshot, Kept, Event
<1>7. FirstSync'
  <2>1. \A p \in initial : e # Event("global", p)
    BY DEF Event
  <2>2. \A p \in initial : NoneAfter(Event("global", p), Event("done", 1), wire')
    BY <1>1, <2>1, OneMore DEF Snapshot, FirstSync
  <2> QED  BY <1>1, <2>2 DEF Snapshot, FirstSync
<1>8. SecondSync'
  <2>1. Unasked => Unasked'
    BY <1>1, <1>2, MarkOrder DEF Unasked, Event
  <2>2. ASSUME NEW p, p # i, Ahead(p) PROVE Ahead(p)'
    <3>1. Precedes(Event("info", p), Event("done", 2), wire')
      BY <1>1, <2>2, OneMore DEF Ahead, Event
    <3>2. Precedes(Event("bind", p), Event("sync", 2), requests) => Precedes(Event("bind", p), Event("sync", 2), requests')
      BY <1>1, <2>2, MarkOrder
    <3> QED  BY <1>2, <2>2, <3>1, <3>2 DEF Ahead, Answered
  <2> QED  BY <1>1, <2>1, <2>2, SecondKept DEF Snapshot
<1>9. Listings' /\ Walk'
  BY <1>1 DEF Snapshot, Listings, Walk
<1> QED  BY <1>4, <1>5, <1>6, <1>7, <1>8, <1>9 DEF Snapshot


LEMMA ServeSnapshot == ASSUME TypeOK, Snapshot, Foreseen', Serve PROVE Snapshot'
<1> DEFINE r == Head(requests)
<1>1. /\ wire \in Seq(Happenings) /\ requests \in Seq(Requests) /\ requests # <<>> /\ requests' = Tail(requests)
      /\ r \in Requests /\ initial \subseteq Ports
      /\ UNCHANGED <<graph, initial, bound, emitted, listed, making, walked, told>>
  BY Known, OneLess DEF Snapshot, Serve, mirror_vars, observer_vars
<1>2. \A x : Occurs(x, requests) <=> Occurs(x, requests') \/ x = r
  BY <1>1, OneLess
<1>3. ASSUME NEW p, Precedes(Event("bind", p), Event("sync", 2), requests)
      PROVE  r # Event("sync", 2) /\ (r # Event("bind", p) => Precedes(Event("bind", p), Event("sync", 2), requests'))
  BY <1>1, <1>3, OneLess
<1>4. Listings' /\ Walk'
  BY <1>1 DEF Snapshot, Listings, Walk
<1>5. CASE r.kind = "bind"
  <2>1. r.id \in Ids /\ r = Event("bind", r.id) /\ Event("info", r.id) \in Happenings
    BY <1>1, <1>5, EventTypes
  <2>2. wire' = Append(wire, Event("info", r.id)) /\ resources' = resources \cup {r.id}
    BY <1>5 DEF Serve
  <2> DEFINE i == r.id
             e == Event("info", i)
  <2>3. /\ r = Event("bind", i) /\ i \in Ids /\ e \in Happenings
        /\ wire' = Append(wire, e) /\ resources' = resources \cup {i}
    BY <2>1, <2>2
  <2> HIDE DEF r, i
  <2>4. \A x : Occurs(x, wire') <=> Occurs(x, wire) \/ x = e
    BY <1>1, <2>3, OneMore
  <2>5. \A j : Life(j)' <=> Life(j)
    BY <2>4 DEF Life, Event
  <2>6. Asking(i) /\ \A j : Asking(j)' => Asking(j)
    BY <1>2, <2>3 DEF Asking
  <2>7. Served'
    BY <1>1, <2>3, <2>5, <2>6 DEF Snapshot, Served
  <2>8. Pending'
    <3>1. ASSUME NEW j \in bound', ~Life(j)' PROVE j \in listed' \/ Asking(j)' \/ Answered(j)'
      <4>1. j \in listed \/ Asking(j) \/ Answered(j)
        BY <1>1, <2>5, <3>1 DEF Snapshot, Pending
      <4>2. Asking(j) => Asking(j)' \/ j = i
        BY <1>2, <2>3 DEF Asking, Event
      <4> QED  BY <1>1, <2>4, <4>1, <4>2 DEF Answered
    <3> QED  BY <3>1 DEF Pending
  <2>9. Kept'
    BY <1>1, <2>4 DEF Snapshot, Kept, Event
  <2>10. FirstSync'
    <3>1. \A p \in initial : e # Event("global", p)
      BY DEF Event
    <3>2. \A p \in initial : NoneAfter(Event("global", p), Event("done", 1), wire')
      BY <1>1, <2>3, <3>1, OneMore DEF Snapshot, FirstSync
    <3> QED  BY <1>1, <3>2 DEF Snapshot, FirstSync
  <2>11. SecondSync'
    <3>1. Unasked => Unasked'
      BY <1>2, <2>4 DEF Unasked, Event
    <3>2. ASSUME NEW p, Ahead(p) PROVE Ahead(p)'
      <4>1. Precedes(Event("info", p), Event("done", 2), wire')
        BY <1>1, <2>3, <3>2, OneMore DEF Ahead, Event
      <4>2. p # i => r # Event("bind", p)
        BY <2>3 DEF Event
      <4> QED  BY <1>3, <2>4, <3>2, <4>1, <4>2 DEF Ahead, Answered
    <3> QED  BY <1>1, <3>1, <3>2, SecondKept DEF Snapshot
  <2> QED  BY <1>4, <2>7, <2>8, <2>9, <2>10, <2>11 DEF Snapshot
<1>6. CASE r.kind = "sync"
  <2>1. r.id \in Syncs /\ r = Event("sync", r.id) /\ Event("done", r.id) \in Happenings
    BY <1>1, <1>6, EventTypes
  <2>2. wire' = Append(wire, Event("done", r.id)) /\ resources' = resources
    BY <1>6 DEF Serve
  <2> DEFINE n == r.id
             e == Event("done", n)
  <2>3. r = Event("sync", n) /\ e \in Happenings /\ wire' = Append(wire, e) /\ resources' = resources
    BY <2>1, <2>2
  <2> HIDE DEF r, n
  <2>4. \A x : Occurs(x, wire') <=> Occurs(x, wire) \/ x = e
    BY <1>1, <2>3, OneMore
  <2>5. \A j : (Life(j)' <=> Life(j)) /\ (Asking(j)' <=> Asking(j)) /\ (Answered(j)' <=> Answered(j))
    BY <1>2, <2>3, <2>4 DEF Life, Asking, Answered, Event
  <2>6. Served' /\ Pending'
    BY <1>1, <2>3, <2>5 DEF Snapshot, Served, Pending
  <2>7. Kept'
    BY <1>1, <2>4 DEF Snapshot, Kept, Event
  <2>8. FirstSync'
    <3>1. \A p \in initial : e # Event("global", p)
      BY DEF Event
    <3>2. \A p \in initial : NoneAfter(Event("global", p), Event("done", 1), wire')
      BY <1>1, <2>3, <3>1, OneMore DEF Snapshot, FirstSync
    <3> QED  BY <1>1, <3>2 DEF Snapshot, FirstSync
  <2>9. SecondSync'
    <3>1. Unasked => Unasked'
      BY <1>2, <2>3, <2>4 DEF Unasked, Event
    <3>2. ASSUME NEW p, Ahead(p) PROVE Ahead(p)'
      <4>1. e = Event("done", 2) => r = Event("sync", 2)
        BY <2>3 DEF Event
      <4>2. e = Event("done", 2) => Occurs(Event("info", p), wire)
        BY <1>3, <3>2, <4>1 DEF Ahead, Answered
      <4>3. Precedes(Event("info", p), Event("done", 2), wire')
        BY <1>1, <2>3, <3>2, <4>2, OneMore DEF Ahead
      <4>4. r # Event("bind", p)
        BY <2>3 DEF Event
      <4> QED  BY <1>3, <2>4, <3>2, <4>3, <4>4 DEF Ahead, Answered
    <3> QED  BY <1>1, <3>1, <3>2, SecondKept DEF Snapshot
  <2> QED  BY <1>4, <2>6, <2>7, <2>8, <2>9 DEF Snapshot
<1>7. CASE r.kind \notin {"bind", "sync"}
  <2>1. wire' = wire /\ resources' = resources
    BY <1>7 DEF Serve
  <2>2. \A j, n : r # Event("bind", j) /\ r # Event("sync", n)
    BY <1>7 DEF Event
  <2>3. \A j : (Life(j)' <=> Life(j)) /\ (Asking(j)' <=> Asking(j)) /\ (Answered(j)' <=> Answered(j))
    BY <1>2, <2>1, <2>2 DEF Life, Asking, Answered
  <2>4. Served' /\ Pending' /\ Kept' /\ FirstSync'
    BY <1>1, <2>1, <2>3 DEF Snapshot, Served, Pending, Kept, FirstSync
  <2>5. SecondSync'
    <3>1. Unasked => Unasked'
      BY <1>2, <2>1 DEF Unasked
    <3>2. ASSUME NEW p, Ahead(p) PROVE Ahead(p)'
      BY <1>3, <2>1, <2>2, <2>3, <3>2 DEF Ahead
    <3> QED  BY <1>1, <3>1, <3>2, SecondKept DEF Snapshot
  <2> QED  BY <1>4, <2>4, <2>5 DEF Snapshot
<1> QED  BY <1>5, <1>6, <1>7

LEMMA GlobalSnapshot == ASSUME TypeOK, Snapshot, TypeOK', Foreseen', OnRegistryGlobal PROVE Snapshot'
<1> DEFINE i == Head(wire).id
           h == Event("global", i)
<1>1. /\ wire \in Seq(Happenings) /\ requests \in Seq(Requests) /\ wire # <<>> /\ wire' = Tail(wire)
      /\ Head(wire) = h /\ i \in Ids /\ initial \subseteq Ports
  BY Known, ReceiveLaw DEF Snapshot, OnRegistryGlobal
<1>2. /\ bound' = bound \cup {i} /\ listed \subseteq listed' /\ listed' \subseteq listed \cup {i}
      /\ listed' \cap Ports = listed \cap Ports /\ Bind(i)
      /\ UNCHANGED <<graph, resources, initial, emitted, making, walked, told>>
  BY <1>1, IdsAssumption, SubsetsAssumption
  DEF OnRegistryGlobal, RegisterNode, RegisterPort, daemon_vars, observer_vars
<1>3. Current(i) <=> i \in graph /\ ~Occurs(Event("remove", i), wire')
  BY <1>1 DEF Current, Occurs
<1> HIDE DEF i
<1>4. \A x : Occurs(x, wire) <=> Occurs(x, wire') \/ x = h
  BY <1>1, OneLess
<1>5. \A j : (Life(j) <=> Life(j)' \/ j = i) /\ (Answered(j)' <=> Answered(j))
  BY <1>4 DEF Life, Answered, Event
<1> DEFINE b == Event("bind", i)
<1>6. /\ b \in Requests /\ (\A j : Event("bind", j) = b <=> j = i) /\ \A n : Event("sync", n) # b
      /\ Current(i) => requests' = Append(requests, b)
      /\ ~Current(i) => requests' = requests
  BY <1>1, <1>2, EventTypes DEF Bind
<1> HIDE DEF b
<1>7. requests \in Seq(Requests) /\ b \in Requests
  BY <1>1, <1>6
<1>8. /\ \A x : Occurs(x, Append(requests, b)) <=> Occurs(x, requests) \/ x = b
      /\ \A x, y : Precedes(x, y, Append(requests, b)) <=> Precedes(x, y, requests) /\ (b = y => Occurs(x, requests))
  BY <1>7, OneMore
<1>9. \A j : Asking(j)' <=> Asking(j) \/ (j = i /\ Current(i))
  <2>1. CASE Current(i)
    <3>1. \A x : Occurs(x, requests') <=> Occurs(x, requests) \/ x = b
      BY <1>8, <1>6, <2>1
    <3> QED  BY <1>6, <2>1, <3>1 DEF Asking
  <2>2. CASE ~Current(i)
    BY <1>6, <2>2 DEF Asking
  <2> QED  BY <2>1, <2>2
<1>10. /\ \A j : ~Life(j)' => (j \in bound' <=> j \in graph')
      /\ \A j : j \in bound' /\ ~Occurs(Event("remove", j), wire')
                  => j \in graph' /\ ~Occurs(Event("global", j), wire')
  <2>1. PICK B : Foresees(B, wire', bound', graph')
    BY DEF Foreseen
  <2>2. wire' \in Seq(Happenings)
    BY <1>1, OneLess
  <2> QED  BY <2>1, <2>2, Foresight DEF Life
<1>11. Served'
  <2>1. ASSUME NEW j \in Ids, j \in resources' \/ Asking(j)' PROVE j \in graph' \cap bound' /\ ~Life(j)'
    <3>1. CASE j = i
      <4>1. Life(i)
        BY <1>5
      <4>2. Current(i)
        BY <1>2, <1>9, <2>1, <3>1, <4>1 DEF Snapshot, Served
      <4> QED  BY <1>2, <1>3, <1>10, <3>1, <4>2 DEF Life
    <3>2. CASE j # i
      BY <1>2, <1>5, <1>9, <2>1, <3>2 DEF Snapshot, Served
    <3> QED  BY <3>1, <3>2
  <2> QED  BY <2>1 DEF Served
<1>12. Pending'
  <2>1. ASSUME NEW j \in bound', ~Life(j)' PROVE j \in listed' \/ Asking(j)' \/ Answered(j)'
    <3>1. CASE j = i
      <4>1. Current(i)
        BY <1>2, <1>3, <1>10, <2>1, <3>1 DEF Life
      <4> QED  BY <1>9, <3>1, <4>1
    <3>2. CASE j # i
      BY <1>2, <1>5, <1>9, <2>1, <3>2 DEF Snapshot, Pending
    <3> QED  BY <3>1, <3>2
  <2> QED  BY <2>1 DEF Pending
<1>13. Listings' /\ Kept' /\ Walk'
  <2>1. Listings'
    BY <1>2 DEF Snapshot, Listings
  <2>2. Kept'
    BY <1>2, <1>4 DEF Snapshot, Kept
  <2>3. Walk'
    BY <1>2, SubsetsAssumption DEF Snapshot, Walk
  <2> QED  BY <2>1, <2>2, <2>3
<1>14. FirstSync'
  <2>1. \A p \in initial : NoneAfter(Event("global", p), Event("done", 1), wire')
    BY <1>1, OneLess DEF Snapshot, FirstSync
  <2> QED  BY <1>2, <2>1 DEF Snapshot, FirstSync
<1>15. SecondSync'
  <2>1. Unasked => Unasked'
    <3>1. Occurs(Event("sync", 2), requests') => Occurs(Event("sync", 2), requests)
      BY <1>8, <1>6
    <3> QED  BY <1>4, <3>1 DEF Unasked
  <2>2. ASSUME NEW p, Ahead(p) PROVE Ahead(p)'
    <3>1. Precedes(Event("info", p), Event("done", 2), wire')
      <4>1. Event("info", p) # Head(wire)
        BY <1>1 DEF Event
      <4> QED  BY <1>1, <2>2, <4>1, OneLess DEF Ahead
    <3>2. Precedes(Event("bind", p), Event("sync", 2), requests) => Precedes(Event("bind", p), Event("sync", 2), requests')
      BY <1>8, <1>6
    <3> QED  BY <1>5, <2>2, <3>1, <3>2 DEF Ahead
  <2> QED  BY <1>2, <2>1, <2>2, SecondKept DEF Snapshot
<1> QED  BY <1>11, <1>12, <1>13, <1>14, <1>15 DEF Snapshot


\* An event that is neither a global nor a remove changes what is known of a
\* global only by listing it.
LEMMA TakenSnapshot ==
  ASSUME TypeOK, Snapshot, Foreseen', NEW k \in {"info", "done"}, NEW i, Receive(k), Head(wire) = Event(k, i),
         UNCHANGED <<graph, resources, initial, requests, bound>>, listed \subseteq listed', Listings',
         k = "info" /\ i \in bound => i \in listed'
  PROVE  /\ Served' /\ Pending' /\ Kept'
         /\ \A p \in initial : NoneAfter(Event("global", p), Event("done", 1), wire')
         /\ Unasked => Unasked'
         /\ \A p : Ahead(p) /\ Head(wire) # Event("info", p) => Ahead(p)'
<1> DEFINE h == Event(k, i)
<1>1. /\ wire \in Seq(Happenings) /\ wire # <<>> /\ wire' = Tail(wire) /\ Head(wire) = h
      /\ UNCHANGED <<graph, resources, initial, requests, bound>>
  BY Known DEF Snapshot, Receive
<1>2. \A j : h # Event("global", j) /\ h # Event("remove", j)
  BY DEF Event
<1>3. \A j : h = Event("info", j) => k = "info" /\ j = i
  BY DEF Event
<1> HIDE DEF h
<1>4. \A x : Occurs(x, wire) <=> Occurs(x, wire') \/ x = h
  BY <1>1, OneLess
<1>5. \A j : (Life(j)' <=> Life(j)) /\ (Asking(j)' <=> Asking(j))
  BY <1>1, <1>2, <1>4 DEF Life, Asking
<1>6. \A j : Answered(j) <=> Answered(j)' \/ h = Event("info", j)
  BY <1>4 DEF Answered
<1>7. Served'
  BY <1>1, <1>5 DEF Snapshot, Served
<1>8. Pending'
  BY <1>1, <1>3, <1>5, <1>6 DEF Snapshot, Pending
<1>9. Kept'
  BY <1>1, <1>4 DEF Snapshot, Kept
<1>10. \A p \in initial : NoneAfter(Event("global", p), Event("done", 1), wire')
  BY <1>1, OneLess DEF Snapshot, FirstSync
<1>11. Unasked => Unasked'
  BY <1>1, <1>4 DEF Unasked
<1>12. ASSUME NEW p, Ahead(p), h # Event("info", p) PROVE Ahead(p)'
  <2>1. Precedes(Event("info", p), Event("done", 2), wire')
    BY <1>1, <1>12, OneLess DEF Ahead
  <2> QED  BY <1>1, <1>6, <1>12, <2>1 DEF Ahead
<1> QED  BY <1>1, <1>7, <1>8, <1>9, <1>10, <1>11, <1>12

LEMMA NodeInfoSnapshot == ASSUME TypeOK, Snapshot, Foreseen', OnNodeInfo PROVE Snapshot'
<1> DEFINE i == Head(wire).id
<1>1. Receive("info") /\ Head(wire) = Event("info", i) /\ i \in Nodes /\ initial \subseteq Ports
  BY Known, ReceiveLaw DEF Snapshot, OnNodeInfo
<1>2. /\ listed \subseteq listed' /\ listed' \subseteq listed \cup {i} /\ (i \in bound => i \in listed')
      /\ (i \notin bound => listed' = listed)
      /\ UNCHANGED <<graph, resources, initial, requests, bound, emitted, making, walked, told>>
  BY DEF OnNodeInfo, daemon_vars, observer_vars
<1> HIDE DEF i
<1>3. i \notin Ports /\ listed' \cap Ports = listed \cap Ports
  BY <1>1, <1>2, IdsAssumption
<1>4. Listings'
  BY <1>2, <1>3 DEF Snapshot, Listings
<1>5. /\ Served' /\ Pending' /\ Kept'
      /\ \A p \in initial : NoneAfter(Event("global", p), Event("done", 1), wire')
      /\ Unasked => Unasked'
      /\ \A p : Ahead(p) /\ Head(wire) # Event("info", p) => Ahead(p)'
  BY <1>1, <1>2, <1>4, TakenSnapshot
<1>6. FirstSync'
  BY <1>2, <1>5 DEF Snapshot, FirstSync
<1>7. SecondSync'
  <2>1. \A p \in initial : Head(wire) # Event("info", p)
    BY <1>1, <1>3, EventTypes
  <2> QED  BY <1>2, <1>5, <2>1, SecondKept DEF Snapshot
<1>8. Walk'
  BY <1>2, <1>3, SubsetsAssumption DEF Snapshot, Walk
<1> QED  BY <1>4, <1>5, <1>6, <1>7, <1>8 DEF Snapshot

LEMMA PortInfoSnapshot == ASSUME TypeOK, Believed, Snapshot, Foreseen', OnPortInfo PROVE Snapshot'
<1> DEFINE i == Head(wire).id
<1>1. Receive("info") /\ Head(wire) = Event("info", i) /\ i \in Ports /\ Whole(bound)
  BY Known, ReceiveLaw DEF Snapshot, OnPortInfo
<1>2. UNCHANGED <<graph, resources, initial, requests, bound, making, walked>>
  BY DEF OnPortInfo, daemon_vars, observer_vars, CallAdded
<1>3. /\ i \notin bound => UNCHANGED <<listed, emitted, told>>
      /\ i \in bound => listed' = listed \cup {i, NodeOf[i]} /\ emitted' = emitted \cup {i}
  BY DEF OnPortInfo, observer_vars, MirrorPort
<1>4. i \in bound => NodeOf[i] \in bound /\ NodeOf[i] \notin Ports
  BY <1>1, IdsAssumption, NodeOfAssumption DEF Whole
<1>5. ASSUME walked, NEW p \in listed' \cap Tracked PROVE told'[p] > 0
  <2>1. told \in [Ports -> Nat] /\ p \in Ports /\ observer /\ (p \in listed => told[p] > 0)
    BY <1>5, SubsetsAssumption, TypeParts DEF Believed, Snapshot, Walk, ObserverTypes
  <2>2. CASE i \in bound /\ i \notin emitted
    <3>1. CallAdded(i)
      BY <2>2 DEF OnPortInfo
    <3>2. CASE i \in Tracked
      <4>1. told' = [told EXCEPT ![i] = told[i] + 1]
        BY <2>1, <3>1, <3>2 DEF CallAdded
      <4>2. p = i \/ p \in listed
        BY <1>3, <1>4, <1>5, <2>1, <2>2
      <4> HIDE DEF i
      <4> QED  BY <1>1, <2>1, <4>1, <4>2
    <3>3. CASE i \notin Tracked
      <4>1. told' = told
        BY <3>1, <3>3 DEF CallAdded
      <4>2. p \in listed
        BY <1>3, <1>4, <1>5, <2>1, <2>2, <3>3
      <4> QED  BY <2>1, <4>1, <4>2
    <3> QED  BY <3>2, <3>3
  <2>3. CASE ~(i \in bound /\ i \notin emitted)
    <3>1. told' = told
      BY <2>3 DEF OnPortInfo, observer_vars
    <3>2. p \in listed
      <4>1. i \in bound => i \in listed
        BY <2>3 DEF Snapshot, Listings
      <4> QED  BY <1>3, <1>4, <1>5, <2>1, <4>1
    <3> QED  BY <2>1, <3>1, <3>2
  <2> QED  BY <2>2, <2>3
<1> HIDE DEF i
<1>6. Walk'
  BY <1>2, <1>5 DEF Walk
<1>7. Listings'
  BY <1>1, <1>2, <1>3, <1>4 DEF Snapshot, Listings
<1>8. /\ Served' /\ Pending' /\ Kept'
      /\ \A p \in initial : NoneAfter(Event("global", p), Event("done", 1), wire')
      /\ Unasked => Unasked'
      /\ \A p : Ahead(p) /\ Head(wire) # Event("info", p) => Ahead(p)'
  <2>1. listed \subseteq listed' /\ (i \in bound => i \in listed')
    BY <1>3
  <2> QED  BY <1>1, <1>2, <1>7, <2>1, TakenSnapshot
<1>9. FirstSync'
  BY <1>2, <1>8 DEF Snapshot, FirstSync
<1>10. SecondSync'
  <2>1. ASSUME making = "wait 2", NEW p \in initial' \ listed' PROVE Head(wire) # Event("info", p)
    <3>1. p \in bound
      BY <1>2, <2>1 DEF Snapshot, FirstSync
    <3>2. p # i
      BY <1>3, <2>1, <3>1
    <3> QED  BY <1>1, <3>2, EventTypes
  <2>2. initial' \subseteq initial /\ initial' \cap listed \subseteq listed' /\ making' = making
    BY <1>2, <1>3
  <2> QED  BY <1>8, <2>1, <2>2, SecondKept DEF Snapshot
<1> QED  BY <1>6, <1>7, <1>8, <1>9, <1>10 DEF Snapshot


LEMMA RemoveSnapshot == ASSUME TypeOK, Snapshot, TypeOK', Foreseen', OnRegistryGlobalRemove PROVE Snapshot'
<1> DEFINE i == Head(wire).id
           h == Event("remove", i)
<1>1. /\ wire \in Seq(Happenings) /\ wire # <<>> /\ wire' = Tail(wire) /\ Head(wire) = h /\ i \in Ids
      /\ initial \subseteq Ports
  BY Known, ReceiveLaw DEF Snapshot, OnRegistryGlobalRemove, Receive
<1>2. /\ bound' = bound \ {i} /\ emitted' = emitted \ {i}
      /\ listed' = IF i \in bound THEN listed \ ({i} \cup PortsOf(i)) ELSE listed
      /\ UNCHANGED <<graph, resources, initial, requests, making>>
  BY DEF OnRegistryGlobalRemove, daemon_vars
<1>3. walked' = walked /\ \A p \in Ports \ {i} : told \in [Ports -> Nat] => told'[p] = told[p]
  <2>1. CASE i \in bound \cap Ports
    <3>1. CallRemoved(i)
      BY <2>1 DEF OnRegistryGlobalRemove
    <3> HIDE DEF i
    <3> QED  BY <3>1 DEF CallRemoved
  <2>2. CASE i \notin bound \cap Ports
    BY <2>2 DEF OnRegistryGlobalRemove, observer_vars
  <2> QED  BY <2>1, <2>2
<1> HIDE DEF i, h
<1>4. \A x : Occurs(x, wire) <=> Occurs(x, wire') \/ x = h
  BY <1>1, OneLess
<1>5. Life(i) /\ \A j : (Life(j) <=> Life(j)' \/ j = i) /\ (Answered(j) <=> Answered(j)') /\ (Asking(j)' <=> Asking(j))
  BY <1>2, <1>4 DEF Life, Answered, Asking, Event, h
<1>6. Whole(bound')
  <2>1. PICK B : Foresees(B, wire', bound', graph')
    BY DEF Foreseen
  <2>2. wire' \in Seq(Happenings)
    BY <1>1, OneLess
  <2> QED  BY <2>1, <2>2, Foresight
<1>7. listed' = listed \ {i}
  <2>1. listed \subseteq bound
    BY DEF Snapshot, Listings
  <2>2. ASSUME NEW p \in PortsOf(i), p \in listed PROVE p = i
    BY <1>2, <1>6, <2>1, <2>2 DEF PortsOf, Whole
  <2> QED  BY <1>2, <2>1, <2>2
<1>8. Served'
  BY <1>2, <1>5 DEF Snapshot, Served
<1>9. Pending'
  BY <1>2, <1>5, <1>7 DEF Snapshot, Pending
<1>10. Listings' /\ Kept'
  BY <1>2, <1>4, <1>7 DEF Snapshot, Listings, Kept
<1>11. i \notin initial
  BY <1>4 DEF Snapshot, Kept, h
<1>12. FirstSync'
  <2>1. \A p \in initial : NoneAfter(Event("global", p), Event("done", 1), wire')
    BY <1>1, OneLess DEF Snapshot, FirstSync
  <2> QED  BY <1>2, <1>11, <2>1 DEF Snapshot, FirstSync
<1>13. SecondSync'
  <2>1. Unasked => Unasked'
    BY <1>2, <1>4 DEF Unasked
  <2>2. ASSUME NEW p, Ahead(p) PROVE Ahead(p)'
    <3>1. Event("info", p) # Head(wire)
      BY <1>1 DEF Event, h
    <3>2. Precedes(Event("info", p), Event("done", 2), wire')
      BY <1>1, <2>2, <3>1, OneLess DEF Ahead
    <3> QED  BY <1>2, <1>5, <2>2, <3>2 DEF Ahead
  <2>3. initial' \cap listed \subseteq listed'
    BY <1>2, <1>7, <1>11
  <2> QED  BY <1>2, <2>1, <2>2, <2>3, SecondKept DEF Snapshot
<1>14. Walk'
  <2>1. told \in [Ports -> Nat]
    BY TypeParts DEF ObserverTypes
  <2> QED  BY <1>3, <1>7, <2>1, SubsetsAssumption DEF Snapshot, Walk
<1> QED  BY <1>8, <1>9, <1>10, <1>12, <1>13, <1>14 DEF Snapshot

LEMMA DoneSnapshot == ASSUME TypeOK, Snapshot, Foreseen', OnCoreDone PROVE Snapshot'
<1> DEFINE n == Head(wire).id
<1>1. /\ Receive("done") /\ Head(wire) = Event("done", n) /\ wire \in Seq(Happenings) /\ wire # <<>>
      /\ UNCHANGED <<graph, resources, initial, requests, bound, emitted, listed, walked, told>>
  BY Known, ReceiveLaw DEF Snapshot, OnCoreDone, daemon_vars, mirror_vars, observer_vars
<1>2. \/ making = "wait 1" /\ making' = "issue 2" /\ n = 1
      \/ making = "wait 2" /\ making' = "ready" /\ n = 2
      \/ making' = making
  BY DEF OnCoreDone
<1> HIDE DEF n
<1>3. Listings' /\ Walk'
  BY <1>1 DEF Snapshot, Listings, Walk
<1>4. /\ Served' /\ Pending' /\ Kept'
      /\ \A p \in initial : NoneAfter(Event("global", p), Event("done", 1), wire')
      /\ Unasked => Unasked'
      /\ \A p : Ahead(p) /\ Head(wire) # Event("info", p) => Ahead(p)'
  BY <1>1, <1>3, TakenSnapshot
<1>5. FirstSync'
  <2>1. CASE making = "wait 1" /\ making' = "issue 2" /\ n = 1
    <3>1. ASSUME NEW p \in initial PROVE p \in bound
      <4>1. ~Occurs(Event("global", p), wire)
        BY <1>1, <2>1, OneLess DEF Snapshot, FirstSync
      <4> QED  BY <4>1, Known DEF Snapshot, Kept, Life
    <3> QED  BY <1>1, <1>4, <3>1 DEF FirstSync
  <2>2. CASE ~(making = "wait 1" /\ making' = "issue 2" /\ n = 1)
    BY <1>1, <1>2, <1>4, <2>2 DEF Snapshot, FirstSync
  <2> QED  BY <2>1, <2>2
<1>6. SecondSync'
  <2>1. CASE making = "wait 1" /\ making' = "issue 2"
    BY <1>4, <2>1 DEF Snapshot, SecondSync
  <2>2. CASE making = "wait 2" /\ making' = "ready" /\ n = 2
    <3>1. ASSUME NEW p \in initial \ listed PROVE FALSE
      BY <1>1, <2>2, <3>1, OneLess DEF Snapshot, SecondSync, Ahead
    <3> QED  BY <1>1, <2>2, <3>1 DEF SecondSync
  <2>3. CASE making' = making
    <3>1. \A p : Head(wire) # Event("info", p)
      BY <1>1 DEF Event
    <3> QED  BY <1>1, <1>4, <2>3, <3>1, SecondKept DEF Snapshot
  <2> QED  BY <1>2, <2>1, <2>2, <2>3
<1> QED  BY <1>3, <1>4, <1>5, <1>6 DEF Snapshot

LEMMA SyncSnapshot == ASSUME TypeOK, Snapshot, Foreseen', NEW n \in Syncs, Synchronize(n) PROVE Snapshot'
<1> DEFINE e == Event("sync", n)
<1>1. /\ requests \in Seq(Requests) /\ e \in Requests /\ requests' = Append(requests, e)
      /\ UNCHANGED <<graph, resources, initial, wire, bound, emitted, listed, walked, told>>
  BY Known, EventTypes DEF Snapshot, Synchronize, daemon_vars, mirror_vars, observer_vars
<1>2. \/ n = 1 /\ making = "issue 1" /\ making' = "wait 1"
      \/ n = 2 /\ making = "issue 2" /\ making' = "wait 2"
  BY DEF Synchronize, Syncs
<1>3. (\A j : e # Event("bind", j)) /\ (n = 1 => e # Event("sync", 2))
  BY DEF Event
<1> HIDE DEF e
<1>4. \A x : Occurs(x, requests') <=> Occurs(x, requests) \/ x = e
  BY <1>1, OneMore
<1>5. \A j : (Life(j)' <=> Life(j)) /\ (Asking(j)' <=> Asking(j)) /\ (Answered(j)' <=> Answered(j))
  BY <1>1, <1>3, <1>4 DEF Life, Asking, Answered
<1>6. Served' /\ Pending' /\ Listings' /\ Kept' /\ Walk'
  BY <1>1, <1>5 DEF Snapshot, Served, Pending, Listings, Kept, Walk
<1>7. FirstSync'
  BY <1>1, <1>2 DEF Snapshot, FirstSync
<1>8. Unasked
  BY <1>2 DEF Snapshot, SecondSync
<1>9. SecondSync'
  <2>1. CASE n = 1 /\ making' = "wait 1"
    <3>1. e # Event("sync", 2)
      BY <1>3, <2>1
    <3>2. Unasked'
      BY <1>1, <1>4, <1>8, <3>1 DEF Unasked
    <3> QED  BY <2>1, <3>2 DEF SecondSync
  <2>2. CASE n = 2 /\ making = "issue 2" /\ making' = "wait 2"
    <3>1. ASSUME NEW p \in initial \ listed PROVE Answered(p)' \/ Asking(p)
      <4>1. p \in bound /\ ~Occurs(Event("remove", p), wire)
        BY <2>2 DEF Snapshot, FirstSync, Kept
      <4>2. ~Life(p)
        BY <4>1, Known DEF Snapshot, Life
      <4> QED  BY <1>5, <3>1, <4>1, <4>2 DEF Snapshot, Pending
    <3>2. ASSUME NEW p \in initial \ listed PROVE Ahead(p)'
      <4>1. Precedes(Event("bind", p), Event("sync", 2), requests)
        BY <1>8 DEF Unasked, Precedes, Occurs
      <4>2. Asking(p) => Precedes(Event("bind", p), Event("sync", 2), requests')
        BY <1>1, <4>1, OneMore DEF Asking
      <4>3. Precedes(Event("info", p), Event("done", 2), wire')
        BY <1>1, <1>8 DEF Unasked, Precedes, Occurs
      <4> QED  BY <3>1, <4>2, <4>3 DEF Ahead
    <3> QED  BY <1>1, <2>2, <3>2 DEF SecondSync
  <2> QED  BY <1>2, <2>1, <2>2
<1> QED  BY <1>6, <1>7, <1>9 DEF Snapshot

LEMMA ObserverSnapshot ==
  ASSUME TypeOK, Snapshot, Foreseen',
         (\E notify \in BOOLEAN : Construct(notify)) \/ Destroy \/ UNCHANGED vars
  PROVE  Snapshot'
<1>1. UNCHANGED <<graph, resources, initial, bound, emitted, listed, wire, requests, making>>
  BY DEF Construct, Destroy, vars, daemon_vars, mirror_vars
<1>2. Walk'
  <2>1. ASSUME NEW notify \in BOOLEAN, Construct(notify) PROVE Walk'
    <3>1. CASE notify
      <4>1. told' = [p \in Ports |-> IF p \in listed \cap Tracked THEN 1 ELSE 0]
        BY <2>1, <3>1 DEF Construct
      <4> QED  BY <1>1, <4>1, SubsetsAssumption DEF Walk
    <3>2. CASE ~notify
      BY <2>1, <3>2 DEF Construct, Walk
    <3> QED  BY <3>1, <3>2
  <2>2. CASE Destroy
    BY <2>2 DEF Destroy, Walk
  <2>3. CASE UNCHANGED vars
    BY <1>1, <2>3 DEF vars, observer_vars, Snapshot, Walk
  <2> QED  BY <2>1, <2>2, <2>3
<1>3. FirstSync' /\ SecondSync'
  BY <1>1 DEF Snapshot, FirstSync, SecondSync, Unasked, Ahead, Answered
<1> QED  BY <1>1, <1>2, <1>3 DEF Snapshot, Served, Pending, Listings, Kept, Life, Asking, Answered

LEMMA NothingOccurs == \A x : ~Occurs(x, <<>>)
<1>1. DOMAIN << >> = {}
  OBVIOUS
<1> QED  BY <1>1 DEF Occurs

\* A dump has globals only.
LEMMA DumpOccurs ==
  ASSUME NEW s \in Dumps, NEW k, k # "global", NEW i PROVE ~Occurs(Event(k, i), Globals(s))
<1>1. PICK n \in Nat : DOMAIN Globals(s) = 1..n /\ \A j \in 1..n : Globals(s)[j] = Event("global", s[j])
  BY DumpLaw
<1> QED  BY <1>1 DEF Occurs, Event

\* Nothing has been asked of a new connection, and it tells of what exists.
LEMMA FreshSnapshot ==
  ASSUME NEW s \in Dumps, wire = Globals(s), Announced(s) = graph, requests = <<>>, resources = {},
         bound = {}, emitted = {}, listed = {}, initial \subseteq graph, making \in {"issue 1", "issue 2"},
         making = "issue 2" => initial = {}
  PROVE  Snapshot
<1>1. /\ \A p : ~Occurs(Event("remove", p), wire) /\ ~Occurs(Event("done", p), wire)
      /\ \A x : ~Occurs(x, requests)
  BY DumpOccurs, NothingOccurs
<1>2. Foreseen
  BY ForeseeDump DEF Foreseen
<1>3. Served /\ Pending /\ Listings /\ Kept /\ Walk
  BY <1>1 DEF Served, Pending, Listings, Kept, Walk, Asking
<1>4. FirstSync
  BY <1>1 DEF FirstSync, NoneAfter, Occurs
<1>5. SecondSync
  BY <1>1 DEF SecondSync, Unasked
<1> QED  BY <1>2, <1>3, <1>4, <1>5 DEF Snapshot

LEMMA InitSnapshot == ASSUME Init PROVE TypeOK /\ Paired /\ Believed /\ Snapshot
<1>1. PICK s \in Dumps : graph = Announced(s) /\ wire = Globals(s)
  BY DEF Init
<1>2. /\ changes = 0 /\ reconnects = 0 /\ requests = <<>> /\ resources = {}
      /\ bound = {} /\ emitted = {} /\ listed = {} /\ making = "issue 1" /\ initial = graph \cap Ports
      /\ observer = FALSE /\ walked = FALSE /\ cache = {}
      /\ count = [p \in Ports |-> 0] /\ told = [p \in Ports |-> 0]
  BY DEF Init
<1>3. Globals(s) \in Seq(Happenings) /\ Announced(s) \subseteq Ids
  BY DumpLaw
<1>4. QueueTypes /\ MirrorTypes /\ ObserverTypes
  <2>1. QueueTypes
    <3>1. <<>> \in Seq(Requests)
      OBVIOUS
    <3> QED  BY <1>1, <1>2, <1>3, <3>1 DEF QueueTypes
  <2>2. MirrorTypes
    BY <1>2 DEF MirrorTypes
  <2>3. ObserverTypes
    BY <1>2 DEF ObserverTypes
  <2> QED  BY <2>1, <2>2, <2>3
<1>5. GraphTypes
  <2>1. 0 \in 0..MaxChanges /\ 0 \in 0..MaxReconnects
    BY BoundsAssumption
  <2> QED  BY <1>1, <1>2, <1>3, <2>1 DEF GraphTypes, Making
<1>6. Snapshot
  BY <1>1, <1>2, FreshSnapshot
<1>7. Paired /\ Believed
  BY <1>2 DEF Paired, Believed, Counted
<1> QED  BY <1>4, <1>5, <1>6, <1>7, TypeParts

LEMMA ReconnectSnapshot == ASSUME TypeOK, Snapshot, Reconnect PROVE Snapshot'
<1>1. PICK s \in Dumps : Announced(s) = graph /\ wire' = Globals(s)
  BY DEF Reconnect
<1>2. /\ Announced(s) = graph' /\ requests' = <<>> /\ resources' = {} /\ bound' = {} /\ emitted' = {}
      /\ listed' = {} /\ initial' = {} /\ making' = "issue 2"
  BY <1>1 DEF Reconnect
<1>3. /\ \A p : ~Occurs(Event("done", p), wire')
      /\ \A x : ~Occurs(x, requests')
  BY <1>1, <1>2, DumpOccurs, NothingOccurs
<1>4. Foreseen'
  BY <1>1, <1>2, ForeseeDump DEF Foreseen
<1>5. (Served /\ Pending /\ Listings /\ Kept /\ FirstSync /\ Walk)'
  BY <1>2, <1>3 DEF Served, Pending, Listings, Kept, Walk, Asking, FirstSync
<1>6. SecondSync'
  BY <1>2, <1>3 DEF SecondSync, Unasked
<1> QED  BY <1>4, <1>5, <1>6 DEF Snapshot

LEMMA SStep == ASSUME SInv, [Next]_vars PROVE SInv'
<1>1. IInv' /\ Believed'
  BY StepIInv, StepBelieved DEF SInv
<1>2. TypeOK' /\ Paired'
  BY TypeStep DEF SInv, Snapshot
<1>3. Foreseen'
  BY ForeseenStep DEF SInv, Snapshot
<1>4. Snapshot'
  BY <1>2, <1>3, AnnounceSnapshot, VanishSnapshot, ServeSnapshot, GlobalSnapshot, NodeInfoSnapshot, PortInfoSnapshot,
     RemoveSnapshot, DoneSnapshot, SyncSnapshot, ObserverSnapshot, ReconnectSnapshot
  DEF SInv, Next, Daemon, Worker, Application
<1> QED  BY <1>1, <1>2, <1>4 DEF SInv

LEMMA Snapshots == Spec => []SInv
<1>1. Init => SInv
  BY InitIInv, InitSnapshot DEF SInv
<1>2. SInv /\ [Next]_vars => SInv'
  BY SStep
<1> QED  BY <1>1, <1>2, PTL DEF Spec

\* What travels, what is mirrored and what is counted stays what it should be:
\* no count of callbacks falls below zero.
THEOREM TypeTheorem == Spec => []TypeOK
<1>1. SInv => TypeOK
  BY DEF SInv
<1> QED  BY <1>1, Snapshots, PTL

\* With nothing left to read or to answer the worker has bound what exists and
\* listed what it has bound.
LEMMA QuietSnapshot == ASSUME SInv, Quiet PROVE listed = graph /\ bound = graph
<1>1. \A x : ~Occurs(x, wire) /\ ~Occurs(x, requests)
  BY DEF Quiet, Occurs
<1>2. \A i : i \in bound <=> i \in graph
  BY <1>1, Known DEF SInv, Snapshot, Life
<1>3. \A i \in bound : i \in listed
  BY <1>1 DEF SInv, Snapshot, Pending, Life, Asking, Answered
<1> QED  BY <1>2, <1>3 DEF SInv, Snapshot, Listings

\* The snapshot is the graph when nothing is on its way; a port the user was
\* told of is in it; and make() does not return before it has what was there.
THEOREM SnapshotExactTheorem == Spec => []SnapshotExact
<1>1. SInv => SnapshotExact
  <2> SUFFICES ASSUME SInv PROVE SnapshotExact
    OBVIOUS
  <2>1. Quiet => listed = graph
    BY QuietSnapshot
  <2>2. FirstConnection => \A p \in Ports : told[p] > 0 => p \in listed
    <3> SUFFICES ASSUME FirstConnection, NEW p \in Ports, told[p] > 0 PROVE p \in listed
      OBVIOUS
    <3>1. told[p] \in {0, 1} /\ (told[p] = 1 => p \in emitted)
      BY DEF SInv, IInv, Told
    <3>2. p \in emitted
      BY <3>1
    <3> QED  BY <3>2 DEF SInv, Snapshot, Listings
  <2>3. making = "ready" => initial \subseteq listed
    BY DEF SInv, Snapshot, SecondSync
  <2> QED  BY <2>1, <2>2, <2>3 DEF SnapshotExact
<1> QED  BY <1>1, Snapshots, PTL

\* A walk leaves no listed port out, and an observer that only listens has
\* announced the removal of each port that has gone.
THEOREM NoneMissedTheorem == Spec => []NoneMissed
<1>1. SInv => NoneMissed
  <2> SUFFICES ASSUME SInv PROVE NoneMissed
    OBVIOUS
  <2>1. walked => \A p \in listed \cap Tracked : told[p] > 0
    BY DEF SInv, Snapshot, Walk
  <2>2. ASSUME Listening, Quiet, NEW p \in Ports, count[p] > 0 PROVE p \in graph
    <3>1. Counted
      BY <2>2 DEF SInv, Believed
    <3>2. p \in emitted
      BY <2>2, <3>1 DEF Counted
    <3> QED  BY <2>2, <3>2, QuietSnapshot DEF SInv, IInv, Mirrored
  <2> QED  BY <2>1, <2>2 DEF NoneMissed, RemovalAnnounced
<1> QED  BY <1>1, Snapshots, PTL


-----------------------------------------------------------------------------
(* The observers that compare or listen (Hotplug): what the user was told is *)
(* what the observer knows, but for the callbacks that a comparison has yet  *)
(* to make; and no port is announced as new that is known, or will be when   *)
(* the announcements before that one were read.                              *)

Names == Thread!Names
Sure == Names \ raced
Compares == backend \in {"raw", "winmm"}
StartOf(p) == [kind |-> "start", port |-> p]
ExitOf(p) == [kind |-> "exit", port |-> p]

HotTypes ==
  /\ backend \in {"seq", "shared", "raw", "jack", "winmm"}
  /\ devices \in Seq(Names) /\ Distinct(devices)
  /\ news \in Seq([kind : {"start", "exit"}, port : Names])
  /\ found \in Seq(Names) /\ adding \in Seq(Names) /\ removing \in Seq(Names) /\ known \in Seq(Names)
  /\ cursor \in Nat /\ last \in Nat
  /\ callbacks \in [Names -> Int]

\* A comparison: what is known, what is found and the callbacks that are left.
ListOf == IF at = "notify" THEN found ELSE known
Balanced(p) ==
  /\ callbacks[p] + Times(adding, p) = Times(removing, p) + Times(ListOf, p)
  /\ Times(known, p) \in {0, 1}
  /\ at \in {"visit", "notify"} => Times(found, p) \in {0, 1}
  /\ Times(adding, p) # 0 => Times(adding, p) = 1 /\ Times(found, p) = 1 /\ Times(removing, p) = 0
  /\ Times(removing, p) # 0 => Times(removing, p) = 1 /\ Times(found, p) = 0

Compared ==
  Compares =>
    /\ at # "notify" => adding = <<>> /\ removing = <<>>
    /\ \A p \in Sure : Balanced(p)
    /\ backend = "raw" /\ at = "visit" => \A p \in Names : p >= cursor => Times(found, p) = 0
    /\ phase = "start" => at = "notify" /\ adding = <<>> /\ removing = <<>> /\ known = found
    /\ phase # "listen"

\* Before announcement i of a port that appears the port is not known: it was
\* announced to be gone, or was not known in the first place.
NoStart(p, i, j) == \A k \in i..j : news[k] # StartOf(p)
Free(i, p) ==
  \/ \E j \in 1..(i - 1) : news[j] = ExitOf(p) /\ NoStart(p, j + 1, i - 1)
  \/ Times(known, p) = 0 /\ NoStart(p, 1, i - 1)

InTurn(p) ==
  /\ callbacks[p] = Times(known, p) /\ Times(known, p) \in {0, 1}
  /\ \A i \in 1..Len(news) : news[i] = StartOf(p) => Free(i, p)
  /\ phase # "gone" /\ p \notin Thread!Present => Free(Len(news) + 1, p)

\* While the constructor lists, what is known was visited, and JACK's names are
\* those of ports that exist unless they changed since.
Visits ==
  at = "visit" /\ phase = "list" =>
    /\ \A p \in Names : Times(known, p) # 0 =>
         IF backend = "jack" THEN \E i \in 1..(cursor - 1) : i <= Len(found) /\ found[i] = p ELSE p < cursor
    /\ backend = "jack" =>
         /\ last = Len(found) /\ Distinct(found) /\ cursor >= 1
         /\ \A i \in 1..Len(found) : found[i] \in Sure => found[i] \in Thread!Present

Listened ==
  ~Compares =>
    /\ \A p \in Sure : InTurn(p)
    /\ Visits
    /\ at = "enumerate" => phase = "list" /\ known = <<>>
    /\ at = "visit" /\ phase # "list" => cursor > last
    /\ phase \in {"list", "listen"} => news = <<>>
    /\ phase = "list" => at \in {"enumerate", "visit"}
    /\ phase = "listen" => at = "visit"
    /\ at # "notify"
    /\ phase \in {"list", "listen", "start", "running", "stopping", "gone"}

HotInv == HotTypes /\ Compared /\ Listened

-----------------------------------------------------------------------------

LEMMA KeptLaw == ASSUME NEW s, NEW P PROVE Thread!Kept(s, P) = Filtered(s, P)
  BY DEF Thread!Kept, Filtered

LEMMA ElementsLaw ==
  ASSUME NEW S, NEW s \in Seq(S), NEW x
  PROVE  /\ x \in Thread!Elements(s) <=> \E i \in 1..Len(s) : s[i] = x
         /\ x \in Thread!Elements(s) <=> Times(s, x) # 0
         /\ Times(s, x) \in Nat
<1>1. x \in Thread!Elements(s) <=> \E i \in 1..Len(s) : s[i] = x
  <2>1. DOMAIN s = 1..Len(s)
    OBVIOUS
  <2> QED  BY <2>1 DEF Thread!Elements
<1>2. Times(s, x) \in Nat /\ (Times(s, x) = 0 <=> \A i \in 1..Len(s) : s[i] # x)
  BY TimesLaw
<1> QED  BY <1>1, <1>2

\* What is left without a port.
LEMMA WithoutLaw ==
  ASSUME NEW s \in Seq(Names), NEW p \in Names, NEW q \in Names
  PROVE  /\ Thread!Without(s, p) \in Seq(Names)
         /\ Times(Thread!Without(s, p), q) = IF q = p THEN 0 ELSE Times(s, q)
         /\ Distinct(s) => Distinct(Thread!Without(s, p))
         /\ q \in Thread!Elements(Thread!Without(s, p)) <=> q # p /\ q \in Thread!Elements(s)
<1> DEFINE P == Names \ {p}
           w == Filtered(s, P)
<1>1. Thread!Without(s, p) = w
  BY KeptLaw DEF Thread!Without, Names
<1>2. w \in Seq(Names) /\ (Distinct(s) => Distinct(w))
  BY FilteredType, FilteredDistinct
<1>3. Times(w, q) = IF q \in P THEN Times(s, q) ELSE 0
  <2> HIDE DEF P
  <2> QED  BY TimesFiltered
<1>4. q \in P <=> q # p
  OBVIOUS
<1>5. (q \in Thread!Elements(w) <=> Times(w, q) # 0) /\ (q \in Thread!Elements(s) <=> Times(s, q) # 0)
  <2> HIDE DEF w
  <2> QED  BY <1>2, ElementsLaw
<1> HIDE DEF w, P
<1> QED  BY <1>1, <1>2, <1>3, <1>4, <1>5

\* Of the ports that no race concerns the user was told once, or not at all.
LEMMA OnceTold == HotInv => \A p \in Sure : callbacks[p] \in {0, 1}
<1> SUFFICES ASSUME HotInv, NEW p \in Sure PROVE callbacks[p] \in {0, 1}
  OBVIOUS
<1>1. Compares => Balanced(p)
  BY DEF HotInv, Compared
<1>2. ~Compares => InTurn(p)
  BY DEF HotInv, Listened
<1>3. callbacks[p] \in Int /\ Times(adding, p) \in Nat /\ Times(removing, p) \in Nat /\ Times(found, p) \in Nat /\ Times(known, p) \in Nat
  BY TimesLaw DEF HotInv, HotTypes, Sure
<1>4. ASSUME Compares PROVE callbacks[p] \in {0, 1}
  <2>1. Balanced(p) /\ at # "notify" => adding = <<>> /\ removing = <<>>
    BY <1>4 DEF HotInv, Compared
  <2>2. at # "notify" => Times(adding, p) = 0 /\ Times(removing, p) = 0
    BY <1>4, TimesNone DEF HotInv, Compared
  <2> QED  BY <1>1, <1>3, <1>4, <2>2 DEF Balanced, ListOf
<1> QED  BY <1>2, <1>4 DEF InTurn

LEMMA HotInit == ASSUME Thread!Init, ObserversAssumption PROVE HotInv
<1> USE DEF Thread!Init
<1>1. 0 \in Names /\ 1 \in Names
  BY DEF ObserversAssumption, Names, Thread!Names, Thread!Ports, Thread!Ghost
<1>2. devices \in Seq(Names) /\ Distinct(devices)
  <2>1. devices = <<>> \/ devices = <<1>>
    OBVIOUS
  <2>2. <<>> \in Seq(Names) /\ Distinct(<<>>) /\ <<1>> \in Seq(Names) /\ Distinct(<<1>>)
    <3>1. <<1>> \in Seq(Names) /\ Len(<<1>>) = 1 /\ Len(<<>>) = 0 /\ <<>> \in Seq(Names)
      BY <1>1
    <3> HIDE DEF Thread!Init
    <3> QED  BY <3>1 DEF Distinct
  <2> QED  BY <2>1, <2>2
<1>3. news = <<>> /\ found = <<>> /\ adding = <<>> /\ removing = <<>> /\ known = <<>> /\ callbacks = [p \in Names |-> 0]
  BY DEF Names
<1>4. HotTypes
  <2>1. backend \in {"seq", "shared", "raw", "jack", "winmm"}
    BY DEF ObserversAssumption
  <2>2. cursor \in Nat /\ last \in Nat
    OBVIOUS
  <2>3. callbacks \in [Names -> Int]
    BY <1>3
  <2> HIDE DEF Thread!Init
  <2> QED  BY <1>2, <1>3, <2>1, <2>2, <2>3 DEF HotTypes
<1>5. at = "enumerate" /\ phase = "list"
  OBVIOUS
<1> HIDE DEF Thread!Init
<1>6. \A p \in Sure : callbacks[p] = 0 /\ Times(known, p) = 0 /\ Times(adding, p) = 0 /\ Times(removing, p) = 0
  BY <1>3, TimesNone DEF Sure
<1>7. Compared
  BY <1>3, <1>5, <1>6 DEF Compared, Balanced, ListOf
<1>8. Listened
  <2>1. \A p \in Sure : InTurn(p)
    BY <1>3, <1>6 DEF InTurn, Free, NoStart
  <2> QED  BY <1>3, <1>5, <2>1 DEF Listened, Visits
<1> QED  BY <1>4, <1>7, <1>8 DEF HotInv

\* How an announcement is read, and how one is made.
LEMMA NewsRead ==
  ASSUME HotTypes, news # <<>>, news' = Tail(news), NEW p, NEW i \in 2..(Len(news) + 1), Free(i, p),
         Head(news) = ExitOf(p) => Times(known', p) = 0,
         Head(news) # StartOf(p) /\ Times(known, p) = 0 => Times(known', p) = 0
  PROVE  Free(i - 1, p)'
<1>1. /\ Len(news) \in Nat \ {0} /\ Head(news) = news[1]
      /\ \A k \in 1..(Len(news) - 1) : news'[k] = news[k + 1]
  BY TailLaw DEF HotTypes
<1>2. ASSUME NEW j \in 1..(i - 1), NoStart(p, j, i - 1), j > 1 PROVE NoStart(p, j - 1, i - 2)'
  <2>1. \A k \in (j - 1)..(i - 2) : k + 1 \in j..(i - 1) /\ k \in 1..(Len(news) - 1)
    BY <1>1, <1>2
  <2> QED  BY <1>1, <1>2, <2>1 DEF NoStart, StartOf
<1>3. (i - 1) - 1 = i - 2 /\ i - 2 \in Nat
  OBVIOUS
<1>4. ASSUME NoStart(p, 2, i - 1) PROVE NoStart(p, 1, i - 2)'
  <2>1. \A k \in 1..(i - 2) : k + 1 \in 2..(i - 1) /\ k \in 1..(Len(news) - 1)
    BY <1>1
  <2> QED  BY <1>1, <1>4, <2>1 DEF NoStart, StartOf
<1>5. ASSUME NEW j \in 1..(i - 1), news[j] = ExitOf(p), NoStart(p, j + 1, i - 1) PROVE Free(i - 1, p)'
  <2>1. CASE j = 1
    <3>1. Times(known', p) = 0 /\ NoStart(p, 2, i - 1)
      BY <1>1, <1>5, <2>1
    <3> QED  BY <1>3, <1>4, <3>1 DEF Free
  <2>2. CASE j > 1
    <3>1. j - 1 \in 1..(i - 2) /\ news'[j - 1] = ExitOf(p)
      <4>1. j - 1 \in 1..(Len(news) - 1) /\ (j - 1) + 1 = j
        BY <1>1, <2>2
      <4> QED  BY <1>1, <1>5, <2>2, <4>1
    <3>2. NoStart(p, (j - 1) + 1, i - 2)'
      <4>1. \A k \in j..(i - 2) : k + 1 \in (j + 1)..(i - 1) /\ k \in 1..(Len(news) - 1)
        BY <1>1, <2>2
      <4>2. (j - 1) + 1 = j
        OBVIOUS
      <4>3. NoStart(p, j, i - 2)'
        BY <1>1, <1>5, <4>1 DEF NoStart, StartOf
      <4> QED  BY <4>2, <4>3
    <3> QED  BY <1>3, <3>1, <3>2 DEF Free, ExitOf
  <2> QED  BY <2>1, <2>2
<1>6. ASSUME Times(known, p) = 0, NoStart(p, 1, i - 1) PROVE Free(i - 1, p)'
  <2>1. 1 \in 1..(i - 1) /\ \A k \in 2..(i - 1) : k \in 1..(i - 1)
    OBVIOUS
  <2>2. Head(news) # StartOf(p) /\ NoStart(p, 2, i - 1)
    BY <1>1, <1>6, <2>1 DEF NoStart
  <2> QED  BY <1>3, <1>4, <1>6, <2>2 DEF Free
<1> QED  BY <1>5, <1>6 DEF Free

LEMMA NewsMade ==
  ASSUME HotTypes, NEW e \in [kind : {"start", "exit"}, port : Names], news' = Append(news, e), known' = known,
         NEW p, NEW n \in Nat, n = Len(news)
  PROVE  /\ \A i \in 1..(n + 1) : Free(i, p) => Free(i, p)'
         /\ e = ExitOf(p) => Free(n + 2, p)'
         /\ e # StartOf(p) /\ Free(n + 1, p) => Free(n + 2, p)'
<1>1. n \in Nat /\ (\A k \in 1..n : news'[k] = news[k]) /\ news'[n + 1] = e
  BY AppendLaw DEF HotTypes
<1>2. ASSUME NEW i \in 1..(n + 1), Free(i, p) PROVE Free(i, p)'
  <2>1. \A j \in 1..(i - 1) : j \in 1..n /\ \A k \in (j + 1)..(i - 1) : k \in 1..n
    BY <1>1
  <2>2. \A j \in 1..(i - 1) : NoStart(p, j + 1, i - 1) => NoStart(p, j + 1, i - 1)'
    BY <1>1, <2>1 DEF NoStart, StartOf
  <2>3. NoStart(p, 1, i - 1) => NoStart(p, 1, i - 1)'
    BY <1>1, <2>1 DEF NoStart, StartOf
  <2> QED  BY <1>1, <1>2, <2>1, <2>2, <2>3 DEF Free, ExitOf
<1>3. (n + 2) - 1 = n + 1 /\ (n + 1) - 1 = n
  BY <1>1
<1>4. ASSUME e = ExitOf(p) PROVE Free(n + 2, p)'
  <2>1. n + 1 \in 1..(n + 1) /\ news'[n + 1] = ExitOf(p)
    BY <1>1, <1>4
  <2>2. NoStart(p, (n + 1) + 1, n + 1)'
    BY <1>1 DEF NoStart
  <2> QED  BY <1>3, <2>1, <2>2 DEF Free, ExitOf
<1>5. ASSUME e # StartOf(p), Free(n + 1, p) PROVE Free(n + 2, p)'
  <2>1. \A i \in 1..(n + 1) : i \in 1..n \/ i = n + 1
    BY <1>1
  <2>2. \A j \in 1..(n + 1) : NoStart(p, j, n) => NoStart(p, j, n + 1)'
    <3>1. \A j \in 1..(n + 1) : \A k \in j..(n + 1) : (k \in j..n /\ k \in 1..n) \/ k = n + 1
      BY <1>1
    <3> QED  BY <1>1, <1>5, <3>1 DEF NoStart, StartOf
  <2>3. ASSUME NEW j \in 1..n, news[j] = ExitOf(p), NoStart(p, j + 1, n) PROVE Free(n + 2, p)'
    <3>1. j \in 1..(n + 1) /\ j + 1 \in 1..(n + 1) /\ news'[j] = ExitOf(p)
      BY <1>1, <2>3
    <3>2. NoStart(p, j + 1, n + 1)'
      BY <2>2, <2>3, <3>1
    <3> QED  BY <1>3, <3>1, <3>2 DEF Free, ExitOf
  <2>4. ASSUME Times(known, p) = 0, NoStart(p, 1, n) PROVE Free(n + 2, p)'
    <3>1. 1 \in 1..(n + 1)
      BY <1>1
    <3>2. NoStart(p, 1, n + 1)'
      BY <2>2, <2>4, <3>1
    <3> QED  BY <1>3, <2>4, <3>2 DEF Free
  <2> QED  BY <1>3, <1>5, <2>3, <2>4 DEF Free
<1> QED  BY <1>2, <1>4, <1>5

\* What becomes of a port that is registered, or no more.
LEMMA RegisterLaw ==
  ASSUME HotTypes, NEW p \in Names, Thread!Register(p)
  PROVE  /\ known' \in Seq(Names) /\ callbacks' \in [Names -> Int] /\ callbacks'[p] = callbacks[p] + 1
         /\ \A q \in Names \ {p} : callbacks'[q] = callbacks[q] /\ Times(known', q) = Times(known, q)
         /\ Times(known', p) = IF Times(known, p) = 0 THEN 1 ELSE Times(known, p)
<1>1. known \in Seq(Names) /\ callbacks \in [Names -> Int]
  BY DEF HotTypes
<1>2. callbacks' = [callbacks EXCEPT ![p] = @ + 1]
  BY DEF Thread!Register
<1>3. known' = IF Times(known, p) # 0 THEN known ELSE Append(known, p)
  BY <1>1, ElementsLaw DEF Thread!Register
<1>4. \A q \in Names : Times(known, q) \in Nat /\ Times(Append(known, p), q) = Times(known, q) + (IF p = q THEN 1 ELSE 0)
  BY <1>1, TimesAppend
<1>5. Append(known, p) \in Seq(Names)
  BY <1>1
<1> QED  BY <1>1, <1>2, <1>3, <1>4, <1>5

LEMMA UnregisterLaw ==
  ASSUME HotTypes, NEW p \in Names, Thread!Unregister(p)
  PROVE  /\ known' \in Seq(Names) /\ callbacks' \in [Names -> Int]
         /\ callbacks'[p] = callbacks[p] - (IF Times(known, p) = 0 THEN 0 ELSE 1)
         /\ \A q \in Names \ {p} : callbacks'[q] = callbacks[q] /\ Times(known', q) = Times(known, q)
         /\ Times(known', p) = 0
<1>1. known \in Seq(Names) /\ callbacks \in [Names -> Int]
  BY DEF HotTypes
<1>2. p \in Thread!Elements(known) <=> Times(known, p) # 0
  BY <1>1, ElementsLaw
<1>3. CASE Times(known, p) # 0
  <2>1. known' = Thread!Without(known, p) /\ callbacks' = [callbacks EXCEPT ![p] = @ - 1]
    BY <1>2, <1>3 DEF Thread!Unregister
  <2>2. known' \in Seq(Names) /\ \A q \in Names : Times(known', q) = IF q = p THEN 0 ELSE Times(known, q)
    BY <1>1, <2>1, WithoutLaw
  <2> QED  BY <1>1, <1>3, <2>1, <2>2
<1>4. CASE Times(known, p) = 0
  <2>1. known' = known /\ callbacks' = callbacks
    BY <1>2, <1>4 DEF Thread!Unregister, Thread!user_vars
  <2> QED  BY <1>1, <1>4, <2>1
<1> QED  BY <1>3, <1>4

\* One step is one of these.
LEMMA HotCases ==
  ASSUME Thread!Next
  PROVE  \/ \E p \in Thread!Ports : Thread!Appear(p) \/ Thread!Vanish(p)
         \/ Thread!Enumerate \/ Thread!VisitPort \/ Thread!VisitCard \/ Thread!VisitIndex
         \/ Thread!Listed \/ Thread!Compare \/ Thread!Add \/ Thread!Remove \/ Thread!Adopt
         \/ Thread!Listen \/ Thread!Start \/ Thread!Destroy
         \/ Thread!PortStart \/ Thread!PortExit \/ Thread!OnUdev \/ Thread!OnTimer \/ Thread!Again
         \/ Thread!End \/ Thread!Join
  BY DEF Thread!Next, Thread!System, Thread!Listing, Thread!Constructing, Thread!Reading, Thread!Ending

\* A change of the system: what is announced, and which port is raced.
LEMMA HotChangeLaw ==
  ASSUME HotInv, ObserversAssumption, NEW p \in Thread!Ports, Thread!Appear(p) \/ Thread!Vanish(p)
  PROVE  /\ p \in Names /\ devices' \in Seq(Names) /\ Distinct(devices')
         /\ \A q \in Names \ {p} : q \in Thread!Present' <=> q \in Thread!Present
         /\ p \in Thread!Present' <=> Thread!Appear(p)
         /\ Thread!Appear(p) => p \notin Thread!Present
         /\ \E e \in [kind : {"start", "exit"}, port : Names] :
              /\ e = IF Thread!Appear(p) THEN StartOf(p) ELSE ExitOf(p)
              /\ news' = IF Thread!Listens THEN Append(news, e) ELSE news
         /\ raced' = IF Thread!Overlooked(p) THEN raced \cup {p} ELSE raced
         /\ UNCHANGED <<backend, phase, at, cursor, last, found, adding, removing, known, callbacks, checks>>
<1>1. p \in Names /\ devices \in Seq(Names) /\ Distinct(devices)
  BY DEF HotInv, HotTypes, Names, Thread!Names
<1>2. StartOf(p) \in [kind : {"start", "exit"}, port : Names] /\ ExitOf(p) \in [kind : {"start", "exit"}, port : Names]
  BY <1>1 DEF StartOf, ExitOf
<1>3. \A q : q \in Thread!Present <=> \E i \in 1..Len(devices) : devices[i] = q
  BY <1>1, ElementsLaw DEF Thread!Present
<1>4. CASE Thread!Appear(p)
  <2>1. p \notin Thread!Present /\ devices' = Append(devices, p) /\ Thread!Change("start", p)
    BY <1>4 DEF Thread!Appear
  <2>2. /\ devices' \in Seq(Names) /\ Len(devices') = Len(devices) + 1 /\ Len(devices) \in Nat
        /\ \A i \in 1..Len(devices) : devices'[i] = devices[i]
        /\ devices'[Len(devices) + 1] = p
    BY <1>1, <2>1, AppendLaw
  <2>3. \A i \in 1..(Len(devices) + 1) : i \in 1..Len(devices) \/ i = Len(devices) + 1
    BY <2>2
  <2>4. Distinct(devices')
    BY <1>1, <1>3, <2>1, <2>2, <2>3 DEF Distinct
  <2>5. \A q : q \in Thread!Present' <=> q \in Thread!Present \/ q = p
    <3>1. \A q : q \in Thread!Present' <=> \E i \in 1..Len(devices') : devices'[i] = q
      BY <2>2, ElementsLaw DEF Thread!Present, Thread!Elements
    <3>2. Len(devices) + 1 \in 1..(Len(devices) + 1) /\ \A i \in 1..Len(devices) : i \in 1..(Len(devices) + 1)
      BY <2>2
    <3> QED  BY <1>3, <2>2, <2>3, <3>1, <3>2
  <2>6. /\ news' = IF Thread!Listens THEN Append(news, StartOf(p)) ELSE news
        /\ raced' = IF Thread!Overlooked(p) THEN raced \cup {p} ELSE raced
        /\ UNCHANGED <<backend, phase, at, cursor, last, found, adding, removing, known, callbacks, checks>>
    BY <2>1 DEF Thread!Change, StartOf, Thread!list_vars, Thread!user_vars
  <2> QED  BY <1>1, <1>2, <1>4, <2>1, <2>2, <2>4, <2>5, <2>6
<1>5. CASE Thread!Vanish(p)
  <2>1. p \in Thread!Present /\ devices' = Thread!Without(devices, p) /\ Thread!Change("exit", p)
    BY <1>5 DEF Thread!Vanish
  <2>2. ~Thread!Appear(p)
    BY <2>1 DEF Thread!Appear
  <2>3. devices' \in Seq(Names) /\ Distinct(devices')
    BY <1>1, <2>1, WithoutLaw
  <2>4. \A q \in Names : q \in Thread!Present' <=> q # p /\ q \in Thread!Present
    <3> DEFINE w == Thread!Without(devices, p)
    <3>1. \A q \in Names : q \in Thread!Elements(w) <=> q # p /\ q \in Thread!Elements(devices)
      BY <1>1, WithoutLaw
    <3> HIDE DEF w
    <3>2. Thread!Present' = Thread!Elements(w) /\ Thread!Present = Thread!Elements(devices)
      BY <2>1 DEF Thread!Present, Thread!Elements, w
    <3> QED  BY <3>1, <3>2
  <2>5. /\ news' = IF Thread!Listens THEN Append(news, ExitOf(p)) ELSE news
        /\ raced' = IF Thread!Overlooked(p) THEN raced \cup {p} ELSE raced
        /\ UNCHANGED <<backend, phase, at, cursor, last, found, adding, removing, known, callbacks, checks>>
    BY <2>1 DEF Thread!Change, ExitOf, Thread!list_vars, Thread!user_vars
  <2> QED  BY <1>1, <1>2, <1>5, <2>1, <2>2, <2>3, <2>4, <2>5
<1> QED  BY <1>4, <1>5

\* The callbacks of a step are for one port, or a race begins for one port.
LEMMA OneAtATime ==
  ASSUME HotInv, ObserversAssumption, Thread!Next
  PROVE  \E p \in Names : \A q \in Names \ {p} : callbacks'[q] = callbacks[q] /\ (q \in raced' <=> q \in raced)
<1> DEFINE Only(p) == \A q \in Names \ {p} : callbacks'[q] = callbacks[q] /\ (q \in raced' <=> q \in raced)
<1>0. /\ 0 \in Names /\ \A i \in 1..Len(found) : found[i] \in Names
      /\ \A s \in Seq(Names) : s # <<>> => Head(s) \in Names
      /\ callbacks \in [Names -> Int] /\ adding \in Seq(Names) /\ removing \in Seq(Names)
  <2>1. 0 \in Names
    BY DEF Names, Thread!Names, Thread!Ghost
  <2>2. found \in Seq(Names) /\ callbacks \in [Names -> Int] /\ adding \in Seq(Names) /\ removing \in Seq(Names)
    BY DEF HotInv, HotTypes
  <2>3. \A s \in Seq(Names) : s # <<>> => Head(s) \in Names
    BY TailLaw
  <2> QED  BY <2>1, <2>2, <2>3
<1>1. ASSUME NEW p \in Names, callbacks' = callbacks, raced' = raced \/ raced' = raced \cup {p} PROVE Only(p)
  BY <1>1
<1>2. ASSUME callbacks' = callbacks, raced' = raced PROVE Only(0)
  BY <1>2
<1>3. ASSUME NEW p \in Names, Thread!Register(p), raced' = raced PROVE Only(p)
  BY <1>3, RegisterLaw DEF HotInv
<1>4. ASSUME NEW p \in Names, Thread!Unregister(p), raced' = raced PROVE Only(p)
  BY <1>4, UnregisterLaw DEF HotInv
<1> HIDE DEF Only
<1>5. ASSUME NEW p \in Thread!Ports, Thread!Appear(p) \/ Thread!Vanish(p) PROVE \E q \in Names : Only(q)
  BY <1>1, <1>5, HotChangeLaw
<1>6. ASSUME Thread!VisitPort PROVE \E p \in Names : Only(p)
  <2>1. raced' = raced
    BY <1>6 DEF Thread!VisitPort, Thread!system_vars
  <2>2. CASE Thread!Register(found[cursor]) /\ backend = "jack"
    <3>1. found[cursor] \in Names
      BY <1>0, <1>6, <2>2 DEF Thread!VisitPort, Thread!Visiting, HotInv, HotTypes, Listened, Visits, Compares
    <3> QED  BY <1>3, <2>1, <2>2, <3>1
  <2>3. CASE cursor \in Thread!Present /\ Thread!Register(cursor)
    <3>1. cursor \in Names
      <4>1. devices \in Seq(Names)
        BY DEF HotInv, HotTypes
      <4> QED  BY <2>3, <4>1 DEF Thread!Present, Thread!Elements
    <3> QED  BY <1>3, <2>1, <2>3, <3>1
  <2>4. CASE callbacks' = callbacks
    BY <1>0, <1>2, <2>1, <2>4
  <2> QED  BY <1>6, <2>2, <2>3, <2>4 DEF Thread!VisitPort, Thread!user_vars
<1>7. ASSUME Thread!VisitIndex PROVE \E p \in Names : Only(p)
  <2>1. PICK name \in Thread!Names : raced' = raced \/ raced' = raced \cup {name}
    BY <1>7 DEF Thread!VisitIndex
  <2>2. callbacks' = callbacks /\ name \in Names
    BY <1>7, <2>1 DEF Thread!VisitIndex, Thread!user_vars, Names
  <2> QED  BY <1>1, <2>1, <2>2
<1>8. ASSUME Thread!Add PROVE \E p \in Names : Only(p)
  <2>1. Head(adding) \in Names /\ callbacks' = [callbacks EXCEPT ![Head(adding)] = @ + 1] /\ raced' = raced
    BY <1>0, <1>8 DEF Thread!Add, Thread!system_vars
  <2> QED  BY <1>0, <2>1 DEF Only
<1>9. ASSUME Thread!Remove PROVE \E p \in Names : Only(p)
  <2>1. Head(removing) \in Names /\ callbacks' = [callbacks EXCEPT ![Head(removing)] = @ - 1] /\ raced' = raced
    BY <1>0, <1>9 DEF Thread!Remove, Thread!system_vars
  <2> QED  BY <1>0, <2>1 DEF Only
<1>10. ASSUME Thread!PortStart \/ Thread!PortExit PROVE \E p \in Names : Only(p)
  <2>1. raced' = raced /\ news # <<>>
    BY <1>10 DEF Thread!PortStart, Thread!PortExit, Thread!News
  <2>2. Head(news).port \in Names
    <3>1. Head(news) \in [kind : {"start", "exit"}, port : Names]
      BY <2>1, TailLaw DEF HotInv, HotTypes
    <3> QED  BY <3>1
  <2>3. \/ Thread!Register(Head(news).port) \/ Thread!Unregister(Head(news).port) \/ callbacks' = callbacks
    BY <1>10 DEF Thread!PortStart, Thread!PortExit, Thread!user_vars
  <2> QED  BY <1>0, <1>2, <1>3, <1>4, <2>1, <2>2, <2>3
<1>11. ASSUME \/ Thread!Enumerate \/ Thread!VisitCard \/ Thread!Listed \/ Thread!Compare \/ Thread!Adopt
              \/ Thread!Listen \/ Thread!Start \/ Thread!Destroy \/ Thread!OnUdev \/ Thread!OnTimer \/ Thread!Again
              \/ Thread!End \/ Thread!Join
       PROVE  \E p \in Names : Only(p)
  <2>1. callbacks' = callbacks /\ raced' = raced
    BY <1>11 DEF Thread!Enumerate, Thread!VisitCard, Thread!Listed, Thread!Compare, Thread!Adopt, Thread!Listen, Thread!Start,
                 Thread!Destroy, Thread!OnUdev, Thread!OnTimer, Thread!Again, Thread!End, Thread!Join, Thread!system_vars, Thread!user_vars
  <2> QED  BY <1>0, <1>2, <2>1
<1>12. \E p \in Names : Only(p)
  BY <1>5, <1>6, <1>7, <1>8, <1>9, <1>10, <1>11, HotCases
<1> QED  BY <1>12 DEF Only

LEMMA OnceToldNext == HotInv' => (\A p \in Sure : callbacks[p] \in {0, 1})'
  BY OnceTold, PTL

\* Of such a step PortDirectory has one that says the same.
LEMMA HotMoves ==
  ASSUME HotInv, HotInv', ObserversAssumption, Thread!Next
  PROVE  Thread!Directory!Next \/ Thread!Heard' = Thread!Heard
<1> DEFINE h == Thread!Heard
           g == Thread!Heard'
<1>1. h = [q \in Names |-> IF q \in raced THEN 0 ELSE callbacks[q]] /\ g = [q \in Names |-> IF q \in raced' THEN 0 ELSE callbacks'[q]]
  BY DEF Thread!Heard, Names
<1>2. PICK p \in Names : \A q \in Names \ {p} : callbacks'[q] = callbacks[q] /\ (q \in raced' <=> q \in raced)
  BY OneAtATime
<1>3. \A q \in Names : (q \notin raced => callbacks[q] \in {0, 1}) /\ (q \notin raced' => callbacks'[q] \in {0, 1})
  <2> QED  BY OnceTold, OnceToldNext DEF Sure
<1> HIDE DEF h, g
<1>4. \A q \in Names : h[q] \in {0, 1} /\ g[q] \in {0, 1} /\ (q # p => g[q] = h[q])
  BY <1>1, <1>2, <1>3
<1>5. CASE g[p] = h[p]
  BY <1>1, <1>4, <1>5 DEF h, g
<1>6. CASE h[p] = 0 /\ g[p] = 1
  <2>1. {p} \in SUBSET Names /\ \A q \in {p} : h[q] = 0
    BY <1>6
  <2>2. g = [q \in Names |-> IF q \in {p} THEN 1 ELSE h[q]]
    BY <1>1, <1>4, <1>6
  <2>3. Thread!Directory!Added({p})
    BY <2>1, <2>2 DEF Thread!Directory!Added, h, g, Names
  <2> QED  BY <2>1, <2>3 DEF Thread!Directory!Next, Names
<1>7. CASE h[p] = 1 /\ g[p] = 0
  <2>1. g = [h EXCEPT ![p] = 0]
    BY <1>1, <1>4, <1>7
  <2>2. Thread!Directory!Removed(p)
    BY <1>7, <2>1 DEF Thread!Directory!Removed, h, g
  <2> QED  BY <2>2 DEF Thread!Directory!Next, Names
<1> QED  BY <1>4, <1>5, <1>6, <1>7

LEMMA HotTypesStep ==
  ASSUME HotInv, ObserversAssumption, Thread!Next
  PROVE  HotTypes'
<1> USE DEF Thread!system_vars, Thread!list_vars, Thread!user_vars
<1>1. HotTypes /\ backend' = backend
  <2>1. \A p \in Thread!Ports : Thread!Appear(p) \/ Thread!Vanish(p) => backend' = backend
    BY HotChangeLaw
  <2>2. HotTypes
    BY DEF HotInv
  <2> QED  BY <2>1, <2>2, HotCases DEF Thread!Enumerate, Thread!VisitPort, Thread!VisitCard, Thread!VisitIndex, Thread!Listed,
                Thread!Compare, Thread!Add, Thread!Remove, Thread!Adopt, Thread!Listen, Thread!Start, Thread!Destroy, Thread!PortStart,
                Thread!PortExit, Thread!OnUdev, Thread!OnTimer, Thread!Again, Thread!End, Thread!Join
<1>0. /\ PortCount \in Nat /\ Thread!Names = Names /\ 0 \in Names /\ Names \subseteq Nat /\ \A p \in 1..PortCount : p \in Names
      /\ Len(devices) \in Nat
  BY <1>1 DEF ObserversAssumption, HotTypes, Names, Thread!Names, Thread!Ports, Thread!Ghost
<1>p. \A q \in Thread!Present : q \in Names
  <2>1. devices \in Seq(Names)
    BY <1>1 DEF HotTypes
  <2> QED  BY <2>1 DEF Thread!Present, Thread!Elements
<1>2. ASSUME NEW p \in Thread!Ports, Thread!Appear(p) \/ Thread!Vanish(p) PROVE HotTypes'
  <2>1. news' \in Seq([kind : {"start", "exit"}, port : Names])
    <3>1. PICK e \in [kind : {"start", "exit"}, port : Names] : news' = IF Thread!Listens THEN Append(news, e) ELSE news
      BY <1>2, HotChangeLaw
    <3>2. Append(news, e) \in Seq([kind : {"start", "exit"}, port : Names])
      BY <1>1, AppendLaw DEF HotTypes
    <3> QED  BY <1>1, <3>1, <3>2 DEF HotTypes
  <2>2. /\ devices' \in Seq(Names) /\ Distinct(devices')
        /\ UNCHANGED <<backend, cursor, last, found, adding, removing, known, callbacks>>
    BY <1>2, HotChangeLaw
  <2> QED  BY <1>1, <2>1, <2>2 DEF HotTypes
<1>3. ASSUME Thread!Enumerate PROVE HotTypes'
  <2>1. UNCHANGED <<backend, devices, news, adding, removing, known, callbacks>>
    BY <1>3 DEF Thread!Enumerate
  <2>2. cursor' \in Nat /\ last' \in Nat /\ found' \in Seq(Names)
    BY <1>0, <1>1, <1>3 DEF Thread!Enumerate, HotTypes
  <2> QED  BY <1>1, <2>1, <2>2 DEF HotTypes
<1>4. ASSUME Thread!VisitPort PROVE HotTypes'
  <2>1. UNCHANGED <<backend, devices, news, last, found, adding, removing>> /\ cursor' = cursor + 1
    BY <1>4 DEF Thread!VisitPort, Thread!Visiting
  <2>2. ASSUME NEW p \in Names, Thread!Register(p) PROVE known' \in Seq(Names) /\ callbacks' \in [Names -> Int]
    BY <1>1, <2>2, RegisterLaw
  <2>3. known' \in Seq(Names) /\ callbacks' \in [Names -> Int]
    <3>1. CASE backend = "jack" /\ Thread!Register(found[cursor])
      <4>1. found[cursor] \in Names
        BY <1>1, <1>4, <3>1 DEF Thread!VisitPort, Thread!Visiting, HotInv, HotTypes, Listened, Visits, Compares
      <4> QED  BY <2>2, <3>1, <4>1
    <3>2. CASE cursor \in Thread!Present /\ Thread!Register(cursor)
      <4>1. cursor \in Names
        BY <1>p, <3>2
      <4> QED  BY <2>2, <3>2, <4>1
    <3>3. CASE known' = known /\ callbacks' = callbacks
      BY <1>1, <3>3 DEF HotTypes
    <3> QED  BY <1>4, <3>1, <3>2, <3>3 DEF Thread!VisitPort
  <2> QED  BY <1>1, <2>1, <2>3 DEF HotTypes
<1>5. ASSUME Thread!VisitCard PROVE HotTypes'
  <2>1. UNCHANGED <<backend, devices, news, last, adding, removing, known, callbacks>> /\ cursor' = cursor + 1
    BY <1>5 DEF Thread!VisitCard, Thread!Visiting
  <2>2. found' \in Seq(Names)
    <3> QED  BY <1>p, <1>1, <1>5 DEF HotTypes, Thread!VisitCard
  <2> QED  BY <1>1, <2>1, <2>2 DEF HotTypes
<1>6. ASSUME Thread!VisitIndex PROVE HotTypes'
  <2>1. UNCHANGED <<backend, devices, news, last, adding, removing, known, callbacks>> /\ cursor' = cursor + 1
    BY <1>6 DEF Thread!VisitIndex, Thread!Visiting
  <2>2. found' \in Seq(Names)
    BY <1>0, <1>1, <1>6 DEF HotTypes, Thread!VisitIndex
  <2> QED  BY <1>1, <2>1, <2>2 DEF HotTypes
<1>7. ASSUME Thread!Compare PROVE HotTypes'
  <2>1. UNCHANGED <<backend, devices, news, cursor, last, found, known, callbacks>>
    BY <1>7 DEF Thread!Compare
  <2>2. adding' \in Seq(Names) /\ removing' \in Seq(Names)
    BY <1>1, <1>7, KeptLaw, FilteredType DEF HotTypes, Thread!Compare
  <2> QED  BY <1>1, <2>1, <2>2 DEF HotTypes
<1>8. ASSUME Thread!Add \/ Thread!Remove PROVE HotTypes'
  <2>1. UNCHANGED <<backend, devices, news, cursor, last, found, known>>
    BY <1>8 DEF Thread!Add, Thread!Remove
  <2>2. callbacks \in [Names -> Int] /\ adding \in Seq(Names) /\ removing \in Seq(Names)
    BY <1>1 DEF HotTypes
  <2>3. ASSUME Thread!Add PROVE callbacks' \in [Names -> Int] /\ adding' \in Seq(Names) /\ removing' \in Seq(Names)
    BY <2>2, <2>3, TailLaw DEF Thread!Add
  <2>4. ASSUME Thread!Remove PROVE callbacks' \in [Names -> Int] /\ adding' \in Seq(Names) /\ removing' \in Seq(Names)
    BY <2>2, <2>4, TailLaw DEF Thread!Remove
  <2> QED  BY <1>1, <1>8, <2>1, <2>3, <2>4 DEF HotTypes
<1>9. ASSUME Thread!PortStart \/ Thread!PortExit PROVE HotTypes'
  <2>1. UNCHANGED <<backend, devices, cursor, last, found, adding, removing>> /\ news # <<>> /\ news' = Tail(news)
    BY <1>9 DEF Thread!PortStart, Thread!PortExit, Thread!News
  <2>2. Head(news) \in [kind : {"start", "exit"}, port : Names] /\ news' \in Seq([kind : {"start", "exit"}, port : Names])
    BY <1>1, <2>1, TailLaw DEF HotTypes
  <2>3. Head(news).port \in Names
    BY <2>2
  <2>4. Thread!Register(Head(news).port) \/ Thread!Unregister(Head(news).port) \/ (known' = known /\ callbacks' = callbacks)
    BY <1>9 DEF Thread!PortStart, Thread!PortExit
  <2>5. known' \in Seq(Names) /\ callbacks' \in [Names -> Int]
    <3>1. CASE Thread!Register(Head(news).port)
      BY <1>1, <2>3, <3>1, RegisterLaw
    <3>2. CASE Thread!Unregister(Head(news).port)
      BY <1>1, <2>3, <3>2, UnregisterLaw
    <3>3. CASE known' = known /\ callbacks' = callbacks
      BY <1>1, <3>3 DEF HotTypes
    <3> QED  BY <2>4, <3>1, <3>2, <3>3
  <2> QED  BY <1>1, <2>1, <2>2, <2>5 DEF HotTypes
<1>10. ASSUME Thread!OnUdev PROVE HotTypes'
  <2>1. UNCHANGED <<backend, devices, cursor, last, found, adding, removing, known, callbacks>> /\ news # <<>> /\ news' = Tail(news)
    BY <1>10 DEF Thread!OnUdev
  <2>2. news' \in Seq([kind : {"start", "exit"}, port : Names])
    BY <1>1, <2>1, TailLaw DEF HotTypes
  <2> QED  BY <1>1, <2>1, <2>2 DEF HotTypes
<1>11. ASSUME Thread!Adopt PROVE HotTypes'
  <2>1. UNCHANGED <<backend, devices, news, cursor, last, found, adding, removing, callbacks>> /\ known' = found
    BY <1>11 DEF Thread!Adopt
  <2> QED  BY <1>1, <2>1 DEF HotTypes
<1>12. ASSUME \/ Thread!Listed \/ Thread!Listen \/ Thread!Start \/ Thread!Destroy \/ Thread!OnTimer \/ Thread!Again
              \/ Thread!End \/ Thread!Join
       PROVE  HotTypes'
  <2>1. UNCHANGED <<backend, devices, news, cursor, last, found, adding, removing, known, callbacks>>
    BY <1>12 DEF Thread!Listed, Thread!Listen, Thread!Start, Thread!Destroy, Thread!OnTimer, Thread!Again, Thread!End, Thread!Join
  <2> QED  BY <1>1, <2>1 DEF HotTypes
<1> HIDE DEF Thread!system_vars, Thread!list_vars, Thread!user_vars
<1> QED  BY <1>2, <1>3, <1>4, <1>5, <1>6, <1>7, <1>8, <1>9, <1>10, <1>11, <1>12, HotCases

LEMMA ComparedStep ==
  ASSUME HotInv, ObserversAssumption, Thread!Next
  PROVE  Compared'
<1> USE DEF Thread!system_vars, Thread!list_vars, Thread!user_vars
<1>1. HotTypes /\ HotTypes'
  BY HotTypesStep DEF HotInv
<1>2. SUFFICES ASSUME Compares' PROVE Compared'
  BY DEF Compared
<1>3. Compares /\ ~Thread!ByEvent /\ backend' = backend
  <2>1. backend' = backend
    <3>1. \A p \in Thread!Ports : Thread!Appear(p) \/ Thread!Vanish(p) => backend' = backend
      BY HotChangeLaw
    <3> QED  BY <3>1, HotCases DEF Thread!Enumerate, Thread!VisitPort, Thread!VisitCard, Thread!VisitIndex, Thread!Listed,
                Thread!Compare, Thread!Add, Thread!Remove, Thread!Adopt, Thread!Listen, Thread!Start, Thread!Destroy, Thread!PortStart,
                Thread!PortExit, Thread!OnUdev, Thread!OnTimer, Thread!Again, Thread!End, Thread!Join
  <2> QED  BY <1>2, <2>1 DEF Compares, Thread!ByEvent
<1>4. /\ at # "notify" => adding = <<>> /\ removing = <<>>
      /\ \A p \in Sure : Balanced(p)
      /\ backend = "raw" /\ at = "visit" => \A p \in Names : p >= cursor => Times(found, p) = 0
      /\ phase = "start" => at = "notify" /\ adding = <<>> /\ removing = <<>> /\ known = found
      /\ phase # "listen"
  BY <1>3 DEF HotInv, Compared
<1>5. \A p \in Sure : /\ p \in Names /\ callbacks[p] \in Int /\ Times(adding, p) \in Nat /\ Times(removing, p) \in Nat
                      /\ Times(found, p) \in Nat /\ Times(known, p) \in Nat
  BY <1>1, TimesLaw DEF HotTypes, Sure
<1>6. at # "notify" => \A p \in Sure : Times(adding, p) = 0 /\ Times(removing, p) = 0
  BY <1>4, TimesNone
<1>7. ASSUME NEW p \in Thread!Ports, Thread!Appear(p) \/ Thread!Vanish(p) PROVE Compared'
  <2>1. UNCHANGED <<backend, raced, phase, at, cursor, found, adding, removing, known, callbacks>>
    BY <1>3, <1>7, HotChangeLaw DEF Thread!Overlooked
  <2> QED  BY <1>3, <1>4, <2>1 DEF Compared, Balanced, ListOf, Sure
<1>8. ASSUME Thread!Enumerate PROVE Compared'
  <2>1. /\ UNCHANGED <<backend, raced, phase, adding, removing, known, callbacks>>
        /\ at = "enumerate" /\ at' = "visit" /\ found' = <<>>
    BY <1>3, <1>8 DEF Thread!Enumerate, Thread!ByEvent
  <2>2. \A p : Times(found', p) = 0
    BY <2>1, TimesNone
  <2>3. \A p \in Sure' : Balanced(p)'
    BY <1>4, <1>6, <2>1, <2>2 DEF Balanced, ListOf, Sure
  <2> QED  BY <1>4, <2>1, <2>2, <2>3 DEF Compared
<1>9. ASSUME Thread!VisitCard PROVE Compared'
  <2>1. /\ UNCHANGED <<backend, raced, phase, at, adding, removing, known, callbacks>>
        /\ at = "visit" /\ backend = "raw" /\ cursor' = cursor + 1
        /\ found' = IF cursor \in Thread!Present THEN Append(found, cursor) ELSE found
    BY <1>9 DEF Thread!VisitCard, Thread!Visiting
  <2>2. Names \subseteq Nat /\ cursor \in Nat /\ found \in Seq(Names)
    BY <1>1 DEF HotTypes, Names, Thread!Names, Thread!Ports, Thread!Ghost
  <2>3. cursor \in Thread!Present => cursor \in Names
    <3>1. devices \in Seq(Names)
      BY <1>1 DEF HotTypes
    <3> QED  BY <3>1 DEF Thread!Present, Thread!Elements
  <2>4. \A p \in Names : /\ Times(found, p) \in Nat /\ p # cursor => Times(found', p) = Times(found, p)
                         /\ p = cursor => Times(found', p) \in {0, 1}
    <3>1. \A p \in Names : Times(found, p) \in Nat
      BY <2>2, TimesLaw
    <3>2. \A p \in Names : p >= cursor => Times(found, p) = 0
      BY <1>4, <2>1
    <3>3. cursor \in Names => \A p \in Names : Times(Append(found, cursor), p) = Times(found, p) + (IF cursor = p THEN 1 ELSE 0)
      BY <2>2, TimesAppend
    <3> QED  BY <2>1, <2>2, <2>3, <3>1, <3>2, <3>3
  <2>5. \A p \in Sure : Times(found', p) \in {0, 1}
    BY <1>4, <1>5, <2>1, <2>4 DEF Balanced
  <2>6. \A p \in Sure' : Balanced(p)'
    BY <1>4, <1>6, <2>1, <2>5 DEF Balanced, ListOf, Sure
  <2>7. \A p \in Names : p >= cursor' => Times(found', p) = 0
    BY <1>4, <2>1, <2>2, <2>4
  <2> QED  BY <1>4, <2>1, <2>6, <2>7 DEF Compared
<1>10. ASSUME Thread!VisitIndex PROVE Compared'
  <2>1. /\ UNCHANGED <<backend, phase, at, adding, removing, known, callbacks>>
        /\ at = "visit" /\ backend = "winmm" /\ found \in Seq(Names)
    BY <1>1, <1>10 DEF Thread!VisitIndex, Thread!Visiting, HotTypes
  <2>2. PICK name \in Names : found' = Append(found, name) /\ raced' = IF name \in Thread!Elements(found) THEN raced \cup {name} ELSE raced
    BY <1>10 DEF Thread!VisitIndex, Names
  <2>3. \A p \in Sure' : p \in Sure /\ (p = name => Times(found, p) = 0)
    BY <2>1, <2>2, ElementsLaw DEF Sure
  <2>4. \A p \in Names : Times(found', p) = Times(found, p) + (IF name = p THEN 1 ELSE 0)
    BY <2>1, <2>2, TimesAppend
  <2>5. \A p \in Sure' : Times(found', p) \in {0, 1}
    <3>1. \A p \in Sure' : Times(found, p) \in {0, 1} /\ Times(found, p) \in Nat /\ p \in Names
      BY <1>4, <1>5, <2>1, <2>3 DEF Balanced
    <3> QED  BY <2>3, <2>4, <3>1
  <2>6. \A p \in Sure' : Balanced(p)'
    BY <1>4, <1>6, <2>1, <2>3, <2>5 DEF Balanced, ListOf
  <2> QED  BY <1>4, <2>1, <2>6 DEF Compared
<1>11. ASSUME Thread!Compare PROVE Compared'
  <2>1. /\ UNCHANGED <<backend, raced, phase, cursor, found, known, callbacks>> /\ at = "visit" /\ at' = "notify"
        /\ adding' = Filtered(found, Names \ Thread!Elements(known))
        /\ removing' = Filtered(known, Names \ Thread!Elements(found))
    BY <1>11, KeptLaw DEF Thread!Compare, Thread!Visited, Names
  <2>2. found \in Seq(Names) /\ known \in Seq(Names)
    BY <1>1 DEF HotTypes
  <2>3. \A p \in Names : /\ Times(adding', p) = IF p \in Names \ Thread!Elements(known) THEN Times(found, p) ELSE 0
                         /\ Times(removing', p) = IF p \in Names \ Thread!Elements(found) THEN Times(known, p) ELSE 0
    BY <2>1, <2>2, TimesFiltered
  <2>4. \A p \in Names : /\ p \in Thread!Elements(known) <=> Times(known, p) # 0
                         /\ p \in Thread!Elements(found) <=> Times(found, p) # 0
    BY <2>2, ElementsLaw
  <2>5. ASSUME NEW p \in Sure PROVE Balanced(p)'
    <3>1. callbacks[p] = Times(known, p) /\ Times(known, p) \in {0, 1} /\ Times(found, p) \in {0, 1} /\ p \in Names
      BY <1>4, <1>5, <1>6, <2>1 DEF Balanced, ListOf
    <3>2. /\ Times(adding', p) = IF Times(known, p) = 0 THEN Times(found, p) ELSE 0
          /\ Times(removing', p) = IF Times(found, p) = 0 THEN Times(known, p) ELSE 0
      BY <2>3, <2>4, <3>1
    <3> QED  BY <2>1, <3>1, <3>2 DEF Balanced, ListOf
  <2>6. \A p \in Sure' : Balanced(p)'
    BY <2>1, <2>5 DEF Sure
  <2> QED  BY <1>4, <2>1, <2>6 DEF Compared
<1>12. ASSUME Thread!Add PROVE Compared'
  <2>1. /\ UNCHANGED <<backend, raced, phase, at, cursor, found, removing, known>> /\ at = "notify" /\ adding # <<>>
        /\ callbacks' = [callbacks EXCEPT ![Head(adding)] = @ + 1] /\ adding' = Tail(adding)
    BY <1>12 DEF Thread!Add
  <2>2. adding \in Seq(Names) /\ callbacks \in [Names -> Int]
    BY <1>1 DEF HotTypes
  <2>3. Head(adding) \in Names /\ Tail(adding) \in Seq(Names)
    BY <2>1, <2>2, TailLaw
  <2>4. \A p : Times(adding, p) = Times(adding', p) + (IF Head(adding) = p THEN 1 ELSE 0) /\ Times(adding', p) \in Nat
    BY <2>1, <2>2, <2>3, TimesTail, TimesLaw
  <2>5. \A p \in Names : callbacks'[p] = callbacks[p] + (IF Head(adding) = p THEN 1 ELSE 0)
    BY <2>1, <2>2, <2>3
  <2>6. ASSUME NEW p \in Sure PROVE Balanced(p)'
    BY <1>4, <1>5, <2>1, <2>4, <2>5 DEF Balanced, ListOf
  <2>7. \A p \in Sure' : Balanced(p)'
    BY <2>1, <2>6 DEF Sure
  <2> QED  BY <1>4, <2>1, <2>7 DEF Compared
<1>13. ASSUME Thread!Remove PROVE Compared'
  <2>1. /\ UNCHANGED <<backend, raced, phase, at, cursor, found, adding, known>> /\ at = "notify" /\ removing # <<>>
        /\ callbacks' = [callbacks EXCEPT ![Head(removing)] = @ - 1] /\ removing' = Tail(removing)
    BY <1>13 DEF Thread!Remove
  <2>2. removing \in Seq(Names) /\ callbacks \in [Names -> Int]
    BY <1>1 DEF HotTypes
  <2>3. Head(removing) \in Names /\ Tail(removing) \in Seq(Names)
    BY <2>1, <2>2, TailLaw
  <2>4. \A p : Times(removing, p) = Times(removing', p) + (IF Head(removing) = p THEN 1 ELSE 0) /\ Times(removing', p) \in Nat
    BY <2>1, <2>2, <2>3, TimesTail, TimesLaw
  <2>5. \A p \in Names : callbacks'[p] = callbacks[p] - (IF Head(removing) = p THEN 1 ELSE 0)
    BY <2>1, <2>2, <2>3
  <2>6. ASSUME NEW p \in Sure PROVE Balanced(p)'
    <3>1. /\ callbacks'[p] = callbacks[p] - (IF Head(removing) = p THEN 1 ELSE 0) /\ callbacks[p] \in Int
          /\ Times(removing, p) = Times(removing', p) + (IF Head(removing) = p THEN 1 ELSE 0)
          /\ Times(removing', p) \in Nat /\ Times(adding, p) \in Nat /\ Times(found, p) \in Nat /\ Times(known, p) \in Nat
      BY <1>5, <2>4, <2>5
    <3>2. Balanced(p)
      BY <1>4
    <3>3. ListOf = found /\ ListOf' = found
      BY <2>1 DEF ListOf
    <3>4. /\ adding' = adding /\ known' = known /\ found' = found /\ at = "notify"
          /\ callbacks[p] + Times(adding, p) = Times(removing, p) + Times(found, p)
      BY <2>1, <3>2, <3>3 DEF Balanced
    <3>5. callbacks'[p] + Times(adding, p) = Times(removing', p) + Times(found, p)
      BY <3>1, <3>4
    <3>6. Times(removing', p) # 0 => Times(removing, p) # 0 /\ Times(removing', p) <= Times(removing, p)
      BY <3>1
    <3>7. Times(adding, p) # 0 => Times(removing', p) = 0
      BY <3>1, <3>2 DEF Balanced
    <3>8. Times(removing', p) # 0 => Times(removing', p) = 1 /\ Times(found, p) = 0
      BY <3>1, <3>2, <3>6 DEF Balanced
    <3>9. Times(adding', p) = Times(adding, p) /\ Times(known', p) = Times(known, p) /\ Times(found', p) = Times(found, p)
      BY <3>4
    <3>10. Times(found, p) \in {0, 1} /\ Times(known, p) \in {0, 1} /\ (Times(adding, p) # 0 => Times(adding, p) = 1 /\ Times(found, p) = 1)
      BY <3>2, <3>4 DEF Balanced
    <3> QED  BY <3>3, <3>5, <3>7, <3>8, <3>9, <3>10 DEF Balanced
  <2>7. \A p \in Sure' : Balanced(p)'
    BY <2>1, <2>6 DEF Sure
  <2> QED  BY <1>4, <2>1, <2>7 DEF Compared
<1>14. ASSUME Thread!Adopt PROVE Compared'
  <2>1. /\ UNCHANGED <<backend, raced, cursor, found, adding, removing, callbacks>> /\ at = "notify" /\ adding = <<>> /\ removing = <<>>
        /\ known' = found
        /\ \/ phase = "list" /\ phase' = "start" /\ at' = "notify"
           \/ phase # "start" /\ phase' = phase /\ at' = "poll"
    BY <1>14 DEF Thread!Adopt
  <2>2. \A p : Times(adding, p) = 0 /\ Times(removing, p) = 0
    BY <2>1, TimesNone
  <2>3. ASSUME NEW p \in Sure PROVE Balanced(p)'
    BY <1>4, <1>5, <2>1, <2>2 DEF Balanced, ListOf
  <2>4. \A p \in Sure' : Balanced(p)'
    BY <2>1, <2>3 DEF Sure
  <2> QED  BY <1>4, <2>1, <2>4 DEF Compared
<1>15. ASSUME Thread!Start PROVE Compared'
  <2>1. /\ UNCHANGED <<backend, raced, cursor, found, adding, removing, known, callbacks>>
        /\ at = "notify" /\ at' = "poll" /\ phase' = "running" /\ adding = <<>> /\ removing = <<>> /\ known = found
    BY <1>4, <1>15 DEF Thread!Start
  <2>2. \A p \in Sure' : Balanced(p)'
    BY <1>4, <2>1 DEF Balanced, ListOf, Sure
  <2> QED  BY <2>1, <2>2 DEF Compared
<1>16. ASSUME Thread!Destroy \/ Thread!Join PROVE Compared'
  <2>1. /\ UNCHANGED <<backend, raced, at, cursor, found, adding, removing, known, callbacks>> /\ phase' \in {"stopping", "gone"}
    BY <1>16 DEF Thread!Destroy, Thread!Join
  <2>2. \A p \in Sure' : Balanced(p)'
    BY <1>4, <2>1 DEF Balanced, ListOf, Sure
  <2> QED  BY <1>4, <2>1, <2>2 DEF Compared
<1>17. ASSUME Thread!OnUdev \/ Thread!OnTimer \/ Thread!Again \/ Thread!End PROVE Compared'
  <2>1. /\ UNCHANGED <<backend, raced, phase, cursor, found, adding, removing, known, callbacks>>
        /\ at = "poll" /\ at' \in {"poll", "enumerate", "ended"}
    BY <1>17 DEF Thread!OnUdev, Thread!OnTimer, Thread!Again, Thread!End
  <2>2. \A p \in Sure' : Balanced(p)'
    BY <1>4, <2>1 DEF Balanced, ListOf, Sure
  <2> QED  BY <1>4, <2>1, <2>2 DEF Compared
<1>18. ~Thread!VisitPort /\ ~Thread!Listed /\ ~Thread!PortStart /\ ~Thread!PortExit /\ ~Thread!Listen
  BY <1>3, <1>4 DEF Thread!VisitPort, Thread!Listed, Thread!PortStart, Thread!PortExit, Thread!Listen
<1> HIDE DEF Thread!system_vars, Thread!list_vars, Thread!user_vars
<1> QED  BY <1>7, <1>8, <1>9, <1>10, <1>11, <1>12, <1>13, <1>14, <1>15, <1>16, <1>17, <1>18, HotCases

LEMMA InTurnSame ==
  ASSUME \A p \in Sure : InTurn(p), UNCHANGED <<devices, news, known, callbacks, raced>>, phase' # "gone" => phase # "gone"
  PROVE  (\A p \in Sure : InTurn(p))'
<1>1. \A i, p : Free(i, p)' <=> Free(i, p)
  BY DEF Free, NoStart, StartOf, ExitOf
<1>2. Sure' = Sure /\ Thread!Present' = Thread!Present
  BY DEF Sure, Names, Thread!Present, Thread!Elements
<1> QED  BY <1>1, <1>2 DEF InTurn, StartOf

\* The head of the announcements is taken.
LEMMA InTurnRead ==
  ASSUME HotTypes, \A p \in Sure : InTurn(p), news # <<>>, news' = Tail(news), UNCHANGED <<devices, raced, phase>>,
         \A p \in Sure : /\ callbacks'[p] = Times(known', p) /\ Times(known', p) \in {0, 1}
                         /\ Head(news) = ExitOf(p) => Times(known', p) = 0
                         /\ Head(news) # StartOf(p) /\ Times(known, p) = 0 => Times(known', p) = 0
  PROVE  (\A p \in Sure : InTurn(p))'
<1>1. Sure' = Sure /\ Thread!Present' = Thread!Present
  BY DEF Sure, Names, Thread!Present, Thread!Elements
<1>2. SUFFICES ASSUME NEW p \in Sure PROVE InTurn(p)'
  BY <1>1
<1>3. /\ Len(news) \in Nat \ {0} /\ Len(news') = Len(news) - 1
      /\ \A i \in 1..(Len(news) - 1) : i + 1 \in 1..Len(news) /\ news'[i] = news[i + 1]
  BY TailLaw DEF HotTypes
<1>4. InTurn(p)
  BY <1>2
<1>5. ASSUME NEW i \in 2..(Len(news) + 1), Free(i, p) PROVE Free(i - 1, p)'
  BY <1>5, NewsRead
<1>6. ASSUME NEW i \in 1..Len(news'), news'[i] = StartOf(p) PROVE Free(i, p)'
  <2>1. i + 1 \in 2..(Len(news) + 1) /\ i + 1 \in 1..Len(news) /\ news[i + 1] = StartOf(p) /\ (i + 1) - 1 = i
    BY <1>3, <1>6
  <2>2. Free(i + 1, p)
    BY <1>4, <2>1 DEF InTurn
  <2>3. \A j \in 2..(Len(news) + 1) : Free(j, p) => Free(j - 1, p)'
    BY <1>5
  <2> QED  BY <2>1, <2>2, <2>3
<1>7. ASSUME phase' # "gone", p \notin Thread!Present' PROVE Free(Len(news) + 1, p)'
  <2>1. Free(Len(news) + 1, p)
    BY <1>1, <1>4, <1>7 DEF InTurn
  <2> DEFINE n == Len(news') + 1
  <2>2. Len(news) + 1 \in 2..(Len(news) + 1) /\ (Len(news) + 1) - 1 = n
    BY <1>3
  <2> QED  BY <1>5, <2>1, <2>2
<1> QED  BY <1>1, <1>2, <1>6, <1>7 DEF InTurn, StartOf

LEMMA FreeOfNews ==
  ASSUME news = <<>>, NEW p PROVE Free(Len(news) + 1, p) <=> Times(known, p) = 0
<1>1. Len(news) = 0
  BY EmptySeq
<1> QED  BY <1>1 DEF Free, NoStart

LEMMA ListenedStep ==
  ASSUME HotInv, ObserversAssumption, Thread!Next
  PROVE  Listened'
<1> USE DEF Thread!system_vars, Thread!list_vars, Thread!user_vars
<1>1. HotTypes /\ HotTypes'
  BY HotTypesStep DEF HotInv
<1>2. SUFFICES ASSUME ~Compares' PROVE Listened'
  BY DEF Listened
<1>3. ~Compares /\ Thread!ByEvent /\ backend' = backend
  <2>1. backend' = backend
    <3>1. \A p \in Thread!Ports : Thread!Appear(p) \/ Thread!Vanish(p) => backend' = backend
      BY HotChangeLaw
    <3> QED  BY <3>1, HotCases DEF Thread!Enumerate, Thread!VisitPort, Thread!VisitCard, Thread!VisitIndex, Thread!Listed,
                Thread!Compare, Thread!Add, Thread!Remove, Thread!Adopt, Thread!Listen, Thread!Start, Thread!Destroy, Thread!PortStart,
                Thread!PortExit, Thread!OnUdev, Thread!OnTimer, Thread!Again, Thread!End, Thread!Join
  <2>2. ~Compares
    BY <1>2, <2>1 DEF Compares
  <2> QED  BY <1>1, <2>1, <2>2 DEF Compares, Thread!ByEvent, HotTypes
<1>4. /\ \A p \in Sure : InTurn(p)
      /\ Visits
      /\ at = "enumerate" => phase = "list" /\ known = <<>>
      /\ at = "visit" /\ phase # "list" => cursor > last
      /\ phase \in {"list", "listen"} => news = <<>>
      /\ phase = "list" => at \in {"enumerate", "visit"}
      /\ phase = "listen" => at = "visit"
      /\ at # "notify"
      /\ phase \in {"list", "listen", "start", "running", "stopping", "gone"}
  BY <1>3 DEF HotInv, Listened
<1>5. /\ \A p \in Names : Times(known, p) \in Nat
      /\ Len(news) \in Nat /\ cursor \in Nat /\ last \in Nat /\ callbacks \in [Names -> Int]
      /\ \A p \in Sure : p \in Names /\ p \notin raced
  <2>1. known \in Seq(Names) /\ cursor \in Nat /\ last \in Nat /\ callbacks \in [Names -> Int] /\ Len(news) \in Nat
    BY <1>1 DEF HotTypes
  <2>2. \A p \in Names : Times(known, p) \in Nat
    BY <2>1, TimesLaw
  <2>3. \A p \in Sure : p \in Names /\ p \notin raced
    BY DEF Sure
  <2> QED  BY <2>1, <2>2, <2>3
<1>6. ASSUME NEW p \in Thread!Ports, Thread!Appear(p) \/ Thread!Vanish(p) PROVE Listened'
  <2>1. /\ p \in Names
        /\ \A q \in Names \ {p} : q \in Thread!Present' <=> q \in Thread!Present
        /\ p \in Thread!Present' <=> Thread!Appear(p)
        /\ Thread!Appear(p) => p \notin Thread!Present
        /\ raced' = IF Thread!Overlooked(p) THEN raced \cup {p} ELSE raced
        /\ UNCHANGED <<backend, phase, at, cursor, last, found, adding, removing, known, callbacks, checks>>
    BY <1>6, HotChangeLaw
  <2>2. PICK e \in [kind : {"start", "exit"}, port : Names] :
          /\ e = IF Thread!Appear(p) THEN StartOf(p) ELSE ExitOf(p)
          /\ news' = IF Thread!Listens THEN Append(news, e) ELSE news
    BY <1>6, HotChangeLaw
  <2>3. Thread!Listens <=> phase \in {"start", "running", "stopping"}
    BY <1>3 DEF Thread!Listens, Compares
  <2>4. \A q \in Sure' : q \in Sure
    BY <2>1 DEF Sure
  <2>5. \A q \in Sure' : q # p => q \in Thread!Present' <=> q \in Thread!Present
    BY <1>5, <2>1, <2>4
  <2>6. ASSUME NEW q \in Sure', Thread!Listens PROVE InTurn(q)'
    <3>1. news' = Append(news, e) /\ known' = known /\ phase' = phase /\ phase # "gone"
      BY <2>1, <2>2, <2>3, <2>6
    <3>2. /\ \A i \in 1..Len(news) : news'[i] = news[i]
          /\ news'[Len(news) + 1] = e /\ Len(news') = Len(news) + 1
      BY <1>1, <3>1, AppendLaw DEF HotTypes
    <3>3. PICK n \in Nat : n = Len(news)
      BY <1>5
    <3>4. /\ \A i \in 1..(n + 1) : Free(i, q) => Free(i, q)'
          /\ e = ExitOf(q) => Free(n + 2, q)'
          /\ e # StartOf(q) /\ Free(n + 1, q) => Free(n + 2, q)'
      BY <1>1, <3>1, <3>3, NewsMade
    <3>5. InTurn(q)
      BY <1>4, <2>4
    <3>6. ASSUME NEW i \in 1..Len(news'), news'[i] = StartOf(q) PROVE Free(i, q)'
      <4>1. i \in 1..n \/ i = n + 1
        BY <3>2, <3>3
      <4>2. CASE i \in 1..n
        BY <3>2, <3>3, <3>4, <3>5, <3>6, <4>2 DEF InTurn
      <4>3. CASE i = n + 1
        <5>1. e = StartOf(q)
          BY <3>2, <3>3, <3>6, <4>3
        <5>2. Thread!Appear(p) /\ q = p
          BY <2>2, <5>1 DEF StartOf, ExitOf
        <5>3. Free(n + 1, q)
          BY <2>1, <3>1, <3>3, <3>5, <5>2 DEF InTurn
        <5> QED  BY <3>3, <3>4, <4>3, <5>3
      <4> QED  BY <4>1, <4>2, <4>3
    <3>7. ASSUME q \notin Thread!Present' PROVE Free(n + 2, q)'
      <4>1. CASE q = p
        <5>1. e = ExitOf(q)
          BY <2>1, <2>2, <3>7, <4>1
        <5> QED  BY <3>4, <5>1
      <4>2. CASE q # p
        <5>1. Free(n + 1, q)
          BY <2>5, <3>1, <3>3, <3>5, <3>7, <4>2 DEF InTurn
        <5>2. e # StartOf(q)
          BY <2>2, <4>2 DEF StartOf, ExitOf
        <5> QED  BY <3>4, <5>1, <5>2
      <4> QED  BY <4>1, <4>2
    <3>8. Len(news') + 1 = n + 2
      BY <3>2, <3>3
    <3> QED  BY <2>1, <3>5, <3>6, <3>7, <3>8 DEF InTurn, StartOf
  <2>7. ASSUME NEW q \in Sure', ~Thread!Listens PROVE InTurn(q)'
    <3>1. news' = news /\ known' = known /\ phase' = phase /\ callbacks' = callbacks
      BY <2>1, <2>2, <2>7
    <3>2. \A i : Free(i, q)' <=> Free(i, q)
      BY <3>1 DEF Free, NoStart, StartOf, ExitOf
    <3>3. InTurn(q)
      BY <1>4, <2>4
    <3>4. ASSUME phase # "gone", q \notin Thread!Present' PROVE Free(Len(news) + 1, q)
      <4>1. CASE q # p
        BY <2>5, <3>3, <3>4, <4>1 DEF InTurn
      <4>2. CASE q = p
        <5>1. phase \in {"list", "listen"} /\ ~Thread!Overlooked(p)
          BY <1>4, <2>1, <2>3, <2>7, <3>4, <4>2 DEF Sure
        <5>2. phase = "list" /\ (at = "visit" => backend # "jack" /\ ~(p < cursor))
          BY <1>3, <5>1 DEF Thread!Overlooked
        <5>3. Times(known, p) = 0
          <6>1. CASE at = "enumerate"
            BY <1>4, <6>1, TimesNone
          <6>2. CASE at = "visit"
            BY <1>4, <2>1, <5>2, <6>2 DEF Visits
          <6> QED  BY <1>4, <5>2, <6>1, <6>2
        <5> QED  BY <1>4, <4>2, <5>2, <5>3, FreeOfNews
      <4> QED  BY <4>1, <4>2
    <3> QED  BY <3>1, <3>2, <3>3, <3>4 DEF InTurn, StartOf
  <2>8. Visits'
    <3>1. ASSUME at = "visit", phase = "list", backend = "jack", NEW i \in 1..Len(found), found[i] \in Sure'
          PROVE  found[i] \in Thread!Present'
      <4>1. Thread!Overlooked(p)
        BY <1>3, <3>1 DEF Thread!Overlooked
      <4>2. found[i] # p
        BY <2>1, <3>1, <4>1 DEF Sure
      <4>3. found[i] \in Thread!Present
        BY <1>4, <2>4, <3>1 DEF Visits
      <4> QED  BY <2>5, <3>1, <4>2, <4>3
    <3> QED  BY <1>4, <2>1, <3>1 DEF Visits
  <2>9. phase \in {"list", "listen"} => news' = <<>>
    BY <1>4, <2>2, <2>3
  <2> QED  BY <1>4, <2>1, <2>6, <2>7, <2>8, <2>9 DEF Listened
<1>7. ASSUME Thread!Enumerate PROVE Listened'
  <2>1. /\ UNCHANGED <<backend, devices, news, raced, phase, known, callbacks>> /\ at = "enumerate" /\ at' = "visit" /\ cursor' = 1
        /\ backend = "jack" => last' = Len(devices) /\ found' = devices
    BY <1>7 DEF Thread!Enumerate
  <2>2. phase = "list" /\ known = <<>> /\ \A p : Times(known, p) = 0
    BY <1>4, <2>1, TimesNone
  <2>3. (\A p \in Sure : InTurn(p))'
    BY <1>4, <2>1, InTurnSame
  <2>4. Visits'
    <3>1. \A i \in 1..Len(devices) : devices[i] \in Thread!Present
      BY <1>1 DEF HotTypes, Thread!Present, Thread!Elements
    <3>2. Distinct(devices) /\ Thread!Present' = Thread!Present
      BY <1>1, <2>1 DEF HotTypes, Thread!Present, Thread!Elements
    <3> QED  BY <2>1, <2>2, <3>1, <3>2, SMTT(30) DEF Visits
  <2> QED  BY <1>4, <2>1, <2>2, <2>3, <2>4 DEF Listened
<1>8. ASSUME Thread!VisitPort PROVE Listened'
  <2>1. /\ UNCHANGED <<backend, devices, news, raced, phase, at, last, found>> /\ at = "visit" /\ cursor <= last /\ cursor' = cursor + 1
    BY <1>8 DEF Thread!VisitPort, Thread!Visiting
  <2>2. phase = "list" /\ news = <<>> /\ Sure' = Sure /\ Thread!Present' = Thread!Present
    BY <1>4, <1>5, <2>1 DEF Sure, Names, Thread!Present, Thread!Elements
  <2>3. /\ \A p \in Names : Times(known, p) # 0 =>
             IF backend = "jack" THEN \E i \in 1..(cursor - 1) : i <= Len(found) /\ found[i] = p ELSE p < cursor
        /\ backend = "jack" =>
             /\ last = Len(found) /\ Distinct(found) /\ cursor >= 1
             /\ \A i \in 1..Len(found) : found[i] \in Sure => found[i] \in Thread!Present
    BY <1>4, <2>1, <2>2 DEF Visits
  <2>4. found \in Seq(Names) /\ Len(found) \in Nat /\ \A i \in 1..Len(found) : found[i] \in Names
    BY <1>1 DEF HotTypes
  <2> DEFINE p == IF backend = "jack" THEN found[cursor] ELSE cursor
  <2>5. CASE known' = known /\ callbacks' = callbacks
    <3>1. (\A q \in Sure : InTurn(q))'
      BY <1>4, <2>1, <2>5, InTurnSame
    <3>2. Visits'
      <4>1. \A q \in Names : Names \subseteq Nat
        BY DEF ObserversAssumption, Names, Thread!Names, Thread!Ports, Thread!Ghost
      <4> QED  BY <1>5, <2>1, <2>2, <2>3, <2>4, <2>5, <4>1 DEF Visits
    <3> QED  BY <1>4, <2>1, <2>2, <3>1, <3>2 DEF Listened
  <2>6. CASE Thread!Register(p) /\ (backend = "jack" \/ p \in Thread!Present)
    <3>1. p \in Names /\ (p \in Sure => p \in Thread!Present) /\ Times(known, p) = 0
      <4>1. CASE backend = "jack"
        <5>1. cursor \in 1..Len(found) /\ p = found[cursor]
          BY <1>5, <2>1, <2>3, <4>1
        <5>2. \A i \in 1..(cursor - 1) : i <= Len(found) => i \in 1..Len(found) /\ found[i] # p
          <6>1. \A i \in 1..(cursor - 1) : i <= Len(found) => i \in 1..Len(found) /\ i # cursor
            BY <1>5, <2>4
          <6> QED  BY <2>3, <4>1, <5>1, <6>1 DEF Distinct
        <5> QED  BY <2>3, <2>4, <4>1, <5>1, <5>2
      <4>2. CASE backend # "jack"
        <5>1. p = cursor /\ p \in Thread!Present
          BY <2>6, <4>2
        <5>2. p \in Names
          <6>1. devices \in Seq(Names)
            BY <1>1 DEF HotTypes
          <6> HIDE DEF p
          <6> QED  BY <5>1, <6>1 DEF Thread!Present, Thread!Elements
        <5>3. ~(p < cursor)
          BY <1>5, <5>1
        <5> QED  BY <2>3, <4>2, <5>1, <5>2, <5>3
      <4> QED  BY <4>1, <4>2
    <3> HIDE DEF p
    <3>2. /\ callbacks'[p] = callbacks[p] + 1 /\ Times(known', p) = 1
          /\ \A q \in Names \ {p} : callbacks'[q] = callbacks[q] /\ Times(known', q) = Times(known, q)
      BY <1>1, <2>6, <3>1, RegisterLaw
    <3>3. ASSUME NEW q \in Sure PROVE InTurn(q)'
      <4>1. InTurn(q) /\ q \in Names /\ Len(news) = 0 /\ news' = <<>>
        BY <1>4, <1>5, <2>1, <2>2, <3>3, EmptySeq
      <4>2. callbacks'[q] = Times(known', q) /\ Times(known', q) \in {0, 1} /\ (q # p => Times(known', q) = Times(known, q))
        BY <1>5, <3>1, <3>2, <4>1 DEF InTurn
      <4>3. q \notin Thread!Present => Times(known', q) = 0
        <5>1. q \notin Thread!Present => Free(Len(news) + 1, q) /\ q # p
          BY <2>2, <3>1, <3>3, <4>1 DEF InTurn
        <5>2. Free(Len(news) + 1, q) <=> Times(known, q) = 0
          BY <2>2, FreeOfNews
        <5> QED  BY <4>2, <5>1, <5>2
      <4>4. Times(known', q) = 0 => Free(Len(news) + 1, q)'
        BY <2>1, <4>1 DEF Free, NoStart
      <4> QED  BY <2>1, <2>2, <4>1, <4>2, <4>3, <4>4 DEF InTurn
    <3>4. Visits'
      <4>1. ASSUME NEW q \in Names, Times(known', q) # 0
            PROVE  IF backend = "jack" THEN \E i \in 1..cursor : i <= Len(found) /\ found[i] = q ELSE q < cursor + 1
        <5>1. CASE q = p
          BY <1>5, <2>1, <2>3, <2>4, <5>1 DEF p
        <5>2. CASE q # p
          <6>1. Times(known, q) # 0
            BY <3>2, <4>1, <5>2
          <6>2. Names \subseteq Nat
            BY DEF ObserversAssumption, Names, Thread!Names, Thread!Ports, Thread!Ghost
          <6> QED  BY <1>5, <2>3, <6>1, <6>2
        <5> QED  BY <5>1, <5>2
      <4>2. (cursor + 1) - 1 = cursor
        BY <1>5
      <4> QED  BY <1>5, <2>1, <2>2, <2>3, <4>1, <4>2 DEF Visits
    <3> QED  BY <1>4, <2>1, <2>2, <3>3, <3>4 DEF Listened
  <2> QED  BY <1>8, <2>5, <2>6 DEF Thread!VisitPort
<1>9. ASSUME Thread!Listed \/ Thread!Listen PROVE Listened'
  <2>1. /\ UNCHANGED <<backend, devices, news, raced, at, cursor, last, found, known, callbacks>> /\ at = "visit" /\ cursor > last
        /\ phase # "gone" /\ ((phase' = "listen" /\ phase = "list") \/ phase' = "start")
    BY <1>4, <1>9 DEF Thread!Listed, Thread!Listen, Thread!Visited
  <2>2. (\A p \in Sure : InTurn(p))'
    BY <1>4, <2>1, InTurnSame
  <2> QED  BY <1>4, <2>1, <2>2 DEF Listened, Visits
<1>10. ASSUME Thread!Start \/ Thread!Destroy \/ Thread!End \/ Thread!Join PROVE Listened'
  <2>1. /\ UNCHANGED <<backend, devices, news, raced, cursor, last, found, known, callbacks>>
        /\ phase # "gone" /\ phase' \in {"running", "stopping", "gone"} /\ (at' = at \/ at' = "poll" \/ at' = "ended")
        /\ phase \notin {"list", "listen"}
    BY <1>10 DEF Thread!Start, Thread!Destroy, Thread!End, Thread!Join
  <2>2. (\A p \in Sure : InTurn(p))'
    BY <1>4, <2>1, InTurnSame
  <2> QED  BY <1>4, <2>1, <2>2 DEF Listened, Visits
<1>11. ASSUME Thread!PortStart \/ Thread!PortExit PROVE Listened'
  <2>1. /\ UNCHANGED <<backend, devices, raced, phase, at, cursor, last, found>> /\ at = "poll" /\ news # <<>> /\ news' = Tail(news)
    BY <1>11 DEF Thread!PortStart, Thread!PortExit, Thread!News
  <2>2. Head(news) \in [kind : {"start", "exit"}, port : Names] /\ Head(news) = news[1] /\ Len(news) \in Nat \ {0}
    BY <1>1, <2>1, TailLaw DEF HotTypes
  <2> DEFINE p == Head(news).port
  <2>3. /\ p \in Names
        /\ Thread!PortStart => Head(news) = StartOf(p)
        /\ Thread!PortExit => Head(news) = ExitOf(p)
    BY <2>2 DEF Thread!PortStart, Thread!PortExit, Thread!News, StartOf, ExitOf
  <2>4. /\ Thread!PortStart => Thread!Register(p) \/ (known' = known /\ callbacks' = callbacks)
        /\ Thread!PortExit => Thread!Unregister(p)
    BY DEF Thread!PortStart, Thread!PortExit
  <2> HIDE DEF p
  <2>5. ASSUME NEW q \in Sure
        PROVE  /\ callbacks'[q] = Times(known', q) /\ Times(known', q) \in {0, 1}
               /\ Head(news) = ExitOf(q) => Times(known', q) = 0
               /\ Head(news) # StartOf(q) /\ Times(known, q) = 0 => Times(known', q) = 0
    <3>1. InTurn(q) /\ q \in Names /\ callbacks[q] = Times(known, q) /\ Times(known, q) \in {0, 1}
      BY <1>4, <1>5, <2>5 DEF InTurn
    <3>2. CASE Thread!PortStart /\ Thread!Register(p)
      <4>1. Head(news) = StartOf(p) /\ Head(news) # ExitOf(q)
        BY <2>3, <3>2 DEF StartOf, ExitOf
      <4>2. q = p => Times(known, p) = 0
        <5>1. ASSUME q = p PROVE Free(1, q)
          BY <2>2, <3>1, <4>1, <5>1 DEF InTurn
        <5>2. Free(1, q) => Times(known, q) = 0
          BY DEF Free
        <5> QED  BY <5>1, <5>2
      <4>3. /\ callbacks'[p] = callbacks[p] + 1
            /\ \A r \in Names \ {p} : callbacks'[r] = callbacks[r] /\ Times(known', r) = Times(known, r)
            /\ Times(known', p) = IF Times(known, p) = 0 THEN 1 ELSE Times(known, p)
        BY <1>1, <2>3, <3>2, RegisterLaw
      <4> QED  BY <3>1, <4>1, <4>2, <4>3
    <3>3. CASE Thread!PortStart /\ known' = known /\ callbacks' = callbacks
      <4>1. Head(news) # ExitOf(q)
        BY <2>3, <3>3 DEF StartOf, ExitOf
      <4> QED  BY <3>1, <3>3, <4>1
    <3>4. CASE Thread!PortExit
      <4>1. Head(news) = ExitOf(q) => q = p
        BY <2>3, <3>4 DEF ExitOf
      <4>2. /\ callbacks'[p] = callbacks[p] - (IF Times(known, p) = 0 THEN 0 ELSE 1)
            /\ \A r \in Names \ {p} : callbacks'[r] = callbacks[r] /\ Times(known', r) = Times(known, r)
            /\ Times(known', p) = 0
        BY <1>1, <2>3, <2>4, <3>4, UnregisterLaw
      <4> QED  BY <3>1, <4>1, <4>2
    <3> QED  BY <1>11, <2>4, <3>2, <3>3, <3>4
  <2>6. (\A q \in Sure : InTurn(q))'
    BY <1>1, <1>4, <2>1, <2>5, InTurnRead
  <2> QED  BY <1>4, <2>1, <2>6 DEF Listened, Visits
<1>12. /\ ~Thread!VisitCard /\ ~Thread!VisitIndex /\ ~Thread!Compare /\ ~Thread!Add /\ ~Thread!Remove /\ ~Thread!Adopt
       /\ ~Thread!OnUdev /\ ~Thread!OnTimer /\ ~Thread!Again
  BY <1>3, <1>4 DEF Compares, Thread!VisitCard, Thread!VisitIndex, Thread!Compare, Thread!Add, Thread!Remove, Thread!Adopt,
                    Thread!OnUdev, Thread!OnTimer, Thread!Again
<1> HIDE DEF Thread!system_vars, Thread!list_vars, Thread!user_vars
<1> QED  BY <1>6, <1>7, <1>8, <1>9, <1>10, <1>11, <1>12, HotCases

LEMMA HotStep == ASSUME HotInv, ObserversAssumption, Thread!Next PROVE HotInv'
  BY HotTypesStep, ComparedStep, ListenedStep DEF HotInv

-----------------------------------------------------------------------------

\* Hotplug's callbacks are those of PortDirectory.
LEMMA HotInitial == ASSUME Thread!Init PROVE Thread!Directory!Init
  BY DEF Thread!Init, Thread!Directory!Init, Thread!Heard, Thread!Names

LEMMA HotSame == ASSUME HotInv, UNCHANGED tvars PROVE HotInv' /\ UNCHANGED Thread!Heard
<1> USE DEF tvars
<1>1. /\ Names' = Names /\ Sure' = Sure /\ Compares' = Compares /\ ListOf' = ListOf /\ Thread!Present' = Thread!Present
      /\ Thread!Heard' = Thread!Heard
  BY DEF Names, Sure, Compares, ListOf, Thread!Present, Thread!Elements, Thread!Heard
<1>2. HotTypes'
  BY <1>1 DEF HotInv, HotTypes
<1>3. Compared'
  BY <1>1 DEF HotInv, Compared, Balanced
<1>4. Visits' = Visits
  BY <1>1 DEF Visits
<1>5. \A p \in Sure : InTurn(p) <=> InTurn(p)'
  BY <1>1 DEF InTurn, Free, NoStart, StartOf, ExitOf
<1>6. Listened'
  BY <1>1, <1>4, <1>5 DEF HotInv, Listened
<1> QED  BY <1>1, <1>2, <1>3, <1>6 DEF HotInv

\* The observers that have a thread, or a listener, of their own implement it: the
\* callbacks for a port alternate, added first, whatever is plugged and unplugged
\* while the ports are walked or compared.
THEOREM HotplugImplementsDirectory == MCSpec => Thread!Directory!Spec
<1>1. MCInit => HotInv /\ Thread!Directory!Init
  BY HotplugAssumption, HotInit, HotInitial DEF MCInit
<1>2. HotInv /\ [MCNext]_<<watched, tvars, wvars>> => HotInv' /\ [Thread!Directory!Next]_Thread!Heard
  <2>1. ASSUME HotInv, Thread!Next PROVE HotInv' /\ [Thread!Directory!Next]_Thread!Heard
    BY <2>1, HotplugAssumption, HotStep, HotMoves
  <2>2. ASSUME HotInv, UNCHANGED tvars PROVE HotInv' /\ [Thread!Directory!Next]_Thread!Heard
    BY <2>2, HotSame
  <2> QED  BY <2>1, <2>2 DEF MCNext
<1> QED  BY <1>1, <1>2, PTL DEF MCSpec, Thread!Directory!Spec

-----------------------------------------------------------------------------
(* The observers that a service calls back (Watchers): what the user was    *)
(* told, and will be when the callbacks left are made, is what the service's *)
(* thread knows; and no device is announced as new of which a port is known  *)
(* by then. Nothing is said of the ports that a race of the constructor      *)
(* concerns, nor of what follows the destructor but that nobody is called.   *)

AllPorts == Service!AllPorts
Certain == AllPorts \ mixed
CallOf(kind, p) == [kind |-> kind, port |-> p]
LookupOf(d) == [kind |-> "lookup", device |-> d]
CallSet == [kind : {"added", "removed"}, port : AllPorts]
LookupSet == [kind : {"lookup"}, device : Devices]
NewsSet == [kind : {"added", "updated", "removed"}, device : Devices, ports : SUBSET AllPorts]

WatchTypes ==
  /\ service \in {"winuwp", "winmidi", "coremidi", "webmidi", "jackump"}
  /\ blocks \in [Devices -> SUBSET UNION Layouts]
  /\ announced \in Seq(NewsSet) /\ due \in Seq(CallSet \cup LookupSet)
  /\ \A i \in 1..Len(announced) : \A p \in announced[i].ports : p[1] = announced[i].device
  /\ stage \in {"new", "between", "made", "gone"}
  /\ seen \subseteq AllPorts /\ mixed \subseteq AllPorts /\ heard \in [AllPorts -> Int]
  /\ watching \in BOOLEAN

\* Only Windows MIDI Services has devices of several blocks, that change.
OneBlock ==
  service # "winmidi" =>
    /\ \A d \in Devices : blocks[d] \subseteq {1}
    /\ \A p \in seen : p[2] = 1
    /\ \A i \in 1..Len(announced) : announced[i].kind # "updated" /\ announced[i].ports = {<<announced[i].device, 1>>}
    /\ \A i \in 1..Len(due) : due[i] \in CallSet

\* The callbacks that are left: each once, all of one kind, a lookup last.
IsDue(e) == \E i \in 1..Len(due) : due[i] = e
DueInv ==
  /\ \A i, j \in 1..Len(due) : due[i] = due[j] => i = j
  /\ \A i, j \in 1..Len(due) : due[i].kind = "added" => due[j].kind = "added"
  /\ \A i \in 1..Len(due) : due[i].kind = "lookup" => i = Len(due)

Adding(p) == IsDue(CallOf("added", p))
Removing(p) == IsDue(CallOf("removed", p))
Will(p) == (heard[p] = 1 /\ ~Removing(p)) \/ Adding(p)

\* When the callbacks that are left were made, the service's thread does not
\* know the port.
Clear(p) ==
  /\ ~IsDue(LookupOf(p[1]))
  /\ IF service \in {"winuwp", "jackump"} THEN p \notin seen ELSE ~Will(p)

\* The last announcement of the device before announcement i.
Silent(d, i, j) == \A k \in i..j : announced[k].device # d
LastIs(d, i, kind) == \E j \in 1..(i - 1) : announced[j].device = d /\ announced[j].kind = kind /\ Silent(d, j + 1, i - 1)

Alternates(p) ==
  /\ \A i \in 1..Len(announced) : announced[i].kind = "added" /\ announced[i].device = p[1] =>
       LastIs(p[1], i, "removed") \/ (Silent(p[1], 1, i - 1) /\ Clear(p))
  /\ blocks[p[1]] = {} =>
       LastIs(p[1], Len(announced) + 1, "removed") \/ (Silent(p[1], 1, Len(announced)) /\ Clear(p))

\* CoreMIDI's observer keeps no list.
Dually(p) ==
  /\ \A i \in 1..Len(announced) : announced[i].kind = "removed" /\ announced[i].device = p[1] =>
       LastIs(p[1], i, "added") \/ (Silent(p[1], 1, i - 1) /\ Will(p))
  /\ blocks[p[1]] # {} =>
       LastIs(p[1], Len(announced) + 1, "added") \/ (Silent(p[1], 1, Len(announced)) /\ Will(p))

Hears(p) ==
  /\ heard[p] \in {0, 1}
  /\ stage = "new" => heard[p] = 0
  /\ ~(service = "winuwp" /\ stage = "new") =>
      /\ Adding(p) => heard[p] = 0
      /\ Removing(p) => heard[p] = 1
      /\ service \in {"winuwp", "jackump", "webmidi"} => (p \in seen <=> Will(p))
      /\ service = "winmidi" => (p \in seen <=> heard[p] = 1 /\ ~Removing(p))
      /\ IsDue(LookupOf(p[1])) => p \notin seen
      /\ service = "coremidi" /\ (Will(p) \/ Removing(p)) => p[2] = 1 /\ Service!Passes(p)

Stages ==
  /\ stage = "new" => mixed = {} /\ (watching => service = "winuwp")
  /\ ~watching =>
       /\ announced = <<>> /\ due = <<>>
       /\ (stage = "new" /\ seen = {}) \/ service = "webmidi" \/ (service = "jackump" /\ stage = "between")
  /\ service = "webmidi" => ~watching /\ seen \subseteq Service!Existing /\ stage # "between"
  /\ service = "jackump" => (stage = "made" <=> watching)
  /\ service = "winmidi" => mixed = {}
  /\ service = "coremidi" => seen = {}
  /\ stage = "between" /\ service \in {"winuwp", "coremidi"} => \A p \in Certain : ~Adding(p) /\ ~Removing(p)
  /\ stage = "between" /\ service = "coremidi" =>
       /\ \A p \in Certain : heard[p] = 0
       /\ \A i \in 1..Len(announced) : announced[i].ports \subseteq mixed

Active ==
  stage # "gone" =>
    /\ OneBlock /\ DueInv /\ Stages
    /\ \A p \in Certain : Hears(p) /\ Alternates(p)
    /\ service = "coremidi" /\ stage = "made" => \A p \in Certain : p[2] = 1 /\ Service!Passes(p) => Dually(p)
After == ~late /\ (stage = "gone" => service = "winuwp" \/ due = <<>>)
WatchInv == WatchTypes /\ Active /\ After

\* A finite set in the order of SetToSeq: each of its elements once.
LEMMA SeqOfSet ==
  ASSUME NEW S, IsFiniteSet(S), NEW s, s = Service!SetToSeq(S)
  PROVE  /\ s \in Seq(S)
         /\ \A i, j \in 1..Len(s) : s[i] = s[j] => i = j
         /\ \A x : x \in S <=> \E i \in 1..Len(s) : s[i] = x
<1> DEFINE n == Cardinality(S)
<1>1. n \in Nat /\ IsFiniteSet(1..n) /\ Cardinality(1..n) = n
  BY FS_CardinalityType, FS_Interval
<1> HIDE DEF n
<1>2. \E f \in [1..n -> S] : Service!IsInjective(f)
  <2>1. PICK f : f \in Bijection(1..n, S)
    BY FS_CardinalityType DEF ExistsBijection, n
  <2> QED  BY <2>1 DEF Bijection, Injection, IsInjective, Service!IsInjective
<1>3. s \in [1..n -> S] /\ Service!IsInjective(s)
  <2>1. s = CHOOSE f \in [1..n -> S] : Service!IsInjective(f)
    <3>1. Service!Cardinality(S) = Cardinality(S)
      BY DEF Service!Cardinality, Cardinality
    <3> QED  BY <3>1 DEF Service!SetToSeq, n
  <2> QED  BY <1>2, <2>1
<1>4. s \in Injection(1..n, S)
  BY <1>3 DEF Injection, IsInjective, Service!IsInjective
<1>5. s \in Surjection(1..n, S)
  BY <1>1, <1>4, FS_Injection DEF n
<1>6. s \in Seq(S) /\ Len(s) = n
  BY <1>1, <1>3
<1>7. \A i, j \in 1..n : s[i] = s[j] => i = j
  BY <1>3 DEF Service!IsInjective
<1>8. \A x : x \in S <=> \E i \in 1..n : s[i] = x
  BY <1>3, <1>5 DEF Surjection
<1> QED  BY <1>6, <1>7, <1>8

\* The image of a finite set under a function.
LEMMA FiniteImage ==
  ASSUME NEW S, IsFiniteSet(S), NEW T0, NEW f \in [S -> T0], NEW T, \A y : y \in T <=> \E x \in S : y = f[x] PROVE IsFiniteSet(T)
<1>1. f \in [S -> T]
  OBVIOUS
<1>2. f \in Surjection(S, T)
  BY <1>1 DEF Surjection
<1> QED  BY <1>2, FS_Surjection

LEMMA FinitePorts == DevicesAssumption => \A S \in SUBSET AllPorts : IsFiniteSet(S)
<1> SUFFICES ASSUME DevicesAssumption, NEW S \in SUBSET AllPorts PROVE IsFiniteSet(S)
  OBVIOUS
<1>1. IsFiniteSet(AllPorts)
  BY FS_Product DEF DevicesAssumption, AllPorts, Service!AllPorts
<1> QED  BY <1>1, FS_Subset

\* The callbacks for a set of ports.
LEMMA CallsLaw ==
  ASSUME DevicesAssumption, NEW kind \in {"added", "removed"}, NEW P \in SUBSET AllPorts, NEW c, c = Service!Calls(kind, P)
  PROVE  /\ c \in Seq(CallSet) /\ Len(c) \in Nat
         /\ \A i, j \in 1..Len(c) : c[i] = c[j] => i = j
         /\ \A i \in 1..Len(c) : c[i].kind = kind /\ c[i].port \in P /\ c[i] = CallOf(kind, c[i].port)
         /\ \A p \in P : \E i \in 1..Len(c) : c[i] = CallOf(kind, p)
<1> DEFINE S == {[kind |-> kind, port |-> p] : p \in P}
           f == [p \in P |-> CallOf(kind, p)]
<1>1. IsFiniteSet(S)
  <2>1. (\A y : y \in S <=> \E p \in P : y = f[p]) /\ f \in [P -> S]
    BY DEF CallOf
  <2>2. IsFiniteSet(P)
    BY FinitePorts
  <2> HIDE DEF S, f
  <2> QED  BY <2>1, <2>2, FiniteImage
<1>2. c = Service!SetToSeq(S)
  BY DEF Service!Calls
<1>3. S \subseteq CallSet
  BY DEF CallSet
<1>4. \A x : x \in S <=> \E p \in P : x = CallOf(kind, p)
  BY DEF CallOf
<1> HIDE DEF S
<1>5. /\ c \in Seq(S)
      /\ \A i, j \in 1..Len(c) : c[i] = c[j] => i = j
      /\ \A x : x \in S <=> \E i \in 1..Len(c) : c[i] = x
  BY <1>1, <1>2, SeqOfSet
<1>6. c \in Seq(CallSet) /\ Len(c) \in Nat
  BY <1>3, <1>5
<1>7. ASSUME NEW i \in 1..Len(c) PROVE c[i].kind = kind /\ c[i].port \in P /\ c[i] = CallOf(kind, c[i].port)
  <2>1. c[i] \in S
    BY <1>5
  <2>2. PICK p \in P : c[i] = CallOf(kind, p)
    BY <1>4, <2>1
  <2> QED  BY <2>2 DEF CallOf
<1>8. \A p \in P : \E i \in 1..Len(c) : c[i] = CallOf(kind, p)
  BY <1>4, <1>5
<1> QED  BY <1>5, <1>6, <1>7, <1>8

\* The announcements of what exists: each device once.
LEMMA AnnouncingLaw ==
  ASSUME WatchTypes, DevicesAssumption, NEW a, a = Service!Announcing
  PROVE  /\ a \in Seq(NewsSet) /\ Len(a) \in Nat
         /\ \A i, j \in 1..Len(a) : a[i].device = a[j].device => i = j
         /\ \A i \in 1..Len(a) :
              /\ a[i].kind = "added" /\ a[i].device \in Devices /\ blocks[a[i].device] # {}
              /\ a[i].ports = Service!PortsOf(a[i].device)
<1> DEFINE D == {d \in Devices : blocks[d] # {}}
           f == [d \in D |-> Service!Announcement("added", d, Service!PortsOf(d))]
           S == {Service!Announcement("added", d, Service!PortsOf(d)) : d \in D}
<1>1. IsFiniteSet(S)
  <2>1. (\A y : y \in S <=> \E d \in D : y = f[d]) /\ f \in [D -> S]
    OBVIOUS
  <2>2. IsFiniteSet(D)
    BY FS_Subset DEF DevicesAssumption
  <2> HIDE DEF S, f, D
  <2> QED  BY <2>1, <2>2, FiniteImage
<1>2. a = Service!SetToSeq(S)
  BY DEF Service!Announcing
<1>3. \A x : x \in S <=> \E d \in D : x = Service!Announcement("added", d, Service!PortsOf(d))
  OBVIOUS
<1>4. \A d \in D : d \in Devices /\ blocks[d] # {} /\ Service!PortsOf(d) \in SUBSET AllPorts
  BY DEF WatchTypes, Service!PortsOf, AllPorts, Service!AllPorts
<1>5. \A d \in D : /\ Service!Announcement("added", d, Service!PortsOf(d)) \in NewsSet
                   /\ Service!Announcement("added", d, Service!PortsOf(d)).device = d
                   /\ Service!Announcement("added", d, Service!PortsOf(d)).kind = "added"
                   /\ Service!Announcement("added", d, Service!PortsOf(d)).ports = Service!PortsOf(d)
  BY <1>4 DEF Service!Announcement, NewsSet
<1> HIDE DEF S, D
<1>6. /\ a \in Seq(S)
      /\ \A i, j \in 1..Len(a) : a[i] = a[j] => i = j
      /\ \A x : x \in S <=> \E i \in 1..Len(a) : a[i] = x
  BY <1>1, <1>2, SeqOfSet
<1>7. \A i \in 1..Len(a) : \E d \in D : a[i] = Service!Announcement("added", d, Service!PortsOf(d))
  BY <1>3, <1>6
<1>8. S \subseteq NewsSet
  BY <1>3, <1>5
<1>9. a \in Seq(NewsSet) /\ Len(a) \in Nat
  BY <1>6, <1>8
<1>10. \A i \in 1..Len(a) : /\ a[i].device \in D /\ a[i] = Service!Announcement("added", a[i].device, Service!PortsOf(a[i].device))
  BY <1>5, <1>7
<1> QED  BY <1>4, <1>5, <1>6, <1>9, <1>10

\* The callbacks for the ports of P are due, and no others.
LEMMA DueMade ==
  ASSUME DevicesAssumption, NEW kind \in {"added", "removed"}, NEW P \in SUBSET AllPorts, due' = Service!Calls(kind, P)
  PROVE  /\ due' \in Seq(CallSet \cup LookupSet) /\ \A i \in 1..Len(due') : due'[i] \in CallSet
         /\ DueInv'
         /\ \A p : (Adding(p)' <=> kind = "added" /\ p \in P) /\ (Removing(p)' <=> kind = "removed" /\ p \in P)
         /\ \A d : ~IsDue(LookupOf(d))'
<1>1. /\ due' \in Seq(CallSet) /\ Len(due') \in Nat
      /\ \A i, j \in 1..Len(due') : due'[i] = due'[j] => i = j
      /\ \A i \in 1..Len(due') : due'[i].kind = kind /\ due'[i].port \in P /\ due'[i] = CallOf(kind, due'[i].port)
      /\ \A p \in P : \E i \in 1..Len(due') : due'[i] = CallOf(kind, p)
  BY CallsLaw
<1>2. due' \in Seq(CallSet \cup LookupSet) /\ \A i \in 1..Len(due') : due'[i] \in CallSet
  BY <1>1
<1>3. DueInv'
  BY <1>1 DEF DueInv
<1>4. \A k, p : CallOf(k, p).kind = k /\ CallOf(k, p).port = p
  BY DEF CallOf
<1>5. \A k, p : IsDue(CallOf(k, p))' <=> k = kind /\ p \in P
  <2> SUFFICES ASSUME NEW k, NEW p PROVE IsDue(CallOf(k, p))' <=> k = kind /\ p \in P
    OBVIOUS
  <2>1. CallOf(k, p)' = CallOf(k, p)
    BY DEF CallOf
  <2>2. IsDue(CallOf(k, p))' <=> \E i \in 1..Len(due') : due'[i] = CallOf(k, p)
    BY <2>1 DEF IsDue
  <2> QED  BY <1>1, <1>4, <2>2
<1>6. \A d : ~IsDue(LookupOf(d))'
  <2>1. \A d : LookupOf(d)' = LookupOf(d) /\ LookupOf(d).kind = "lookup"
    BY DEF LookupOf
  <2> QED  BY <1>1, <2>1 DEF IsDue
<1> QED  BY <1>2, <1>3, <1>5, <1>6 DEF Adding, Removing

\* They are due, and then the lookup of a device.
LEMMA LookupMade ==
  ASSUME DevicesAssumption, NEW P \in SUBSET AllPorts, NEW d \in Devices,
         due' = Append(Service!Calls("removed", P), [kind |-> "lookup", device |-> d])
  PROVE  /\ due' \in Seq(CallSet \cup LookupSet)
         /\ DueInv'
         /\ \A p : ~Adding(p)' /\ (Removing(p)' <=> p \in P)
         /\ \A e : IsDue(LookupOf(e))' <=> e = d
<1> DEFINE c == Service!Calls("removed", P)
           x == LookupOf(d)
           n == Len(c)
<1>1. /\ c \in Seq(CallSet) /\ n \in Nat
      /\ \A i, j \in 1..n : c[i] = c[j] => i = j
      /\ \A i \in 1..n : c[i].kind = "removed" /\ c[i].port \in P /\ c[i] = CallOf("removed", c[i].port)
      /\ \A p \in P : \E i \in 1..n : c[i] = CallOf("removed", p)
  BY CallsLaw
<1>2. x \in CallSet \cup LookupSet /\ x.kind = "lookup" /\ due' = Append(c, x)
  BY DEF LookupOf, LookupSet
<1> HIDE DEF c, x, n
<1>3. c \in Seq(CallSet \cup LookupSet) /\ n = Len(c)
  BY <1>1 DEF n
<1>4. /\ due' \in Seq(CallSet \cup LookupSet) /\ Len(due') = n + 1
      /\ \A i \in 1..n : due'[i] = c[i]
      /\ due'[n + 1] = x
  <2> DEFINE T == CallSet \cup LookupSet
  <2>1. c \in Seq(T) /\ x \in T
    BY <1>2, <1>3
  <2> HIDE DEF T
  <2>2. Append(c, x) \in Seq(T) /\ Len(Append(c, x)) = n + 1 /\ (\A i \in 1..n : Append(c, x)[i] = c[i]) /\ Append(c, x)[n + 1] = x
    BY <1>3, <2>1, AppendLaw
  <2>3. due' = Append(c, x)
    BY <1>2
  <2> QED  BY <2>2, <2>3 DEF T
<1>5. \A i \in 1..Len(due') : i \in 1..n \/ i = n + 1
  BY <1>1, <1>4
<1>6. \A i \in 1..n : due'[i].kind = "removed" /\ i # n + 1
  BY <1>1, <1>4
<1>7. DueInv'
  <2>1. \A i, j \in 1..Len(due') : due'[i] = due'[j] => i = j
    BY <1>1, <1>2, <1>4, <1>5, <1>6
  <2>2. \A i \in 1..Len(due') : due'[i].kind # "added" /\ (due'[i].kind = "lookup" => i = Len(due'))
    BY <1>2, <1>4, <1>5, <1>6
  <2> QED  BY <2>1, <2>2 DEF DueInv
<1>8. \A e : IsDue(e)' <=> e' = x \/ \E i \in 1..n : c[i] = e'
  <2>1. n + 1 \in 1..Len(due') /\ \A i \in 1..n : i \in 1..Len(due')
    BY <1>1, <1>4
  <2> QED  BY <1>4, <1>5, <2>1 DEF IsDue
<1>9. \A k, p : CallOf(k, p)' = CallOf(k, p) /\ CallOf(k, p).kind = k /\ CallOf(k, p).port = p
  BY DEF CallOf
<1>10. \A e : LookupOf(e)' = LookupOf(e) /\ LookupOf(e).kind = "lookup" /\ LookupOf(e).device = e
  BY DEF LookupOf
<1>11. \A p : ~Adding(p)' /\ (Removing(p)' <=> p \in P)
  BY <1>1, <1>2, <1>8, <1>9 DEF Adding, Removing
<1>12. \A e : IsDue(LookupOf(e))' <=> e = d
  BY <1>1, <1>2, <1>8, <1>10 DEF x
<1> QED  BY <1>4, <1>7, <1>11, <1>12

\* The first callback is made.
LEMMA DueTaken ==
  ASSUME DueInv, due \in Seq(CallSet \cup LookupSet), due # <<>>, due' = Tail(due)
  PROVE  /\ due' \in Seq(CallSet \cup LookupSet)
         /\ DueInv'
         /\ Head(due) \in CallSet \cup LookupSet /\ IsDue(Head(due))
         /\ \A i \in 1..Len(due') : i + 1 \in 1..Len(due) /\ due'[i] = due[i + 1]
         /\ \A i \in 1..Len(due) : Head(due).kind = "added" => due[i].kind = "added"
         /\ \A p : (Adding(p)' <=> Adding(p) /\ Head(due) # CallOf("added", p))
                   /\ (Removing(p)' <=> Removing(p) /\ Head(due) # CallOf("removed", p))
         /\ Head(due) \in CallSet => \A d : IsDue(LookupOf(d))' <=> IsDue(LookupOf(d))
<1> DEFINE n == Len(due)
<1>1. /\ n \in Nat \ {0} /\ Head(due) = due[1] /\ 1 \in 1..n /\ Head(due) \in CallSet \cup LookupSet
      /\ due' \in Seq(CallSet \cup LookupSet) /\ Len(due') = n - 1
      /\ \A i \in 1..(n - 1) : i + 1 \in 1..n /\ due'[i] = due[i + 1]
  BY TailLaw
<1> HIDE DEF n
<1>2. /\ \A i, j \in 1..n : due[i] = due[j] => i = j
      /\ \A i, j \in 1..n : due[i].kind = "added" => due[j].kind = "added"
      /\ \A i \in 1..n : due[i].kind = "lookup" => i = n
  BY DEF DueInv, n
<1>3. DueInv'
  <2>1. \A i, j \in 1..(n - 1) : due'[i] = due'[j] => i = j
    BY <1>1, <1>2
  <2>2. \A i, j \in 1..(n - 1) : due'[i].kind = "added" => due'[j].kind = "added"
    BY <1>1, <1>2
  <2>3. \A i \in 1..(n - 1) : due'[i].kind = "lookup" => i = n - 1
    BY <1>1, <1>2
  <2> QED  BY <1>1, <2>1, <2>2, <2>3 DEF DueInv
<1>4. \A e : (\E i \in 1..(n - 1) : due'[i] = e) <=> (\E i \in 1..n : due[i] = e) /\ due[1] # e
  <2> SUFFICES ASSUME NEW e PROVE (\E i \in 1..(n - 1) : due'[i] = e) <=> (\E i \in 1..n : due[i] = e) /\ due[1] # e
    OBVIOUS
  <2>1. ASSUME NEW i \in 1..(n - 1), due'[i] = e PROVE (\E j \in 1..n : due[j] = e) /\ due[1] # e
    BY <1>1, <1>2, <2>1
  <2>2. ASSUME NEW i \in 1..n, due[i] = e, due[1] # e PROVE \E j \in 1..(n - 1) : due'[j] = e
    <3>1. i - 1 \in 1..(n - 1) /\ (i - 1) + 1 = i
      BY <1>1, <2>2
    <3> QED  BY <1>1, <2>2, <3>1
  <2> QED  BY <2>1, <2>2
<1>5. \A e : IsDue(e)' <=> \E i \in 1..(n - 1) : due'[i] = e'
  BY <1>1 DEF IsDue
<1>6. \A e : IsDue(e) <=> \E i \in 1..n : due[i] = e
  BY DEF IsDue, n
<1>7. \A k, p : CallOf(k, p)' = CallOf(k, p)
  BY DEF CallOf
<1>8. \A d : LookupOf(d)' = LookupOf(d) /\ LookupOf(d).kind = "lookup"
  BY DEF LookupOf
<1>9. \A k, p : IsDue(CallOf(k, p))' <=> IsDue(CallOf(k, p)) /\ Head(due) # CallOf(k, p)
  BY <1>1, <1>4, <1>5, <1>6, <1>7
<1>10. ASSUME Head(due) \in CallSet PROVE \A d : IsDue(LookupOf(d))' <=> IsDue(LookupOf(d))
  <2>1. Head(due).kind # "lookup"
    BY <1>10 DEF CallSet
  <2> QED  BY <1>1, <1>4, <1>5, <1>6, <1>8, <2>1
<1>11. IsDue(Head(due))
  BY <1>1, <1>6
<1>12. \A i \in 1..Len(due') : i + 1 \in 1..Len(due) /\ due'[i] = due[i + 1]
  BY <1>1 DEF n
<1>13. \A i \in 1..Len(due) : Head(due).kind = "added" => due[i].kind = "added"
  <2>1. \A i \in 1..n : Head(due).kind = "added" => due[i].kind = "added"
    BY <1>1, <1>2
  <2> QED  BY <2>1 DEF n
<1> QED  BY <1>1, <1>3, <1>9, <1>10, <1>11, <1>12, <1>13 DEF Adding, Removing

\* Nothing is due.
LEMMA NothingDue ==
  ASSUME due = <<>> PROVE (\A e : ~IsDue(e)) /\ DueInv /\ \A p : ~Adding(p) /\ ~Removing(p)
<1>1. Len(due) = 0
  BY EmptySeq
<1> QED  BY <1>1 DEF IsDue, DueInv, Adding, Removing

LEMMA SameDue == ASSUME due' = due PROVE (\A p : (Adding(p)' <=> Adding(p)) /\ (Removing(p)' <=> Removing(p))) /\ (DueInv' <=> DueInv)
                                         /\ \A d : IsDue(LookupOf(d))' <=> IsDue(LookupOf(d))
  BY DEF Adding, Removing, IsDue, CallOf, LookupOf, DueInv

\* The first announcement is taken.
LEMMA HeardOf ==
  ASSUME announced \in Seq(NewsSet), announced # <<>>, announced' = Tail(announced), NEW d, NEW kind,
         NEW m \in 1..Len(announced), NEW i, i = m + 1
  PROVE  /\ LastIs(d, i, kind) =>
              LastIs(d, m, kind)' \/ (Head(announced).device = d /\ Head(announced).kind = kind /\ Silent(d, 1, m - 1)')
         /\ Silent(d, 1, m) => Silent(d, 1, m - 1)' /\ Head(announced).device # d
<1> DEFINE n == Len(announced)
<1>1. /\ n \in Nat \ {0} /\ Head(announced) = announced[1]
      /\ \A k \in 1..(n - 1) : announced'[k] = announced[k + 1]
  BY TailLaw
<1>2. i \in 2..(n + 1) /\ i - 1 = m /\ i - 2 = m - 1
  BY <1>1
<1> HIDE DEF n
<1>3. ASSUME NEW j \in 2..i, Silent(d, j, i - 1) PROVE Silent(d, j - 1, i - 2)'
  <2>1. \A k \in (j - 1)..(i - 2) : k + 1 \in j..(i - 1) /\ k \in 1..(n - 1)
    BY <1>1, <1>2
  <2> QED  BY <1>1, <1>3, <2>1 DEF Silent
<1>4. ASSUME NEW j \in 1..(i - 1), announced[j].device = d, announced[j].kind = kind, Silent(d, j + 1, i - 1)
      PROVE  LastIs(d, i - 1, kind)' \/ (Head(announced).device = d /\ Head(announced).kind = kind /\ Silent(d, 1, i - 2)')
  <2>1. j + 1 \in 2..i /\ (j + 1) - 1 = j
    BY <1>2
  <2>2. Silent(d, j, i - 2)'
    BY <1>3, <1>4, <2>1
  <2>3. CASE j = 1
    BY <1>1, <1>4, <2>2, <2>3
  <2>4. CASE j # 1
    <3>1. j - 1 \in 1..(i - 2) /\ j - 1 \in 1..(n - 1) /\ (j - 1) + 1 = j /\ (i - 1) - 1 = i - 2
      BY <1>1, <1>2, <2>4
    <3>2. announced'[j - 1].device = d /\ announced'[j - 1].kind = kind
      BY <1>1, <1>4, <3>1
    <3> QED  BY <2>2, <3>1, <3>2 DEF LastIs
  <2> QED  BY <2>3, <2>4
<1>5. ASSUME Silent(d, 1, i - 1) PROVE Silent(d, 1, i - 2)' /\ Head(announced).device # d
  <2>1. 1 \in 1..(i - 1) /\ \A k \in 2..(i - 1) : k \in 1..(i - 1)
    BY <1>2
  <2>2. Silent(d, 2, i - 1)
    BY <1>5, <2>1 DEF Silent
  <2>3. 2 \in 2..i /\ 2 - 1 = 1
    BY <1>2
  <2> QED  BY <1>1, <1>3, <1>5, <2>1, <2>2, <2>3 DEF Silent
<1> QED  BY <1>2, <1>4, <1>5 DEF LastIs

\* An announcement is made.
LEMMA HeardMore ==
  ASSUME announced \in Seq(NewsSet), NEW e \in NewsSet, announced' = Append(announced, e), NEW d, NEW n \in Nat, n = Len(announced)
  PROVE  /\ announced' \in Seq(NewsSet) /\ Len(announced') = n + 1 /\ announced'[n + 1] = e /\ \A i \in 1..n : announced'[i] = announced[i]
         /\ \A i \in 1..(n + 1) : /\ Silent(d, 1, i - 1) => Silent(d, 1, i - 1)'
                                  /\ \A kind : LastIs(d, i, kind) => LastIs(d, i, kind)'
         /\ e.device = d => LastIs(d, n + 2, e.kind)'
         /\ e.device # d => /\ Silent(d, 1, n) => Silent(d, 1, n + 1)'
                            /\ \A kind : LastIs(d, n + 1, kind) => LastIs(d, n + 2, kind)'
<1>1. announced' \in Seq(NewsSet) /\ Len(announced') = n + 1 /\ announced'[n + 1] = e /\ \A i \in 1..n : announced'[i] = announced[i]
  BY AppendLaw
<1>2. ASSUME NEW i \in 1..(n + 1)
      PROVE  /\ Silent(d, 1, i - 1) => Silent(d, 1, i - 1)'
             /\ \A kind : LastIs(d, i, kind) => LastIs(d, i, kind)'
  <2>1. \A j \in 1..(i - 1) : j \in 1..n /\ \A k \in (j + 1)..(i - 1) : k \in 1..n
    BY <1>2
  <2>2. \A j \in 1..(i - 1) : Silent(d, j + 1, i - 1) => Silent(d, j + 1, i - 1)'
    BY <1>1, <2>1 DEF Silent
  <2>3. Silent(d, 1, i - 1) => Silent(d, 1, i - 1)'
    BY <1>1, <2>1 DEF Silent
  <2> QED  BY <1>1, <2>1, <2>2, <2>3 DEF LastIs
<1>3. (n + 2) - 1 = n + 1 /\ (n + 1) - 1 = n
  OBVIOUS
<1>4. ASSUME e.device = d PROVE LastIs(d, n + 2, e.kind)'
  <2>1. n + 1 \in 1..(n + 1) /\ announced'[n + 1].device = d /\ announced'[n + 1].kind = e.kind
    BY <1>1, <1>4
  <2>2. Silent(d, (n + 1) + 1, n + 1)'
    BY DEF Silent
  <2> QED  BY <1>3, <2>1, <2>2 DEF LastIs
<1>5. ASSUME e.device # d, NEW j \in 1..(n + 1), Silent(d, j, n) PROVE Silent(d, j, n + 1)'
  <2>1. \A k \in j..(n + 1) : (k \in j..n /\ k \in 1..n) \/ k = n + 1
    OBVIOUS
  <2> QED  BY <1>1, <1>5, <2>1 DEF Silent
<1>6. ASSUME e.device # d, NEW kind, LastIs(d, n + 1, kind) PROVE LastIs(d, n + 2, kind)'
  <2>1. PICK j \in 1..n : announced[j].device = d /\ announced[j].kind = kind /\ Silent(d, j + 1, n)
    BY <1>3, <1>6 DEF LastIs
  <2>2. j \in 1..(n + 1) /\ j + 1 \in 1..(n + 1) /\ announced'[j] = announced[j]
    BY <1>1
  <2>3. Silent(d, j + 1, n + 1)'
    BY <1>5, <1>6, <2>1, <2>2
  <2> QED  BY <1>3, <2>1, <2>2, <2>3 DEF LastIs
<1>7. 1 \in 1..(n + 1)
  OBVIOUS
<1> QED  BY <1>1, <1>2, <1>4, <1>5, <1>6, <1>7

\* The announcements of a port's device alternate as before ...
LEMMA AlternatesSame ==
  ASSUME announced' = announced, NEW p, Alternates(p), blocks'[p[1]] = {} => blocks[p[1]] = {}, Clear(p) => Clear(p)'
  PROVE  Alternates(p)'
<1>1. \A d, i, j, kind : (Silent(d, i, j)' <=> Silent(d, i, j)) /\ (LastIs(d, i, kind)' <=> LastIs(d, i, kind))
  BY DEF Silent, LastIs
<1> QED  BY <1>1 DEF Alternates

\* ... when the first one is taken, if the port is not known then ...
LEMMA AlternatesRead ==
  ASSUME announced \in Seq(NewsSet), announced # <<>>, announced' = Tail(announced), NEW p, Alternates(p),
         blocks'[p[1]] = {} => blocks[p[1]] = {},
         Head(announced).device = p[1] /\ Head(announced).kind = "removed" => Clear(p)',
         Head(announced).device # p[1] /\ Clear(p) => Clear(p)'
  PROVE  Alternates(p)'
<1>1. PICK n \in Nat : n = Len(announced) /\ n # 0
  OBVIOUS
<1>2. Len(announced') = n - 1 /\ \A i \in 1..(n - 1) : i + 1 \in 1..n /\ announced'[i] = announced[i + 1]
  BY <1>1, TailLaw
<1>3. ASSUME NEW m \in 1..n, NEW i, i = m + 1, LastIs(p[1], i, "removed") \/ (Silent(p[1], 1, m) /\ Clear(p))
      PROVE  LastIs(p[1], m, "removed")' \/ (Silent(p[1], 1, m - 1)' /\ Clear(p)')
  <2>1. LastIs(p[1], i, "removed") =>
          LastIs(p[1], m, "removed")' \/ (Head(announced).device = p[1] /\ Head(announced).kind = "removed" /\ Silent(p[1], 1, m - 1)')
    BY <1>1, <1>3, HeardOf
  <2>2. Silent(p[1], 1, m) => Silent(p[1], 1, m - 1)' /\ Head(announced).device # p[1]
    BY <1>1, <1>3, HeardOf
  <2> QED  BY <1>3, <2>1, <2>2
<1>4. ASSUME NEW m \in 1..(n - 1), announced'[m].kind = "added", announced'[m].device = p[1]
      PROVE  LastIs(p[1], m, "removed")' \/ (Silent(p[1], 1, m - 1)' /\ Clear(p)')
  <2>1. PICK i \in 1..n : i = m + 1 /\ i - 1 = m /\ m \in 1..n /\ announced[i] = announced'[m]
    BY <1>1, <1>2
  <2>2. LastIs(p[1], i, "removed") \/ (Silent(p[1], 1, m) /\ Clear(p))
    BY <1>1, <1>4, <2>1 DEF Alternates
  <2> QED  BY <1>3, <2>1, <2>2
<1>5. ASSUME blocks'[p[1]] = {} PROVE LastIs(p[1], n, "removed")' \/ (Silent(p[1], 1, n - 1)' /\ Clear(p)')
  <2>1. PICK i \in Nat : i = n + 1
    OBVIOUS
  <2>2. LastIs(p[1], i, "removed") \/ (Silent(p[1], 1, n) /\ Clear(p))
    BY <1>1, <1>5, <2>1 DEF Alternates
  <2>3. n \in 1..n
    BY <1>1
  <2> QED  BY <1>3, <2>1, <2>2, <2>3
<1>6. Len(announced') + 1 = n
  BY <1>1, <1>2
<1> QED  BY <1>2, <1>4, <1>5, <1>6 DEF Alternates

\* ... and when one is made, of a device that appears, vanishes or changes.
LEMMA AlternatesMade ==
  ASSUME announced \in Seq(NewsSet), NEW e \in NewsSet, announced' = Append(announced, e), NEW p, Alternates(p),
         Clear(p) => Clear(p)',
         e.device = p[1] /\ e.kind = "added" => blocks[p[1]] = {},
         blocks'[p[1]] = {} => IF e.device = p[1] THEN e.kind = "removed" ELSE blocks[p[1]] = {}
  PROVE  Alternates(p)'
<1>1. PICK n \in Nat : n = Len(announced)
  OBVIOUS
<1>2. /\ Len(announced') = n + 1 /\ announced'[n + 1] = e /\ \A i \in 1..n : announced'[i] = announced[i]
      /\ \A i \in 1..(n + 1) : /\ Silent(p[1], 1, i - 1) => Silent(p[1], 1, i - 1)'
                               /\ LastIs(p[1], i, "removed") => LastIs(p[1], i, "removed")'
      /\ e.device = p[1] => LastIs(p[1], n + 2, e.kind)'
      /\ e.device # p[1] => /\ Silent(p[1], 1, n) => Silent(p[1], 1, n + 1)'
                            /\ LastIs(p[1], n + 1, "removed") => LastIs(p[1], n + 2, "removed")'
  BY <1>1, HeardMore
<1>3. ASSUME NEW i \in 1..(n + 1), announced'[i].kind = "added", announced'[i].device = p[1]
      PROVE  LastIs(p[1], i, "removed")' \/ (Silent(p[1], 1, i - 1)' /\ Clear(p)')
  <2>1. i \in 1..n \/ i = n + 1
    OBVIOUS
  <2>2. LastIs(p[1], i, "removed") \/ (Silent(p[1], 1, i - 1) /\ Clear(p))
    <3>1. CASE i \in 1..n
      BY <1>1, <1>2, <1>3, <3>1 DEF Alternates
    <3>2. CASE i = n + 1
      <4>1. blocks[p[1]] = {} /\ (n + 1) - 1 = n
        BY <1>2, <1>3, <3>2
      <4> QED  BY <1>1, <3>2, <4>1 DEF Alternates
    <3> QED  BY <2>1, <3>1, <3>2
  <2> QED  BY <1>2, <2>2
<1>4. ASSUME blocks'[p[1]] = {} PROVE LastIs(p[1], n + 2, "removed")' \/ (Silent(p[1], 1, n + 1)' /\ Clear(p)')
  <2>1. CASE e.device = p[1]
    BY <1>2, <1>4, <2>1
  <2>2. CASE e.device # p[1]
    <3>1. LastIs(p[1], n + 1, "removed") \/ (Silent(p[1], 1, n) /\ Clear(p))
      BY <1>1, <1>4, <2>2 DEF Alternates
    <3> QED  BY <1>2, <2>2, <3>1
  <2> QED  BY <2>1, <2>2
<1>5. Len(announced') + 1 = n + 2
  BY <1>2
<1> QED  BY <1>2, <1>3, <1>4, <1>5 DEF Alternates

LEMMA AlternatesNone ==
  ASSUME announced' = <<>>, NEW p, blocks'[p[1]] = {} => Clear(p)' PROVE Alternates(p)'
<1>1. Len(announced') = 0
  BY EmptySeq
<1> QED  BY <1>1 DEF Alternates, Silent

\* The watcher starts with what exists, of which no port is known.
LEMMA AlternatesStart ==
  ASSUME WatchTypes, DevicesAssumption, announced' = Service!Announcing, blocks' = blocks, NEW p, Clear(p)'
  PROVE  Alternates(p)'
<1>1. /\ Len(announced') \in Nat
      /\ \A i, j \in 1..Len(announced') : announced'[i].device = announced'[j].device => i = j
      /\ \A i \in 1..Len(announced') : blocks[announced'[i].device] # {}
  BY AnnouncingLaw
<1>2. PICK n \in Nat : n = Len(announced')
  BY <1>1
<1>3. ASSUME NEW i \in 1..n, announced'[i].device = p[1] PROVE Silent(p[1], 1, i - 1)'
  <2>1. \A j \in 1..(i - 1) : j \in 1..n /\ j # i
    BY <1>2
  <2> QED  BY <1>1, <1>2, <1>3, <2>1 DEF Silent
<1>4. ASSUME blocks'[p[1]] = {} PROVE Silent(p[1], 1, n)'
  BY <1>1, <1>2, <1>4 DEF Silent
<1> QED  BY <1>2, <1>3, <1>4 DEF Alternates

-----------------------------------------------------------------------------

\* The same for CoreMIDI, of a device that vanishes.
LEMMA DuallySame ==
  ASSUME announced' = announced, NEW p, Dually(p), blocks'[p[1]] # {} => blocks[p[1]] # {}, Will(p) => Will(p)'
  PROVE  Dually(p)'
<1>1. \A d, i, j, kind : (Silent(d, i, j)' <=> Silent(d, i, j)) /\ (LastIs(d, i, kind)' <=> LastIs(d, i, kind))
  BY DEF Silent, LastIs
<1> QED  BY <1>1 DEF Dually

LEMMA DuallyRead ==
  ASSUME announced \in Seq(NewsSet), announced # <<>>, announced' = Tail(announced), NEW p, Dually(p),
         blocks'[p[1]] # {} => blocks[p[1]] # {},
         Head(announced).device = p[1] /\ Head(announced).kind = "added" => Will(p)',
         Head(announced).device # p[1] /\ Will(p) => Will(p)'
  PROVE  Dually(p)'
<1>1. PICK n \in Nat : n = Len(announced) /\ n # 0
  OBVIOUS
<1>2. Len(announced') = n - 1 /\ \A i \in 1..(n - 1) : i + 1 \in 1..n /\ announced'[i] = announced[i + 1]
  BY <1>1, TailLaw
<1>3. ASSUME NEW m \in 1..n, NEW i, i = m + 1, LastIs(p[1], i, "added") \/ (Silent(p[1], 1, m) /\ Will(p))
      PROVE  LastIs(p[1], m, "added")' \/ (Silent(p[1], 1, m - 1)' /\ Will(p)')
  <2>1. LastIs(p[1], i, "added") =>
          LastIs(p[1], m, "added")' \/ (Head(announced).device = p[1] /\ Head(announced).kind = "added" /\ Silent(p[1], 1, m - 1)')
    BY <1>1, <1>3, HeardOf
  <2>2. Silent(p[1], 1, m) => Silent(p[1], 1, m - 1)' /\ Head(announced).device # p[1]
    BY <1>1, <1>3, HeardOf
  <2> QED  BY <1>3, <2>1, <2>2
<1>4. ASSUME NEW m \in 1..(n - 1), announced'[m].kind = "removed", announced'[m].device = p[1]
      PROVE  LastIs(p[1], m, "added")' \/ (Silent(p[1], 1, m - 1)' /\ Will(p)')
  <2>1. PICK i \in 1..n : i = m + 1 /\ i - 1 = m /\ m \in 1..n /\ announced[i] = announced'[m]
    BY <1>1, <1>2
  <2>2. LastIs(p[1], i, "added") \/ (Silent(p[1], 1, m) /\ Will(p))
    BY <1>1, <1>4, <2>1 DEF Dually
  <2> QED  BY <1>3, <2>1, <2>2
<1>5. ASSUME blocks'[p[1]] # {} PROVE LastIs(p[1], n, "added")' \/ (Silent(p[1], 1, n - 1)' /\ Will(p)')
  <2>1. PICK i \in Nat : i = n + 1
    OBVIOUS
  <2>2. LastIs(p[1], i, "added") \/ (Silent(p[1], 1, n) /\ Will(p))
    BY <1>1, <1>5, <2>1 DEF Dually
  <2>3. n \in 1..n
    BY <1>1
  <2> QED  BY <1>3, <2>1, <2>2, <2>3
<1>6. Len(announced') + 1 = n
  BY <1>1, <1>2
<1> QED  BY <1>2, <1>4, <1>5, <1>6 DEF Dually

LEMMA DuallyMade ==
  ASSUME announced \in Seq(NewsSet), NEW e \in NewsSet, announced' = Append(announced, e), NEW p, Dually(p),
         Will(p) => Will(p)',
         e.device = p[1] /\ e.kind = "removed" => blocks[p[1]] # {},
         blocks'[p[1]] # {} => IF e.device = p[1] THEN e.kind = "added" ELSE blocks[p[1]] # {}
  PROVE  Dually(p)'
<1>1. PICK n \in Nat : n = Len(announced)
  OBVIOUS
<1>2. /\ Len(announced') = n + 1 /\ announced'[n + 1] = e /\ \A i \in 1..n : announced'[i] = announced[i]
      /\ \A i \in 1..(n + 1) : /\ Silent(p[1], 1, i - 1) => Silent(p[1], 1, i - 1)'
                               /\ LastIs(p[1], i, "added") => LastIs(p[1], i, "added")'
      /\ e.device = p[1] => LastIs(p[1], n + 2, e.kind)'
      /\ e.device # p[1] => /\ Silent(p[1], 1, n) => Silent(p[1], 1, n + 1)'
                            /\ LastIs(p[1], n + 1, "added") => LastIs(p[1], n + 2, "added")'
  BY <1>1, HeardMore
<1>3. ASSUME NEW i \in 1..(n + 1), announced'[i].kind = "removed", announced'[i].device = p[1]
      PROVE  LastIs(p[1], i, "added")' \/ (Silent(p[1], 1, i - 1)' /\ Will(p)')
  <2>1. i \in 1..n \/ i = n + 1
    OBVIOUS
  <2>2. LastIs(p[1], i, "added") \/ (Silent(p[1], 1, i - 1) /\ Will(p))
    <3>1. CASE i \in 1..n
      BY <1>1, <1>2, <1>3, <3>1 DEF Dually
    <3>2. CASE i = n + 1
      <4>1. blocks[p[1]] # {} /\ (n + 1) - 1 = n
        BY <1>2, <1>3, <3>2
      <4> QED  BY <1>1, <3>2, <4>1 DEF Dually
    <3> QED  BY <2>1, <3>1, <3>2
  <2> QED  BY <1>2, <2>2
<1>4. ASSUME blocks'[p[1]] # {} PROVE LastIs(p[1], n + 2, "added")' \/ (Silent(p[1], 1, n + 1)' /\ Will(p)')
  <2>1. CASE e.device = p[1]
    BY <1>2, <1>4, <2>1
  <2>2. CASE e.device # p[1]
    <3>1. LastIs(p[1], n + 1, "added") \/ (Silent(p[1], 1, n) /\ Will(p))
      BY <1>1, <1>4, <2>2 DEF Dually
    <3> QED  BY <1>2, <2>2, <3>1
  <2> QED  BY <2>1, <2>2
<1>5. Len(announced') + 1 = n + 2
  BY <1>2
<1> QED  BY <1>2, <1>3, <1>4, <1>5 DEF Dually

\* Nothing was announced of the device.
LEMMA DuallyFresh ==
  ASSUME announced \in Seq(NewsSet), announced' = announced, NEW p, \A i \in 1..Len(announced) : announced[i].device # p[1],
         blocks'[p[1]] # {} => Will(p)'
  PROVE  Dually(p)'
<1>1. Silent(p[1], 1, Len(announced))'
  BY DEF Silent
<1> QED  BY <1>1 DEF Dually

-----------------------------------------------------------------------------
(* The steps.                                                               *)

vars_of_watch == <<service, tracks, stage, seen, due, heard, late, watching>>

LEMMA WatchCases ==
  Service!Next <=>
    \/ \E d \in Devices : Service!Arrives(d) \/ Service!Leaves(d) \/ Service!Changes(d)
    \/ Service!ListThenRegister \/ Service!StartWatcher \/ Service!ListThenListen \/ Service!CreateClient
    \/ Service!Constructed \/ Service!LoadAndUpdate
    \/ Service!OnAdded \/ Service!OnRemoved \/ Service!OnUpdated \/ Service!Lookup \/ Service!Call \/ Service!DevicesPoll
    \/ Service!Destruct
  BY DEF Service!Next, Service!World, Service!Construct, Service!Watch

\* A device appears, vanishes or changes.
LEMMA HappensLaw ==
  ASSUME WatchTypes, DevicesAssumption, NEW d \in Devices, Service!Arrives(d) \/ Service!Leaves(d) \/ Service!Changes(d)
  PROVE  /\ UNCHANGED vars_of_watch
         /\ blocks' \in [Devices -> SUBSET UNION Layouts]
         /\ \A c \in Devices : c # d => blocks'[c] = blocks[c]
         /\ \E e \in NewsSet :
              /\ e.device = d /\ \A p \in e.ports : p[1] = d
              /\ announced' = IF watching THEN Append(announced, e) ELSE announced
              /\ mixed' = IF Service!Slips THEN mixed \cup e.ports ELSE mixed
              /\ e.kind = "added" <=> blocks[d] = {}
              /\ e.kind = "removed" <=> blocks'[d] = {}
              /\ e.kind = "updated" => service = "winmidi"
              /\ e.kind = "removed" => service # "webmidi"
              /\ OneBlock /\ service # "winmidi" => blocks'[d] \subseteq {1} /\ e.ports = {<<d, 1>>}
<1>1. ASSUME NEW kind \in {"added", "removed", "updated"}, NEW now \in SUBSET UNION Layouts, Service!Happens(kind, d, now),
             kind = "added" <=> blocks[d] = {}, kind = "removed" <=> now = {}, kind = "updated" => service = "winmidi",
             kind = "removed" => service # "webmidi", service # "winmidi" => now \subseteq {1}
      PROVE  /\ UNCHANGED vars_of_watch
             /\ blocks' \in [Devices -> SUBSET UNION Layouts]
             /\ \A c \in Devices : c # d => blocks'[c] = blocks[c]
             /\ \E e \in NewsSet :
                  /\ e.device = d /\ \A p \in e.ports : p[1] = d
                  /\ announced' = IF watching THEN Append(announced, e) ELSE announced
                  /\ mixed' = IF Service!Slips THEN mixed \cup e.ports ELSE mixed
                  /\ e.kind = "added" <=> blocks[d] = {}
                  /\ e.kind = "removed" <=> blocks'[d] = {}
                  /\ e.kind = "updated" => service = "winmidi"
                  /\ e.kind = "removed" => service # "webmidi"
                  /\ OneBlock /\ service # "winmidi" => blocks'[d] \subseteq {1} /\ e.ports = {<<d, 1>>}
  <2> DEFINE P == {<<d, b>> : b \in now \cup blocks[d]}
             x == [kind |-> kind, device |-> d, ports |-> P]
  <2>1. P \in SUBSET AllPorts /\ \A p \in P : p[1] = d
    BY DEF WatchTypes, AllPorts, Service!AllPorts
  <2>2. x \in NewsSet /\ x.kind = kind /\ x.device = d /\ x.ports = P
    BY <2>1 DEF NewsSet
  <2>3. /\ blocks' = [blocks EXCEPT ![d] = now]
        /\ announced' = IF watching THEN Append(announced, x) ELSE announced
        /\ mixed' = IF Service!Slips THEN mixed \cup P ELSE mixed
        /\ UNCHANGED vars_of_watch
    BY <1>1 DEF Service!Happens, Service!Announcement, vars_of_watch
  <2>4. blocks' \in [Devices -> SUBSET UNION Layouts] /\ blocks'[d] = now /\ \A c \in Devices : c # d => blocks'[c] = blocks[c]
    BY <2>3 DEF WatchTypes
  <2>5. ASSUME OneBlock, service # "winmidi" PROVE blocks'[d] \subseteq {1} /\ P = {<<d, 1>>}
    <3>1. now \subseteq {1} /\ blocks[d] \subseteq {1} /\ (now = {1} \/ blocks[d] = {1})
      BY <1>1, <2>5 DEF OneBlock
    <3> QED  BY <2>4, <3>1
  <2> HIDE DEF P, x
  <2> QED  BY <1>1, <2>1, <2>2, <2>3, <2>4, <2>5
<1>2. CASE Service!Arrives(d)
  <2>1. PICK now \in SUBSET UNION Layouts : now # {} /\ Service!Happens("added", d, now) /\ (service # "winmidi" => now \subseteq {1})
    BY <1>2 DEF Service!Arrives, DevicesAssumption
  <2> QED  BY <1>1, <1>2, <2>1 DEF Service!Arrives
<1>3. CASE Service!Leaves(d)
  BY <1>1, <1>3 DEF Service!Leaves
<1>4. CASE Service!Changes(d)
  <2>1. PICK now \in SUBSET UNION Layouts : now # {} /\ Service!Happens("updated", d, now)
    BY <1>4 DEF Service!Changes, DevicesAssumption
  <2> QED  BY <1>1, <1>4, <2>1 DEF Service!Changes
<1> QED  BY <1>2, <1>3, <1>4

\* An announcement is read.
LEMMA HeedLaw ==
  ASSUME WatchTypes, NEW kind, Service!Heed(kind)
  PROVE  /\ due = <<>> /\ announced # <<>> /\ announced' = Tail(announced) /\ announced' \in Seq(NewsSet)
         /\ Head(announced) \in NewsSet /\ Head(announced).kind = kind
         /\ Head(announced).device \in Devices /\ Head(announced).ports \in SUBSET AllPorts
         /\ 1 \in 1..Len(announced) /\ Head(announced) = announced[1]
         /\ \A i \in 1..Len(announced') : i + 1 \in 1..Len(announced) /\ announced'[i] = announced[i + 1]
         /\ \A i \in 1..Len(announced') : \A p \in announced'[i].ports : p[1] = announced'[i].device
         /\ \A p \in Head(announced).ports : p[1] = Head(announced).device
<1>1. due = <<>> /\ announced # <<>> /\ announced' = Tail(announced) /\ Head(announced).kind = kind
  BY DEF Service!Heed
<1>2. /\ announced' \in Seq(NewsSet) /\ Head(announced) = announced[1] /\ 1 \in 1..Len(announced) /\ Head(announced) \in NewsSet
      /\ \A i \in 1..Len(announced') : i + 1 \in 1..Len(announced) /\ announced'[i] = announced[i + 1]
  BY <1>1, TailLaw DEF WatchTypes
<1>3. \A i \in 1..Len(announced) : \A p \in announced[i].ports : p[1] = announced[i].device
  BY DEF WatchTypes
<1>4. Head(announced).device \in Devices /\ Head(announced).ports \in SUBSET AllPorts
  BY <1>2 DEF NewsSet
<1> QED  BY <1>1, <1>2, <1>3, <1>4

\* A callback is made.
LEMMA CallLaw ==
  ASSUME WatchTypes, Service!Call
  PROVE  \E p \in AllPorts, kind \in {"added", "removed"} :
           /\ due # <<>> /\ Head(due) = CallOf(kind, p) /\ Head(due) \in CallSet /\ due' = Tail(due)
           /\ seen' = IF service = "winmidi" /\ kind = "added" THEN seen \cup {p} ELSE seen
           /\ heard' = IF Service!Registered /\ Service!Announces(kind)
                       THEN [heard EXCEPT ![p] = @ + (IF kind = "added" THEN 1 ELSE -1)] ELSE heard
           /\ late' = (late \/ (stage = "gone" /\ Service!Registered))
           /\ Service!Mixed({p})
           /\ UNCHANGED <<service, tracks, blocks, steps, watching, announced, stage>>
<1>1. due # <<>> /\ Head(due).kind \in {"added", "removed"}
  BY DEF Service!Call
<1>2. Head(due) \in CallSet \cup LookupSet
  BY <1>1, TailLaw DEF WatchTypes
<1>3. Head(due) \in CallSet
  BY <1>1, <1>2 DEF LookupSet
<1>4. Head(due).port \in AllPorts /\ Head(due) = CallOf(Head(due).kind, Head(due).port)
  BY <1>3 DEF CallSet, CallOf
<1> QED  BY <1>1, <1>3, <1>4 DEF Service!Call, Service!outside

LEMMA TellLaw ==
  ASSUME WatchTypes, NEW P \in SUBSET AllPorts, Service!Tell(P)
  PROVE  heard' \in [AllPorts -> Int] /\ \A p \in AllPorts : heard'[p] = heard[p] + (IF p \in P THEN 1 ELSE 0)
<1>1. heard' = [p \in AllPorts |-> IF p \in P THEN heard[p] + 1 ELSE heard[p]]
  BY DEF Service!Tell, AllPorts
<1>2. \A p \in AllPorts : heard[p] \in Int
  BY DEF WatchTypes
<1> QED  BY <1>1, <1>2

LEMMA ExistingLaw ==
  ASSUME WatchTypes
  PROVE  /\ Service!Existing \subseteq AllPorts /\ Service!Wanted \subseteq Service!Existing
         /\ \A p \in AllPorts : p \in Service!Existing <=> p[2] \in blocks[p[1]]
         /\ \A p \in AllPorts : p[1] \in Devices
         /\ \A d \in Devices : Service!PortsOf(d) \subseteq AllPorts
<1>1. \A d \in Devices : Service!PortsOf(d) \subseteq AllPorts
  BY DEF WatchTypes, Service!PortsOf, AllPorts, Service!AllPorts
<1>2. \A p \in AllPorts : p[1] \in Devices /\ p = <<p[1], p[2]>>
  BY DEF AllPorts, Service!AllPorts
<1>3. ASSUME NEW p \in AllPorts PROVE p \in Service!Existing <=> p[2] \in blocks[p[1]]
  <2>1. p \in Service!Existing <=> \E d \in Devices : \E b \in blocks[d] : p = <<d, b>>
    BY DEF Service!Existing, Service!PortsOf
  <2> QED  BY <1>2, <2>1
<1>4. Service!Existing \subseteq AllPorts /\ Service!Wanted \subseteq Service!Existing
  BY <1>1 DEF Service!Existing, Service!Wanted
<1> QED  BY <1>1, <1>2, <1>3, <1>4

LEMMA WatchTypesStep == ASSUME WatchInv, DevicesAssumption, Service!Next PROVE WatchTypes'
<1> USE DEF Service!outside
<1>1. WatchTypes
  BY DEF WatchInv
<1>2. ASSUME NEW d \in Devices, Service!Arrives(d) \/ Service!Leaves(d) \/ Service!Changes(d) PROVE WatchTypes'
  <2>1. /\ UNCHANGED vars_of_watch
        /\ blocks' \in [Devices -> SUBSET UNION Layouts]
        /\ \E e \in NewsSet :
             /\ \A p \in e.ports : p[1] = e.device
             /\ announced' = IF watching THEN Append(announced, e) ELSE announced
             /\ mixed' = IF Service!Slips THEN mixed \cup e.ports ELSE mixed
    BY <1>1, <1>2, HappensLaw
  <2>2. PICK e \in NewsSet :
             /\ \A p \in e.ports : p[1] = e.device
             /\ announced' = IF watching THEN Append(announced, e) ELSE announced
             /\ mixed' = IF Service!Slips THEN mixed \cup e.ports ELSE mixed
    BY <2>1
  <2>3. mixed' \subseteq AllPorts
    BY <1>1, <2>2 DEF WatchTypes, NewsSet
  <2>4. announced' \in Seq(NewsSet) /\ \A i \in 1..Len(announced') : \A p \in announced'[i].ports : p[1] = announced'[i].device
    <3>1. announced \in Seq(NewsSet) /\ \A i \in 1..Len(announced) : \A p \in announced[i].ports : p[1] = announced[i].device
      BY <1>1 DEF WatchTypes
    <3>2. CASE ~watching
      BY <2>2, <3>1, <3>2
    <3>3. CASE watching
      <4>1. /\ announced' \in Seq(NewsSet) /\ Len(announced') = Len(announced) + 1 /\ Len(announced) \in Nat
            /\ announced'[Len(announced) + 1] = e /\ \A i \in 1..Len(announced) : announced'[i] = announced[i]
        BY <2>2, <3>1, <3>3, AppendLaw
      <4>2. \A i \in 1..Len(announced') : i \in 1..Len(announced) \/ i = Len(announced) + 1
        BY <4>1
      <4> QED  BY <2>2, <3>1, <4>1, <4>2
    <3> QED  BY <3>2, <3>3
  <2> QED  BY <1>1, <2>1, <2>3, <2>4 DEF WatchTypes, vars_of_watch
<1>3. CASE Service!ListThenRegister
  <2>1. /\ stage = "new" /\ stage' = "between" /\ watching' = TRUE /\ service = "winuwp"
        /\ announced' = IF watching THEN announced ELSE Service!Announcing
        /\ Service!Tell(seen)
        /\ mixed' = mixed \cup {due[i].port : i \in DOMAIN due}
        /\ UNCHANGED <<service, blocks, seen, due>>
    BY <1>3 DEF Service!ListThenRegister
  <2>2. \A i \in DOMAIN due : due[i].port \in AllPorts
    <3>1. DOMAIN due = 1..Len(due)
      BY <1>1 DEF WatchTypes
    <3>2. \A i \in 1..Len(due) : due[i] \in CallSet
      BY <2>1 DEF WatchInv, Active, OneBlock
    <3> QED  BY <3>1, <3>2 DEF CallSet
  <2>3. announced' \in Seq(NewsSet) /\ \A i \in 1..Len(announced') : \A p \in announced'[i].ports : p[1] = announced'[i].device
    <3>1. CASE watching
      BY <1>1, <2>1, <3>1 DEF WatchTypes
    <3>2. CASE ~watching
      BY <1>1, <2>1, <3>2, AnnouncingLaw DEF Service!PortsOf
    <3> QED  BY <3>1, <3>2
  <2>4. heard' \in [AllPorts -> Int]
    BY <1>1, <2>1, TellLaw DEF WatchTypes
  <2> QED  BY <1>1, <2>1, <2>2, <2>3, <2>4 DEF WatchTypes
<1>4. CASE Service!StartWatcher
  <2>1. announced' \in Seq(NewsSet) /\ \A i \in 1..Len(announced') : \A p \in announced'[i].ports : p[1] = announced'[i].device
    BY <1>1, <1>4, AnnouncingLaw DEF Service!PortsOf, Service!StartWatcher
  <2> QED  BY <1>1, <1>4, <2>1 DEF WatchTypes, Service!StartWatcher
<1>5. CASE Service!ListThenListen \/ Service!LoadAndUpdate \/ Service!DevicesPoll
  <2>1. /\ stage' \in {"between", "made"} /\ UNCHANGED <<service, tracks, blocks, steps, watching, announced, due, late, mixed>>
        /\ \E P \in SUBSET AllPorts : Service!Tell(P)
        /\ seen' \subseteq AllPorts
    BY <1>1, <1>5, ExistingLaw DEF Service!ListThenListen, Service!LoadAndUpdate, Service!DevicesPoll
  <2>2. heard' \in [AllPorts -> Int]
    BY <1>1, <2>1, TellLaw
  <2> QED  BY <1>1, <2>1, <2>2 DEF WatchTypes
<1>6. CASE Service!CreateClient \/ Service!Destruct
  BY <1>1, <1>6 DEF WatchTypes, Service!CreateClient, Service!Destruct
<1>7. CASE Service!Constructed
  <2>1. /\ stage' = "made" /\ watching' = TRUE /\ UNCHANGED <<service, tracks, blocks, steps, announced, seen, due, late, mixed>>
        /\ heard' = heard \/ \E P \in SUBSET AllPorts : Service!Tell(P)
    BY <1>1, <1>7, ExistingLaw DEF Service!Constructed
  <2>2. heard' \in [AllPorts -> Int]
    BY <1>1, <2>1, TellLaw DEF WatchTypes
  <2> QED  BY <1>1, <2>1, <2>2 DEF WatchTypes
<1>8. CASE Service!OnAdded
  <2> DEFINE P == {p \in Head(announced).ports : Service!Passes(p)}
  <2>1. /\ Service!Heed("added") /\ due' = Service!Calls("added", P) /\ (seen' = seen \cup P \/ seen' = seen)
        /\ (mixed' = mixed \cup P \/ mixed' = mixed) /\ UNCHANGED <<service, blocks, watching, stage, heard>>
    BY <1>8 DEF Service!OnAdded, Service!Mixed
  <2>2. P \in SUBSET AllPorts
    BY <1>1, <2>1, HeedLaw
  <2> HIDE DEF P
  <2>3. due' \in Seq(CallSet \cup LookupSet)
    BY <2>1, <2>2, DueMade
  <2>4. announced' \in Seq(NewsSet) /\ \A i \in 1..Len(announced') : \A p \in announced'[i].ports : p[1] = announced'[i].device
    BY <1>1, <2>1, HeedLaw
  <2> QED  BY <1>1, <2>1, <2>2, <2>3, <2>4 DEF WatchTypes
<1>9. CASE Service!OnRemoved
  <2> DEFINE of == {p \in AllPorts : p[1] = Head(announced).device}
             P == IF service = "coremidi" THEN {p \in Head(announced).ports : Service!Passes(p)} ELSE seen \cap of
  <2>1. /\ Service!Heed("removed") /\ due' = Service!Calls("removed", P) /\ seen' = seen \ of
        /\ (mixed' = mixed \cup P \/ mixed' = mixed) /\ UNCHANGED <<service, blocks, watching, stage, heard>>
    BY <1>9 DEF Service!OnRemoved, Service!Mixed, AllPorts
  <2>2. P \in SUBSET AllPorts
    BY <1>1, <2>1, HeedLaw
  <2> HIDE DEF P, of
  <2>3. due' \in Seq(CallSet \cup LookupSet)
    BY <2>1, <2>2, DueMade
  <2>4. announced' \in Seq(NewsSet) /\ \A i \in 1..Len(announced') : \A p \in announced'[i].ports : p[1] = announced'[i].device
    BY <1>1, <2>1, HeedLaw
  <2> QED  BY <1>1, <2>1, <2>2, <2>3, <2>4 DEF WatchTypes
<1>10. CASE Service!OnUpdated
  <2> DEFINE P == {p \in seen : p[1] = Head(announced).device}
  <2>1. /\ Service!Heed("updated") /\ seen' = seen \ P
        /\ due' = Append(Service!Calls("removed", P), [kind |-> "lookup", device |-> Head(announced).device])
        /\ UNCHANGED <<service, blocks, watching, stage, heard, mixed>>
    BY <1>10 DEF Service!OnUpdated
  <2>2. P \in SUBSET AllPorts /\ Head(announced).device \in Devices
    BY <1>1, <2>1, HeedLaw DEF WatchTypes
  <2> HIDE DEF P
  <2>3. due' \in Seq(CallSet \cup LookupSet)
    BY <2>1, <2>2, LookupMade
  <2>4. announced' \in Seq(NewsSet) /\ \A i \in 1..Len(announced') : \A p \in announced'[i].ports : p[1] = announced'[i].device
    BY <1>1, <2>1, HeedLaw
  <2> QED  BY <1>1, <2>1, <2>2, <2>3, <2>4 DEF WatchTypes
<1>11. CASE Service!Lookup
  <2>1. /\ due # <<>> /\ Head(due).kind = "lookup" /\ due' = Service!Calls("added", Service!PortsOf(Head(due).device))
        /\ UNCHANGED <<service, blocks, watching, announced, stage, seen, heard, mixed>>
    BY <1>11 DEF Service!Lookup
  <2>2. Head(due) \in CallSet \cup LookupSet
    BY <1>1, <2>1, TailLaw DEF WatchTypes
  <2>3. Head(due).device \in Devices
    BY <2>1, <2>2 DEF CallSet, LookupSet
  <2>4. due' \in Seq(CallSet \cup LookupSet)
    BY <1>1, <2>1, <2>3, ExistingLaw, DueMade
  <2> QED  BY <1>1, <2>1, <2>4 DEF WatchTypes
<1>12. CASE Service!Call
  <2>1. PICK p \in AllPorts, kind \in {"added", "removed"} :
           /\ due # <<>> /\ due' = Tail(due)
           /\ seen' \subseteq seen \cup {p}
           /\ (heard' = heard \/ heard' = [heard EXCEPT ![p] = @ + (IF kind = "added" THEN 1 ELSE -1)])
           /\ Service!Mixed({p})
           /\ UNCHANGED <<service, blocks, watching, announced, stage>>
    <3>1. PICK p \in AllPorts, kind \in {"added", "removed"} :
           /\ due # <<>> /\ Head(due) = CallOf(kind, p) /\ Head(due) \in CallSet /\ due' = Tail(due)
           /\ seen' = IF service = "winmidi" /\ kind = "added" THEN seen \cup {p} ELSE seen
           /\ heard' = IF Service!Registered /\ Service!Announces(kind)
                       THEN [heard EXCEPT ![p] = @ + (IF kind = "added" THEN 1 ELSE -1)] ELSE heard
           /\ late' = (late \/ (stage = "gone" /\ Service!Registered))
           /\ Service!Mixed({p})
           /\ UNCHANGED <<service, tracks, blocks, steps, watching, announced, stage>>
      BY <1>1, <1>12, CallLaw
    <3> QED  BY <3>1
  <2>2. due' \in Seq(CallSet \cup LookupSet)
    BY <1>1, <2>1, TailLaw DEF WatchTypes
  <2>3. heard' \in [AllPorts -> Int]
    BY <1>1, <2>1 DEF WatchTypes
  <2>4. mixed' \subseteq AllPorts
    BY <1>1, <2>1 DEF WatchTypes, Service!Mixed
  <2> QED  BY <1>1, <2>1, <2>2, <2>3, <2>4 DEF WatchTypes
<1> QED  BY <1>2, <1>3, <1>4, <1>5, <1>6, <1>7, <1>8, <1>9, <1>10, <1>11, <1>12, WatchCases

-----------------------------------------------------------------------------
(* What the user hears is what PortDirectory allows.                        *)

Moves == Service!Directory!Next \/ Service!Told' = Service!Told

LEMMA ToldLaw ==
  /\ Service!Told = [p \in AllPorts |-> IF p \in mixed THEN 0 ELSE heard[p]]
  /\ Service!Told' = [p \in AllPorts |-> IF p \in mixed' THEN 0 ELSE heard'[p]]
  BY DEF Service!Told, AllPorts

LEMMA MovesNot ==
  ASSUME \A p \in AllPorts : (p \in mixed' <=> p \in mixed) /\ (p \notin mixed => heard'[p] = heard[p]) PROVE Moves
  BY ToldLaw DEF Moves

\* The ports of S are told.
LEMMA MovesAdded ==
  ASSUME NEW S \in SUBSET AllPorts,
         \A p \in AllPorts : p \in S \/ p \in mixed' \/ (p \notin mixed /\ heard'[p] = heard[p]),
         \A p \in AllPorts : p \in mixed' => p \in mixed \/ heard[p] = 0,
         \A p \in S : p \notin mixed' /\ heard'[p] = 1 /\ (p \in mixed \/ heard[p] = 0)
  PROVE  Moves
<1>1. \A p \in AllPorts : Service!Told[p] = (IF p \in mixed THEN 0 ELSE heard[p]) /\ Service!Told'[p] = (IF p \in mixed' THEN 0 ELSE heard'[p])
  BY ToldLaw
<1>2. \A p \in AllPorts : Service!Told'[p] = IF p \in S THEN 1 ELSE Service!Told[p]
  BY <1>1
<1>3. \A p \in S : Service!Told[p] = 0
  BY <1>1
<1>4. Service!Told' = [p \in AllPorts |-> Service!Told'[p]]
  BY ToldLaw
<1>5. Service!Told' = [p \in AllPorts |-> IF p \in S THEN 1 ELSE Service!Told[p]]
  BY <1>2, <1>4
<1>6. Service!Directory!Added(S)
  BY <1>3, <1>5 DEF Service!Directory!Added, AllPorts
<1> QED  BY <1>6 DEF Moves, Service!Directory!Next, AllPorts

\* A port is told to be gone, or is concerned by a race from now on.
LEMMA MovesRemoved ==
  ASSUME NEW q \in AllPorts, q \notin mixed, heard[q] \in {0, 1}, q \in mixed' \/ (heard'[q] = 0 /\ heard[q] = 1),
         \A p \in AllPorts : p # q => (p \in mixed' <=> p \in mixed) /\ (p \notin mixed => heard'[p] = heard[p])
  PROVE  Moves
<1>1. \A p \in AllPorts : Service!Told[p] = (IF p \in mixed THEN 0 ELSE heard[p]) /\ Service!Told'[p] = (IF p \in mixed' THEN 0 ELSE heard'[p])
  BY ToldLaw
<1>2. \A p \in AllPorts : Service!Told'[p] = IF p = q THEN 0 ELSE Service!Told[p]
  BY <1>1
<1>3. Service!Told' = [p \in AllPorts |-> Service!Told'[p]] /\ Service!Told = [p \in AllPorts |-> Service!Told[p]]
  BY ToldLaw
<1>4. CASE heard[q] = 0
  <2>1. \A p \in AllPorts : Service!Told'[p] = Service!Told[p]
    BY <1>1, <1>2, <1>4
  <2> QED  BY <1>3, <2>1 DEF Moves
<1>5. CASE heard[q] = 1
  <2>1. Service!Told[q] = 1
    BY <1>1, <1>5
  <2>2. Service!Told' = [Service!Told EXCEPT ![q] = 0]
    BY <1>2, <1>3
  <2>3. Service!Directory!Removed(q)
    BY <2>1, <2>2 DEF Service!Directory!Removed
  <2> QED  BY <2>3 DEF Moves, Service!Directory!Next, AllPorts
<1> QED  BY <1>4, <1>5

\* After the destructor nobody is called.
LEMMA GoneStep == ASSUME WatchInv, DevicesAssumption, Service!Next, stage = "gone" PROVE Active' /\ After' /\ Moves
<1> USE DEF Service!outside
<1>1. /\ WatchTypes /\ ~late /\ (service # "winuwp" => due = <<>>)
  BY DEF WatchInv, After
<1>2. CASE \E d \in Devices : Service!Arrives(d) \/ Service!Leaves(d) \/ Service!Changes(d)
  <2>1. UNCHANGED vars_of_watch /\ mixed' = mixed
    <3>1. ~Service!Slips
      BY DEF Service!Slips
    <3> QED  BY <1>1, <1>2, <3>1, HappensLaw
  <2> QED  BY <1>1, <2>1, MovesNot DEF vars_of_watch, Active, After
<1>3. CASE Service!OnAdded \/ Service!OnRemoved \/ Service!OnUpdated
  <2>1. service = "winuwp" /\ UNCHANGED <<service, stage, heard, late, mixed>>
    BY <1>3 DEF Service!OnAdded, Service!OnRemoved, Service!OnUpdated, Service!Listening, Service!Mixed
  <2> QED  BY <1>1, <2>1, MovesNot DEF Active, After
<1>4. CASE Service!Lookup
  <2>1. service = "winuwp" /\ UNCHANGED <<service, stage, heard, late, mixed>>
    BY <1>1, <1>4 DEF Service!Lookup
  <2> QED  BY <1>1, <2>1, MovesNot DEF Active, After
<1>5. CASE Service!Call
  <2>1. service = "winuwp" /\ ~Service!Registered
    BY <1>1, <1>5 DEF Service!Call, Service!Registered
  <2>2. UNCHANGED <<service, stage, heard, mixed>> /\ ~late'
    BY <1>1, <1>5, <2>1 DEF Service!Call, Service!Mixed
  <2> QED  BY <1>1, <2>1, <2>2, MovesNot DEF Active, After
<1>6. /\ ~Service!ListThenRegister /\ ~Service!StartWatcher /\ ~Service!ListThenListen /\ ~Service!CreateClient
      /\ ~Service!Constructed /\ ~Service!LoadAndUpdate /\ ~Service!DevicesPoll /\ ~Service!Destruct
  BY DEF Service!ListThenRegister, Service!StartWatcher, Service!ListThenListen, Service!CreateClient,
         Service!Constructed, Service!LoadAndUpdate, Service!DevicesPoll, Service!Destruct
<1> QED  BY <1>2, <1>3, <1>4, <1>5, <1>6, WatchCases

\* What holds while there is an observer.
LEMMA WatchParts ==
  ASSUME WatchInv, stage # "gone"
  PROVE  /\ WatchTypes /\ OneBlock /\ DueInv /\ Stages /\ ~late
         /\ \A p \in Certain : Hears(p) /\ Alternates(p)
         /\ service = "coremidi" /\ stage = "made" => \A p \in Certain : p[2] = 1 /\ Service!Passes(p) => Dually(p)
  BY DEF WatchInv, Active, After

LEMMA PassesSame == ASSUME UNCHANGED <<service, tracks>> PROVE \A p : Service!Passes(p)' <=> Service!Passes(p)
  BY DEF Service!Passes, Service!Filters

LEMMA HearsSame ==
  ASSUME UNCHANGED <<service, tracks, stage, due, heard>>, NEW p, p \in seen' <=> p \in seen PROVE Hears(p)' <=> Hears(p)
  BY SameDue, PassesSame DEF Hears, Will

LEMMA ClearSame ==
  ASSUME UNCHANGED <<service, due, heard>>, NEW p, p \in seen' <=> p \in seen PROVE (Clear(p)' <=> Clear(p)) /\ (Will(p)' <=> Will(p))
  BY SameDue DEF Clear, Will

LEMMA HappensStep ==
  ASSUME WatchInv, DevicesAssumption, stage # "gone",
         NEW d \in Devices, Service!Arrives(d) \/ Service!Leaves(d) \/ Service!Changes(d)
  PROVE  Active' /\ After' /\ Moves
<1>1. /\ WatchTypes /\ OneBlock /\ DueInv /\ Stages /\ ~late
      /\ \A p \in Certain : Hears(p) /\ Alternates(p)
      /\ service = "coremidi" /\ stage = "made" => \A p \in Certain : p[2] = 1 /\ Service!Passes(p) => Dually(p)
  BY WatchParts
<1>2. /\ UNCHANGED vars_of_watch
      /\ blocks' \in [Devices -> SUBSET UNION Layouts]
      /\ \A c \in Devices : c # d => blocks'[c] = blocks[c]
  BY <1>1, HappensLaw
<1>3. PICK e \in NewsSet :
        /\ e.device = d /\ \A p \in e.ports : p[1] = d
        /\ announced' = IF watching THEN Append(announced, e) ELSE announced
        /\ mixed' = IF Service!Slips THEN mixed \cup e.ports ELSE mixed
        /\ e.kind = "added" <=> blocks[d] = {}
        /\ e.kind = "removed" <=> blocks'[d] = {}
        /\ e.kind = "updated" => service = "winmidi"
        /\ e.kind = "removed" => service # "webmidi"
        /\ OneBlock /\ service # "winmidi" => blocks'[d] \subseteq {1} /\ e.ports = {<<d, 1>>}
  BY <1>1, HappensLaw
<1>4. /\ UNCHANGED <<service, tracks, stage, seen, due, heard, late, watching>>
      /\ announced \in Seq(NewsSet) /\ seen \subseteq AllPorts
  BY <1>1, <1>2 DEF vars_of_watch, WatchTypes
<1>5. Certain' \subseteq Certain /\ \A p \in Certain : p \in AllPorts /\ p[1] \in Devices
  BY <1>1, <1>3, ExistingLaw DEF Certain, AllPorts, Service!AllPorts
<1>6. \A p : (Hears(p)' <=> Hears(p)) /\ (Clear(p)' <=> Clear(p)) /\ (Will(p)' <=> Will(p))
  BY <1>4, HearsSame, ClearSame
<1>7. watching => /\ Len(announced) \in Nat /\ Len(announced') = Len(announced) + 1
                  /\ announced'[Len(announced) + 1] = e /\ \A i \in 1..Len(announced) : announced'[i] = announced[i]
                  /\ \A i \in 1..Len(announced') : i \in 1..Len(announced) \/ i = Len(announced) + 1
  <2>1. ASSUME watching PROVE /\ Len(announced) \in Nat /\ Len(announced') = Len(announced) + 1
                              /\ announced'[Len(announced) + 1] = e /\ \A i \in 1..Len(announced) : announced'[i] = announced[i]
    BY <1>3, <1>4, <2>1, AppendLaw
  <2> QED  BY <2>1
<1>8. OneBlock'
  <2> SUFFICES ASSUME service # "winmidi" PROVE OneBlock'
    BY <1>4 DEF OneBlock
  <2>1. \A c \in Devices : blocks'[c] \subseteq {1}
    BY <1>1, <1>2, <1>3 DEF OneBlock
  <2>2. \A i \in 1..Len(announced') : announced'[i].kind # "updated" /\ announced'[i].ports = {<<announced'[i].device, 1>>}
    <3>1. CASE watching
      BY <1>1, <1>3, <1>7, <3>1 DEF OneBlock
    <3>2. CASE ~watching
      BY <1>1, <1>3, <3>2 DEF OneBlock
    <3> QED  BY <3>1, <3>2
  <2> QED  BY <1>1, <1>4, <2>1, <2>2 DEF OneBlock, CallSet, AllPorts
<1>9. DueInv'
  BY <1>1, <1>4, SameDue
<1>10. Stages'
  <2>1. /\ stage' = "new" => mixed' = {} /\ (watching' => service' = "winuwp")
        /\ service' = "winmidi" => mixed' = {}
    BY <1>1, <1>3, <1>4 DEF Stages, Service!Slips
  <2>2. ~watching' => /\ announced' = <<>> /\ due' = <<>>
                      /\ (stage' = "new" /\ seen' = {}) \/ service' = "webmidi" \/ (service' = "jackump" /\ stage' = "between")
    BY <1>1, <1>3, <1>4 DEF Stages
  <2>3. service' = "webmidi" => ~watching' /\ seen' \subseteq Service!Existing' /\ stage' # "between"
    <3>1. ASSUME service = "webmidi", NEW p \in Service!Existing PROVE p \in Service!Existing'
      <4>1. PICK c \in Devices : \E b \in blocks[c] : p = <<c, b>>
        BY <3>1 DEF Service!Existing, Service!PortsOf
      <4>2. PICK b \in blocks[c] : p = <<c, b>>
        BY <4>1
      <4>3. b \in blocks'[c]
        <5>1. CASE c # d
          BY <1>2, <4>2, <5>1
        <5>2. CASE c = d
          BY <1>1, <1>3, <3>1, <4>2, <5>2 DEF OneBlock
        <5> QED  BY <5>1, <5>2
      <4> QED  BY <4>2, <4>3 DEF Service!Existing, Service!PortsOf
    <3> QED  BY <1>1, <1>4, <3>1 DEF Stages
  <2>4. stage' = "between" /\ service' \in {"winuwp", "coremidi"} => \A p \in Certain' : ~Adding(p)' /\ ~Removing(p)'
    BY <1>1, <1>4, <1>5, SameDue DEF Stages
  <2>5. ASSUME stage' = "between", service' = "coremidi"
        PROVE  /\ \A p \in Certain' : heard'[p] = 0
               /\ \A i \in 1..Len(announced') : announced'[i].ports \subseteq mixed'
    <3>1. Service!Slips /\ mixed' = mixed \cup e.ports /\ \A i \in 1..Len(announced) : announced[i].ports \subseteq mixed
      BY <1>1, <1>3, <1>4, <2>5 DEF Stages, Service!Slips
    <3>2. \A p \in Certain' : heard'[p] = 0
      BY <1>1, <1>4, <1>5, <2>5 DEF Stages
    <3>3. CASE watching
      BY <1>7, <3>1, <3>2, <3>3
    <3>4. CASE ~watching
      BY <1>3, <3>1, <3>2, <3>4
    <3> QED  BY <3>3, <3>4
  <2> QED  BY <1>1, <1>4, <2>1, <2>2, <2>3, <2>4, <2>5 DEF Stages
<1>11. ASSUME NEW p \in Certain' PROVE Alternates(p)'
  <2>1. p \in Certain /\ p[1] \in Devices /\ Alternates(p) /\ Hears(p)
    BY <1>1, <1>5
  <2>2. CASE watching
    <3>1. e.device = p[1] /\ e.kind = "added" => blocks[p[1]] = {}
      BY <1>3
    <3>2. blocks'[p[1]] = {} => IF e.device = p[1] THEN e.kind = "removed" ELSE blocks[p[1]] = {}
      BY <1>2, <1>3, <2>1
    <3> QED  BY <1>3, <1>4, <1>6, <2>1, <2>2, <3>1, <3>2, AlternatesMade
  <2>3. CASE ~watching /\ (blocks'[p[1]] = {} => blocks[p[1]] = {})
    BY <1>3, <1>6, <2>1, <2>3, AlternatesSame
  <2>4. CASE ~watching /\ p[1] = d /\ blocks'[p[1]] = {} /\ blocks[p[1]] # {}
    <3>1. e.kind = "removed" /\ service # "webmidi" /\ announced = <<>> /\ due = <<>>
      BY <1>1, <1>3, <2>4 DEF Stages
    <3>2. (\A x : ~IsDue(x)) /\ ~Adding(p)
      BY <3>1, NothingDue
    <3>3. p \notin seen
      <4>1. CASE stage = "new"
        BY <1>1, <2>4, <3>1, <4>1 DEF Stages
      <4>2. CASE stage # "new"
        <5>1. service = "jackump" /\ stage = "between"
          BY <1>1, <2>4, <3>1, <4>2 DEF Stages
        <5>2. <<d, 1>> \in mixed'
          BY <1>1, <1>3, <5>1 DEF Service!Slips
        <5>3. p = <<p[1], p[2]>> /\ p \notin mixed'
          BY <1>11, <2>1 DEF Certain, AllPorts, Service!AllPorts
        <5>4. p \in seen => p[2] = 1
          BY <1>1, <5>1 DEF OneBlock
        <5> QED  BY <2>4, <5>2, <5>3, <5>4
      <4> QED  BY <4>1, <4>2
    <3>4. service \notin {"winuwp", "jackump"} => ~Will(p)
      <4>1. service \notin {"winuwp", "jackump"} => stage = "new"
        BY <1>1, <2>4, <3>1 DEF Stages
      <4>2. stage = "new" => heard[p] = 0
        BY <2>1 DEF Hears
      <4> QED  BY <3>2, <4>1, <4>2 DEF Will
    <3>5. Clear(p)
      BY <3>2, <3>3, <3>4 DEF Clear
    <3> QED  BY <1>3, <1>6, <2>4, <3>1, <3>5, AlternatesNone
  <2> QED  BY <1>2, <2>1, <2>2, <2>3, <2>4
<1>12. ASSUME service' = "coremidi", stage' = "made", NEW p \in Certain', p[2] = 1, Service!Passes(p)' PROVE Dually(p)'
  <2>1. Dually(p) /\ p[1] \in Devices
    BY <1>1, <1>4, <1>5, <1>12, PassesSame
  <2>2. watching
    BY <1>1, <1>4, <1>12 DEF Stages
  <2>3. e.device = p[1] /\ e.kind = "removed" => blocks[p[1]] # {}
    BY <1>3
  <2>4. blocks'[p[1]] # {} => IF e.device = p[1] THEN e.kind = "added" ELSE blocks[p[1]] # {}
    <3>1. e.kind # "updated"
      BY <1>3, <1>4, <1>12
    <3> QED  BY <1>2, <1>3, <2>1, <3>1 DEF NewsSet
  <2> QED  BY <1>3, <1>4, <1>6, <2>1, <2>2, <2>3, <2>4, DuallyMade
<1>13. Active' /\ After'
  BY <1>1, <1>4, <1>5, <1>6, <1>8, <1>9, <1>10, <1>11, <1>12 DEF Active, After
<1>14. Moves
  <2>1. CASE ~Service!Slips
    BY <1>3, <1>4, <2>1, MovesNot
  <2>2. CASE Service!Slips
    <3> DEFINE q == <<d, 1>>
    <3>1. mixed' = mixed \cup {q}
      BY <1>1, <1>3, <2>2 DEF Service!Slips
    <3>2. q \in AllPorts
      BY DEF AllPorts, Service!AllPorts, DevicesAssumption
    <3>3. q \notin mixed => heard[q] \in {0, 1}
      BY <1>1, <3>2 DEF Certain, Hears
    <3> HIDE DEF q
    <3>4. CASE q \in mixed
      BY <1>4, <3>1, <3>4, MovesNot
    <3>5. CASE q \notin mixed
      BY <1>4, <3>1, <3>2, <3>3, <3>5, MovesRemoved
    <3> QED  BY <3>4, <3>5
  <2> QED  BY <2>1, <2>2
<1> QED  BY <1>13, <1>14

\* In the constructor, before anything is listed.
LEMMA NewLaw ==
  ASSUME WatchInv, stage = "new"
  PROVE  /\ mixed = {} /\ Certain = AllPorts /\ \A p \in AllPorts : heard[p] = 0 /\ Hears(p) /\ Alternates(p)
         /\ ~watching => /\ announced = <<>> /\ due = <<>> /\ (service # "webmidi" => seen = {})
                         /\ \A e : ~IsDue(e)
                         /\ \A p \in AllPorts : ~Will(p) /\ ~Adding(p) /\ ~Removing(p)
         /\ watching => service = "winuwp"
<1>1. Stages /\ \A p \in Certain : Hears(p) /\ Alternates(p)
  BY WatchParts
<1>2. mixed = {} /\ Certain = AllPorts /\ \A p \in AllPorts : heard[p] = 0
  BY <1>1 DEF Stages, Certain, Hears
<1>3. ASSUME ~watching
      PROVE  /\ announced = <<>> /\ due = <<>> /\ (service # "webmidi" => seen = {})
             /\ \A e : ~IsDue(e)
             /\ \A p \in AllPorts : ~Will(p) /\ ~Adding(p) /\ ~Removing(p)
  <2>1. announced = <<>> /\ due = <<>> /\ (service # "webmidi" => seen = {})
    BY <1>1, <1>3 DEF Stages
  <2>2. (\A e : ~IsDue(e)) /\ \A p : ~Adding(p) /\ ~Removing(p)
    BY <2>1, NothingDue
  <2> QED  BY <1>2, <2>1, <2>2 DEF Will
<1> QED  BY <1>1, <1>2, <1>3 DEF Stages

LEMMA RegisterStep ==
  ASSUME WatchInv, DevicesAssumption, Service!ListThenRegister PROVE Active' /\ After' /\ Moves
<1>1. /\ service = "winuwp" /\ stage = "new" /\ stage' = "between" /\ watching' = TRUE
      /\ announced' = IF watching THEN announced ELSE Service!Announcing
      /\ Service!Tell(seen)
      /\ mixed' = mixed \cup {due[i].port : i \in DOMAIN due}
      /\ UNCHANGED <<service, tracks, blocks, steps, seen, due, late>>
  BY DEF Service!ListThenRegister
<1>2. /\ WatchTypes /\ OneBlock /\ DueInv /\ Stages /\ ~late
  BY <1>1, WatchParts
<1>3. /\ mixed = {} /\ Certain = AllPorts /\ \A p \in AllPorts : heard[p] = 0 /\ Hears(p) /\ Alternates(p)
      /\ ~watching => announced = <<>> /\ due = <<>> /\ seen = {}
  BY <1>1, NewLaw
<1>4. \A p \in AllPorts : heard'[p] = IF p \in seen THEN 1 ELSE 0
  <2>1. \A p \in AllPorts : heard'[p] = heard[p] + (IF p \in seen THEN 1 ELSE 0)
    BY <1>1, <1>2, TellLaw DEF WatchTypes
  <2> QED  BY <1>3, <2>1
<1>5. \A p \in Certain' : p \in AllPorts /\ ~Adding(p) /\ ~Removing(p) /\ ~Adding(p)' /\ ~Removing(p)'
  <2>1. \A p \in Certain' : p \in AllPorts /\ \A i \in 1..Len(due) : due[i].port # p
    <3>1. DOMAIN due = 1..Len(due)
      BY <1>2 DEF WatchTypes
    <3> QED  BY <1>1, <3>1 DEF Certain, AllPorts
  <2>2. \A p \in Certain' : ~Adding(p) /\ ~Removing(p)
    BY <2>1 DEF Adding, Removing, IsDue, CallOf
  <2> QED  BY <1>1, <2>1, <2>2, SameDue
<1>6. \A e : ~IsDue(LookupOf(e)) /\ ~IsDue(LookupOf(e))'
  <2>1. \A e : ~IsDue(LookupOf(e))
    BY <1>1, <1>2 DEF OneBlock, IsDue, LookupOf, CallSet
  <2> QED  BY <1>1, <2>1, SameDue
<1>7. ASSUME NEW p \in Certain' PROVE Hears(p)'
  BY <1>1, <1>4, <1>5, <1>6 DEF Hears, Will
<1>8. ASSUME NEW p \in Certain' PROVE Alternates(p)'
  <2>1. Clear(p)' <=> Clear(p)
    BY <1>1, <1>6 DEF Clear
  <2>2. CASE watching
    BY <1>1, <1>3, <1>5, <2>1, <2>2, AlternatesSame
  <2>3. CASE ~watching
    <3>1. Clear(p)
      BY <1>1, <1>3, <1>6, <2>3 DEF Clear
    <3> QED  BY <1>1, <1>2, <2>1, <2>3, <3>1, AlternatesStart
  <2> QED  BY <2>2, <2>3
<1>9. OneBlock'
  <2>1. \A i \in 1..Len(announced') : announced'[i].kind # "updated" /\ announced'[i].ports = {<<announced'[i].device, 1>>}
    <3>1. CASE watching
      BY <1>1, <1>2, <3>1 DEF OneBlock
    <3>2. CASE ~watching
      <4>1. ASSUME NEW i \in 1..Len(announced') PROVE announced'[i].kind # "updated" /\ announced'[i].ports = {<<announced'[i].device, 1>>}
        <5>1. /\ announced'[i].kind = "added" /\ announced'[i].device \in Devices /\ blocks[announced'[i].device] # {}
              /\ announced'[i].ports = Service!PortsOf(announced'[i].device)
          BY <1>1, <1>2, <3>2, <4>1, AnnouncingLaw
        <5>2. blocks[announced'[i].device] = {1}
          BY <1>1, <1>2, <5>1 DEF OneBlock
        <5> QED  BY <5>1, <5>2 DEF Service!PortsOf
      <4> QED  BY <4>1
    <3> QED  BY <3>1, <3>2
  <2> QED  BY <1>1, <1>2, <2>1 DEF OneBlock, CallSet, AllPorts
<1>10. DueInv' /\ Stages'
  BY <1>1, <1>2, <1>5, SameDue DEF Stages
<1>11. Active' /\ After'
  BY <1>1, <1>2, <1>7, <1>8, <1>9, <1>10 DEF Active, After
<1>12. Moves
  <2>1. PICK S : S = seen \ mixed'
    OBVIOUS
  <2>2. S \in SUBSET AllPorts
    BY <1>2, <2>1 DEF WatchTypes
  <2> QED  BY <1>3, <1>4, <2>1, <2>2, MovesAdded
<1> QED  BY <1>11, <1>12

LEMMA StartStep ==
  ASSUME WatchInv, DevicesAssumption, Service!StartWatcher PROVE Active' /\ After' /\ Moves
<1>1. /\ service = "winmidi" /\ stage = "new" /\ stage' = "between" /\ watching' = TRUE /\ announced' = Service!Announcing
      /\ UNCHANGED <<service, tracks, blocks, steps, seen, due, heard, late, mixed>>
  BY DEF Service!StartWatcher
<1>2. WatchTypes /\ DueInv /\ Stages /\ ~late
  BY <1>1, WatchParts
<1>3. /\ mixed = {} /\ Certain = AllPorts /\ \A p \in AllPorts : heard[p] = 0 /\ Hears(p)
      /\ announced = <<>> /\ due = <<>> /\ seen = {}
      /\ \A e : ~IsDue(e)
      /\ \A p \in AllPorts : ~Will(p) /\ ~Adding(p) /\ ~Removing(p)
  BY <1>1, NewLaw
<1>4. /\ \A p : (Adding(p)' <=> Adding(p)) /\ (Removing(p)' <=> Removing(p))
      /\ \A e : ~IsDue(LookupOf(e))'
      /\ DueInv'
  BY <1>1, <1>2, <1>3, SameDue
<1>5. Certain' = AllPorts
  BY <1>1, <1>3 DEF Certain, AllPorts
<1>6. ASSUME NEW p \in AllPorts PROVE Hears(p)' /\ Clear(p)'
  BY <1>1, <1>3, <1>4 DEF Hears, Will, Clear
<1>7. \A p \in AllPorts : Alternates(p)'
  BY <1>1, <1>2, <1>6, AlternatesStart
<1>8. OneBlock' /\ Stages'
  BY <1>1, <1>2 DEF OneBlock, Stages
<1>9. Active' /\ After'
  BY <1>1, <1>2, <1>4, <1>5, <1>6, <1>7, <1>8 DEF Active, After
<1>10. Moves
  BY <1>1, MovesNot
<1> QED  BY <1>9, <1>10

LEMMA ListenStep ==
  ASSUME WatchInv, DevicesAssumption, Service!ListThenListen \/ Service!LoadAndUpdate PROVE Active' /\ After' /\ Moves
<1> USE DEF Service!outside
<1>1. /\ service \in {"jackump", "webmidi"} /\ stage = "new" /\ stage' = (IF service = "jackump" THEN "between" ELSE "made")
      /\ seen' = (IF service = "jackump" THEN Service!Wanted ELSE Service!Existing) /\ Service!Tell(seen')
      /\ UNCHANGED <<service, tracks, blocks, steps, watching, announced, due, late, mixed>>
  BY DEF Service!ListThenListen, Service!LoadAndUpdate
<1>2. /\ WatchTypes /\ OneBlock /\ DueInv /\ Stages /\ ~late
  BY <1>1, WatchParts
<1>3. /\ mixed = {} /\ Certain = AllPorts /\ \A p \in AllPorts : heard[p] = 0
      /\ ~watching /\ announced = <<>> /\ due = <<>>
      /\ \A e : ~IsDue(e)
      /\ \A p \in AllPorts : ~Will(p) /\ ~Adding(p) /\ ~Removing(p)
  BY <1>1, NewLaw
<1>4. /\ \A p \in AllPorts : ~Adding(p)' /\ ~Removing(p)'
      /\ \A e : ~IsDue(LookupOf(e))'
      /\ DueInv'
  BY <1>1, <1>2, <1>3, SameDue
<1>5. Certain' = AllPorts
  BY <1>1, <1>3 DEF Certain, AllPorts
<1>6. /\ seen' \in SUBSET AllPorts /\ seen' \subseteq Service!Existing
      /\ \A p \in AllPorts : p[1] \in Devices /\ (p \in Service!Existing <=> p[2] \in blocks[p[1]])
  BY <1>1, <1>2, ExistingLaw
<1>7. \A p \in AllPorts : heard'[p] = IF p \in seen' THEN 1 ELSE 0
  <2>1. \A p \in AllPorts : heard'[p] = heard[p] + (IF p \in seen' THEN 1 ELSE 0)
    BY <1>1, <1>2, <1>6, TellLaw
  <2> QED  BY <1>3, <2>1
<1>8. ASSUME NEW p \in AllPorts PROVE Hears(p)'
  BY <1>1, <1>4, <1>7 DEF Hears, Will
<1>9. ASSUME NEW p \in AllPorts PROVE Alternates(p)'
  <2>1. blocks'[p[1]] = {} => Clear(p)'
    BY <1>1, <1>4, <1>6, <1>7 DEF Clear, Will
  <2> QED  BY <1>1, <1>3, <2>1, AlternatesNone
<1>10. OneBlock'
  <2>1. \A p \in seen' : p[2] = 1
    BY <1>1, <1>2, <1>6 DEF OneBlock
  <2> QED  BY <1>1, <1>2, <2>1 DEF OneBlock, CallSet, AllPorts
<1>11. Stages'
  <2>1. Service!Existing' = Service!Existing
    BY <1>1 DEF Service!Existing, Service!PortsOf
  <2> QED  BY <1>1, <1>2, <1>3, <1>6, <2>1 DEF Stages
<1>12. Active' /\ After'
  BY <1>1, <1>2, <1>4, <1>5, <1>8, <1>9, <1>10, <1>11 DEF Active, After
<1>13. Moves
  BY <1>1, <1>3, <1>6, <1>7, MovesAdded
<1> QED  BY <1>12, <1>13

LEMMA CreateStep ==
  ASSUME WatchInv, DevicesAssumption, Service!CreateClient PROVE Active' /\ After' /\ Moves
<1>1. /\ service = "coremidi" /\ stage = "new" /\ stage' = "between" /\ watching' = TRUE
      /\ UNCHANGED <<service, tracks, blocks, steps, announced, seen, due, heard, late, mixed>>
  BY DEF Service!CreateClient
<1>2. /\ WatchTypes /\ OneBlock /\ DueInv /\ Stages /\ ~late
  BY <1>1, WatchParts
<1>3. /\ mixed = {} /\ Certain = AllPorts /\ \A p \in AllPorts : heard[p] = 0 /\ Alternates(p)
      /\ announced = <<>> /\ due = <<>> /\ seen = {}
      /\ \A e : ~IsDue(e)
      /\ \A p \in AllPorts : ~Will(p) /\ ~Adding(p) /\ ~Removing(p)
  BY <1>1, NewLaw
<1>4. /\ \A p : (Adding(p)' <=> Adding(p)) /\ (Removing(p)' <=> Removing(p))
      /\ \A e : ~IsDue(LookupOf(e))'
      /\ DueInv'
  BY <1>1, <1>2, <1>3, SameDue
<1>5. Certain' = AllPorts
  BY <1>1, <1>3 DEF Certain, AllPorts
<1>6. ASSUME NEW p \in AllPorts PROVE Hears(p)' /\ (Clear(p)' <=> Clear(p))
  <2>1. Clear(p)' <=> Clear(p)
    BY <1>1, ClearSame
  <2> QED  BY <1>1, <1>3, <1>4, <2>1 DEF Hears, Will
<1>7. \A p \in AllPorts : Alternates(p)'
  BY <1>1, <1>3, <1>6, AlternatesSame
<1>8. OneBlock'
  BY <1>1, <1>2 DEF OneBlock, CallSet, AllPorts
<1>9. Stages'
  <2>1. Len(announced') = 0
    BY <1>1, <1>3, EmptySeq
  <2> QED  BY <1>1, <1>2, <1>3, <1>4, <1>5, <2>1 DEF Stages
<1>10. Active' /\ After'
  BY <1>1, <1>2, <1>4, <1>5, <1>6, <1>7, <1>8, <1>9 DEF Active, After
<1>11. Moves
  BY <1>1, MovesNot
<1> QED  BY <1>10, <1>11

\* Without the first, Windows MIDI Services says in its constructor that a port is
\* gone which it never announced, and announces after it those the user listed;
\* without the second, a callback comes after the destructor.
Orderly == NotifyInConstructor /\ {"winuwp", "winmidi"} \subseteq Idle

LEMMA AlternatesFresh ==
  ASSUME announced \in Seq(NewsSet), announced' = announced, NEW p, \A i \in 1..Len(announced) : announced[i].device # p[1],
         blocks'[p[1]] = {} => Clear(p)'
  PROVE  Alternates(p)'
<1>1. Silent(p[1], 1, Len(announced))'
  BY DEF Silent
<1> QED  BY <1>1 DEF Alternates

\* CoreMIDI lists the ports once its run loop may announce them.
LEMMA ListedStep ==
  ASSUME WatchInv, DevicesAssumption, Service!Constructed, service = "coremidi" PROVE Active' /\ After' /\ Moves
<1>1. /\ stage = "between" /\ stage' = "made" /\ watching' = TRUE /\ Service!Tell(Service!Wanted)
      /\ UNCHANGED <<service, tracks, blocks, steps, announced, seen, due, late, mixed>>
  BY DEF Service!Constructed
<1>2. /\ WatchTypes /\ OneBlock /\ DueInv /\ Stages /\ ~late
      /\ \A p \in Certain : Hears(p) /\ Alternates(p)
  BY <1>1, WatchParts
<1>3. /\ \A p \in Certain : heard[p] = 0 /\ ~Adding(p) /\ ~Removing(p)
      /\ \A i \in 1..Len(announced) : announced[i].ports \subseteq mixed
  BY <1>1, <1>2 DEF Stages
<1>4. /\ \A p : (Adding(p)' <=> Adding(p)) /\ (Removing(p)' <=> Removing(p))
      /\ \A e : IsDue(LookupOf(e))' <=> IsDue(LookupOf(e))
      /\ DueInv'
  BY <1>1, <1>2, SameDue
<1>5. Certain' = Certain /\ \A p \in Certain : p \in AllPorts /\ p \notin mixed /\ p = <<p[1], p[2]>>
  BY <1>1 DEF Certain, AllPorts, Service!AllPorts
<1>6. /\ Service!Wanted \in SUBSET AllPorts
      /\ \A p \in AllPorts : p[1] \in Devices /\ (p \in Service!Existing <=> p[2] \in blocks[p[1]])
      /\ \A p \in AllPorts : p \in Service!Wanted <=> p[2] \in blocks[p[1]] /\ Service!Passes(p)
  <2>1. /\ Service!Wanted \in SUBSET AllPorts
        /\ \A p \in AllPorts : p[1] \in Devices /\ (p \in Service!Existing <=> p[2] \in blocks[p[1]])
    BY <1>2, ExistingLaw
  <2> QED  BY <2>1 DEF Service!Wanted
<1>7. \A p \in AllPorts : heard'[p] = heard[p] + (IF p \in Service!Wanted THEN 1 ELSE 0)
  BY <1>1, <1>2, <1>6, TellLaw
<1>8. \A p \in Certain : heard'[p] = IF p \in Service!Wanted THEN 1 ELSE 0
  BY <1>3, <1>5, <1>7
<1>9. \A p \in Certain : (Will(p)' <=> p \in Service!Wanted) /\ ~Will(p)
  BY <1>3, <1>4, <1>8 DEF Will
<1>10. \A e : ~IsDue(LookupOf(e)) /\ ~IsDue(LookupOf(e))'
  <2>1. \A e : ~IsDue(LookupOf(e))
    BY <1>2 DEF OneBlock, IsDue, LookupOf, CallSet
  <2> QED  BY <1>4, <2>1
<1>11. \A p \in Certain : p \in Service!Wanted => p[2] = 1 /\ Service!Passes(p)
  BY <1>2, <1>5, <1>6 DEF OneBlock
<1>12. ASSUME NEW p \in Certain PROVE Hears(p)'
  <2>1. Service!Passes(p)' <=> Service!Passes(p)
    BY <1>1, PassesSame
  <2> QED  BY <1>1, <1>3, <1>4, <1>8, <1>9, <1>10, <1>11, <1>12, <2>1 DEF Hears
<1>13. \A p \in Certain : Clear(p)' <=> p \notin Service!Wanted
  BY <1>1, <1>9, <1>10 DEF Clear
<1>14. \A p \in Certain : p[2] = 1 => \A i \in 1..Len(announced) : announced[i].device # p[1]
  <2> SUFFICES ASSUME NEW p \in Certain, p[2] = 1, NEW i \in 1..Len(announced), announced[i].device = p[1] PROVE FALSE
    OBVIOUS
  <2>1. p \in announced[i].ports
    BY <1>2, <1>5 DEF OneBlock
  <2> QED  BY <1>3, <1>5, <2>1
<1>15. ASSUME NEW p \in Certain PROVE Alternates(p)'
  <2>1. blocks'[p[1]] = {} => Clear(p)'
    BY <1>1, <1>5, <1>6, <1>13
  <2>2. CASE p[2] = 1
    BY <1>1, <1>2, <1>14, <2>1, <2>2, AlternatesFresh DEF WatchTypes
  <2>3. CASE p[2] # 1
    <3>1. Clear(p)'
      BY <1>11, <1>13, <2>3
    <3> QED  BY <1>1, <1>2, <3>1, AlternatesSame
  <2> QED  BY <2>2, <2>3
<1>16. ASSUME NEW p \in Certain, p[2] = 1, Service!Passes(p)' PROVE Dually(p)'
  <2>1. blocks'[p[1]] # {} => Will(p)'
    <3>1. Service!Passes(p)
      BY <1>1, <1>16, PassesSame
    <3>2. blocks[p[1]] # {} => 1 \in blocks[p[1]]
      BY <1>2, <1>5, <1>6 DEF OneBlock
    <3> QED  BY <1>1, <1>5, <1>6, <1>9, <1>16, <3>1, <3>2
  <2> QED  BY <1>1, <1>2, <1>14, <1>16, <2>1, DuallyFresh DEF WatchTypes
<1>17. OneBlock'
  BY <1>1, <1>2 DEF OneBlock, CallSet, AllPorts
<1>18. Stages'
  BY <1>1, <1>2 DEF Stages
<1>19. Active' /\ After'
  BY <1>1, <1>2, <1>4, <1>5, <1>12, <1>15, <1>16, <1>17, <1>18 DEF Active, After
<1>20. Moves
  <2>1. PICK S : S = Service!Wanted \ mixed
    OBVIOUS
  <2>2. S \in SUBSET AllPorts /\ S \subseteq Certain
    BY <1>6, <2>1 DEF Certain
  <2>3. \A p \in AllPorts : p \notin Service!Wanted => heard'[p] = heard[p]
    <3>1. \A p \in AllPorts : heard[p] \in Int
      BY <1>2 DEF WatchTypes
    <3> QED  BY <1>7, <3>1
  <2> QED  BY <1>1, <1>3, <1>8, <2>1, <2>2, <2>3, MovesAdded
<1> QED  BY <1>19, <1>20

LEMMA ConstructedStep ==
  ASSUME WatchInv, DevicesAssumption, Orderly, Service!Constructed PROVE Active' /\ After' /\ Moves
<1>1. CASE service = "coremidi"
  BY <1>1, ListedStep
<1>2. CASE service # "coremidi"
  <2>1. /\ stage = "between" /\ stage' = "made" /\ watching' = TRUE /\ heard' = heard
        /\ UNCHANGED <<service, tracks, blocks, steps, announced, seen, due, late, mixed>>
    BY <1>2 DEF Service!Constructed, Orderly
  <2>2. /\ WatchTypes /\ OneBlock /\ DueInv /\ Stages /\ ~late
        /\ \A p \in Certain : Hears(p) /\ Alternates(p)
    BY <2>1, WatchParts
  <2>3. /\ \A p : (Adding(p)' <=> Adding(p)) /\ (Removing(p)' <=> Removing(p))
        /\ \A e : IsDue(LookupOf(e))' <=> IsDue(LookupOf(e))
        /\ DueInv'
    BY <2>1, <2>2, SameDue
  <2>4. Certain' = Certain
    BY <2>1 DEF Certain, AllPorts
  <2>5. ASSUME NEW p \in Certain PROVE Hears(p)' /\ Alternates(p)'
    <3>1. (Clear(p)' <=> Clear(p)) /\ (Will(p)' <=> Will(p))
      BY <2>1, ClearSame
    <3>2. Hears(p)'
      BY <1>2, <2>1, <2>2, <2>3, <2>5, <3>1 DEF Hears
    <3>3. Alternates(p)'
      BY <2>1, <2>2, <2>5, <3>1, AlternatesSame
    <3> QED  BY <3>2, <3>3
  <2>6. OneBlock'
    BY <2>1, <2>2 DEF OneBlock, CallSet, AllPorts
  <2>7. Stages'
    BY <2>1, <2>2 DEF Stages
  <2>8. Active' /\ After'
    BY <1>2, <2>1, <2>2, <2>3, <2>4, <2>5, <2>6, <2>7 DEF Active, After
  <2>9. Moves
    BY <2>1, MovesNot
  <2> QED  BY <2>8, <2>9
<1> QED  BY <1>1, <1>2

LEMMA DestructStep ==
  ASSUME WatchInv, Orderly, Service!Destruct PROVE Active' /\ After' /\ Moves
<1> USE DEF Service!outside
<1>1. /\ stage = "made" /\ stage' = "gone" /\ Service!Unhurried /\ late' = (service = "winuwp" /\ due # <<>>)
      /\ UNCHANGED <<service, due, heard, mixed>>
  BY DEF Service!Destruct
<1>2. WatchTypes /\ Stages
  BY <1>1, WatchParts
<1>3. service # "webmidi" => due = <<>>
  BY <1>1, <1>2 DEF Service!Unhurried, Orderly, WatchTypes
<1>4. service = "webmidi" => due = <<>>
  BY <1>2 DEF Stages
<1>5. Active' /\ After'
  BY <1>1, <1>3, <1>4 DEF Active, After
<1>6. Moves
  BY <1>1, MovesNot
<1> QED  BY <1>5, <1>6

-----------------------------------------------------------------------------
(* The watcher's steps.                                                     *)

\* An announcement is handled, of whichever kind.
LEMMA HeedParts ==
  ASSUME WatchInv, stage # "gone", NEW kind, Service!Heed(kind)
  PROVE  /\ WatchTypes /\ OneBlock /\ Stages /\ ~late /\ watching /\ service # "webmidi"
         /\ \A p \in Certain : Hears(p) /\ Alternates(p)
         /\ service = "coremidi" /\ stage = "made" => \A p \in Certain : p[2] = 1 /\ Service!Passes(p) => Dually(p)
         /\ due = <<>> /\ (\A e : ~IsDue(e)) /\ \A p : ~Adding(p) /\ ~Removing(p) /\ (Will(p) <=> heard[p] = 1)
         /\ announced \in Seq(NewsSet) /\ announced # <<>> /\ announced' = Tail(announced)
         /\ Head(announced) \in NewsSet /\ Head(announced).kind = kind
         /\ Head(announced).device \in Devices /\ Head(announced).ports \in SUBSET AllPorts
         /\ \A p \in Head(announced).ports : p[1] = Head(announced).device
         /\ service # "winmidi" => kind # "updated" /\ Head(announced).ports = {<<Head(announced).device, 1>>}
         /\ service # "winmidi" =>
              \A i \in 1..Len(announced') : announced'[i].kind # "updated" /\ announced'[i].ports = {<<announced'[i].device, 1>>}
         /\ stage = "between" /\ service = "coremidi" =>
              Head(announced).ports \subseteq mixed /\ \A i \in 1..Len(announced') : announced'[i].ports \subseteq mixed
<1>1. /\ WatchTypes /\ OneBlock /\ Stages /\ ~late
      /\ \A p \in Certain : Hears(p) /\ Alternates(p)
      /\ service = "coremidi" /\ stage = "made" => \A p \in Certain : p[2] = 1 /\ Service!Passes(p) => Dually(p)
  BY WatchParts
<1>2. /\ due = <<>> /\ announced # <<>> /\ announced' = Tail(announced)
      /\ Head(announced) \in NewsSet /\ Head(announced).kind = kind
      /\ Head(announced).device \in Devices /\ Head(announced).ports \in SUBSET AllPorts
      /\ 1 \in 1..Len(announced) /\ Head(announced) = announced[1]
      /\ \A i \in 1..Len(announced') : i + 1 \in 1..Len(announced) /\ announced'[i] = announced[i + 1]
      /\ \A p \in Head(announced).ports : p[1] = Head(announced).device
  BY <1>1, HeedLaw
<1>3. (\A e : ~IsDue(e)) /\ \A p : ~Adding(p) /\ ~Removing(p) /\ (Will(p) <=> heard[p] = 1)
  <2>1. (\A e : ~IsDue(e)) /\ \A p : ~Adding(p) /\ ~Removing(p)
    BY <1>2, NothingDue
  <2> QED  BY <2>1 DEF Will
<1>4. watching /\ service # "webmidi"
  BY <1>1, <1>2 DEF Stages
<1>5. service # "winmidi" =>
        /\ kind # "updated" /\ Head(announced).ports = {<<Head(announced).device, 1>>}
        /\ \A i \in 1..Len(announced') : announced'[i].kind # "updated" /\ announced'[i].ports = {<<announced'[i].device, 1>>}
  BY <1>1, <1>2 DEF OneBlock
<1>6. stage = "between" /\ service = "coremidi" =>
        Head(announced).ports \subseteq mixed /\ \A i \in 1..Len(announced') : announced'[i].ports \subseteq mixed
  BY <1>1, <1>2 DEF Stages
<1>7. announced \in Seq(NewsSet)
  BY <1>1 DEF WatchTypes
<1> QED  BY <1>1, <1>2, <1>3, <1>4, <1>5, <1>6, <1>7

\* What is announced first follows from what is known.
LEMMA FirstAdded ==
  ASSUME WatchInv, stage # "gone", Service!Heed("added"), NEW p \in Certain, Head(announced).device = p[1] PROVE Clear(p)
<1>1. Alternates(p) /\ announced \in Seq(NewsSet) /\ announced # <<>> /\ Head(announced).kind = "added"
  BY HeedParts
<1>2. 1 \in 1..Len(announced) /\ announced[1] = Head(announced) /\ 1 - 1 = 0
  BY <1>1, TailLaw
<1>3. LastIs(p[1], 1, "removed") \/ (Silent(p[1], 1, 1 - 1) /\ Clear(p))
  BY <1>1, <1>2 DEF Alternates
<1>4. ~LastIs(p[1], 1, "removed")
  BY DEF LastIs
<1> QED  BY <1>3, <1>4

LEMMA FirstRemoved ==
  ASSUME WatchInv, stage # "gone", Service!Heed("removed"), NEW p \in Certain, Head(announced).device = p[1], Dually(p) PROVE Will(p)
<1>1. announced \in Seq(NewsSet) /\ announced # <<>> /\ Head(announced).kind = "removed"
  BY HeedParts
<1>2. 1 \in 1..Len(announced) /\ announced[1] = Head(announced) /\ 1 - 1 = 0
  BY <1>1, TailLaw
<1>3. LastIs(p[1], 1, "added") \/ (Silent(p[1], 1, 1 - 1) /\ Will(p))
  BY <1>1, <1>2 DEF Dually
<1>4. ~LastIs(p[1], 1, "added")
  BY DEF LastIs
<1> QED  BY <1>3, <1>4

\* The port that a race concerns, if there is one.
LEMMA MixedMoves ==
  ASSUME WatchInv, stage # "gone", heard' = heard, NEW q \in AllPorts, NEW P, P \subseteq {q}, Service!Mixed(P) PROVE Moves
<1>1. mixed' = mixed \/ (mixed' = mixed \cup P)
  BY DEF Service!Mixed
<1>2. \A p \in Certain : Hears(p)
  BY WatchParts
<1>3. CASE mixed' = mixed \/ q \in mixed
  <2>1. mixed' = mixed
    BY <1>1, <1>3
  <2> QED  BY <2>1, MovesNot
<1>4. CASE mixed' = mixed \cup {q} /\ q \notin mixed
  <2>1. heard[q] \in {0, 1}
    BY <1>2, <1>4 DEF Certain, Hears
  <2> QED  BY <1>4, <2>1, MovesRemoved
<1> QED  BY <1>1, <1>3, <1>4

LEMMA AddedStep ==
  ASSUME WatchInv, DevicesAssumption, stage # "gone", Service!OnAdded PROVE Active' /\ After' /\ Moves
<1> USE DEF Service!outside
<1> DEFINE d == Head(announced).device
           P == {p \in Head(announced).ports : Service!Passes(p)}
<1>1. /\ Service!Heed("added") /\ due' = Service!Calls("added", P) /\ Service!Mixed(P)
      /\ seen' = IF service \in {"winuwp", "jackump"} THEN seen \cup P ELSE seen
      /\ UNCHANGED <<service, tracks, blocks, steps, watching, stage, heard, late>>
  BY DEF Service!OnAdded
<1>2. /\ WatchTypes /\ OneBlock /\ Stages /\ ~late /\ watching /\ service # "webmidi"
      /\ \A p \in Certain : Hears(p) /\ Alternates(p)
      /\ service = "coremidi" /\ stage = "made" => \A p \in Certain : p[2] = 1 /\ Service!Passes(p) => Dually(p)
      /\ due = <<>> /\ (\A e : ~IsDue(e)) /\ \A p : ~Adding(p) /\ ~Removing(p) /\ (Will(p) <=> heard[p] = 1)
      /\ announced \in Seq(NewsSet) /\ announced # <<>> /\ announced' = Tail(announced)
      /\ Head(announced).kind = "added"
      /\ Head(announced).ports \in SUBSET AllPorts
      /\ \A p \in Head(announced).ports : p[1] = d
      /\ service # "winmidi" => Head(announced).ports = {<<d, 1>>}
      /\ service # "winmidi" =>
           \A i \in 1..Len(announced') : announced'[i].kind # "updated" /\ announced'[i].ports = {<<announced'[i].device, 1>>}
      /\ stage = "between" /\ service = "coremidi" =>
           Head(announced).ports \subseteq mixed /\ \A i \in 1..Len(announced') : announced'[i].ports \subseteq mixed
  BY <1>1, HeedParts
<1>3. P \in SUBSET AllPorts /\ P \subseteq Head(announced).ports /\ \A p \in P : p[1] = d /\ Service!Passes(p)
  BY <1>2
<1>4. service = "coremidi" => \A p : p[1] = d /\ p[2] = 1 /\ p \in AllPorts /\ Service!Passes(p) => p \in P
  BY <1>2 DEF AllPorts, Service!AllPorts
<1> HIDE DEF P
<1>5. /\ \A i \in 1..Len(due') : due'[i] \in CallSet
      /\ DueInv'
      /\ \A p : (Adding(p)' <=> p \in P) /\ ~Removing(p)'
      /\ \A e : ~IsDue(LookupOf(e))'
  BY <1>1, <1>3, DueMade
<1>6. Certain' \subseteq Certain /\ mixed \subseteq mixed' /\ \A p \in Certain : p \in AllPorts
  BY <1>1 DEF Certain, AllPorts, Service!Mixed
<1>7. \A p \in Certain : p[1] = d => Clear(p)
  BY <1>1, FirstAdded
<1>8. \A p : Will(p)' <=> heard[p] = 1 \/ p \in P
  BY <1>1, <1>5 DEF Will
<1>9. \A p : Clear(p) <=> IF service \in {"winuwp", "jackump"} THEN p \notin seen ELSE heard[p] # 1
  BY <1>2 DEF Clear
<1>10. \A p : Clear(p)' <=> IF service \in {"winuwp", "jackump"} THEN p \notin seen' ELSE heard[p] # 1 /\ p \notin P
  BY <1>1, <1>5, <1>8 DEF Clear
<1>11. ASSUME NEW p \in Certain' PROVE Hears(p)'
  <2>1. p \in Certain /\ Hears(p)
    BY <1>2, <1>6
  <2>2. CASE service = "winuwp" /\ stage = "new"
    BY <1>1, <2>1, <2>2 DEF Hears
  <2>3. CASE ~(service = "winuwp" /\ stage = "new")
    <3>1. /\ heard[p] \in {0, 1} /\ (stage = "new" => heard[p] = 0)
          /\ service \in {"winuwp", "jackump"} => (p \in seen <=> heard[p] = 1)
          /\ service = "winmidi" => (p \in seen <=> heard[p] = 1)
          /\ service = "coremidi" /\ heard[p] = 1 => p[2] = 1 /\ Service!Passes(p)
      BY <1>2, <2>1, <2>3 DEF Hears
    <3>2. p \in P => heard[p] = 0
      BY <1>3, <1>7, <1>9, <2>1, <3>1
    <3>3. service = "coremidi" /\ p \in P => p[2] = 1 /\ Service!Passes(p)
      BY <1>2, <1>3
    <3>4. Service!Passes(p)' <=> Service!Passes(p)
      BY <1>1, PassesSame
    <3> QED  BY <1>1, <1>2, <1>5, <1>8, <3>1, <3>2, <3>3, <3>4 DEF Hears
  <2> QED  BY <2>2, <2>3
<1>12. ASSUME NEW p \in Certain' PROVE Alternates(p)'
  <2>1. p \in Certain /\ Alternates(p)
    BY <1>2, <1>6
  <2>2. p[1] # d /\ Clear(p) => Clear(p)'
    BY <1>1, <1>3, <1>9, <1>10
  <2> QED  BY <1>1, <1>2, <2>1, <2>2, AlternatesRead
<1>13. ASSUME service' = "coremidi", stage' = "made", NEW p \in Certain', p[2] = 1, Service!Passes(p)' PROVE Dually(p)'
  <2>1. p \in Certain /\ p \in AllPorts /\ Service!Passes(p) /\ Dually(p)
    BY <1>1, <1>2, <1>6, <1>13, PassesSame
  <2>2. p[1] = d => Will(p)'
    BY <1>1, <1>4, <1>8, <1>13, <2>1
  <2>3. Will(p) => Will(p)'
    BY <1>2, <1>8
  <2> QED  BY <1>1, <1>2, <2>1, <2>2, <2>3, DuallyRead
<1>14. OneBlock'
  <2> SUFFICES ASSUME service # "winmidi" PROVE OneBlock'
    BY <1>1 DEF OneBlock
  <2>1. \A p \in seen' : p[2] = 1
    BY <1>1, <1>2, <1>3 DEF OneBlock
  <2> QED  BY <1>1, <1>2, <1>5, <2>1 DEF OneBlock
<1>15. Stages'
  <2>1. stage = "between" /\ service \in {"winuwp", "coremidi"} => \A p \in Certain' : ~Adding(p)' /\ ~Removing(p)'
    <3>1. service = "winuwp" /\ stage = "between" => P \subseteq mixed'
      BY <1>1 DEF Service!Mixed
    <3>2. \A p \in Certain' : p \notin mixed'
      BY DEF Certain
    <3> QED  BY <1>2, <1>3, <1>5, <1>6, <3>1, <3>2
  <2>2. service # "winuwp" \/ stage # "between" => mixed' = mixed
    BY <1>1 DEF Service!Mixed
  <2>3. stage = "between" /\ service = "coremidi" =>
          /\ \A p \in Certain' : heard'[p] = 0
          /\ \A i \in 1..Len(announced') : announced'[i].ports \subseteq mixed'
    BY <1>1, <1>2, <1>6, <2>2 DEF Stages
  <2> QED  BY <1>1, <1>2, <2>1, <2>2, <2>3 DEF Stages
<1>16. Active' /\ After'
  BY <1>1, <1>2, <1>5, <1>11, <1>12, <1>13, <1>14, <1>15 DEF Active, After
<1>17. Moves
  <2>1. CASE service = "winuwp"
    <3>1. <<d, 1>> \in AllPorts /\ P \subseteq {<<d, 1>>}
      BY <1>2, <1>3, <2>1
    <3> QED  BY <1>1, <3>1, MixedMoves
  <2>2. CASE service # "winuwp"
    BY <1>1, <2>2, MovesNot DEF Service!Mixed
  <2> QED  BY <2>1, <2>2
<1> QED  BY <1>16, <1>17

LEMMA RemovedStep ==
  ASSUME WatchInv, DevicesAssumption, stage # "gone", Service!OnRemoved PROVE Active' /\ After' /\ Moves
<1> USE DEF Service!outside
<1> DEFINE d == Head(announced).device
           of == {p \in AllPorts : p[1] = d}
           P == IF service = "coremidi" THEN {p \in Head(announced).ports : Service!Passes(p)} ELSE seen \cap of
<1>1. /\ Service!Heed("removed") /\ due' = Service!Calls("removed", P) /\ Service!Mixed(P) /\ seen' = seen \ of
      /\ UNCHANGED <<service, tracks, blocks, steps, watching, stage, heard, late>>
  BY DEF Service!OnRemoved, AllPorts
<1>2. /\ WatchTypes /\ OneBlock /\ Stages /\ ~late /\ watching /\ service # "webmidi"
      /\ \A p \in Certain : Hears(p) /\ Alternates(p)
      /\ service = "coremidi" /\ stage = "made" => \A p \in Certain : p[2] = 1 /\ Service!Passes(p) => Dually(p)
      /\ due = <<>> /\ (\A e : ~IsDue(e)) /\ \A p : ~Adding(p) /\ ~Removing(p) /\ (Will(p) <=> heard[p] = 1)
      /\ announced \in Seq(NewsSet) /\ announced # <<>> /\ announced' = Tail(announced)
      /\ Head(announced).kind = "removed"
      /\ Head(announced).device \in Devices /\ Head(announced).ports \in SUBSET AllPorts
      /\ \A p \in Head(announced).ports : p[1] = d
      /\ service # "winmidi" => Head(announced).ports = {<<d, 1>>}
      /\ service # "winmidi" =>
           \A i \in 1..Len(announced') : announced'[i].kind # "updated" /\ announced'[i].ports = {<<announced'[i].device, 1>>}
      /\ stage = "between" /\ service = "coremidi" =>
           Head(announced).ports \subseteq mixed /\ \A i \in 1..Len(announced') : announced'[i].ports \subseteq mixed
  BY <1>1, HeedParts
<1>3. P \in SUBSET AllPorts /\ \A p \in P : p[1] = d
  BY <1>2
<1>4. /\ service = "coremidi" => \A p : p \in P <=> p[1] = d /\ p[2] = 1 /\ p \in AllPorts /\ Service!Passes(p)
      /\ service # "coremidi" => \A p \in AllPorts : p \in P <=> p[1] = d /\ p \in seen
      /\ \A p \in AllPorts : p \in seen' <=> p \in seen /\ p[1] # d
      /\ seen' \subseteq seen
  <2>1. service = "coremidi" => \A p : p \in P <=> p[1] = d /\ p[2] = 1 /\ p \in AllPorts /\ Service!Passes(p)
    <3>1. \A p \in AllPorts : p = <<p[1], p[2]>>
      BY DEF AllPorts, Service!AllPorts
    <3> QED  BY <1>2, <3>1
  <2> QED  BY <1>1, <2>1
<1>5. service = "winuwp" => P \subseteq {<<d, 1>>} /\ (P # {} => <<d, 1>> \in AllPorts)
  <2>1. \A p \in AllPorts : p = <<p[1], p[2]>>
    BY DEF AllPorts, Service!AllPorts
  <2>2. service = "winuwp" => \A p \in P : p[2] = 1 /\ p \in AllPorts
    BY <1>2, <1>3 DEF OneBlock
  <2> QED  BY <1>3, <2>1, <2>2
<1> HIDE DEF P, of
<1>6. /\ \A i \in 1..Len(due') : due'[i] \in CallSet
      /\ DueInv'
      /\ \A p : ~Adding(p)' /\ (Removing(p)' <=> p \in P)
      /\ \A e : ~IsDue(LookupOf(e))'
  BY <1>1, <1>3, DueMade
<1>7. Certain' \subseteq Certain /\ mixed \subseteq mixed' /\ \A p \in Certain : p \in AllPorts /\ p \notin mixed
  BY <1>1 DEF Certain, AllPorts, Service!Mixed
<1>8. \A p : Will(p)' <=> heard[p] = 1 /\ p \notin P
  BY <1>1, <1>6 DEF Will
<1>9. \A p : Clear(p) <=> IF service \in {"winuwp", "jackump"} THEN p \notin seen ELSE heard[p] # 1
  BY <1>2 DEF Clear
<1>10. \A p : Clear(p)' <=> IF service \in {"winuwp", "jackump"} THEN p \notin seen' ELSE heard[p] = 1 => p \in P
  BY <1>1, <1>6, <1>8 DEF Clear
<1>11. \A p \in Certain : ~(service = "winuwp" /\ stage = "new") =>
         /\ heard[p] \in {0, 1} /\ (stage = "new" => heard[p] = 0)
         /\ service \in {"winuwp", "jackump"} => (p \in seen <=> heard[p] = 1)
         /\ service = "winmidi" => (p \in seen <=> heard[p] = 1)
         /\ service = "coremidi" /\ heard[p] = 1 => p[2] = 1 /\ Service!Passes(p)
  BY <1>2 DEF Hears
<1>12. \A p \in Certain : ~(service = "winuwp" /\ stage = "new") /\ p \in P => heard[p] = 1
  <2> SUFFICES ASSUME NEW p \in Certain, ~(service = "winuwp" /\ stage = "new"), p \in P PROVE heard[p] = 1
    OBVIOUS
  <2>1. CASE service # "coremidi"
    BY <1>2, <1>4, <1>7, <1>11, <2>1 DEF WatchTypes
  <2>2. CASE service = "coremidi"
    <3>1. p[1] = d /\ p[2] = 1 /\ Service!Passes(p)
      BY <1>4, <2>2
    <3>2. stage \notin {"new", "between"}
      BY <1>2, <1>3, <1>7, <2>2, <3>1 DEF Stages, AllPorts, Service!AllPorts
    <3>3. Dually(p)
      BY <1>2, <2>2, <3>1, <3>2 DEF WatchTypes
    <3>4. Will(p)
      BY <1>1, <3>1, <3>3, FirstRemoved
    <3> QED  BY <1>2, <3>4
  <2> QED  BY <2>1, <2>2
<1>13. ASSUME NEW p \in Certain' PROVE Hears(p)'
  <2>1. p \in Certain /\ Hears(p) /\ p \in AllPorts
    BY <1>2, <1>7
  <2>2. CASE service = "winuwp" /\ stage = "new"
    BY <1>1, <2>1, <2>2 DEF Hears
  <2>3. CASE ~(service = "winuwp" /\ stage = "new")
    <3>1. Service!Passes(p)' <=> Service!Passes(p)
      BY <1>1, PassesSame
    <3>2. service \in {"winuwp", "jackump", "winmidi"} => (p \in seen' <=> heard[p] = 1 /\ p \notin P)
      BY <1>4, <1>11, <2>1, <2>3
    <3>3. service = "coremidi" /\ (heard[p] = 1 \/ p \in P) => p[2] = 1 /\ Service!Passes(p)
      BY <1>4, <1>11, <2>1, <2>3
    <3> QED  BY <1>1, <1>2, <1>6, <1>8, <1>11, <1>12, <2>1, <2>3, <3>1, <3>2, <3>3 DEF Hears
  <2> QED  BY <2>2, <2>3
<1>14. ASSUME NEW p \in Certain' PROVE Alternates(p)'
  <2>1. p \in Certain /\ Alternates(p) /\ p \in AllPorts
    BY <1>2, <1>7
  <2>2. p[1] # d /\ Clear(p) => Clear(p)'
    BY <1>4, <1>9, <1>10, <2>1
  <2>3. p[1] = d => Clear(p)'
    <3>1. CASE service \in {"winuwp", "jackump"}
      BY <1>4, <1>10, <2>1, <3>1
    <3>2. CASE service \notin {"winuwp", "jackump"}
      BY <1>2, <1>4, <1>10, <1>11, <2>1, <3>2 DEF WatchTypes
    <3> QED  BY <3>1, <3>2
  <2> QED  BY <1>1, <1>2, <2>1, <2>2, <2>3, AlternatesRead
<1>15. ASSUME service' = "coremidi", stage' = "made", NEW p \in Certain', p[2] = 1, Service!Passes(p)' PROVE Dually(p)'
  <2>1. p \in Certain /\ p \in AllPorts /\ Service!Passes(p) /\ Dually(p)
    BY <1>1, <1>2, <1>7, <1>15, PassesSame
  <2>2. p[1] # d /\ Will(p) => Will(p)'
    BY <1>2, <1>3, <1>8
  <2> QED  BY <1>1, <1>2, <2>1, <2>2, DuallyRead
<1>16. OneBlock'
  <2> SUFFICES ASSUME service # "winmidi" PROVE OneBlock'
    BY <1>1 DEF OneBlock
  <2> QED  BY <1>1, <1>2, <1>4, <1>6 DEF OneBlock
<1>17. Stages'
  <2>1. stage = "between" /\ service \in {"winuwp", "coremidi"} => \A p \in Certain' : ~Adding(p)' /\ ~Removing(p)'
    <3>1. service = "winuwp" /\ stage = "between" => P \subseteq mixed'
      BY <1>1 DEF Service!Mixed
    <3>2. service = "coremidi" /\ stage = "between" => P \subseteq mixed
      BY <1>2, <1>3, <1>4 DEF AllPorts, Service!AllPorts
    <3>3. \A p \in Certain' : p \notin mixed'
      BY DEF Certain
    <3> QED  BY <1>6, <1>7, <3>1, <3>2, <3>3
  <2>2. service # "winuwp" \/ stage # "between" => mixed' = mixed
    BY <1>1 DEF Service!Mixed
  <2>3. stage = "between" /\ service = "coremidi" =>
          /\ \A p \in Certain' : heard'[p] = 0
          /\ \A i \in 1..Len(announced') : announced'[i].ports \subseteq mixed'
    BY <1>1, <1>2, <1>7, <2>2 DEF Stages
  <2> QED  BY <1>1, <1>2, <1>4, <2>1, <2>2, <2>3 DEF Stages
<1>18. Active' /\ After'
  BY <1>1, <1>2, <1>6, <1>13, <1>14, <1>15, <1>16, <1>17 DEF Active, After
<1>19. Moves
  <2>1. CASE service = "winuwp" /\ P # {}
    BY <1>1, <1>5, <2>1, MixedMoves
  <2>2. CASE service # "winuwp" \/ P = {}
    BY <1>1, <2>2, MovesNot DEF Service!Mixed
  <2> QED  BY <2>1, <2>2
<1> QED  BY <1>18, <1>19

LEMMA UpdatedStep ==
  ASSUME WatchInv, DevicesAssumption, stage # "gone", Service!OnUpdated PROVE Active' /\ After' /\ Moves
<1> USE DEF Service!outside
<1> DEFINE d == Head(announced).device
           P == {p \in seen : p[1] = d}
<1>1. /\ Service!Heed("updated") /\ due' = Append(Service!Calls("removed", P), [kind |-> "lookup", device |-> d]) /\ seen' = seen \ P
      /\ UNCHANGED <<service, tracks, blocks, steps, watching, stage, heard, late, mixed>>
  BY DEF Service!OnUpdated
<1>2. /\ WatchTypes /\ Stages /\ ~late /\ watching /\ service = "winmidi"
      /\ \A p \in Certain : Hears(p) /\ Alternates(p)
      /\ due = <<>> /\ (\A e : ~IsDue(e)) /\ \A p : ~Adding(p) /\ ~Removing(p) /\ (Will(p) <=> heard[p] = 1)
      /\ announced \in Seq(NewsSet) /\ announced # <<>> /\ announced' = Tail(announced)
      /\ Head(announced).kind = "updated" /\ d \in Devices
  BY <1>1, HeedParts
<1>3. P \in SUBSET AllPorts /\ \A p : p \in P <=> p \in seen /\ p[1] = d
  BY <1>2 DEF WatchTypes
<1> HIDE DEF P
<1>4. /\ DueInv'
      /\ \A p : ~Adding(p)' /\ (Removing(p)' <=> p \in P)
      /\ \A e : IsDue(LookupOf(e))' <=> e = d
  BY <1>1, <1>2, <1>3, LookupMade
<1>5. Certain' = Certain
  BY <1>1 DEF Certain, AllPorts
<1>6. \A p : Will(p)' <=> heard[p] = 1 /\ p \notin P
  BY <1>1, <1>4 DEF Will
<1>7. ASSUME NEW p \in Certain PROVE Hears(p)'
  BY <1>1, <1>2, <1>3, <1>4, <1>6, <1>7 DEF Hears
<1>8. ASSUME NEW p \in Certain PROVE Alternates(p)'
  <2>1. p[1] # d /\ Clear(p) => Clear(p)'
    BY <1>1, <1>2, <1>4, <1>6 DEF Clear
  <2> QED  BY <1>1, <1>2, <1>8, <2>1, AlternatesRead
<1>9. OneBlock' /\ Stages'
  BY <1>1, <1>2 DEF OneBlock, Stages
<1>10. Active' /\ After'
  BY <1>1, <1>2, <1>4, <1>5, <1>7, <1>8, <1>9 DEF Active, After
<1>11. Moves
  BY <1>1, MovesNot
<1> QED  BY <1>10, <1>11

LEMMA LookupStep ==
  ASSUME WatchInv, DevicesAssumption, stage # "gone", Service!Lookup PROVE Active' /\ After' /\ Moves
<1> USE DEF Service!outside
<1> DEFINE d == Head(due).device
           P == Service!PortsOf(d)
<1>1. /\ due # <<>> /\ Head(due).kind = "lookup" /\ due' = Service!Calls("added", P)
      /\ UNCHANGED <<service, tracks, blocks, steps, watching, announced, stage, seen, heard, late, mixed>>
  BY DEF Service!Lookup
<1>2. /\ WatchTypes /\ OneBlock /\ DueInv /\ Stages /\ ~late
      /\ \A p \in Certain : Hears(p) /\ Alternates(p)
  BY WatchParts
<1>3. /\ 1 \in 1..Len(due) /\ Head(due) = due[1] /\ Head(due) \in CallSet \cup LookupSet /\ Len(due) \in Nat
  BY <1>1, <1>2, TailLaw DEF WatchTypes
<1>4. Head(due) = LookupOf(d) /\ d \in Devices /\ service = "winmidi"
  <2>1. Head(due) \in LookupSet
    BY <1>1, <1>3 DEF CallSet
  <2> QED  BY <1>1, <1>2, <1>3, <2>1 DEF LookupSet, LookupOf, OneBlock, CallSet
<1>5. /\ \A e : IsDue(e) <=> e = LookupOf(d)
      /\ \A p : ~Adding(p) /\ ~Removing(p)
  <2>1. Len(due) = 1
    BY <1>1, <1>2, <1>3 DEF DueInv
  <2>2. \A e : IsDue(e) <=> e = LookupOf(d)
    BY <1>3, <1>4, <2>1 DEF IsDue
  <2>3. \A k, p : CallOf(k, p) = LookupOf(d) => k = "lookup"
    BY DEF CallOf, LookupOf
  <2> QED  BY <2>2, <2>3 DEF Adding, Removing
<1>6. P \in SUBSET AllPorts /\ \A p \in P : p[1] = d
  BY <1>2, <1>4, ExistingLaw DEF Service!PortsOf
<1> HIDE DEF P
<1>7. /\ DueInv'
      /\ \A p : (Adding(p)' <=> p \in P) /\ ~Removing(p)'
      /\ \A e : ~IsDue(LookupOf(e))'
  BY <1>1, <1>6, DueMade
<1>8. Certain' = Certain
  BY <1>1 DEF Certain, AllPorts
<1>9. \A p : (Will(p)' <=> heard[p] = 1 \/ p \in P) /\ (Will(p) <=> heard[p] = 1)
  BY <1>1, <1>5, <1>7 DEF Will
<1>10. ASSUME NEW p \in Certain PROVE Hears(p)'
  <2>1. /\ heard[p] \in {0, 1} /\ (stage = "new" => heard[p] = 0)
        /\ p \in seen <=> heard[p] = 1
        /\ IsDue(LookupOf(p[1])) => p \notin seen
    BY <1>2, <1>4, <1>5, <1>10 DEF Hears
  <2>2. p \in P => heard[p] = 0
    BY <1>4, <1>5, <1>6, <2>1
  <2> QED  BY <1>1, <1>4, <1>7, <1>9, <2>1, <2>2 DEF Hears
<1>11. ASSUME NEW p \in Certain PROVE Alternates(p)'
  <2>1. Clear(p) => Clear(p)'
    BY <1>1, <1>4, <1>5, <1>6, <1>7, <1>9 DEF Clear
  <2> QED  BY <1>1, <1>2, <1>11, <2>1, AlternatesSame
<1>12. OneBlock' /\ Stages'
  <2>1. watching
    BY <1>1, <1>2 DEF Stages
  <2> QED  BY <1>1, <1>2, <1>4, <2>1 DEF OneBlock, Stages
<1>13. Active' /\ After'
  BY <1>1, <1>2, <1>4, <1>7, <1>8, <1>10, <1>11, <1>12 DEF Active, After
<1>14. Moves
  BY <1>1, MovesNot
<1> QED  BY <1>13, <1>14

LEMMA CallStep ==
  ASSUME WatchInv, DevicesAssumption, Orderly, stage # "gone", Service!Call PROVE Active' /\ After' /\ Moves
<1>1. /\ WatchTypes /\ OneBlock /\ DueInv /\ Stages /\ ~late
      /\ \A p \in Certain : Hears(p) /\ Alternates(p)
      /\ service = "coremidi" /\ stage = "made" => \A p \in Certain : p[2] = 1 /\ Service!Passes(p) => Dually(p)
  BY WatchParts
<1>2. PICK q \in AllPorts : \E kind \in {"added", "removed"} :
        /\ due # <<>> /\ Head(due) = CallOf(kind, q) /\ Head(due) \in CallSet /\ due' = Tail(due)
        /\ seen' = IF service = "winmidi" /\ kind = "added" THEN seen \cup {q} ELSE seen
        /\ heard' = IF Service!Registered /\ Service!Announces(kind)
                    THEN [heard EXCEPT ![q] = @ + (IF kind = "added" THEN 1 ELSE -1)] ELSE heard
        /\ late' = (late \/ (stage = "gone" /\ Service!Registered))
        /\ Service!Mixed({q})
        /\ UNCHANGED <<service, tracks, blocks, steps, watching, announced, stage>>
  BY <1>1, CallLaw
<1>3. PICK kind \in {"added", "removed"} :
        /\ due # <<>> /\ Head(due) = CallOf(kind, q) /\ Head(due) \in CallSet /\ due' = Tail(due)
        /\ seen' = IF service = "winmidi" /\ kind = "added" THEN seen \cup {q} ELSE seen
        /\ heard' = IF Service!Registered
                    THEN [heard EXCEPT ![q] = @ + (IF kind = "added" THEN 1 ELSE -1)] ELSE heard
        /\ ~late'
        /\ Service!Mixed({q})
        /\ UNCHANGED <<service, tracks, blocks, steps, watching, announced, stage>>
  BY <1>1, <1>2 DEF Service!Announces, Orderly
<1>4. /\ DueInv' /\ IsDue(Head(due))
      /\ \A i \in 1..Len(due') : i + 1 \in 1..Len(due) /\ due'[i] = due[i + 1]
      /\ \A i \in 1..Len(due) : kind = "added" => due[i].kind = "added"
      /\ \A p : (Adding(p)' <=> Adding(p) /\ Head(due) # CallOf("added", p))
                /\ (Removing(p)' <=> Removing(p) /\ Head(due) # CallOf("removed", p))
      /\ \A e : IsDue(LookupOf(e))' <=> IsDue(LookupOf(e))
  <2>1. due \in Seq(CallSet \cup LookupSet) /\ Head(due).kind = kind
    BY <1>1, <1>3 DEF WatchTypes, CallOf
  <2> QED  BY <1>1, <1>3, <2>1, DueTaken
<1>5. /\ \A p : p # q => (Adding(p)' <=> Adding(p)) /\ (Removing(p)' <=> Removing(p))
      /\ \A p : (Adding(p)' => Adding(p)) /\ (Removing(p)' => Removing(p))
      /\ kind = "added" => Adding(q) /\ ~Adding(q)' /\ ~Removing(q) /\ ~Removing(q)' /\ \A e : ~IsDue(LookupOf(e))
      /\ kind = "removed" => Removing(q) /\ ~Removing(q)' /\ ~Adding(q) /\ ~Adding(q)'
  <2>1. \A k, p : CallOf(k, p).kind = k /\ CallOf(k, p).port = p
    BY DEF CallOf
  <2>2. \A e : LookupOf(e).kind = "lookup"
    BY DEF LookupOf
  <2>3. kind = "added" => Adding(q) /\ ~Removing(q) /\ \A e : ~IsDue(LookupOf(e))
    BY <1>3, <1>4, <2>1, <2>2 DEF Adding, Removing, IsDue
  <2>4. kind = "removed" => Removing(q) /\ ~Adding(q)
    BY <1>1, <1>3, <1>4, <2>1 DEF Adding, Removing, IsDue, DueInv
  <2> QED  BY <1>3, <1>4, <2>1, <2>3, <2>4
<1>6. watching /\ service # "webmidi" /\ (stage = "new" => service = "winuwp")
  BY <1>1, <1>3 DEF Stages
<1>7. stage = "between" /\ service \in {"winuwp", "coremidi"} => q \in mixed
  BY <1>1, <1>3, <1>5 DEF Stages, Certain
<1>8. mixed' = mixed /\ Certain' = Certain /\ \A p \in Certain : p \in AllPorts /\ p \notin mixed
  BY <1>3, <1>7 DEF Service!Mixed, Certain, AllPorts
<1>9. /\ \A p \in AllPorts : p # q \/ ~Service!Registered => heard'[p] = heard[p]
      /\ Service!Registered => heard'[q] = heard[q] + (IF kind = "added" THEN 1 ELSE -1)
      /\ Service!Registered <=> ~(service = "winuwp" /\ stage \in {"new", "between"})
  <2>1. heard \in [AllPorts -> Int]
    BY <1>1 DEF WatchTypes
  <2>2. stage \in {"new", "between", "made"}
    BY <1>1 DEF WatchTypes
  <2> QED  BY <1>3, <2>1, <2>2 DEF Service!Registered
<1>10. ASSUME q \in Certain, Service!Registered
       PROVE  /\ kind = "added" => heard[q] = 0 /\ heard'[q] = 1
              /\ kind = "removed" => heard[q] = 1 /\ heard'[q] = 0
              /\ service = "winmidi" => (q \in seen' <=> heard'[q] = 1)
              /\ service = "winmidi" /\ kind = "removed" => q \notin seen
  BY <1>1, <1>3, <1>5, <1>9, <1>10 DEF Hears, Will
<1>11. ASSUME NEW p \in Certain, ~(service = "winuwp" /\ stage = "new") PROVE Will(p)' <=> Will(p)
  <2>1. CASE p # q
    BY <1>5, <1>8, <1>9, <2>1 DEF Will
  <2>2. CASE p = q
    <3>1. Service!Registered
      BY <1>1, <1>7, <1>8, <1>9, <1>11, <2>2 DEF WatchTypes
    <3> QED  BY <1>5, <1>10, <2>2, <3>1 DEF Will
  <2> QED  BY <2>1, <2>2
<1>12. ASSUME NEW p \in Certain PROVE Hears(p)'
  <2>1. CASE service = "winuwp" /\ stage = "new"
    BY <1>1, <1>3, <1>8, <1>9, <2>1 DEF Hears
  <2>2. CASE ~(service = "winuwp" /\ stage = "new")
    <3>1. (Will(p)' <=> Will(p)) /\ stage # "new" /\ (Service!Passes(p)' <=> Service!Passes(p))
      BY <1>3, <1>6, <1>11, <2>2, PassesSame
    <3>2. CASE p # q
      <4>1. heard'[p] = heard[p] /\ (p \in seen' <=> p \in seen) /\ (Adding(p)' <=> Adding(p)) /\ (Removing(p)' <=> Removing(p))
        BY <1>3, <1>5, <1>8, <1>9, <3>2
      <4> QED  BY <1>1, <1>3, <1>4, <2>2, <3>1, <4>1 DEF Hears
    <3>3. CASE p = q
      <4>1. Service!Registered
        BY <1>1, <1>7, <1>8, <1>9, <2>2, <3>3 DEF WatchTypes
      <4>2. heard'[p] \in {0, 1} /\ ~Adding(p)' /\ ~Removing(p)'
        BY <1>5, <1>10, <3>3, <4>1
      <4>3. IsDue(LookupOf(p[1]))' => p \notin seen'
        BY <1>1, <1>3, <1>4, <1>5, <2>2, <3>3 DEF Hears
      <4>4. service # "winmidi" => seen' = seen
        BY <1>3
      <4>5. service \in {"winuwp", "jackump", "webmidi"} => (p \in seen' <=> Will(p)')
        BY <1>1, <2>2, <3>1, <4>4 DEF Hears
      <4>6. service = "winmidi" => (p \in seen' <=> heard'[p] = 1)
        BY <1>10, <3>3, <4>1
      <4>7. service = "coremidi" /\ Will(p)' => p[2] = 1 /\ Service!Passes(p)
        BY <1>1, <2>2, <3>1 DEF Hears
      <4> QED  BY <1>3, <3>1, <4>2, <4>3, <4>5, <4>6, <4>7 DEF Hears
    <3> QED  BY <3>2, <3>3
  <2> QED  BY <2>1, <2>2
<1>13. ASSUME NEW p \in Certain PROVE Clear(p)' <=> Clear(p)
  BY <1>3, <1>4, <1>11 DEF Clear
<1>14. ASSUME NEW p \in Certain PROVE Alternates(p)'
  BY <1>1, <1>3, <1>13, AlternatesSame
<1>15. ASSUME service = "coremidi", stage = "made", NEW p \in Certain, p[2] = 1, Service!Passes(p)' PROVE Dually(p)'
  BY <1>1, <1>3, <1>11, <1>15, DuallySame, PassesSame
<1>16. OneBlock'
  <2> SUFFICES ASSUME service # "winmidi" PROVE OneBlock'
    BY <1>3 DEF OneBlock
  <2>1. \A i \in 1..Len(due') : due'[i] \in CallSet
    BY <1>1, <1>4 DEF OneBlock
  <2> QED  BY <1>1, <1>3, <2>1 DEF OneBlock, CallSet, AllPorts
<1>17. Stages'
  <2>1. stage = "between" /\ service = "coremidi" => \A p \in Certain : heard'[p] = 0
    BY <1>1, <1>7, <1>8, <1>9 DEF Stages
  <2>2. service # "winmidi" => seen' = seen
    BY <1>3
  <2> QED  BY <1>1, <1>3, <1>5, <1>6, <1>8, <2>1, <2>2 DEF Stages
<1>18. Active' /\ After'
  <2>1. After'
    BY <1>3 DEF After
  <2> QED  BY <1>3, <1>4, <1>8, <1>12, <1>14, <1>15, <1>16, <1>17, <2>1 DEF Active
<1>19. Moves
  <2>1. CASE q \in mixed \/ ~Service!Registered
    BY <1>8, <1>9, <2>1, MovesNot
  <2>2. CASE q \notin mixed /\ Service!Registered
    <3>1. q \in Certain
      BY <2>2 DEF Certain
    <3>2. CASE kind = "added"
      <4>1. {q} \in SUBSET AllPorts
        OBVIOUS
      <4>2. /\ \A p \in AllPorts : p \in {q} \/ p \in mixed' \/ (p \notin mixed /\ heard'[p] = heard[p])
            /\ \A p \in AllPorts : p \in mixed' => p \in mixed \/ heard[p] = 0
            /\ \A p \in {q} : p \notin mixed' /\ heard'[p] = 1 /\ (p \in mixed \/ heard[p] = 0)
        BY <1>8, <1>9, <1>10, <2>2, <3>1, <3>2
      <4> QED  BY <4>1, <4>2, MovesAdded
    <3>3. CASE kind = "removed"
      BY <1>8, <1>9, <1>10, <2>2, <3>1, <3>3, MovesRemoved
    <3> QED  BY <3>2, <3>3
  <2> QED  BY <2>1, <2>2
<1> QED  BY <1>18, <1>19

\* A page's timer compares the ports with what was known.
LEMMA PollStep ==
  ASSUME WatchInv, DevicesAssumption, stage # "gone", Service!DevicesPoll PROVE Active' /\ After' /\ Moves
<1> USE DEF Service!outside
<1>1. /\ service = "webmidi" /\ stage = "made" /\ seen' = Service!Existing /\ Service!Tell(Service!Existing \ seen)
      /\ UNCHANGED <<service, tracks, blocks, steps, watching, announced, stage, due, late, mixed>>
  BY DEF Service!DevicesPoll
<1>2. /\ WatchTypes /\ OneBlock /\ DueInv /\ Stages /\ ~late
      /\ \A p \in Certain : Hears(p) /\ Alternates(p)
  BY WatchParts
<1>3. ~watching /\ announced = <<>> /\ due = <<>> /\ seen \subseteq Service!Existing
  BY <1>1, <1>2 DEF Stages
<1>4. /\ \A e : ~IsDue(e) /\ ~IsDue(e)'
      /\ \A p : ~Adding(p) /\ ~Removing(p) /\ ~Adding(p)' /\ ~Removing(p)'
      /\ DueInv'
  <2>1. Len(due) = 0 /\ Len(due') = 0
    BY <1>1, <1>3, EmptySeq
  <2> QED  BY <2>1 DEF IsDue, DueInv, Adding, Removing
<1>5. /\ Service!Existing \subseteq AllPorts
      /\ \A p \in AllPorts : p[1] \in Devices /\ (p \in Service!Existing <=> p[2] \in blocks[p[1]])
  BY <1>2, ExistingLaw
<1>6. \A p \in AllPorts : heard'[p] = heard[p] + (IF p \in Service!Existing \ seen THEN 1 ELSE 0)
  <2>1. (Service!Existing \ seen) \in SUBSET AllPorts
    BY <1>5
  <2> QED  BY <1>1, <1>2, <2>1, TellLaw
<1>7. Certain' = Certain /\ \A p \in Certain : p \in AllPorts /\ p \notin mixed
  BY <1>1 DEF Certain, AllPorts
<1>8. \A p \in Certain : heard[p] = IF p \in seen THEN 1 ELSE 0
  BY <1>1, <1>2, <1>4 DEF Hears, Will
<1>9. \A p \in Certain : heard'[p] = IF p \in Service!Existing THEN 1 ELSE 0
  BY <1>3, <1>6, <1>7, <1>8
<1>10. \A p \in Certain : Will(p)' <=> p \in Service!Existing
  BY <1>4, <1>9 DEF Will
<1>11. ASSUME NEW p \in Certain PROVE Hears(p)'
  BY <1>1, <1>4, <1>9, <1>10 DEF Hears
<1>12. ASSUME NEW p \in Certain PROVE Alternates(p)'
  <2>1. blocks'[p[1]] = {} => Clear(p)'
    <3>1. ~Will(p)' => Clear(p)'
      BY <1>1, <1>4 DEF Clear
    <3> QED  BY <1>1, <1>5, <1>7, <1>10, <3>1
  <2> QED  BY <1>1, <1>3, <2>1, AlternatesNone
<1>13. OneBlock'
  <2>1. \A p \in seen' : p[2] = 1
    BY <1>1, <1>2, <1>5 DEF OneBlock
  <2> QED  BY <1>1, <1>2, <2>1 DEF OneBlock, CallSet, AllPorts
<1>14. Stages'
  <2>1. Service!Existing' = Service!Existing
    BY <1>1 DEF Service!Existing, Service!PortsOf
  <2> QED  BY <1>1, <1>2, <1>3, <2>1 DEF Stages
<1>15. Active' /\ After'
  BY <1>1, <1>2, <1>4, <1>7, <1>11, <1>12, <1>13, <1>14 DEF Active, After
<1>16. Moves
  <2>1. PICK S : S = (Service!Existing \ seen) \ mixed
    OBVIOUS
  <2>2. S \in SUBSET AllPorts /\ S \subseteq Certain
    BY <1>5, <2>1 DEF Certain
  <2>3. \A p \in AllPorts : p \notin Service!Existing \ seen => heard'[p] = heard[p]
    <3>1. \A p \in AllPorts : heard[p] \in Int
      BY <1>2 DEF WatchTypes
    <3> QED  BY <1>6, <3>1
  <2> QED  BY <1>1, <1>8, <1>9, <2>1, <2>2, <2>3, MovesAdded
<1> QED  BY <1>15, <1>16

LEMMA WatchStep ==
  ASSUME WatchInv, DevicesAssumption, Orderly, Service!Next PROVE WatchInv' /\ Moves
<1>1. CASE stage = "gone"
  BY <1>1, GoneStep, WatchTypesStep DEF WatchInv
<1>2. CASE stage # "gone"
  <2>1. Active' /\ After' /\ Moves
    BY <1>2, WatchCases, HappensStep, RegisterStep, StartStep, ListenStep, CreateStep, ConstructedStep, DestructStep,
       AddedStep, RemovedStep, UpdatedStep, LookupStep, CallStep, PollStep
  <2> QED  BY <2>1, WatchTypesStep DEF WatchInv
<1> QED  BY <1>1, <1>2

LEMMA WatchSame ==
  ASSUME WatchInv, UNCHANGED wvars PROVE WatchInv' /\ Service!Told' = Service!Told
<1>1. UNCHANGED <<service, tracks, blocks, watching, announced, stage, seen, due, heard, late, mixed>>
  BY DEF wvars
<1>2. Certain' = Certain /\ \A p : (Service!Passes(p)' <=> Service!Passes(p))
  BY <1>1, PassesSame DEF Certain, AllPorts
<1>3. Service!Existing' = Service!Existing
  BY <1>1 DEF Service!Existing, Service!PortsOf
<1>4. /\ DueInv' <=> DueInv
      /\ \A p : (Adding(p)' <=> Adding(p)) /\ (Removing(p)' <=> Removing(p))
  BY <1>1, SameDue
<1>5. \A p : (Hears(p)' <=> Hears(p)) /\ (Clear(p)' <=> Clear(p)) /\ (Will(p)' <=> Will(p))
  BY <1>1, HearsSame, ClearSame
<1>6. WatchTypes'
  BY <1>1 DEF WatchInv, WatchTypes, AllPorts, CallSet, LookupSet, NewsSet
<1>7. ASSUME NEW p, Alternates(p) PROVE Alternates(p)'
  BY <1>1, <1>5, <1>7, AlternatesSame
<1>8. ASSUME NEW p, Dually(p) PROVE Dually(p)'
  BY <1>1, <1>5, <1>8, DuallySame
<1>9. Active'
  <2>1. Active
    BY DEF WatchInv
  <2> SUFFICES ASSUME stage # "gone" PROVE Active'
    BY <1>1 DEF Active
  <2>2. OneBlock'
    BY <1>1, <2>1 DEF Active, OneBlock, CallSet, AllPorts
  <2>3. Stages'
    BY <1>1, <1>2, <1>3, <1>4, <2>1 DEF Active, Stages
  <2> QED  BY <1>1, <1>2, <1>4, <1>5, <1>7, <1>8, <2>1, <2>2, <2>3 DEF Active
<1>10. After'
  BY <1>1 DEF WatchInv, After
<1> QED  BY <1>1, <1>6, <1>9, <1>10, ToldLaw DEF WatchInv

LEMMA WatchInitial ==
  ASSUME ObserversAssumption, DevicesAssumption, Service!Init PROVE WatchInv /\ Service!Directory!Init
<1>1. /\ service \in {"winuwp", "winmidi", "coremidi", "webmidi", "jackump"} /\ stage = "new" /\ watching \in {FALSE, service = "winuwp"}
      /\ blocks \in {[d \in Devices |-> {}], [d \in Devices |-> IF d = 1 THEN {1} ELSE {}]}
      /\ seen = IF watching THEN Service!Existing ELSE {}
      /\ announced = <<>> /\ due = <<>> /\ heard = [p \in AllPorts |-> 0] /\ ~late /\ mixed = {}
  BY DEF Service!Init, ObserversAssumption, AllPorts
<1>2. Len(announced) = 0 /\ Len(due) = 0
  BY <1>1, EmptySeq
<1>3. blocks \in [Devices -> SUBSET UNION Layouts] /\ \A d \in Devices : blocks[d] \subseteq {1}
  BY <1>1 DEF DevicesAssumption
<1>4. watching \in BOOLEAN /\ (watching => service = "winuwp")
  BY <1>1
<1>5. /\ Service!Existing \subseteq AllPorts
      /\ \A p \in AllPorts : p \in Service!Existing <=> p[2] \in blocks[p[1]]
      /\ \A p \in AllPorts : p[1] \in Devices
  <2>1. \A p \in AllPorts : p[1] \in Devices /\ p = <<p[1], p[2]>>
    BY DEF AllPorts, Service!AllPorts
  <2>2. Service!Existing \subseteq AllPorts
    BY <1>3 DEF Service!Existing, Service!PortsOf, AllPorts, Service!AllPorts
  <2>3. ASSUME NEW p \in AllPorts PROVE p \in Service!Existing <=> p[2] \in blocks[p[1]]
    <3>1. p \in Service!Existing <=> \E d \in Devices : \E b \in blocks[d] : p = <<d, b>>
      BY DEF Service!Existing, Service!PortsOf
    <3> QED  BY <2>1, <3>1
  <2> QED  BY <2>1, <2>2, <2>3
<1>6. WatchTypes
  <2>1. announced \in Seq(NewsSet) /\ due \in Seq(CallSet \cup LookupSet)
    BY <1>1
  <2> QED  BY <1>1, <1>2, <1>3, <1>4, <1>5, <2>1 DEF WatchTypes
<1>7. (\A e : ~IsDue(e)) /\ DueInv /\ \A p : ~Adding(p) /\ ~Removing(p)
  BY <1>1, NothingDue
<1>8. \A p \in AllPorts : ~Will(p) /\ Hears(p)
  BY <1>1, <1>4, <1>7 DEF Will, Hears
<1>9. ASSUME NEW p \in AllPorts PROVE Alternates(p)
  <2>1. blocks[p[1]] = {} => Clear(p)
    BY <1>1, <1>5, <1>7, <1>8 DEF Clear
  <2> QED  BY <1>2, <2>1 DEF Alternates, Silent
<1>10. OneBlock
  <2>1. \A p \in seen : p[2] = 1
    BY <1>1, <1>3, <1>5
  <2> QED  BY <1>2, <1>3, <2>1 DEF OneBlock
<1>11. Stages
  BY <1>1, <1>4 DEF Stages
<1>12. WatchInv
  BY <1>1, <1>6, <1>7, <1>8, <1>9, <1>10, <1>11 DEF WatchInv, Active, After, Certain
<1>13. Service!Directory!Init
  BY <1>1 DEF Service!Directory!Init, Service!Told, AllPorts
<1> QED  BY <1>12, <1>13

\* The observers that a service calls implement PortDirectory, and none calls the
\* user after its destructor returned: the second half of ObserversAlternate.
THEOREM WatchersImplementDirectory ==
  ASSUME Orderly PROVE MCSpec => Service!Directory!Spec /\ [](Service!NoneLate)
<1>1. MCInit => WatchInv /\ Service!Directory!Init
  BY HotplugAssumption, WatchInitial DEF MCInit
<1>2. WatchInv /\ [MCNext]_<<watched, tvars, wvars>> => WatchInv' /\ [Service!Directory!Next]_(Service!Told)
  <2> SUFFICES ASSUME WatchInv, [MCNext]_<<watched, tvars, wvars>> PROVE WatchInv' /\ [Service!Directory!Next]_(Service!Told)
    OBVIOUS
  <2>1. Service!Next \/ UNCHANGED wvars
    BY DEF MCNext
  <2>2. CASE Service!Next
    BY <2>2, HotplugAssumption, WatchStep DEF Moves
  <2>3. CASE UNCHANGED wvars
    BY <2>3, WatchSame
  <2> QED  BY <2>1, <2>2, <2>3
<1>3. WatchInv => Service!NoneLate
  BY DEF WatchInv, After, Service!NoneLate
<1> QED  BY <1>1, <1>2, <1>3, PTL DEF MCSpec, Service!Directory!Spec

\* Whichever observer there is, the callbacks for a port that no race of the
\* constructor concerns alternate, added first, and none comes after the destructor.
THEOREM ObserversAlternateTheorem == ASSUME Orderly PROVE MCSpec => ObserversAlternate
  BY HotplugImplementsDirectory, WatchersImplementDirectory DEF ObserversAlternate
=============================================================================
