------------------------------- MODULE PwGraph -------------------------------
(***************************************************************************)
(* The mirror a PipeWire context keeps of the daemon's graph, and the      *)
(* observer that watches its ports (backends/linux/pipewire/context.hpp,   *)
(* backends/pipewire/observer.hpp, helpers.hpp).                           *)
(*                                                                         *)
(* The daemon announces globals; the worker binds each one and the daemon  *)
(* answers with an info event, which is when a port becomes visible. Both  *)
(* directions are FIFO: `requests` to the daemon, `wire` from it. A global *)
(* carries one identity for its life; the same id may be used again later. *)
(***************************************************************************)
EXTENDS Naturals, Sequences, FiniteSets

CONSTANTS
  Nodes, Ports,   \* the ids the daemon gives to nodes and to ports
  NodeOf,         \* NodeOf[p]: the node port p belongs to
  Named,          \* nodes whose registry properties have a name
  Matching,       \* ports of the kind the observer looks for
  Tracked,        \* those of them its track_* flags let through
  MaxChanges,     \* bound: changes of the daemon's graph
  MaxReconnects   \* bound: calls of reconnect()

Ids == Nodes \cup Ports

ASSUME IdsAssumption == Nodes \cap Ports = {}
ASSUME NodeOfAssumption == NodeOf \in [Ports -> Nodes]
ASSUME SubsetsAssumption == Named \subseteq Nodes /\ Matching \subseteq Ports /\ Tracked \subseteq Matching
ASSUME BoundsAssumption == MaxChanges \in Nat /\ MaxReconnects \in Nat

VARIABLES
  graph,      \* the globals that exist in the daemon
  changes, reconnects,
  requests,   \* binds and syncs on their way to the daemon
  wire,       \* events on their way to the worker
  resources,  \* globals the daemon has bound for this client
  bound,      \* m_bound_nodes and m_bound_ports
  emitted,    \* bound ports with emitted_added
  listed,     \* nodes of m_nodes and the ports in their buckets
  making,     \* where make(), or reconnect(), is
  initial,    \* history: ports there since the connection
  observer,   \* whether an observer_pipewire exists
  walked,     \* whether it was made with notify_in_constructor
  cache,      \* its port_cache
  count,      \* added callbacks less removed ones, per port
  told        \* history: added callbacks for what the id means now

daemon_vars == <<graph, changes, resources, initial>>
mirror_vars == <<bound, emitted, listed>>
observer_vars == <<observer, walked, cache, count, told>>
vars == <<daemon_vars, requests, wire, mirror_vars, making, reconnects, observer_vars>>

Event(k, i) == [kind |-> k, id |-> i]
Syncs == {1, 2}
Making == {"issue 1", "wait 1", "issue 2", "wait 2", "ready"}

TypeOK ==
  /\ graph \subseteq Ids /\ changes \in 0..MaxChanges /\ reconnects \in 0..MaxReconnects
  /\ requests \in Seq([kind : {"bind", "refused"}, id : Ids] \cup [kind : {"sync"}, id : Syncs])
  /\ wire \in Seq([kind : {"global", "info", "remove"}, id : Ids] \cup [kind : {"done"}, id : Syncs])
  /\ resources \subseteq graph
  /\ bound \subseteq Ids /\ emitted \subseteq Ports /\ listed \subseteq Ids
  /\ making \in Making /\ initial \subseteq Ports
  /\ observer \in BOOLEAN /\ walked \in BOOLEAN /\ cache \subseteq Matching
  /\ count \in [Ports -> Nat] /\ told \in [Ports -> Nat]

\* The registry announces what exists, a node before its ports.
Dumps ==
  {s \in UNION {[1..n -> Ids] : n \in 0..Cardinality(Ids)} :
     \A i \in DOMAIN s :
       /\ \A j \in DOMAIN s : i # j => s[i] # s[j]
       /\ s[i] \in Ports => \E j \in 1..i : s[j] = NodeOf[s[i]]}

Announced(s) == {s[i] : i \in DOMAIN s}
Globals(s) == [i \in DOMAIN s |-> Event("global", s[i])]

Init ==
  /\ \E s \in Dumps : graph = Announced(s) /\ wire = Globals(s)
  /\ changes = 0 /\ reconnects = 0 /\ requests = <<>> /\ resources = {}
  /\ bound = {} /\ emitted = {} /\ listed = {}
  /\ making = "issue 1" /\ initial = graph \cap Ports
  /\ observer = FALSE /\ walked = FALSE /\ cache = {}
  /\ count = [p \in Ports |-> 0] /\ told = [p \in Ports |-> 0]

-----------------------------------------------------------------------------
(* The daemon.                                                             *)

Change == changes < MaxChanges /\ changes' = changes + 1

Appear(i) ==
  /\ Change
  /\ i \notin graph /\ (i \in Ports => NodeOf[i] \in graph)
  /\ graph' = graph \cup {i}
  /\ wire' = Append(wire, Event("global", i))
  /\ UNCHANGED <<resources, initial, requests, mirror_vars, making, reconnects, observer_vars>>

\* A node goes after its ports. Binds of the old global that are still on
\* their way are refused when they arrive.
Refuse(r, i) == IF r = Event("bind", i) THEN Event("refused", i) ELSE r

Vanish(i) ==
  /\ Change
  /\ i \in graph /\ \A p \in graph \cap Ports : NodeOf[p] # i
  /\ graph' = graph \ {i} /\ resources' = resources \ {i} /\ initial' = initial \ {i}
  /\ wire' = Append(wire, Event("remove", i))
  /\ requests' = [k \in DOMAIN requests |-> Refuse(requests[k], i)]
  /\ UNCHANGED <<mirror_vars, making, reconnects, observer_vars>>

\* The properties of a bound global change.
Update(i) ==
  /\ Change
  /\ i \in resources
  /\ wire' = Append(wire, Event("info", i))
  /\ UNCHANGED <<graph, resources, initial, requests, mirror_vars, making, reconnects, observer_vars>>

Serve ==
  /\ requests # <<>>
  /\ requests' = Tail(requests)
  /\ LET r == Head(requests) IN
       /\ resources' = IF r.kind = "bind" THEN resources \cup {r.id} ELSE resources
       /\ wire' = CASE r.kind = "bind" -> Append(wire, Event("info", r.id))
                    [] r.kind = "sync" -> Append(wire, Event("done", r.id))
                    [] OTHER -> wire
  /\ UNCHANGED <<graph, changes, initial, mirror_vars, making, reconnects, observer_vars>>

-----------------------------------------------------------------------------
(* The worker.                                                             *)

Receive(k) == wire # <<>> /\ Head(wire).kind = k /\ wire' = Tail(wire)

\* The global announced first on `wire` is still the one the id stands for.
Current(i) == i \in graph /\ \A k \in DOMAIN Tail(wire) : Tail(wire)[k] # Event("remove", i)

Bind(i) == requests' = IF Current(i) THEN Append(requests, Event("bind", i)) ELSE requests

\* register_node(): bind and listen; a node with a name is mirrored.
RegisterNode(i) ==
  /\ bound' = bound \cup {i}
  /\ listed' = IF i \in Named THEN listed \cup {i} ELSE listed
  /\ Bind(i)

\* register_port(): a port waits for its info.
RegisterPort(i) ==
  /\ bound' = bound \cup {i}
  /\ UNCHANGED listed
  /\ Bind(i)

OnRegistryGlobal ==
  /\ Receive("global")
  /\ LET i == Head(wire).id IN IF i \in Nodes THEN RegisterNode(i) ELSE RegisterPort(i)
  /\ UNCHANGED <<daemon_vars, emitted, making, reconnects, observer_vars>>

\* The added and removed subscribers of the observer.
CallAdded(p) ==
  /\ cache' = IF observer /\ p \in Matching THEN cache \cup {p} ELSE cache
  /\ IF observer /\ p \in Tracked
     THEN count' = [count EXCEPT ![p] = @ + 1] /\ told' = [told EXCEPT ![p] = @ + 1]
     ELSE UNCHANGED <<count, told>>
  /\ UNCHANGED <<observer, walked>>

CallRemoved(p) ==
  /\ cache' = cache \ {p}
  /\ count' = IF p \in cache \cap Tracked THEN [count EXCEPT ![p] = @ - 1] ELSE count
  /\ told' = [told EXCEPT ![p] = 0]
  /\ UNCHANGED <<observer, walked>>

PortsOf(i) == {p \in Ports : NodeOf[p] = i}

\* on_node_info(), mirror_node_to_snapshot(): the buckets of the entry stay.
OnNodeInfo ==
  /\ Receive("info")
  /\ LET i == Head(wire).id IN
       /\ i \in Nodes
       /\ listed' = IF i \in bound THEN listed \cup {i} ELSE listed
  /\ UNCHANGED <<daemon_vars, requests, bound, emitted, making, reconnects, observer_vars>>

\* mirror_port_to_snapshot(): the entry of the node is made when there is none.
MirrorPort(i) == listed' = listed \cup {i, NodeOf[i]}

\* Mutated form of OnPortInfo: emitted_added is not looked at.
OnPortInfoAgain ==
  /\ Receive("info")
  /\ LET i == Head(wire).id IN
       /\ i \in Ports
       /\ IF i \in bound
          THEN MirrorPort(i) /\ emitted' = emitted \cup {i} /\ CallAdded(i)
          ELSE UNCHANGED <<listed, emitted, observer_vars>>
  /\ UNCHANGED <<daemon_vars, requests, bound, making, reconnects>>

\* on_port_info(): mirror, and announce a port once.
OnPortInfo ==
  /\ Receive("info")
  /\ LET i == Head(wire).id IN
       /\ i \in Ports
       /\ IF i \in bound
          THEN /\ MirrorPort(i)
               /\ emitted' = emitted \cup {i}
               /\ IF i \in emitted THEN UNCHANGED observer_vars ELSE CallAdded(i)
          ELSE UNCHANGED <<listed, emitted, observer_vars>>
  /\ UNCHANGED <<daemon_vars, requests, bound, making, reconnects>>

\* Mutated form of OnRegistryGlobalRemove: a port stays in its node's bucket.
OnRemoveKeepsPort ==
  /\ Receive("remove")
  /\ LET i == Head(wire).id IN
       /\ bound' = bound \ {i}
       /\ emitted' = emitted \ {i}
       /\ listed' = IF i \in bound \cap Nodes THEN listed \ {i} ELSE listed
       /\ IF i \in bound \cap Ports THEN CallRemoved(i) ELSE UNCHANGED observer_vars
  /\ UNCHANGED <<daemon_vars, requests, making, reconnects>>

\* unregister_global(): a node leaves with what is in its buckets; the
\* removed event of a port is dispatched whether or not added was.
OnRegistryGlobalRemove ==
  /\ Receive("remove")
  /\ LET i == Head(wire).id IN
       /\ bound' = bound \ {i}
       /\ emitted' = emitted \ {i}
       /\ listed' = IF i \in bound
                    THEN listed \ ({i} \cup PortsOf(i)) ELSE listed
       /\ IF i \in bound \cap Ports THEN CallRemoved(i) ELSE UNCHANGED observer_vars
  /\ UNCHANGED <<daemon_vars, requests, making, reconnects>>

OnCoreDone ==
  /\ Receive("done")
  /\ making' = CASE Head(wire).id = 1 /\ making = "wait 1" -> "issue 2"
                 [] Head(wire).id = 2 /\ making = "wait 2" -> "ready"
                 [] OTHER -> making
  /\ UNCHANGED <<daemon_vars, requests, mirror_vars, reconnects, observer_vars>>

-----------------------------------------------------------------------------
(* Application threads.                                                    *)

\* make() synchronises twice, reconnect() once.
Synchronize(n) ==
  /\ making = IF n = 1 THEN "issue 1" ELSE "issue 2"
  /\ making' = IF n = 1 THEN "wait 1" ELSE "wait 2"
  /\ requests' = Append(requests, Event("sync", n))
  /\ UNCHANGED <<daemon_vars, wire, mirror_vars, reconnects, observer_vars>>

\* Mutated form of Construct: the snapshot is not walked.
ConstructWithoutWalk(notify) ==
  /\ making = "ready" /\ ~observer
  /\ observer' = TRUE /\ walked' = notify
  /\ count' = [p \in Ports |-> 0] /\ told' = count'
  /\ UNCHANGED <<daemon_vars, requests, wire, mirror_vars, making, reconnects, cache>>

\* observer_pipewire(): subscribes and, with notify_in_constructor, walks the
\* snapshot, under the loop lock.
Construct(notify) ==
  /\ making = "ready" /\ ~observer
  /\ observer' = TRUE /\ walked' = notify
  /\ LET seen == IF notify THEN listed \cap Tracked ELSE {}
     IN count' = [p \in Ports |-> IF p \in seen THEN 1 ELSE 0] /\ told' = count'
  /\ UNCHANGED <<daemon_vars, requests, wire, mirror_vars, making, reconnects, cache>>

\* ~observer_pipewire().
Destroy ==
  /\ observer
  /\ observer' = FALSE /\ walked' = FALSE /\ cache' = {}
  /\ count' = [p \in Ports |-> 0] /\ told' = count'
  /\ UNCHANGED <<daemon_vars, requests, wire, mirror_vars, making, reconnects>>

\* reconnect(): tear_down() forgets the graph without telling anyone, and the
\* new connection announces what exists.
Reconnect ==
  /\ making = "ready" /\ reconnects < MaxReconnects
  /\ reconnects' = reconnects + 1
  /\ bound' = {} /\ emitted' = {} /\ listed' = {} /\ resources' = {}
  /\ requests' = <<>>
  /\ \E s \in Dumps : Announced(s) = graph /\ wire' = Globals(s)
  /\ making' = "issue 2" /\ initial' = {}
  /\ UNCHANGED <<graph, changes, observer_vars>>

-----------------------------------------------------------------------------

Daemon == (\E i \in Ids : Appear(i) \/ Vanish(i) \/ Update(i)) \/ Serve
Worker == OnRegistryGlobal \/ OnNodeInfo \/ OnPortInfo \/ OnRegistryGlobalRemove \/ OnCoreDone
Application == (\E n \in Syncs : Synchronize(n)) \/ (\E notify \in BOOLEAN : Construct(notify))
               \/ Destroy \/ Reconnect

Next == Daemon \/ Worker \/ Application

Spec == Init /\ [][Next]_vars

-----------------------------------------------------------------------------
(* Properties.                                                             *)

Quiet == making = "ready" /\ requests = <<>> /\ wire = <<>>

\* reconnect() forgets what was announced; the rest is about one connection.
FirstConnection == reconnects = 0

\* With nothing in flight the snapshot lists the nodes and ports that exist,
\* and no node or port that has gone; a port that a user was told of is in
\* what get_ports() lists, at any time until its removal; and make() keeps its
\* promise of every port of the graph it connected to: the answer to the
\* second sync comes after the answers to the binds.
SnapshotExact ==
  /\ Quiet => listed = graph
  /\ FirstConnection => \A p \in Ports : told[p] > 0 => p \in listed
  /\ making = "ready" => initial \subseteq listed

\* The lock of the observer's constructor: a port fires once, in the walk of
\* the snapshot or later, never twice (backends/pipewire/observer.hpp:28).
AddedOnce == FirstConnection => \A p \in Ports : told[p] <= 1

\* Once nothing is in flight the user does not believe in a port that has
\* gone: its removed callback was called (book/src/hotplug.md:4).
RemovalAnnounced == Quiet => \A p \in Ports : count[p] > 0 => p \in graph

\* An observer that announces from events only, on the first connection.
Listening == FirstConnection /\ ~walked

\* ... and after a walk no listed port is left out; an observer that only
\* listens announces every removal.
NoneMissed ==
  /\ walked => \A p \in listed \cap Tracked : told[p] > 0
  /\ Listening => RemovalAnnounced

\* Its callbacks alternate per port, added first: it is a PortDirectory.
Heard == IF Listening THEN count ELSE [p \in Ports |-> 0]
Directory == INSTANCE PortDirectory WITH count <- Heard
CallbacksAlternate == Directory!Spec
=============================================================================
