----------------------------- MODULE JackClient -----------------------------
(***************************************************************************)
(* The JACK backend (backends/jack, backends/jack_ump): midi objects whose  *)
(* ports a real-time process callback uses while application threads open,  *)
(* close and destroy them.                                                  *)
(*                                                                          *)
(* An object has a JACK client of its own, with its own process callback,   *)
(* or is one of many on the client of a shared_handler, which keeps a list  *)
(* of callbacks that it changes at the start of a cycle. A close takes the  *)
(* port away from the callback through a pair of semaphores. Outputs queue  *)
(* their messages in a ring that the callback drains.                       *)
(***************************************************************************)
EXTENDS Naturals, Sequences, FiniteSets

CONSTANTS
  Objs, Handler,  \* midi objects, the shared_handler
  Setups,         \* pairs of the objects of a run and those of them on the handler
  Outputs,        \* the objects that are midi_out_jack_queued
  Sizes,          \* sizes of messages
  RingSize,       \* writable space of the ring; a header takes one unit
  EventSlots,     \* capacity of shared_handler::events, 16 in the code
  MaxOpens, MaxSends,  \* bounds: ports registered, messages queued per object
  MaxTokens       \* bound: value of a semaphore that was released too often

ASSUME SetupsAssumption == Setups \subseteq {s \in (SUBSET Objs) \X (SUBSET Objs) : s[2] \subseteq s[1]}
ASSUME ThreadsAssumption == Handler \notin Objs /\ Outputs \subseteq Objs
ASSUME NumbersAssumption ==
  /\ Sizes \subseteq Nat /\ RingSize \in Nat /\ EventSlots \in Nat
  /\ MaxOpens \in [Objs -> Nat] /\ MaxSends \in Nat /\ MaxTokens \in Nat \ {0}

VARIABLES
  shared,     \* the objects configured with the handler's client
  phase,      \* where the application thread of an object is
  dying,      \* whether it is in the destructor
  port,       \* port_handle: the port the callback may use, 0 for nullptr
  registered, \* the port registered with JACK
  opens,      \* ports registered so far
  needpost, cleanup,  \* sem_needpost, sem_cleanup
  primed,     \* history: ports whose close found a token of an earlier cycle
  late,       \* history: ports whose close timed out
  caught,     \* history: threads a close found inside process()
  events,     \* shared_handler::events
  refused,    \* history: objects one of whose events did not fit
  callbacks,  \* midiin_callbacks and midiout_callbacks
  running,    \* threads whose client is active
  cycle,      \* the process callback in each thread
  ring,       \* the ring of an output: headers and bodies of messages
  accepted,   \* history: messages send_message() took
  out         \* history: messages that left the ring

app_vars == <<shared, phase, dying, opens>>
port_vars == <<port, registered>>
lock_vars == <<needpost, cleanup, primed, late, caught>>
handler_vars == <<events, refused, callbacks, running>>
queue_vars == <<ring, accepted, out>>
vars == <<app_vars, port_vars, lock_vars, handler_vars, cycle, queue_vars>>

Threads == Objs \cup {Handler}
ThreadOf(o) == IF o \in shared THEN Handler ELSE o

Phases == {"none", "idle", "open", "waiting for space", "writing", "closing", "waiting", "released",
           "disconnecting", "gone"}
Stages == {"idle", "events", "load", "fetch", "process", "check"}
\* 0 stands for nullptr.
Handles == {0} \cup UNION {0..MaxOpens[o] : o \in Objs}
Idle == [stage |-> "idle", todo |-> <<>>, held |-> 0]
Messages == [n : 1..MaxSends, size : Sizes]
Units == [part : {"header", "body"}, msg : Messages]
Event(k, o) == [kind |-> k, obj |-> o]

TypeOK ==
  /\ shared \subseteq Objs /\ phase \in [Objs -> Phases] /\ dying \subseteq Objs
  /\ port \in [Objs -> Handles] /\ registered \in [Objs -> Handles]
  /\ opens \in [Objs -> Handles]
  /\ needpost \in [Objs -> 0..MaxTokens] /\ cleanup \in [Objs -> 0..MaxTokens]
  /\ primed \in [Objs -> SUBSET Handles] /\ late \in [Objs -> SUBSET Handles] /\ caught \subseteq Threads
  /\ events \in Seq([kind : {"added", "removed"}, obj : Objs]) /\ Len(events) <= EventSlots
  /\ refused \subseteq Objs /\ callbacks \in Seq(Objs) /\ running \subseteq Threads
  /\ cycle \in [Threads -> [stage : Stages, todo : Seq(Objs), held : Handles]]
  /\ ring \in [Objs -> Seq(Units)]
  /\ accepted \in [Objs -> Seq(Messages)] /\ out \in [Objs -> Seq(Messages)]

Init ==
  /\ \E s \in Setups :
       /\ phase = [o \in Objs |-> IF o \in s[1] THEN "none" ELSE "gone"]
       /\ shared = s[2]
  /\ dying = {} /\ opens = [o \in Objs |-> 0]
  /\ port = [o \in Objs |-> 0] /\ registered = [o \in Objs |-> 0]
  /\ needpost = [o \in Objs |-> 0] /\ cleanup = [o \in Objs |-> 0]
  /\ primed = [o \in Objs |-> {}] /\ late = [o \in Objs |-> {}] /\ caught = {}
  /\ events = <<>> /\ refused = {} /\ callbacks = <<>> /\ running = {}
  /\ cycle = [t \in Threads |-> Idle]
  /\ ring = [o \in Objs |-> <<>>] /\ accepted = [o \in Objs |-> <<>>] /\ out = [o \in Objs |-> <<>>]

-----------------------------------------------------------------------------
(* Application threads: one per object, and one for the handler.           *)

Goto(o, from, to) == phase[o] = from /\ phase' = [phase EXCEPT ![o] = to]

\* spsc_queue::push(), whose result nobody looks at.
Push(e) ==
  IF Len(events) < EventSlots
  THEN events' = Append(events, e) /\ UNCHANGED refused
  ELSE refused' = refused \cup {e.obj} /\ UNCHANGED events

\* connect(): a callback on the handler, or a client of its own.
Connect(o) ==
  /\ Goto(o, "none", "idle")
  /\ IF o \in shared
     THEN Push(Event("added", o)) /\ UNCHANGED running
     ELSE running' = running \cup {o} /\ UNCHANGED <<events, refused>>
  /\ UNCHANGED <<shared, dying, opens, port_vars, lock_vars, callbacks, cycle, queue_vars>>

\* shared_handler::start_processing(), stop_processing(): deactivating waits
\* for the cycle.
StartProcessing ==
  /\ Handler \notin running
  /\ running' = running \cup {Handler}
  /\ UNCHANGED <<app_vars, port_vars, lock_vars, events, refused, callbacks, cycle, queue_vars>>

StopProcessing ==
  /\ Handler \in running /\ cycle[Handler] = Idle
  /\ running' = running \ {Handler}
  /\ UNCHANGED <<app_vars, port_vars, lock_vars, events, refused, callbacks, cycle, queue_vars>>

\* open_port(), open_virtual_port(): create_local_port(). The port of an open
\* that fails at jack_connect() is there all the same, and the next one uses it.
OpenPort(o) ==
  /\ Goto(o, "idle", "open")
  /\ opens[o] < MaxOpens[o]
  /\ opens' = [opens EXCEPT ![o] = @ + 1]
  /\ registered' = [registered EXCEPT ![o] = opens'[o]]
  /\ port' = [port EXCEPT ![o] = opens'[o]]
  /\ UNCHANGED <<shared, dying, lock_vars, handler_vars, cycle, queue_vars>>

\* The callback of o is inside process(), on the port it holds.
UsesPort(t, o) == cycle[t].stage = "process" /\ o = Head(cycle[t].todo)

\* What the histories note of a close that begins.
NoteClose(o) ==
  /\ primed' = [primed EXCEPT ![o] = IF cleanup[o] = 0 THEN @ ELSE @ \cup {registered[o]}]
  /\ caught' = caught \cup {t \in Threads : UsesPort(t, o)}

\* Mutated form of ClosePort: the port is not cleared.
ClosePortKeepsHandle(o, last) ==
  /\ Goto(o, "open", "closing")
  /\ dying' = IF last THEN dying \cup {o} ELSE dying
  /\ NoteClose(o)
  /\ UNCHANGED <<shared, opens, port_vars, needpost, cleanup, late, handler_vars, cycle, queue_vars>>

\* do_close_port(), called by the user or by the destructor.
\* 1. The next cycle sees no port.
ClosePort(o, last) ==
  /\ Goto(o, "open", "closing")
  /\ port' = [port EXCEPT ![o] = 0]
  /\ dying' = IF last THEN dying \cup {o} ELSE dying
  /\ NoteClose(o)
  /\ UNCHANGED <<shared, opens, registered, needpost, cleanup, late, handler_vars, cycle, queue_vars>>

\* The destructor of an object that has no port.
DestroyClosed(o) ==
  /\ Goto(o, "idle", "disconnecting")
  /\ dying' = dying \cup {o}
  /\ UNCHANGED <<shared, opens, port_vars, lock_vars, handler_vars, cycle, queue_vars>>

\* Releasing a binary semaphore that is 1 has no defined result: it counts
\* on, or stays.
Least(x, y) == IF x < y THEN x ELSE y
Release(n) == {1, Least(n + 1, MaxTokens)}

\* 2. prepare_release_client(): asks for a token and waits a second for one.
AskRelease(o) ==
  /\ Goto(o, "closing", "waiting")
  /\ \E n \in Release(needpost[o]) : needpost' = [needpost EXCEPT ![o] = n]
  /\ UNCHANGED <<shared, dying, opens, port_vars, cleanup, primed, late, caught, handler_vars, cycle, queue_vars>>

TakeRelease(o) ==
  /\ Goto(o, "waiting", "released")
  /\ cleanup[o] > 0
  /\ cleanup' = [cleanup EXCEPT ![o] = @ - 1]
  /\ UNCHANGED <<shared, dying, opens, port_vars, needpost, primed, late, caught, handler_vars, cycle, queue_vars>>

ReleaseTimesOut(o) ==
  /\ Goto(o, "waiting", "released")
  /\ late' = [late EXCEPT ![o] = @ \cup {registered[o]}]
  /\ UNCHANGED <<shared, dying, opens, port_vars, needpost, cleanup, primed, caught, handler_vars, cycle, queue_vars>>

\* 3. jack_port_unregister().
Unregister(o) ==
  /\ Goto(o, "released", IF o \in dying THEN "disconnecting" ELSE "idle")
  /\ registered' = [registered EXCEPT ![o] = 0]
  /\ UNCHANGED <<shared, dying, opens, port, lock_vars, handler_vars, cycle, queue_vars>>

\* disconnect(), and the end of the object: closing a client waits for its
\* cycle, clear_process_func() only leaves an event.
Disconnect(o) ==
  /\ Goto(o, "disconnecting", "gone")
  /\ IF o \in shared
     THEN Push(Event("removed", o)) /\ UNCHANGED running
     ELSE /\ cycle[o] = Idle
          /\ running' = running \ {o} /\ UNCHANGED <<events, refused>>
  /\ UNCHANGED <<shared, dying, opens, port_vars, lock_vars, callbacks, cycle, queue_vars>>

-----------------------------------------------------------------------------
(* send_message() of an output whose port is open.                         *)

Used(r) ==
  LET used[i \in 0..Len(r)] ==
        IF i = 0 THEN 0
        ELSE used[i - 1] + IF r[i].part = "header" THEN 1 ELSE r[i].msg.size
  IN used[Len(r)]

\* jack_queue::write() refuses what can never fit, and spins until there is
\* space for the rest.
Send(o) ==
  /\ o \in Outputs /\ Len(accepted[o]) < MaxSends
  /\ \E s \in Sizes :
       /\ s + 1 <= RingSize
       /\ accepted' = [accepted EXCEPT ![o] = Append(@, [n |-> Len(@) + 1, size |-> s])]
  /\ Goto(o, "open", "waiting for space")
  /\ UNCHANGED <<shared, dying, opens, port_vars, lock_vars, handler_vars, cycle, ring, out>>

Sending(o) == accepted[o][Len(accepted[o])]

\* The size and the message go in one after the other.
WriteHeader(o) ==
  /\ Goto(o, "waiting for space", "writing")
  /\ RingSize - Used(ring[o]) >= Sending(o).size + 1
  /\ ring' = [ring EXCEPT ![o] = Append(@, [part |-> "header", msg |-> Sending(o)])]
  /\ UNCHANGED <<shared, dying, opens, port_vars, lock_vars, handler_vars, cycle, accepted, out>>

WriteBody(o) ==
  /\ Goto(o, "writing", "open")
  /\ ring' = [ring EXCEPT ![o] = Append(@, [part |-> "body", msg |-> Sending(o)])]
  /\ UNCHANGED <<shared, dying, opens, port_vars, lock_vars, handler_vars, cycle, accepted, out>>

-----------------------------------------------------------------------------
(* The process callbacks.                                                  *)

\* Mutated form of Erase: the first callback goes.
EraseFirst(list, o) == IF list = <<>> THEN list ELSE Tail(list)

Erase(list, o) ==
  LET at == {i \in DOMAIN list : list[i] = o} IN
  IF at = {} THEN list
  ELSE LET k == CHOOSE i \in at : \A j \in at : i <= j
       IN SubSeq(list, 1, k - 1) \o SubSeq(list, k + 1, Len(list))

Turn(todo) ==
  IF todo = <<>> THEN Idle ELSE [stage |-> "load", todo |-> todo, held |-> 0]

BeginCycle(t) ==
  /\ t \in running /\ cycle[t] = Idle
  /\ cycle' = [cycle EXCEPT ![t] = IF t = Handler THEN [Idle EXCEPT !.stage = "events"]
                                   ELSE Turn(<<t>>)]
  /\ UNCHANGED <<app_vars, port_vars, lock_vars, handler_vars, queue_vars>>

\* jack_callback(): the events, in their order, then the callbacks.
PopEvent ==
  /\ cycle[Handler].stage = "events" /\ events # <<>>
  /\ events' = Tail(events)
  /\ LET e == Head(events) IN
       callbacks' = IF e.kind = "added" THEN Append(callbacks, e.obj) ELSE Erase(callbacks, e.obj)
  /\ UNCHANGED <<app_vars, port_vars, lock_vars, refused, running, cycle, queue_vars>>

CallCallbacks ==
  /\ cycle[Handler].stage = "events" /\ events = <<>>
  /\ cycle' = [cycle EXCEPT ![Handler] = Turn(callbacks)]
  /\ UNCHANGED <<app_vars, port_vars, lock_vars, handler_vars, queue_vars>>

Move(t, stage, held) == cycle' = [cycle EXCEPT ![t].stage = stage, ![t].held = held]

Rest(t) == cycle' = [cycle EXCEPT ![t] = Turn(Tail(@.todo))]

\* The callback looks whether there is a port. Without one a callback of the
\* handler goes on to the semaphores, that of an own client returns.
LoadPort(t) ==
  /\ cycle[t].stage = "load"
  /\ LET o == Head(cycle[t].todo) IN
       IF port[o] # 0 THEN Move(t, "fetch", 0)
       ELSE IF o \in shared THEN Move(t, "check", 0)
       ELSE Rest(t)
  /\ UNCHANGED <<app_vars, port_vars, lock_vars, handler_vars, queue_vars>>

\* process() reads port_handle again; a close may have cleared it since.
FetchPort(t) ==
  /\ cycle[t].stage = "fetch"
  /\ Move(t, "process", port[Head(cycle[t].todo)])
  /\ UNCHANGED <<app_vars, port_vars, lock_vars, handler_vars, queue_vars>>

\* Mutated form of Whole: whether the message is there is not looked at.
WholeUnchecked(r) == Len(r)

\* jack_queue::read(): up to a message that is not there as a whole.
Whole(r) == IF r # <<>> /\ r[Len(r)].part = "header" THEN Len(r) - 1 ELSE Len(r)

\* The messages whose part p is in r.
Those(p, r) ==
  LET of[i \in 0..Len(r)] ==
        IF i = 0 THEN <<>>
        ELSE IF r[i].part = p THEN Append(of[i - 1], r[i].msg) ELSE of[i - 1]
  IN of[Len(r)]

\* Mutated form of Process: the ring is not read.
ProcessKeepsRing(t) ==
  /\ cycle[t].stage = "process"
  /\ Move(t, "check", cycle[t].held)
  /\ UNCHANGED <<app_vars, port_vars, lock_vars, handler_vars, queue_vars>>

\* process(): the port's buffer, and the ring of an output, which is read also
\* where JACK has no buffer for the port.
Process(t) ==
  /\ cycle[t].stage = "process"
  /\ LET o == Head(cycle[t].todo)
         n == Whole(ring[o]) IN
       /\ ring' = [ring EXCEPT ![o] = SubSeq(@, n + 1, Len(@))]
       /\ out' = [out EXCEPT ![o] = @ \o Those("body", SubSeq(ring[o], 1, n))]
  /\ Move(t, "check", cycle[t].held)
  /\ UNCHANGED <<app_vars, port_vars, lock_vars, handler_vars, accepted>>

\* check_client_released().
CheckReleased(t) ==
  /\ cycle[t].stage = "check"
  /\ LET o == Head(cycle[t].todo) IN
       IF needpost[o] > 0
       THEN needpost' = [needpost EXCEPT ![o] = @ - 1] /\ UNCHANGED cleanup
       ELSE /\ \E n \in Release(cleanup[o]) : cleanup' = [cleanup EXCEPT ![o] = n]
            /\ UNCHANGED needpost
  /\ caught' = caught \ {t}
  /\ Rest(t)
  /\ UNCHANGED <<app_vars, port_vars, primed, late, handler_vars, queue_vars>>

-----------------------------------------------------------------------------

Application(o) ==
  \/ Connect(o) \/ OpenPort(o) \/ (\E last \in BOOLEAN : ClosePort(o, last)) \/ AskRelease(o)
  \/ TakeRelease(o) \/ ReleaseTimesOut(o) \/ Unregister(o) \/ DestroyClosed(o) \/ Disconnect(o)
  \/ Send(o) \/ WriteHeader(o) \/ WriteBody(o)
Callback(t) == LoadPort(t) \/ FetchPort(t) \/ Process(t) \/ CheckReleased(t)
Events == PopEvent \/ CallCallbacks

Next ==
  \/ \E o \in Objs : Application(o)
  \/ StartProcessing \/ StopProcessing
  \/ \E t \in Threads : BeginCycle(t) \/ Callback(t)
  \/ Events

Spec == Init /\ [][Next]_vars

\* JACK runs the cycles of an active client, a callback runs to its end, and
\* a call that was made goes on.
Fairness ==
  /\ \A t \in Threads : WF_vars(BeginCycle(t)) /\ WF_vars(Callback(t))
  /\ WF_vars(Events)
  /\ \A o \in Objs :
       /\ WF_vars(AskRelease(o)) /\ WF_vars(TakeRelease(o) \/ ReleaseTimesOut(o))
       /\ WF_vars(Unregister(o)) /\ WF_vars(WriteHeader(o)) /\ WF_vars(WriteBody(o))

FairSpec == Spec /\ Fairness

-----------------------------------------------------------------------------
(* Properties.                                                             *)

\* "Now we are sure that the client is not going to use the port anymore"
\* (backends/jack/helpers.hpp:242): unless its close gave up, a port that a
\* callback works on is registered.
PortStaysRegistered ==
  \A t \in Threads, o \in Objs :
    UsesPort(t, o) => cycle[t].held \in {0, registered[o]} \cup late[o]

\* "Ensure that the next time the cycle runs it sees the port as nullptr"
\* (backends/jack/helpers.hpp:235): the cycle that runs already keeps its port.
PortIsThere == \A t \in Threads, o \in Objs : UsesPort(t, o) => cycle[t].held # 0

\* What do_close_port() does guarantee, however a close, the cycles and the
\* semaphores fall: a callback works on a port that is not registered only if
\* the close of that very port gave up or took a token of an earlier cycle,
\* and only the callback that this close found at work; no later one does.
CleanHandshake ==
  \A t \in Threads, o \in Objs :
    UsesPort(t, o) /\ cycle[t].held \notin {0, registered[o]}
      => cycle[t].held \in late[o] \cup primed[o] /\ t \in caught

\* The callback of an object that is gone leaves the handler's list at the
\* start of the next cycle, unless its event did not fit in the queue.
GoneIsForgotten ==
  \A o \in Objs \ refused :
    phase[o] = "gone" /\ (\E i \in DOMAIN callbacks : callbacks[i] = o)
    => \E i \in DOMAIN events : events[i] = Event("removed", o)

\* Messages leave the ring whole and in the order they were sent: each one
\* that was accepted has left, is in the ring, or is being written.
Written(o) ==
  IF phase[o] = "waiting for space" THEN SubSeq(accepted[o], 1, Len(accepted[o]) - 1)
  ELSE accepted[o]
InOrder == \A o \in Objs : out[o] \o Those("header", ring[o]) = Written(o)

\* The calls that wait come back: send_message() for space in the ring, while
\* the client's cycles go on; close_port() for its semaphore, whether JACK
\* runs cycles or not.
CallsReturn ==
  \A o \in Objs :
    /\ phase[o] = "waiting for space" /\ o \notin shared ~> phase[o] = "open"
    /\ phase[o] = "waiting" ~> phase[o] = "released"
=============================================================================
