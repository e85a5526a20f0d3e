------------------------------ MODULE Hotplug -------------------------------
(* The observers that follow hotplug behind ALSA (sequencer with a thread    *)
(* of its own, sequencer through the shared handler of midi1::client, raw),  *)
(* JACK and WinMM. The first three and JACK list the ports, then listen; raw *)
(* lists again some times after each event of udev, WinMM for ever.          *)
(*                                                                           *)
(* External: the system's ports. The system announces a change in the step   *)
(* that makes it, and the announcement is read any time later: the delay of  *)
(* poll_period is one of those times. A port is a number, its address: ALSA  *)
(* lists by address, WinMM by the position that a port has at that moment.   *)
(* Input and output ports are followed in the same way, one kind is here.    *)
EXTENDS Integers, Sequences

CONSTANTS
  Backends,    \* the observers considered, of "seq", "shared", "raw", "jack", "winmm"
  PortCount,   \* ports are 1..PortCount
  Rechecks,    \* raw: m_timer_check_counts after an event, 100 in the code
  MaxMoves     \* bound: ports that appear or vanish

VARIABLES
  backend,
  devices,   \* the ports that exist, in the order of WinMM
  moves,
  news,      \* announcements of the system that we did not read yet
  phase,     \* of the observer, from its constructor to its destructor
  at,        \* where the constructor, and later the thread, is
  cursor,    \* the next port of an enumeration
  last,      \* ... and the end of it
  found,     \* what the enumeration has found
  adding,    \* callbacks that are due after a comparison
  removing,
  known,     \* m_knownClients, seen_input_ports, m_current_inputs, inputPortList
  callbacks, \* callbacks[p]: added callbacks less removed ones
  checks,    \* raw: checks until the timer is cancelled
  raced      \* history: ports that a documented race may get wrong

system_vars == <<devices, moves, news, raced>>
list_vars == <<cursor, last, found, adding, removing>>
user_vars == <<known, callbacks>>
vars == <<backend, system_vars, phase, at, list_vars, user_vars, checks>>

Ports == 1..PortCount
Ghost == 0  \* the name WinMM gives for a device that is gone
Names == Ports \cup {Ghost}
Kinds == {"start", "exit"}
Elements(s) == {s[i] : i \in DOMAIN s}
Present == Elements(devices)
\* The elements of s that are in P, in their order.
Kept(s, P) ==
  LET kept[i \in 0..Len(s)] ==
        IF i = 0 THEN <<>> ELSE IF s[i] \in P THEN Append(kept[i - 1], s[i]) ELSE kept[i - 1]
  IN kept[Len(s)]
Without(s, p) == Kept(s, Names \ {p})

\* These observers learn of a port only from its announcement once they listed.
\* What JACK tells between set_callbacks() and jack_activate() counts as queued.
ByEvent == backend \in {"seq", "shared", "jack"}
Listens == backend = "raw" \/ (ByEvent /\ phase \in {"start", "running", "stopping"})

TypeOK ==
  /\ backend \in Backends
  /\ devices \in Seq(Ports) /\ moves \in 0..MaxMoves
  /\ news \in Seq([kind : Kinds, port : Ports])
  /\ phase \in {"list", "listen", "start", "running", "stopping", "gone"}
  /\ at \in {"enumerate", "visit", "notify", "poll", "ended"}
  /\ cursor \in Nat /\ last \in Nat
  /\ found \in Seq(Names) /\ adding \in Seq(Names) /\ removing \in Seq(Names) /\ known \in Seq(Names)
  /\ callbacks \in [Names -> Nat]
  /\ checks \in 0..Rechecks + 1 /\ raced \subseteq Names

Init ==
  /\ backend \in Backends
  /\ devices \in {<<>>, <<1>>} /\ moves = 0 /\ news = <<>>
  /\ phase = "list" /\ at = "enumerate"
  /\ cursor = 1 /\ last = 0 /\ found = <<>> /\ adding = <<>> /\ removing = <<>>
  /\ known = <<>> /\ callbacks = [p \in Names |-> 0] /\ checks = 0 /\ raced = {}

-----------------------------------------------------------------------------
(* The system.                                                              *)

\* The constructor looked at p and does not listen yet.
Overlooked(p) ==
  /\ ByEvent
  /\ phase = "listen" \/ (phase = "list" /\ at = "visit" /\ (backend = "jack" \/ p < cursor))

Change(kind, p) ==
  /\ moves < MaxMoves
  /\ moves' = moves + 1
  /\ news' = IF Listens THEN Append(news, [kind |-> kind, port |-> p]) ELSE news
  /\ raced' = IF Overlooked(p) THEN raced \cup {p} ELSE raced
  /\ UNCHANGED <<backend, phase, at, list_vars, user_vars, checks>>

Appear(p) == p \notin Present /\ devices' = Append(devices, p) /\ Change("start", p)

Vanish(p) == p \in Present /\ devices' = Without(devices, p) /\ Change("exit", p)

-----------------------------------------------------------------------------
(* Enumerations. The user is taken to know the ports that the constructor   *)
(* lists, whether notify_in_constructor is set or get_input_ports() is used. *)

Register(p) ==
  /\ known' = IF p \in Elements(known) THEN known ELSE Append(known, p)
  /\ callbacks' = [callbacks EXCEPT ![p] = @ + 1]

\* JACK gives all names in one call, WinMM the number of its devices.
Enumerate ==
  /\ at = "enumerate"
  /\ at' = "visit" /\ cursor' = 1
  /\ last' = IF backend \in {"jack", "winmm"} THEN Len(devices) ELSE PortCount
  /\ found' = IF backend = "jack" THEN devices ELSE <<>>
  /\ UNCHANGED <<backend, system_vars, phase, adding, removing, user_vars, checks>>

Visiting == at = "visit" /\ cursor <= last /\ cursor' = cursor + 1

\* register_port() looks the port up again; JACK takes the name it was given.
VisitPort ==
  /\ ByEvent /\ Visiting
  /\ IF backend = "jack" THEN Register(found[cursor])
     ELSE IF cursor \in Present THEN Register(cursor) ELSE UNCHANGED user_vars
  /\ UNCHANGED <<backend, system_vars, phase, at, last, found, adding, removing, checks>>

VisitCard ==
  /\ backend = "raw" /\ Visiting
  /\ found' = IF cursor \in Present THEN Append(found, cursor) ELSE found
  /\ UNCHANGED <<backend, system_vars, phase, at, last, adding, removing, user_vars, checks>>

\* midiInGetDevCaps() fails for a position that is gone, which is not looked
\* at: the name is what was in memory. A port that is found at two positions
\* will be added twice.
VisitIndex ==
  /\ backend = "winmm" /\ Visiting
  /\ \E name \in Names :
       /\ cursor <= Len(devices) => name = devices[cursor]
       /\ found' = Append(found, name)
       /\ raced' = IF name \in Elements(found) THEN raced \cup {name} ELSE raced
  /\ UNCHANGED <<backend, devices, moves, news, phase, at, last, adding, removing, user_vars, checks>>

Visited == at = "visit" /\ cursor > last

Listed ==
  /\ ByEvent /\ Visited /\ phase = "list"
  /\ phase' = "listen"
  /\ UNCHANGED <<backend, system_vars, at, list_vars, user_vars, checks>>

\* check_devices(), compare_port_lists_and_notify_clients().
Compare ==
  /\ ~ByEvent /\ Visited
  /\ at' = "notify"
  /\ adding' = Kept(found, Names \ Elements(known))
  /\ removing' = Kept(known, Names \ Elements(found))
  /\ UNCHANGED <<backend, system_vars, phase, cursor, last, found, user_vars, checks>>

Add ==
  /\ at = "notify" /\ adding # <<>>
  /\ backend = "raw" => removing = <<>>
  /\ callbacks' = [callbacks EXCEPT ![Head(adding)] = @ + 1]
  /\ adding' = Tail(adding)
  /\ UNCHANGED <<backend, system_vars, phase, at, cursor, last, found, removing, known, checks>>

Remove ==
  /\ at = "notify" /\ removing # <<>>
  /\ backend = "winmm" => adding = <<>>
  /\ callbacks' = [callbacks EXCEPT ![Head(removing)] = @ - 1]
  /\ removing' = Tail(removing)
  /\ UNCHANGED <<backend, system_vars, phase, at, cursor, last, found, adding, known, checks>>

Adopt ==
  /\ at = "notify" /\ adding = <<>> /\ removing = <<>> /\ phase # "start"
  /\ known' = found
  /\ IF phase = "list" THEN phase' = "start" /\ UNCHANGED at ELSE at' = "poll" /\ UNCHANGED phase
  /\ UNCHANGED <<backend, system_vars, list_vars, callbacks, checks>>

-----------------------------------------------------------------------------
(* The rest of the constructor, and the destructor.                         *)

\* connect_from(), set_port_registration_callback().
Listen ==
  /\ phase = "listen"
  /\ phase' = "start"
  /\ UNCHANGED <<backend, system_vars, at, list_vars, user_vars, checks>>

\* The thread of the observer, of JACK or of the handler: client pushes the
\* callback of its observer before start_processing(), whose thread takes it
\* from the queue before it reads the first event.
Start ==
  /\ phase = "start"
  /\ phase' = "running" /\ at' = "poll"
  /\ UNCHANGED <<backend, system_vars, list_vars, user_vars, checks>>

\* The destructor, or the one of client, tells the thread to end and waits.
Destroy ==
  /\ phase = "running"
  /\ phase' = "stopping"
  /\ UNCHANGED <<backend, system_vars, at, list_vars, user_vars, checks>>

End ==
  /\ at = "poll" /\ phase = "stopping"
  /\ at' = "ended"
  /\ UNCHANGED <<backend, system_vars, phase, list_vars, user_vars, checks>>

Join ==
  /\ phase = "stopping" /\ at = "ended"
  /\ phase' = "gone"
  /\ UNCHANGED <<backend, system_vars, at, list_vars, user_vars, checks>>

-----------------------------------------------------------------------------
(* The thread.                                                              *)

\* A callback for a port that is not known is not made.
Unregister(p) ==
  IF p \in Elements(known)
  THEN known' = Without(known, p) /\ callbacks' = [callbacks EXCEPT ![p] = @ - 1]
  ELSE UNCHANGED user_vars

News(kind) == at = "poll" /\ news # <<>> /\ Head(news).kind = kind /\ news' = Tail(news)

\* PORT_START: the port is looked up, and may be gone, or be another one by
\* now. JACK's notification is about a port it still knows.
PortStart ==
  /\ ByEvent /\ News("start")
  /\ IF backend = "jack" \/ Head(news).port \in Present
     THEN Register(Head(news).port) ELSE UNCHANGED user_vars
  /\ UNCHANGED <<backend, devices, moves, raced, phase, at, list_vars, checks>>

\* Mutated form of PortExit: an exit is not believed while there is a port.
PortExitChecked ==
  /\ ByEvent /\ News("exit")
  /\ IF Head(news).port \in Present THEN UNCHANGED user_vars ELSE Unregister(Head(news).port)
  /\ UNCHANGED <<backend, devices, moves, raced, phase, at, list_vars, checks>>

PortExit ==
  /\ ByEvent /\ News("exit")
  /\ Unregister(Head(news).port)
  /\ UNCHANGED <<backend, devices, moves, raced, phase, at, list_vars, checks>>

\* run(): an event restarts the timer.
OnUdev ==
  /\ backend = "raw" /\ at = "poll" /\ news # <<>>
  /\ news' = Tail(news) /\ checks' = Rechecks + 1
  /\ UNCHANGED <<backend, devices, moves, raced, phase, at, list_vars, user_vars>>

\* Nobody reads the timer: it expires at each poll until it is cancelled.
OnTimer ==
  /\ backend = "raw" /\ at = "poll" /\ checks > 0 /\ phase = "running"
  /\ checks' = checks - 1
  /\ at' = "enumerate"
  /\ UNCHANGED <<backend, system_vars, phase, list_vars, user_vars>>

Again ==
  /\ backend = "winmm" /\ at = "poll" /\ phase = "running"
  /\ at' = "enumerate"
  /\ UNCHANGED <<backend, system_vars, phase, list_vars, user_vars, checks>>

-----------------------------------------------------------------------------

System == \E p \in Ports : Appear(p) \/ Vanish(p)
Listing == Enumerate \/ VisitPort \/ VisitCard \/ VisitIndex \/ Listed \/ Compare \/ Add \/ Remove \/ Adopt
Constructing == Listen \/ Start
Reading == PortStart \/ PortExit \/ OnUdev \/ OnTimer \/ Again
Ending == End \/ Join

Next == System \/ Listing \/ Constructing \/ Destroy \/ Reading \/ Ending

Spec == Init /\ [][Next]_vars

\* The threads run; the thread of WinMM sees the stop although it could go on.
Fairness == WF_vars(Listing) /\ WF_vars(Constructing) /\ WF_vars(Reading) /\ WF_vars(Ending)

FairSpec == Spec /\ Fairness

-----------------------------------------------------------------------------

\* But for the races, each port's callbacks alternate, added first: however the
\* system's announcements, and what the observer looks up when it gets to
\* them, are apart in time. This is what PortDirectory promises.
Heard == [p \in Names |-> IF p \in raced THEN 0 ELSE callbacks[p]]
Directory == INSTANCE PortDirectory WITH Ports <- Names, count <- Heard

\* ... and once the system is quiet the user comes to know exactly the ports
\* that exist, until the observer is destroyed.
Agree == \A p \in Names \ raced : (callbacks[p] > 0) = (p \in Present)
Converges == <>[](phase \in {"stopping", "gone"} \/ Agree)

\* The destructor returns, whatever the thread was doing.
DestroyReturns == phase = "stopping" ~> phase = "gone"
=============================================================================
