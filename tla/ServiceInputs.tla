---------------------------- MODULE ServiceInputs ----------------------------
(***************************************************************************)
(* The inputs that a service calls back, behind midi_in: those of CoreMIDI, *)
(* Windows MIDI Services, WinUWP, WebMIDI and raw I/O, and that of Android,  *)
(* whose thread is started when Java has opened the device. They are opened, *)
(* closed, opened again and destroyed while the service has messages.       *)
(*                                                                          *)
(* External: the services, which call back for what is connected, Java,     *)
(* which answers an opening later, and another input of a WebMIDI port.     *)
(***************************************************************************)
EXTENDS Integers, Sequences

CONSTANTS
  InBackends,
  Sources,        \* the ports of other programs
  Block,          \* the groups of each, of which the first is the least
  MaxInOpens,     \* bound
  Waiting,        \* the services whose disconnection waits for a callback that runs
  FirstOnly,      \* the back-ends of which HearsItsPort is said of the first opening
  Served, Released \* the back-ends of which those properties are said

Virtual == "virtual"
None == "none"
NoFilter == -1

VARIABLES
  input,          \* the back-end, and its configuration
  alive, client, client_open_, port_open_,
  asked,          \* what the application opened last
  waits,          \* the calling thread: "idle", or where it waits for poll_thread
  handle,         \* port or endpoint, port_, m_endpoint, m_portNumber, midi_output_port
  listening,      \* what the service calls back for
  m_group_filter,
  sharer,         \* WebMIDI: the port of another input
  linked,         \* raw I/O: the functions are there; Android: port_open
  running, poll_thread, requests,   \* of Android
  callback,       \* the callback that runs, its message
  delivered,      \* history: whether the last message was for the port, and was heard
  abused,         \* something was used that was not there, or std::terminate()
  tries

object == <<input, alive, client, client_open_>>
native == <<handle, listening, m_group_filter, linked>>
android == <<running, poll_thread, requests>>
heard == <<callback, delivered>>
invars == <<object, port_open_, asked, waits, native, sharer, android, heard, abused, tries>>

Is(names) == input.backend \in names
CoreMidi == {"coremidi", "coremidi_ump"}
First(d) == CHOOSE g \in Block[d] : \A h \in Block[d] : g <= h

Init ==
  /\ input \in [backend : InBackends, given : BOOLEAN]
  /\ input.given => Is(CoreMidi)
  /\ client \in IF Is(CoreMidi) /\ ~input.given THEN BOOLEAN ELSE {TRUE}
  /\ client_open_ \in IF Is({"android"}) THEN BOOLEAN ELSE {client}
  /\ alive = TRUE /\ port_open_ = FALSE /\ asked = None /\ waits = "idle"
  /\ handle = None /\ listening = None
  /\ m_group_filter = NoFilter /\ linked = Is({"rawio"})
  /\ sharer = None
  /\ running = FALSE /\ poll_thread = "none" /\ requests = <<>>
  /\ callback = None /\ delivered = [meant |-> TRUE, heard |-> TRUE] /\ abused = FALSE /\ tries = 0

\* WebMIDI has one thread for all.
Idle == alive /\ waits = "idle" /\ (Is({"webmidi"}) => callback = None)

-----------------------------------------------------------------------------
(* Opening. ret is what the back-end returns to midi_in.                    *)

\* Mutated form of CoreMidiOpen: nobody asks whether the port is connected.
CoreMidiOpenUnread(d, ret) ==
  /\ Is(CoreMidi)
  /\ handle' = (IF ret THEN d ELSE None) /\ listening' \in {handle', None}
  /\ UNCHANGED <<client, client_open_, m_group_filter, linked, android>>

\* A port that cannot be created or connected takes the client with it.
CoreMidiOpen(d, ret) ==
  /\ Is(CoreMidi)
  /\ \/ ret /\ handle' = d /\ listening' = d /\ UNCHANGED <<client, client_open_>>
     \/ ~ret /\ UNCHANGED <<handle, listening, client, client_open_>>
     \/ ~ret /\ client_open_' = FALSE /\ client' = input.given /\ UNCHANGED <<handle, listening>>
  /\ UNCHANGED <<m_group_filter, linked, android>>

CoreMidiOpenVirtual(ret) ==
  /\ Is(CoreMidi)
  /\ handle' = (IF ret THEN Virtual ELSE None) /\ listening' = handle'
  /\ UNCHANGED <<client, client_open_, m_group_filter, linked, android>>

WinuwpOpen(d, ret) ==
  /\ Is({"winuwp"})
  /\ handle' = (IF ret THEN d ELSE None) /\ listening' = handle'
  /\ UNCHANGED <<client, client_open_, m_group_filter, linked, android>>

\* The device is not found; or it is, and the filter set, before there is a
\* connection. Nobody asks whether Open() succeeded; it may also throw.
WinmidiOpen(d, ret) ==
  /\ Is({"winmidi"})
  /\ \/ ~ret /\ UNCHANGED <<handle, m_group_filter, listening>>
     \/ /\ m_group_filter' = First(d)
        /\ handle' \in IF ret THEN {d} ELSE {None, d}
        /\ listening' \in IF ret THEN {d, None} ELSE {None}
  /\ UNCHANGED <<client, client_open_, linked, android>>

WinmidiOpenVirtual(ret) ==
  /\ Is({"winmidi"})
  /\ handle' \in IF ret THEN {Virtual} ELSE {handle, None, Virtual}
  /\ listening' \in IF ret THEN {Virtual, None} ELSE {None}
  /\ UNCHANGED <<client, client_open_, m_group_filter, linked, android>>

\* open_input(): the first input of a port starts its stream.
WebmidiOpen(d, ret) ==
  /\ Is({"webmidi"})
  /\ handle' = (IF ret THEN d ELSE handle) /\ listening' = IF ret THEN d ELSE None
  /\ UNCHANGED <<client, client_open_, m_group_filter, linked, android>>

\* open_device() asks Java, if it finds what it needs.
OpenDevice(d) == requests' \in {requests, Append(requests, d)}

\* It says yes when it fails, and before it is open.
AndroidOpen(d, ret) ==
  /\ Is({"android"}) /\ ret
  /\ \/ UNCHANGED <<linked, android>>
     \/ /\ linked' = TRUE /\ running' = TRUE /\ OpenDevice(d)
        /\ UNCHANGED poll_thread
  /\ UNCHANGED <<client, client_open_, handle, listening, m_group_filter>>

\* Without its functions, after a close, it says no.
RawioOpen(d, ret) ==
  /\ Is({"rawio"}) /\ ret = linked
  /\ handle' = (IF ret THEN d ELSE None) /\ listening' = handle'
  /\ UNCHANGED <<client, client_open_, m_group_filter, linked, android>>

\* midi_in::open_port()
InOpenPort(d) ==
  /\ Idle /\ client_open_ /\ ~port_open_ /\ tries < MaxInOpens
  /\ tries' = tries + 1 /\ asked' = d
  /\ \E ret \in BOOLEAN :
       /\ port_open_' = ret
       /\ \/ CoreMidiOpen(d, ret) \/ WinuwpOpen(d, ret) \/ WinmidiOpen(d, ret)
          \/ WebmidiOpen(d, ret) \/ AndroidOpen(d, ret) \/ RawioOpen(d, ret)
  /\ UNCHANGED <<input, alive, waits, sharer, heard, abused>>

\* midi_in::open_virtual_port()
InOpenVirtual ==
  /\ Idle /\ client_open_ /\ ~port_open_ /\ tries < MaxInOpens
  /\ tries' = tries + 1 /\ asked' = Virtual
  /\ \E ret \in BOOLEAN :
       /\ port_open_' = ret
       /\ \/ CoreMidiOpenVirtual(ret) \/ WinmidiOpenVirtual(ret) \/ RawioOpen(Virtual, ret)
  /\ UNCHANGED <<input, alive, waits, sharer, heard, abused>>

\* onDeviceOpened(), open_callback() and start_midi_thread(): on a thread of
\* Java, for an object that may be closed, opened again, or destroyed. A
\* thread assigned over one that was not joined is std::terminate(). Or there
\* is no device.
DeviceOpened ==
  /\ requests # <<>> /\ requests' = Tail(requests)
  /\ \/ /\ alive /\ handle' \in {Head(requests), None} /\ listening' = handle'
        /\ poll_thread' = "runs" /\ abused' = (abused \/ poll_thread # "none")
     \/ ~alive /\ abused' = TRUE /\ UNCHANGED <<handle, listening, poll_thread>>
     \/ UNCHANGED <<handle, listening, poll_thread, abused>>
  /\ UNCHANGED <<object, port_open_, asked, waits, m_group_filter, linked, sharer, running, heard, tries>>

-----------------------------------------------------------------------------
(* Closing and destroying.                                                  *)

\* The disconnection of a service in Waiting returns after the callbacks that
\* run: an assumption about these services, which the code has no part in.
Quiet == Is(Waiting) => callback = None

CloseCoreMidi ==
  /\ Is(CoreMidi) /\ Quiet
  /\ handle' = None /\ listening' = None
  /\ UNCHANGED <<linked, abused>>
CloseWinuwp ==
  /\ Is({"winuwp"}) /\ Quiet
  /\ handle' = None /\ listening' = None
  /\ UNCHANGED <<linked, abused>>
CloseWinmidi ==
  /\ Is({"winmidi"}) /\ Quiet
  /\ listening' = None
  /\ UNCHANGED <<handle, linked, abused>>
\* close_input(): the last input of a port stops its stream, which throws; the
\* port is 0 before the first opening.
CloseWebmidi ==
  /\ Is({"webmidi"})
  /\ listening' = None /\ abused' = (abused \/ sharer = None \/ sharer # handle)
  /\ UNCHANGED <<handle, linked>>
CloseRawio ==
  /\ Is({"rawio"}) /\ Quiet
  /\ handle' = None /\ listening' = None /\ linked' = FALSE
  /\ UNCHANGED abused
CloseAndroid ==
  /\ Is({"android"})
  /\ IF linked THEN handle' = None /\ listening' = None ELSE UNCHANGED <<handle, listening>>
  /\ linked' = FALSE
  /\ UNCHANGED abused

CloseNative == CloseCoreMidi \/ CloseWinuwp \/ CloseWinmidi \/ CloseWebmidi \/ CloseRawio \/ CloseAndroid

\* midi_in::close_port(): what throws leaves the flag.
InClosePort ==
  /\ Idle /\ client_open_ /\ port_open_ /\ (Is({"android"}) /\ linked => poll_thread = "none")
  /\ CloseNative
  /\ running' = (running /\ ~linked)
  /\ port_open_' = abused'
  /\ UNCHANGED <<object, asked, waits, m_group_filter, sharer, poll_thread, requests, heard, tries>>

\* Android: running is cleared and the thread, if there is one, joined.
AskThread(to) ==
  /\ Is({"android"}) /\ linked /\ poll_thread # "none" /\ waits = "idle" /\ alive
  /\ running' = FALSE /\ waits' = to
  /\ UNCHANGED <<object, port_open_, asked, native, sharer, poll_thread, requests, heard, abused, tries>>
AskThreadToClose == port_open_ /\ client_open_ /\ AskThread("close")
AskThreadToDestroy == AskThread("destroy")

JoinThread ==
  /\ waits # "idle" /\ poll_thread = "ended" /\ poll_thread' = "none"
  /\ CloseAndroid
  /\ port_open_' = FALSE /\ waits' = "idle" /\ alive' = (waits = "close")
  /\ UNCHANGED <<input, client, client_open_, asked, m_group_filter, sharer, running, requests, heard, tries>>

\* The destructor. A thread that was not joined is std::terminate().
InDestroy ==
  /\ Idle /\ alive' = FALSE /\ port_open_' = FALSE /\ client_open_' = FALSE
  /\ Is({"android"}) /\ linked => poll_thread = "none"
  /\ running' = (running /\ ~linked)
  /\ \/ ~Is(CoreMidi \cup {"android"}) /\ CloseNative /\ UNCHANGED client
     \/ /\ Is({"android"})
        /\ handle' = (IF linked THEN None ELSE handle) /\ listening' = None /\ linked' = FALSE
        /\ abused' = (abused \/ poll_thread # "none")
        /\ UNCHANGED client
     \/ /\ Is(CoreMidi) /\ Quiet
        /\ handle' = None /\ listening' = None
        /\ client' = input.given /\ abused' = (abused \/ (~client /\ ~input.given /\ tries > 0))
        /\ UNCHANGED linked
  /\ UNCHANGED <<input, asked, waits, m_group_filter, sharer, poll_thread, requests, heard, tries>>

\* Another input of WebMIDI opens a port, or closes it, which may throw too.
SharerOpens(d) ==
  /\ Is({"webmidi"}) /\ callback = None /\ sharer = None /\ sharer' = d
  /\ UNCHANGED <<object, port_open_, asked, waits, native, android, heard, abused, tries>>
SharerCloses ==
  /\ sharer # None /\ callback = None /\ sharer' = None
  /\ UNCHANGED <<object, port_open_, asked, waits, native, android, heard, abused, tries>>

-----------------------------------------------------------------------------
(* The service calls back; the thread of Android polls.                     *)

\* process_message(): what is not of the group is dropped. A message is for a
\* port if it is of its block, or if the port is ours.
Hear(group) ==
  LET ours == listening = Virtual \/ group \in Block[listening]
      passes == m_group_filter = NoFilter \/ group = m_group_filter
  IN  /\ callback' = "runs"
      /\ delivered' = [meant |-> listening = asked /\ (ours \/ ~Is({"winmidi"})), heard |-> passes]
      /\ UNCHANGED <<object, port_open_, asked, waits, native, sharer, android, abused, tries>>

CallBack(group) == listening # None /\ callback = None /\ ~Is({"android"}) /\ Hear(group)

\* poll_midi(): sees running, then receives.
PollMidi(group) ==
  poll_thread = "runs" /\ running /\ listening # None /\ callback = None /\ Hear(group)

UserReturns ==
  /\ callback # None /\ callback' = None
  /\ UNCHANGED <<object, port_open_, asked, waits, native, sharer, android, delivered, abused, tries>>

ThreadEnds ==
  /\ poll_thread = "runs" /\ ~running /\ callback = None
  /\ poll_thread' = "ended"
  /\ UNCHANGED <<object, port_open_, asked, waits, native, sharer, running, requests, heard, abused, tries>>

Next ==
  \/ \E d \in Sources : InOpenPort(d) \/ SharerOpens(d)
  \/ \E g \in UNION {Block[d] : d \in Sources} : CallBack(g) \/ PollMidi(g)
  \/ InOpenVirtual \/ DeviceOpened \/ InClosePort \/ AskThreadToClose \/ AskThreadToDestroy
  \/ JoinThread \/ InDestroy \/ SharerCloses \/ UserReturns \/ ThreadEnds

\* The callback returns, the thread of Android looks at running, the caller goes on.
Fairness == WF_invars(UserReturns) /\ WF_invars(ThreadEnds) /\ WF_invars(JoinThread)

-----------------------------------------------------------------------------
\* No callback runs in an object that is gone, nor after its close_port().
QuietWhenClosed == ~alive \/ ~port_open_ => callback = None

\* The service calls back an input that says it is open, and no other.
OpenMeansListening ==
  Is(Served) /\ alive => listening = IF port_open_ THEN asked ELSE None

\* What comes for the port that was asked for is heard, and nothing else.
HearsItsPort == (Is(FirstOnly) /\ tries > 1) \/ delivered.heard = delivered.meant

\* Nothing is released or called that is not there.
ReleasesItsOwn == Is(Released) => ~abused

InputHonest == QuietWhenClosed /\ OpenMeansListening /\ HearsItsPort /\ ReleasesItsOwn

\* A close or a destructor that waits for the thread returns.
JoinWaits == waits # "idle"
JoinReturns == JoinWaits ~> ~JoinWaits
=============================================================================
