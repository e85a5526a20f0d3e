------------------------------- MODULE MCPorts -------------------------------
(* The ports of every back-end that has a module, one used at a time. The    *)
(* inputs that have a thread of their own: those of ALSA, each opened three  *)
(* times, and those of the network, opened twice under two names. The        *)
(* network has messages of four sizes, two packets in a call, one whose      *)
(* size the parser does not know, and what other programs may send. The keys *)
(* of a computer, two of which are an octave apart. The inputs that a        *)
(* service calls back, and the outputs, each opened twice, for one of two    *)
(* ports of other programs or for one of their own. The objects of Python;   *)
(* and two calls of the C interface, or of a constructor, on a build with    *)
(* the sequencer, the keyboard and raw I/O, where the sequencer comes and    *)
(* goes.                                                                     *)
EXTENDS AlsaInput, Integers, Sequences

CONSTANTS Protocols, Names, Sends, Foreign, MaxNetOpens, MaxArrivals,
  ScancodeMap, AutoRepeat, MaxPresses,
  OutBackends, Destinations, Messages, MaxOutOpens, MaxSends, MaxOthers,
  DeviceBuffer, ChunkSize, PacketSize, ListSize, Tells, Connects, Frees, Forgets,
  InBackends, Sources, Block, MaxInOpens, Waiting, FirstOnly, Served, Released,
  Wrappers, DirectReturns, MaxReports, MaxPyCalls, MaxDepth,
  Build1, Build2, Apis1, Apis2, Without, Asked, Ports, ComeAndGo, MayThrow, Silent, Refuses,
  MaxObjects, MaxNews

\* The back-ends of which the properties are said, and the services whose
\* disconnection waits for a callback that runs.
ASSUME ClaimsAssumption ==
  /\ Tells \subseteq {"seq", "raw", "ump", "winmm", "winuwp", "coremidi", "winmidi", "rawio"}
  /\ Forgets \subseteq {"raw", "ump", "winmm", "winuwp", "coremidi", "coremidi_ump", "kdmapi", "rawio"}
  /\ Frees \subseteq {"raw", "ump", "winuwp", "winmidi", "webmidi", "rawio"}
  /\ Connects \subseteq {"seq", "seq_ump", "raw", "ump", "winmm", "winuwp", "kdmapi", "webmidi"}
  /\ Served \subseteq {"coremidi", "coremidi_ump", "winuwp", "rawio"}
  /\ Released \subseteq {"winmidi", "winuwp", "rawio"}
  /\ InBackends \ Waiting \subseteq {"webmidi", "android"}
  /\ InBackends \cap {"winmidi", "android"} \subseteq FirstOnly
\* The names of what is none are not those of ports; and a port has one group,
\* as Windows MIDI Services listens to the first of a block only.
ASSUME PortsAssumption ==
  /\ Destinations \cap {"virtual", "none", "garbage"} = {} /\ Sources \cap {"virtual", "none"} = {}
  /\ \A d \in Sources : \E g \in Block[d] : g \in Nat /\ Block[d] = {g}

\* A message is a sequence of events or packets. A packet fits in a list.
ASSUME SendsAssumption ==
  /\ {DeviceBuffer, ChunkSize, PacketSize} \subseteq Nat \ {0} /\ ListSize \in Nat
  /\ Messages["midi1"] \subseteq Seq([kind : STRING, n : Nat])
  /\ Messages["ump"] \subseteq Seq([kind : STRING, n : 0..ListSize])

\* The APIs of either protocol, and the dummy at the end of both lists, which
\* is always there and does not throw. The names of what is none of them are not APIs.
ASSUME BuildAssumption ==
  /\ Build1 \in Seq(Apis1 \cup {"DUMMY"}) /\ (\E i \in DOMAIN Build1 : Build1[i] = "DUMMY")
  /\ Build2 \in Seq(Apis2 \cup {"DUMMY"}) /\ (\E i \in DOMAIN Build2 : Build2[i] = "DUMMY")
  /\ Apis1 \cap Apis2 = {}
  /\ (Apis1 \cup Apis2) \cap {"UNSPECIFIED", "unspecified", "null", "throws", "DUMMY"} = {}
  /\ "unspecified" \notin Asked
ASSUME SystemAssumption ==
  /\ ComeAndGo \subseteq {Build1[i] : i \in DOMAIN Build1} \cup {Build2[i] : i \in DOMAIN Build2}
  /\ "DUMMY" \notin ComeAndGo \cup MayThrow
ASSUME ObjectsAssumption == MaxObjects \in Nat

VARIABLE used   \* which of them
VARIABLES setup, out, inbox, arrivals, opened, m_portname, m_socket, openings, app, stopped, receives, queue, threads, last
netvars == <<setup, out, inbox, arrivals, opened, m_portname, m_socket, openings, app, stopped, receives, queue, threads, last>>
VARIABLES m_current_octave, m_current_velocity, m_current_notes_scancodes, held, presses, sounding
kbdvars == <<m_current_octave, m_current_velocity, m_current_notes_scancodes, held, presses, sounding>>
VARIABLES output, alive, client, client_open_, port_open_, asked, handle, virtual, destinationId, linked, requests,
  current, buffered, wire, filled, m_rc, others, abused, tries, said
outvars ==
  <<output, alive, client, client_open_, port_open_, asked, handle, virtual, destinationId, linked, requests,
    current, buffered, wire, filled, m_rc, others, abused, tries, said>>
VARIABLES input, waits, listening, m_group_filter, sharer, running, poll_thread, callback, delivered,
  in_alive, in_client, in_client_open, in_port_open, in_asked, in_handle, in_linked, in_requests, in_abused, in_tries
invars ==
  <<input, waits, listening, m_group_filter, sharer, running, poll_thread, callback, delivered,
    in_alive, in_client, in_client_open, in_port_open, in_asked, in_handle, in_linked, in_requests, in_abused, in_tries>>
VARIABLES wrapper, stack, gil, attached, reporter, poll_queue, reported, visited, raced, pycalls, lives
pyvars == <<wrapper, stack, gil, attached, reporter, poll_queue, reported, visited, raced, pycalls, lives>>
VARIABLES available, calling, handed, objects, known, answer, inside, news, terminated
cvars == <<available, calling, handed, objects, known, answer, inside, news, terminated>>

Net == INSTANCE NetPorts
Keyboard == INSTANCE KeyboardInput
Out == INSTANCE Outputs
In == INSTANCE ServiceInputs WITH
  alive <- in_alive, client <- in_client, client_open_ <- in_client_open, port_open_ <- in_port_open,
  asked <- in_asked, handle <- in_handle, linked <- in_linked, requests <- in_requests,
  abused <- in_abused, tries <- in_tries
Py == INSTANCE PyBindings
C == INSTANCE CInterface

\* Of the words in a datagram it is known which packet they are of. A datagram
\* of another program has whole packets (`sent`), and may end with the beginning
\* of one more or with one of no known size; by one that is not a message of
\* our type tags only, nothing is sent to us.
MidiMessages == [id : Nat, bytes : Nat, size : {1}]
UmpPackets == {p \in [id : Nat, words : Nat \ {0}, size : Nat] : p.size \in {0, p.words}}
UmpWords == [packet : UmpPackets, part : Nat]
WordsOf(ps) == Net!FlattenSeq([i \in DOMAIN ps |-> Net!Words(ps[i])])
IsOurs(d, protocol) == d.form = "message" /\ \A i \in DOMAIN d.tags : d.tags[i] = protocol
Carries(d, protocol) ==
  LET n == Len(WordsOf(d.sent))
  IN /\ ~IsOurs(d, protocol) => d.sent = <<>>
     /\ IsOurs(d, protocol) /\ protocol = "midi1" => d.sent = d.data \/ (d.sent = <<>> /\ Len(d.data) # Len(d.tags))
     /\ IsOurs(d, protocol) /\ protocol = "ump" =>
          /\ d.sent \in Seq(UmpPackets)
          /\ n <= Len(d.data) /\ SubSeq(d.data, 1, n) = WordsOf(d.sent)
          /\ n < Len(d.data) => d.data[n + 1].packet.size = 0 \/ n + d.data[n + 1].packet.size > Len(d.data)
IsDatagram(d, protocol) ==
  Len(d.tags) \in Nat /\ d.data \in Seq(IF protocol = "midi1" THEN MidiMessages ELSE UmpWords) /\ Carries(d, protocol)
ASSUME NetworkAssumption ==
  /\ Protocols \subseteq {"midi1", "ump"}
  /\ "midi1" \in Protocols => Sends["midi1"] \subseteq Seq(MidiMessages)
  /\ "ump" \in Protocols => Sends["ump"] \subseteq Seq(UmpPackets)
  /\ \A protocol \in Protocols : \A d \in Foreign[protocol] : IsDatagram(d, protocol)

M(i, n) == [id |-> i, bytes |-> n, size |-> 1]
P(i, n) == [id |-> i, words |-> n, size |-> n]
Word(p, i) == <<[packet |-> p, part |-> i]>>
Flex == [id |-> 9, words |-> 4, size |-> 0]
MCSends ==
  [midi1 |-> {<<M(1, 2)>>, <<M(2, 3)>>},
   ump |-> {<<P(1, 1)>>, <<Flex>>, <<P(5, 4), P(6, 2)>>}]

Datagram(tags, data, sent) == [form |-> "message", name |-> "x", tags |-> tags, data |-> data, sent |-> sent]
MCForeign ==
  [midi1 |-> {Datagram(<<"midi1", "midi1">>, <<M(5, 3), M(6, 3)>>, <<M(5, 3), M(6, 3)>>),
              Datagram(<<"midi1", "midi1">>, <<M(7, 3)>>, <<>>),
              Datagram(<<"i">>, <<M(7, 3)>>, <<>>),
              [Datagram(<<>>, <<>>, <<>>) EXCEPT !.form = "bundle"]},
   ump |-> {Datagram(<<"ump", "ump">>, Word(P(7, 1), 1) \o Word(P(8, 2), 1) \o Word(P(8, 2), 2), <<P(7, 1), P(8, 2)>>),
            Datagram(<<"ump", "ump">>, Word(P(7, 1), 1) \o Word(P(8, 2), 1), <<P(7, 1)>>),
            Datagram(<<"ump", "i">>, Word(P(7, 1), 1), <<>>)}]

Key(is, value) == [is |-> is, value |-> value]
MCScancodeMap ==
  [A |-> Key("note", 0), K |-> Key("note", 12), grave |-> Key("velocity", 0), Z |-> Key("octave_step", -1),
   X |-> Key("octave_step", 1), V |-> Key("velocity_step", 10)]

\* Events in bytes, with a system exclusive of two parts and one cut short;
\* packets in words, with one that the sequencer does not take.
Event(kind, n) == [kind |-> kind, n |-> n]
MCMessages ==
  [midi1 |-> {<<>>, <<Event("short", 3)>>, <<Event("sysex", 3), Event("sysex", 2)>>, <<Event("short", 3), Event("cut", 2)>>},
   ump |-> {<<Event("packet", 1)>>, <<Event("noop", 1)>>,
            <<Event("packet", 2), Event("noop", 1), Event("packet", 1), Event("packet", 2)>>}]

\* The keyboard has no output and no observer, raw I/O no observer. A
\* configuration that C makes has no keys and no transport.
MCBuild1 == <<"ALSA_SEQ", "KEYBOARD", "RAW_IO", "DUMMY">>
MCBuild2 == <<"ALSA_SEQ_UMP", "RAW_IO_UMP", "DUMMY">>
MCWithout == [in |-> {}, out |-> {"KEYBOARD"}, observer |-> {"KEYBOARD"}]

MCBlock == [d1 |-> {0}, d2 |-> {1}]

\* What is not used is in one of its initial states.
MCInit ==
  /\ used \in {"alsa", "net", "keyboard", "out", "in", "py", "c"}
  /\ Init /\ (used # "alsa" => backend = "seq")
  /\ Net!Init /\ (used # "net" => setup = [protocol |-> "midi1", owned |-> TRUE])
  /\ Keyboard!Init
  /\ Out!Init /\ (used # "out" => output.backend = "rawio")
  /\ In!Init /\ (used # "in" => input.backend = "rawio")
  /\ Py!Init /\ (used # "py" => wrapper = [is |-> "output", direct |-> FALSE, threaded |-> FALSE])
  /\ C!Init
MCNext ==
  /\ UNCHANGED used
  /\ \/ used = "alsa" /\ Next /\ UNCHANGED <<netvars, kbdvars, outvars, invars, pyvars, cvars>>
     \/ used = "net" /\ Net!Next /\ UNCHANGED <<vars, kbdvars, outvars, invars, pyvars, cvars>>
     \/ used = "keyboard" /\ Keyboard!Next /\ UNCHANGED <<vars, netvars, outvars, invars, pyvars, cvars>>
     \/ used = "out" /\ Out!Next /\ UNCHANGED <<vars, netvars, kbdvars, invars, pyvars, cvars>>
     \/ used = "in" /\ In!Next /\ UNCHANGED <<vars, netvars, kbdvars, outvars, pyvars, cvars>>
     \/ used = "py" /\ Py!Next /\ UNCHANGED <<vars, netvars, kbdvars, outvars, invars, cvars>>
     \/ used = "c" /\ C!Next /\ UNCHANGED <<vars, netvars, kbdvars, outvars, invars, pyvars>>
MCSpec ==
  /\ MCInit /\ [][MCNext]_<<used, vars, netvars, kbdvars, outvars, invars, pyvars, cvars>>
  /\ Fairness /\ Net!Fairness /\ Out!Fairness /\ In!Fairness /\ Py!Fairness

\* A port that was closed leaves no thread, no callback and no connection, and
\* nothing is released twice (AlsaInput, QuietAfterClose; NetPorts,
\* GoneIsQuiet; ServiceInputs and Outputs, QuietWhenClosed, ClosedIsGone and
\* ReleasesItsOwn).
ClosedIsQuiet ==
  /\ QuietAfterClose /\ Net!GoneIsQuiet
  /\ In!QuietWhenClosed /\ In!ReleasesItsOwn
  /\ Out!ClosedIsGone /\ Out!ReleasesItsOwn

\* A port that says it is open is served (AlsaInput, ListensWhileOpen;
\* ServiceInputs, OpenMeansListening; Outputs, OpenMeansConnected), and a handle
\* of C that was given with 0 is of such an object, of the API that was asked
\* for (CInterface, HandlesAreTrue, InputFindsItself, GetsWhatWasAsked).
OpenIsServed ==
  /\ ListensWhileOpen /\ In!OpenMeansListening /\ Out!OpenMeansConnected
  /\ C!HandlesAreTrue /\ C!InputFindsItself /\ C!GetsWhatWasAsked

\* An input hears what was done: of the network what was sent (NetPorts,
\* HearsWhatWasSent), of a keyboard what is held (KeyboardInput, NothingHangs),
\* of a service what is for its port (ServiceInputs, HearsItsPort). Python hears
\* what was reported (PyBindings, VisitsReports), and who asks for packets or
\* messages hears packets or messages (CInterface, SpeaksTheProtocol).
HearsWhatWasDone ==
  /\ Net!HearsWhatWasSent /\ Keyboard!NothingHangs /\ In!HearsItsPort
  /\ Py!VisitsReports /\ C!SpeaksTheProtocol

\* An output says what became of a message, which nobody else gets, and does
\* not block in the middle of it (Outputs, SaysWhatHappened, NeverMisdelivered,
\* ChunksFit).
SendsWhatItSays == Out!SaysWhatHappened /\ Out!NeverMisdelivered /\ Out!ChunksFit

\* ... and notes only (KeyboardInput, IsNote).
KeysAreNotes == Keyboard!IsNote

\* ... and an exception stays where it was thrown (CInterface, NothingEscapes;
\* PyBindings, PythonGoesOn), and a search finds what works (CInterface,
\* SearchFindsWhatWorks).
ThrowsNothing == C!NothingEscapes
FindsWhatWorks == C!SearchFindsWhatWorks
PythonGoesOn == Py!PythonGoesOn

\* What the application calls returns (AlsaInput, CloseReturns; NetPorts,
\* DestroyReturns; Outputs, SendReturns; ServiceInputs, JoinReturns;
\* PyBindings, PyReturns, in one formula as one of them is used), and an input of the network goes on to
\* listen (NetPorts, Listens).
CallWaits ==
  CASE used = "alsa" -> CloseWaits [] used = "net" -> Net!DestroyWaits [] used = "out" -> Out!SendWaits
    [] used = "in" -> In!JoinWaits [] used = "py" -> Py!PyWaits [] OTHER -> FALSE
CallReturned ==
  CASE used = "alsa" -> CloseReturned [] used = "net" -> Net!DestroyReturned [] used = "py" -> Py!PyReturned [] OTHER -> ~CallWaits
PortsReturn == (CallWaits ~> CallReturned) /\ Net!Listens
=============================================================================
