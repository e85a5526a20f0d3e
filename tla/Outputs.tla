------------------------------- MODULE Outputs -------------------------------
(***************************************************************************)
(* The outputs that hand what they send to a service on the thread of the   *)
(* caller, behind midi_out: those of ALSA, WinMM, WinUWP, Windows MIDI       *)
(* Services, CoreMIDI, KDMAPI, WebMIDI, Android and raw I/O. An object is    *)
(* opened, sends, is closed, and may be opened again; it is destroyed at any *)
(* time between two calls. A send is a loop of native calls, each of which   *)
(* the service may refuse.                                                   *)
(*                                                                          *)
(* External: the services. They take a write or refuse it, the device of    *)
(* ALSA plays what its buffer has, Android answers an opening later, other   *)
(* outputs of the process share the stream of KDMAPI.                        *)
(***************************************************************************)
EXTENDS Integers, SequencesExt

CONSTANTS
  OutBackends,
  Destinations,  \* the ports of other programs
  Messages,      \* by kind of back-end: what a send may be given, events or packets
  MaxOutOpens, MaxSends, MaxOthers,   \* bounds
  DeviceBuffer, ChunkSize,            \* of raw MIDI: in bytes
  PacketSize, ListSize,               \* of CoreMIDI: in bytes, in words
  Tells, Connects, Frees, Forgets     \* the back-ends of which each property is said

Virtual == "virtual"
None == "none"
Garbage == "garbage"

VARIABLES
  output,      \* the back-end, and its configuration
  alive, client, client_open_, port_open_,
  asked,       \* what the application opened last
  handle,      \* what stands for a connection: subscription, midiport_, outHandle, port, port_, m_endpoint ...
  virtual,     \* there is a port of our own: vport, endpoint, m_virtual
  destinationId,
  linked,      \* the service has the connection
  requests,    \* openings that Android has not answered
  current,     \* the send that runs: how far it is, and the bytes or words left
  buffered,    \* events in the buffer of the sequencer library
  wire,        \* what the services took
  filled,      \* bytes that the device has to play
  m_rc, others,   \* of KDMAPI: the count, and who else counts
  abused,      \* something was used that was not there
  tries, said  \* history: what each send was and returned

object == <<output, alive, client, client_open_, port_open_>>
native == <<handle, virtual, destinationId, linked>>
service == <<requests, m_rc, others, abused>>
sending == <<current, buffered, wire, filled, said>>
outvars == <<object, asked, native, service, sending, tries>>

Is(names) == output.backend \in names
Seq_ == {"seq", "seq_ump"}
Raw == {"raw", "ump"}
CoreMidi == {"coremidi", "coremidi_ump"}
Ump == {"seq_ump", "ump", "coremidi_ump", "winmidi"}

Nothing == [at |-> "idle", message |-> <<>>, left |-> <<>>, first |-> TRUE]

\* A constructor may fail: to create the client, or, of the sequencer, the
\* coder after it.
Init ==
  /\ output \in [backend : OutBackends, chunked : BOOLEAN, given : BOOLEAN]
  /\ output.chunked => Is({"raw"})
  /\ output.given => Is(Seq_ \cup CoreMidi)
  /\ client \in IF Is(Seq_ \cup CoreMidi) /\ ~output.given THEN BOOLEAN ELSE {TRUE}
  /\ client_open_ \in IF Is({"seq", "kdmapi", "android"}) THEN {FALSE, client} ELSE {client}
  /\ alive = TRUE /\ port_open_ = FALSE /\ asked = None
  /\ handle = IF Is({"winmm"}) THEN Garbage ELSE None
  /\ virtual = FALSE /\ destinationId = None /\ linked = Is({"rawio"})
  /\ requests = <<>> /\ m_rc = 0 /\ others = 0 /\ abused = FALSE
  /\ current = Nothing /\ buffered = <<>> /\ wire = <<>> /\ filled = 0 /\ said = <<>> /\ tries = 0

Idle == alive /\ current.at = "idle"

-----------------------------------------------------------------------------
(* Opening. ret is what the back-end returns to midi_out.                   *)

\* The port of the sequencer stays, whatever fails after create_port().
SeqOpen(d, ret) ==
  /\ Is(Seq_)
  /\ virtual' \in IF virtual \/ ret THEN {TRUE} ELSE BOOLEAN
  /\ handle' = IF ret THEN d ELSE None
  /\ UNCHANGED <<client, client_open_, destinationId, linked, service>>

SeqOpenVirtual(ret) ==
  /\ Is(Seq_) /\ (virtual => ret)
  /\ virtual' \in IF virtual \/ ret THEN {TRUE} ELSE BOOLEAN
  /\ UNCHANGED <<client, client_open_, handle, destinationId, linked, service>>

\* connect_port(), do_open() and FromIdAsync(): a handle, or none.
DeviceOpen(d, ret) ==
  /\ Is(Raw \cup {"winuwp"})
  /\ handle' = (IF ret THEN d ELSE None) /\ linked' = ret
  /\ UNCHANGED <<client, client_open_, virtual, destinationId, service>>

\* A port that is not found is not opened, and outHandle not written.
WinmmOpen(d, ret) ==
  /\ Is({"winmm"})
  /\ handle' \in IF ret THEN {d} ELSE {handle, None}
  /\ linked' = ret
  /\ UNCHANGED <<client, client_open_, virtual, destinationId, service>>

\* A port that cannot be created takes the client with it.
CoreMidiOpen(d, ret) ==
  /\ Is(CoreMidi)
  /\ \/ ret /\ handle' = d /\ destinationId' = d /\ UNCHANGED <<client, client_open_>>
     \/ ~ret /\ UNCHANGED <<handle, destinationId, client, client_open_>>
     \/ ~ret /\ client_open_' = FALSE /\ client' = output.given /\ UNCHANGED <<handle, destinationId>>
  /\ UNCHANGED <<virtual, linked, service>>

CoreMidiOpenVirtual(ret) ==
  /\ Is(CoreMidi)
  /\ virtual' = ret
  /\ UNCHANGED <<client, client_open_, handle, destinationId, linked, service>>

\* Nobody asks whether Open() succeeded; it may also throw.
WinmidiOpen(d, ret) ==
  /\ Is({"winmidi"})
  /\ handle' \in IF ret THEN {d} ELSE {handle, None, d}
  /\ linked' \in IF ret THEN BOOLEAN ELSE {FALSE}
  /\ UNCHANGED <<client, client_open_, virtual, destinationId, service>>

WinmidiOpenVirtual(ret) ==
  /\ Is({"winmidi"})
  /\ virtual' \in IF ret THEN {TRUE} ELSE BOOLEAN
  /\ handle' \in IF ret THEN {Virtual} ELSE {handle} \cup (IF virtual' THEN {None, Virtual} ELSE {})
  /\ linked' \in IF ret THEN BOOLEAN ELSE {FALSE}
  /\ UNCHANGED <<client, client_open_, destinationId, service>>

\* acquire()
KdmapiOpen(d, ret) ==
  /\ Is({"kdmapi"}) /\ (m_rc > 0 => ret)
  /\ handle' = IF ret THEN d ELSE None
  /\ m_rc' = IF ret THEN m_rc + 1 ELSE m_rc
  /\ UNCHANGED <<client, client_open_, virtual, destinationId, linked, requests, others, abused>>

WebmidiOpen(d, ret) ==
  /\ Is({"webmidi"})
  /\ handle' = (IF ret THEN d ELSE handle) /\ linked' = (linked \/ ret)
  /\ UNCHANGED <<client, client_open_, virtual, destinationId, service>>

\* It says yes when it fails, and before it is open; linked is port_open.
\* open_device() may make no request.
AndroidOpen(d, ret) ==
  /\ Is({"android"}) /\ ret
  /\ \/ UNCHANGED <<linked, requests>>
     \/ linked' = TRUE /\ requests' \in {requests, Append(requests, d)}
  /\ UNCHANGED <<client, client_open_, handle, virtual, destinationId, m_rc, others, abused>>

RawioOpen(d, ret) ==
  /\ Is({"rawio"}) /\ ret
  /\ handle' = d
  /\ UNCHANGED <<client, client_open_, virtual, destinationId, linked, service>>

\* midi_out::open_port()
OutOpenPort(d) ==
  /\ Idle /\ client_open_ /\ ~port_open_ /\ tries < MaxOutOpens
  /\ tries' = tries + 1 /\ asked' = d
  /\ \E ret \in BOOLEAN :
       /\ port_open_' = ret
       /\ \/ SeqOpen(d, ret) \/ DeviceOpen(d, ret) \/ WinmmOpen(d, ret) \/ WinmidiOpen(d, ret)
          \/ KdmapiOpen(d, ret) \/ WebmidiOpen(d, ret) \/ AndroidOpen(d, ret) \/ RawioOpen(d, ret)
          \/ CoreMidiOpen(d, ret)
  /\ UNCHANGED <<output, alive, sending>>

\* midi_out::open_virtual_port()
OutOpenVirtual ==
  /\ Idle /\ client_open_ /\ ~port_open_ /\ tries < MaxOutOpens
  /\ tries' = tries + 1 /\ asked' = Virtual
  /\ \E ret \in BOOLEAN :
       /\ port_open_' = ret
       /\ \/ SeqOpenVirtual(ret) \/ CoreMidiOpenVirtual(ret) \/ WinmidiOpenVirtual(ret) \/ RawioOpen(Virtual, ret)
  /\ UNCHANGED <<output, alive, sending>>

\* onDeviceOpened() and open_callback(), on a thread of Java: for an object
\* that may be closed, opened for another port, or destroyed.
Opened ==
  /\ requests # <<>> /\ requests' = Tail(requests)
  /\ IF alive THEN handle' \in {Head(requests), None} /\ UNCHANGED abused
              ELSE abused' = TRUE /\ UNCHANGED handle
  /\ UNCHANGED <<object, asked, virtual, destinationId, linked, m_rc, others, sending, tries>>

-----------------------------------------------------------------------------
(* Closing and destroying.                                                  *)

\* The close_port() of each back-end.
CloseSeq == Is(Seq_) /\ handle' = None /\ UNCHANGED <<virtual, linked, service>>
CloseDevice == Is(Raw \cup {"winuwp"}) /\ handle' = None /\ linked' = FALSE /\ UNCHANGED <<virtual, service>>
CloseWinmm ==
  /\ Is({"winmm"})
  /\ abused' \in IF handle = Garbage THEN BOOLEAN ELSE {abused}
  /\ handle' = None /\ linked' = FALSE
  /\ UNCHANGED <<virtual, requests, m_rc, others>>
\* Mutated form of CloseCoreMidi: the endpoint of our own stays.
CloseCoreMidiPort == Is(CoreMidi) /\ handle' = None /\ UNCHANGED <<virtual, linked, service>>
CloseCoreMidi == Is(CoreMidi) /\ virtual' = FALSE /\ handle' = None /\ UNCHANGED <<linked, service>>
CloseWinmidi ==
  /\ Is({"winmidi"})
  /\ linked' = FALSE
  /\ virtual' = (virtual /\ handle = None)
  /\ UNCHANGED <<handle, service>>
CloseKdmapi ==
  /\ Is({"kdmapi"})
  /\ handle' = None /\ m_rc' = IF m_rc = 0 THEN 0 ELSE m_rc - 1
  /\ UNCHANGED <<virtual, linked, requests, others, abused>>
CloseWebmidi == Is({"webmidi"}) /\ UNCHANGED <<handle, virtual, linked, service>>
CloseAndroid ==
  /\ Is({"android"})
  /\ handle' = (IF linked THEN None ELSE handle) /\ linked' = FALSE
  /\ UNCHANGED <<virtual, service>>
CloseRawio == Is({"rawio"}) /\ handle' = None /\ linked' = FALSE /\ UNCHANGED <<virtual, service>>

CloseNative ==
  \/ CloseSeq \/ CloseDevice \/ CloseWinmm \/ CloseCoreMidi \/ CloseWinmidi
  \/ CloseKdmapi \/ CloseWebmidi \/ CloseAndroid \/ CloseRawio

\* midi_out::close_port()
OutClosePort ==
  /\ Idle /\ client_open_ /\ port_open_
  /\ CloseNative
  /\ port_open_' = FALSE
  /\ UNCHANGED <<output, alive, client, client_open_, asked, destinationId, sending, tries>>

\* The destructor closes whatever was opened, then what it keeps: the
\* sequencer its port and its client, CoreMIDI its client.
OutDestroy ==
  /\ Idle /\ alive' = FALSE /\ port_open_' = FALSE /\ client_open_' = FALSE
  /\ \/ /\ ~Is(Seq_ \cup CoreMidi) /\ CloseNative /\ UNCHANGED client
     \/ /\ Is(Seq_ \cup CoreMidi) /\ handle' = None /\ virtual' = FALSE /\ client' = output.given
        /\ abused' = (abused \/ (~client /\ ~output.given /\ (Is(Seq_) \/ tries > 0)))
        /\ UNCHANGED <<linked, requests, m_rc, others>>
  /\ UNCHANGED <<output, asked, destinationId, sending, tries>>

OtherOpens ==
  /\ Is({"kdmapi"}) /\ others < MaxOthers
  /\ others' = others + 1 /\ m_rc' = m_rc + 1
  /\ UNCHANGED <<object, asked, native, requests, abused, sending, tries>>

OtherCloses ==
  /\ others > 0
  /\ others' = others - 1 /\ m_rc' = IF m_rc = 0 THEN 0 ELSE m_rc - 1
  /\ UNCHANGED <<object, asked, native, requests, abused, sending, tries>>

-----------------------------------------------------------------------------
(* Sending.                                                                 *)

\* Where a write goes.
Reaches ==
  CASE Is(CoreMidi) -> (IF virtual THEN {Virtual} ELSE {}) \cup (IF handle # None THEN {destinationId} ELSE {})
    [] Is(Seq_) -> ({handle} \ {None}) \cup (IF virtual THEN {Virtual} ELSE {})
    [] Is({"kdmapi"}) -> IF m_rc > 0 THEN {handle} \ {None} ELSE {}
    [] OTHER -> IF linked THEN {handle} \ {None, Garbage} ELSE {}

\* The bytes of a message, or the words of it that are not padding.
Units(m) ==
  FlattenSeq([i \in DOMAIN m |-> IF m[i].kind = "noop" THEN <<>> ELSE [k \in 1..m[i].n |-> <<i, k>>]])

\* A message that is neither one short event nor exclusive.
Rejects(m) ==
  /\ Is({"winmm", "kdmapi", "coremidi"})
  /\ IF m = <<>> THEN TRUE ELSE m[1].kind # "sysex" /\ Len(Units(m)) > 3

\* All that a write goes to is there, and it is what the application asked for.
Connected ==
  /\ asked \in Reaches /\ Reaches \cap Destinations \subseteq {asked}
  /\ destinationId \in Reaches \cup {None}

Return(m, ret) ==
  /\ current' = Nothing
  /\ said' = Append(said, [message |-> m, to |-> asked, ret |-> ret, connected |-> Connected])

\* midi_out::send_message() and send_ump(), to the first native call.
Send(m) ==
  /\ Idle /\ port_open_ /\ Len(said) < MaxSends
  /\ \/ Rejects(m) /\ Return(m, "error")
     \/ Is({"seq"}) /\ Return(m, "error")   \* event_resize_buffer()
     \/ Is({"android"}) /\ Reaches = {} /\ Return(m, "ok")
     \/ Is({"rawio"}) /\ ~linked /\ Return(m, "thrown")
     \/ /\ ~Rejects(m) /\ (Is({"android"}) => Reaches # {}) /\ (Is({"rawio"}) => linked)
        /\ current' = [at |-> "sending", message |-> m, left |-> Units(m), first |-> TRUE]
        /\ UNCHANGED said
  /\ UNCHANGED <<object, asked, native, service, buffered, wire, filled, tries>>

Least(S) == CHOOSE n \in S : \A o \in S : n <= o
Most(S) == CHOOSE n \in S : \A o \in S : n >= o

\* How many bytes, or words, are left with each end of an event, or packet.
Kind(n) == current.message[current.left[n][1]].kind
Ends == {n \in DOMAIN current.left : current.left[n][2] = current.message[current.left[n][1]].n}

\* get_chunk_size(), and no more than the message.
Chunk == Least({DeviceBuffer, ChunkSize, Len(Units(current.message))})

\* How much the next native call is given.
NextWrite ==
  CASE Is({"seq", "seq_ump", "winmidi"}) -> Least(Ends)
    [] Is({"coremidi"}) -> Least({PacketSize, Len(current.left)})
    [] Is({"coremidi_ump"}) -> Most({n \in Ends : n <= ListSize})
    [] output.chunked /\ current.first -> Chunk
    [] output.chunked /\ ~current.first ->
         Least({Chunk, Len(current.left)} \cup {n \in Ends : Kind(n) = "sysex"})
    [] OTHER -> Len(current.left)

\* Where a native call gets, and whether it succeeds. CoreMIDI gives a list
\* to its own source, and then to the destination.
Taken(to, ok) ==
  LET source == IF virtual THEN {Virtual} ELSE {}
  IN  IF Is(CoreMidi)
      THEN \/ ok /\ to = Reaches /\ (destinationId # None => handle # None)
           \/ ~ok /\ to = source /\ destinationId # None
           \/ ~ok /\ to = {}
      ELSE IF ok THEN to = Reaches /\ Reaches # {} ELSE to = {}

\* What is made of a call that failed: nothing, an error, an exception. The
\* lists of CoreMIDI before the last go on.
Unheeded == Is({"seq_ump", "kdmapi", "webmidi", "android"}) /\ Return(current.message, "ok")
Refused == Is({"seq", "kdmapi", "winmidi", "winmm", "coremidi"} \cup Raw) /\ Return(current.message, "error")
Thrown == Is({"winuwp", "rawio"}) /\ Return(current.message, "thrown")
ListRefused(n) ==
  /\ Is({"coremidi_ump"})
  /\ IF n = Len(current.left) THEN Return(current.message, "error")
     ELSE current' = [current EXCEPT !.left = SubSeq(@, n + 1, Len(@))] /\ UNCHANGED said

Failed(n) == Unheeded \/ Refused \/ Thrown \/ ListRefused(n)

\* Mutated form of Room: any room will do.
RoomForOne == filled < DeviceBuffer

\* get_available_bytes_to_write()
Room == filled + Chunk <= DeviceBuffer

\* One turn of the loop: event_encode() and event_output(), a chunk once there
\* is room for it, segment_ump_stream(), whose second try after ENOMEM is here
\* part of the first, MIDISend().
Write ==
  /\ current.at = "sending" /\ current.left # <<>>
  /\ Is({"seq"}) => Kind(1) # "cut"
  /\ output.chunked /\ ~current.first => Room
  /\ \E to \in SUBSET (Destinations \cup {Virtual}), ok \in BOOLEAN :
       LET n == NextWrite
           taken == [i \in 1..n |-> [send |-> Len(said) + 1, unit |-> current.left[i], to |-> to]]
       IN  /\ Taken(to, ok)
           /\ IF ok THEN current' = [current EXCEPT !.left = SubSeq(@, n + 1, Len(@)), !.first = FALSE] /\ UNCHANGED said
                    ELSE Failed(n)
           /\ wire' = IF Is({"seq"}) \/ to = {} THEN wire ELSE wire \o taken
           /\ buffered' = IF Is({"seq"}) /\ ok THEN buffered \o taken ELSE buffered
           /\ filled' = IF ~output.chunked \/ ~ok THEN filled
                        ELSE IF current.first THEN Least({DeviceBuffer, filled + n}) ELSE filled + n
  /\ UNCHANGED <<object, asked, native, service, tries>>

\* An event that is not whole: "incomplete message!"
Incomplete ==
  /\ current.at = "sending" /\ current.left # <<>> /\ Is({"seq"}) /\ Kind(1) = "cut"
  /\ Return(current.message, "error")
  /\ UNCHANGED <<object, asked, native, service, buffered, wire, filled, tries>>

\* The function of the application that waits, says to stop.
StopWaiting ==
  /\ current.at = "sending" /\ current.left # <<>> /\ output.chunked /\ ~current.first
  /\ Return(current.message, "error")
  /\ UNCHANGED <<object, asked, native, service, buffered, wire, filled, tries>>

\* drain_output() may not succeed, which nobody looks at. WinMM waits until
\* its device has played what is exclusive.
Finish ==
  /\ current.at = "sending" /\ current.left = <<>>
  /\ IF Is({"winmm"}) /\ current.message[1].kind = "sysex"
     THEN current' = [current EXCEPT !.at = "playing"] /\ UNCHANGED said
     ELSE Return(current.message, "ok")
  /\ \/ UNCHANGED <<wire, buffered>>
     \/ Is({"seq"}) /\ buffered' = <<>> /\ wire' = wire \o [i \in DOMAIN buffered |-> [buffered[i] EXCEPT !.to = Reaches]]
  /\ UNCHANGED <<object, asked, native, service, filled, tries>>

\* midiOutUnprepareHeader() no longer says MIDIERR_STILLPLAYING.
Played ==
  /\ current.at = "playing" /\ Return(current.message, "ok")
  /\ UNCHANGED <<object, asked, native, service, buffered, wire, filled, tries>>

\* The device plays a byte of its buffer.
DevicePlays ==
  /\ filled > 0 /\ filled' = filled - 1
  /\ UNCHANGED <<object, asked, native, service, current, buffered, wire, said, tries>>

Sending == Write \/ Incomplete \/ Finish \/ Played

Next ==
  \/ \E d \in Destinations : OutOpenPort(d)
  \/ OutOpenVirtual \/ OutClosePort \/ OutDestroy \/ Opened \/ OtherOpens \/ OtherCloses
  \/ \E m \in Messages[IF Is(Ump) THEN "ump" ELSE "midi1"] : Send(m)
  \/ Sending \/ StopWaiting \/ DevicePlays

\* The thread that sends goes on, and so does the device.
Fairness == WF_outvars(Sending) /\ WF_outvars(DevicePlays)

-----------------------------------------------------------------------------
\* The units that send c handed over, in their order.
Handed(log, c) ==
  LET f[i \in 0..Len(log)] ==
        IF i = 0 THEN <<>> ELSE IF log[i].send = c THEN Append(f[i - 1], log[i].unit) ELSE f[i - 1]
  IN f[Len(log)]

\* "ok" says that the services have all of a message, in order, or the library
\* of the sequencer has; anything else, that they have some of it at most. Of
\* outputs that are connected as the application asked.
SaysWhatHappened ==
  \A c \in DOMAIN said :
    LET all == Units(said[c].message)
        came == Handed(wire \o buffered, c)
    IN  Is(Tells) /\ said[c].connected =>
          IF said[c].ret = "ok" THEN came = all ELSE IsPrefix(came, all) /\ (all # <<>> => came # all)

\* Nothing reaches a port that the output was not open for when it was sent.
NeverMisdelivered ==
  \A i \in DOMAIN wire :
    LET c == wire[i].send
        to == IF c \in DOMAIN said THEN said[c].to ELSE asked
    IN  Is(Forgets) => wire[i].to \cap Destinations \subseteq {to}

\* An output that says it is open, is connected to what it was opened for.
OpenMeansConnected == Is(Connects) /\ alive /\ port_open_ => Connected

\* A closed output leaves no connection and no port of its own.
ClosedIsGone == Is(Forgets) /\ ~port_open_ => Reaches = {} /\ ~virtual

\* Nothing is released or written to that is not there, and no output ends
\* the stream of another.
ReleasesItsOwn == Is(Frees) => ~abused /\ m_rc >= others

\* A chunk after the first finds room for all of it: it never blocks.
ChunksFit == filled <= DeviceBuffer

\* What an output of a service promises.
OutputHonest ==
  SaysWhatHappened /\ NeverMisdelivered /\ OpenMeansConnected /\ ClosedIsGone /\ ReleasesItsOwn /\ ChunksFit

\* A send returns, if the device plays.
SendWaits == current.at # "idle"
SendReturns == SendWaits ~> ~SendWaits
=============================================================================
