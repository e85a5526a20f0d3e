# Formal models of libremidi

TLA+ models of the concurrent and stateful parts of libremidi, TLC
configurations that check them on small instances, and TLAPS proofs of what
matters most for every instance. File names below are relative to
`include/libremidi/`, and to `include/libremidi/backends/` for back-ends.

    tlc -config MCPwContext.cfg MCPwContext     # any MC module with its .cfg
    tlapm PwContext_proofs.tla                  # any *_proofs module

## 1. The system

libremidi gives one interface to MIDI input, MIDI output and port observation,
over one back-end per operating system service. Its own logic is in four places:
the objects that connect to a service and outlive, or do not outlive, each other;
the threads of that service, which call back into them; the mirror each observer
keeps of the ports of the system; and the transformation of bytes into messages.

| Part | State it keeps | Operations | What makes it correct | Status |
|---|---|---|---|---|
| PipeWire context, subscriptions (`linux/pipewire/context.hpp`, `subscription.hpp`) | lists of subscribers, items queued on the loop with their payload flags | subscribe, `reset()` through `invoke_sync()` with a deadline, dispatch on the worker and on the reconnecting thread | no item runs on a frame that is gone, a dropped subscriber is not called, `reset()` returns | `PwSubscription` |
| PipeWire context, connection (`context.hpp`, `context.cpp`) | `m_state`, `m_generation`, the core, sync flags, holders, the registry of shared contexts | `shared_context()`, holders, `synchronize()`, `reconnect()`, core events | a reconnect is alone, no handle outlives its core, a sync is a round trip, a lost connection is noticed | `PwContext` |
| PipeWire graph and observer (`context.hpp`, `pipewire/observer.hpp`, `helpers.hpp`) | bound globals, the snapshot, `port_cache` | registry, node and port events, `make()`, the walk of the constructor, callbacks | snapshot exact, each port announced once and its removal too | `PwGraph`, `PortDirectory` |
| PipeWire ports (`filter.hpp`, `midi_in.hpp`, `midi_out.hpp`) | filter, port, link, the queue of messages | open, link, send, close, `process()` on the data thread | what is sent is heard once, in order, in the end; nothing built on a dead core | `PwPorts`, `PwContext` |
| JACK (`jack/`, `detail/semaphore.hpp`) | atomic port, two semaphores, event queue, ring | open, close, send, the callback of each cycle, the shared handler | a port in use is not unregistered, messages whole and in order, blocking calls return | `JackClient` |
| WinMM input (`winmm/midi_in.hpp`) | handle, buffers, three atomics, a mutex | open, close on any thread or in the callback, the callback | no buffer deleted under the callback or the driver, quiet after close | `WinmmInput` |
| MIDI 1 decoder (`detail/midi_stream_decoder.hpp`) | `m_state`, the message, the last time | `on_bytes()`, `on_bytes_multi()`, `reset()` | the messages are those that were sent | `MidiStream` |
| MIDI 2 decoder, conversions (`midi_stream_decoder.hpp`, `conversion.hpp`, `cmidi2.hpp`) | the parameter selected in a converter | `on_ump()`, the callbacks and sends that convert between the protocols | a message survives the way there and back; what was given up does not silence the converter | `UmpConverter` |
| Facade (`midi_in.cpp`, `midi_out.cpp`, `observer.cpp`, `libremidi.cpp`) | `connected_`, `port_open_` | open, close, send, choice of a back-end | flags agree with the back-end; the back-end is what was asked for | `BackendChoice`, and in front of each input and output |
| ALSA inputs (`alsa_seq/`, `alsa_raw/`, `alsa_raw_ump/`) | thread, termination event, subscription, handle | open, close, the thread, what fails half-way | no thread after a close, a thread after an open, close returns | `AlsaInput` |
| Inputs that a service calls back: CoreMIDI, Windows MIDI Services, WinUWP, WebMIDI, Android, raw I/O | handle, group filter, Android's thread | open, virtual port, close, destroy, the callback | the port that was asked for is heard, and no other; quiet after close | `ServiceInputs` |
| Outputs of ALSA, WinMM, WinUWP, Windows MIDI Services, CoreMIDI, KDMAPI, WebMIDI, Android, raw I/O | handle, virtual port, buffers | open, virtual port, send (a loop of native calls), close, destroy | a send says what became of the message, and nobody else gets it | `Outputs` |
| Observers of ALSA, JACK, WinMM, and `client.hpp` | lists of ports, a timer, callbacks on a shared handler | construct, list, compare, call back, destroy | the same promise, `PortDirectory`, and the list is right in the end | `Hotplug` |
| Observers of WinUWP, Windows MIDI Services, CoreMIDI, WebMIDI, JACK with UMP | lists of ports or blocks, a watcher, registrations | construct, added, updated, removed, destroy | the same | `Watchers` |
| Keyboard input (`keyboard/midi_in.hpp`) | octave, velocity, the note each key gave | press, release | nothing sounds that is not held | `KeyboardInput` |
| Network (`net/`) | socket, io_context, thread | open, send, receive, close | what is heard was sent under this name; it goes on to listen; it can be destroyed | `NetPorts` |
| File reader and writer (`reader.cpp`, `writer.cpp`) | tracks | build, write, parse, validate | inverse to each other; damage stays where it is | `MidiFile` |
| Remote control (`protocols/remote_control.hpp`) | `current_state`, `impl.type` | start, messages of the surface, display, time code, faders, commands | both sides agree on being connected; the surface shows what was asked for | `RemoteControl` |
| Port comparison (`port_comparison.hpp`) | none | `find_closest_port()`, `optimistic_serialized_port_lookup()` | a saved port is found, whatever else is there | `PortMatch` |
| MMC, MSC, MVC (`protocols/`) | none | send, parse | each takes what is meant for it, as it was sent | `ShowProtocols` |
| Packets and messages (`cmidi2.hpp`, `ump.hpp`, `ump_events.hpp`, `message.hpp`) | none | some hundred builders, and the accessors that read what they built | what was built is read back, and not taken for something else | `PacketLayouts` |
| Buffers of packets (`cmidi2.hpp`) | a forge, readers of streams | add, walk, sort out, merge | packets whole, streams apart, times right | `PacketStreams` |
| MIDI-CI (`cmidi2.hpp`) | none | write an inquiry or an answer | two inquiries differ in their bytes; every byte may be in a sysex | `MidiCi` |
| C interface (`libremidi-c.cpp`) | the handle of the application | `..._new()`, `..._free()`, callbacks while they run | a handle names an object that works, and nothing is lost or freed twice | `CInterface` |
| Python bindings (`bindings/python/pylibremidi.cpp`) | a queue, the lock of the interpreter | construct, open, close, `poll()`, direct callbacks | what is reported is heard once and in order; calls return | `PyBindings` |

How they interact: an application owns a `midi_in`, `midi_out` or `observer`
(facade), which owns one object of a back-end. That object shares a context with
others (a PipeWire context and its loop thread, a JACK client and its process
thread, an ALSA handler and its thread) or has a thread of its own, and every
input contains a decoder that runs on that thread and calls the user. The hard
behaviours are those between these threads: a close, a destructor or a reconnect
on one side, a callback that has just begun on the other; calls with deadlines
whose answers come later; queues that are full; callbacks of the user that call
back into the library; and infos about a system that changes while it is read.
`PROJECT.json` lists them as hazards, each at its line.

## 2. Modules

### PwSubscription: dropping a subscription

Each `s \in Subs` is one subscription on one of six lists: four of graph events, which
the worker dispatches, and those of state changes and of invalidation, which the
thread that reconnects does. `AddSubscriber` is `add_subscriber()` on another thread;
`QueueUnsubscribe`, `RunUnsubscribeInline`, `UnsubscribeReturns` and
`UnsubscribeTimesOut` are the caller's side of `subscription::reset()` and
`invoke_sync()`, `BeginItem` and `EndItem` the trampoline on the worker with its `done` and
`abandoned` flags. `AddWithin` and `UnsubscribeWithin` are the same two calls made by a
subscriber that the worker has called: `with_lock()` and `invoke_sync()` run at once on the
loop thread (`context.hpp:284`, `context.hpp:347`). If the list is the one that is being iterated, the
dispatch is `"undefined"` from then on, and may skip any subscriber or call any that was ever in it. The owner's
actions are the steps of `reconnect()`: dispatch, stop the loop, destroy it with the items on
it, start another (`StartLoop`), synchronise, and dispatch twice (`Rebuild`), or fail on the way
with the loop stopped, running or gone (`RebuildFails`).

### PwContext: one connection and its holders

Each client is a thread that takes and releases holders (`shared_context()`), builds
a filter or a stream, synchronises and, as sole holder, reconnects. Its `pc` follows the
steps between which another thread can come: the two mutexes are held where the code
holds them, and atomics are read and written in separate steps. The daemon
sends the answers to syncs and errors over a FIFO wire, may close the socket, and may be away
when a connection is built.

### PwGraph and PortDirectory: what an observer sees

The daemon's graph, requests and events as two FIFO channels, the
`m_bound_*` tables and the snapshot of the context, the two round trips of
`make()`, and an observer with or without `notify_in_constructor`. `PortDirectory` is
the promise of `observer_configuration.hpp` for any back-end: callbacks alternate per
port, added first. `PwGraph` implements it with
`count <- Heard`, for an observer that does not walk the snapshot, up to the first reconnect.

### JackClient: ports on a process thread

Objects with a client of their own, or sharing a handler. `port` is the atomic
in `jack_helpers`, `ask` and the release token the two semaphores of `semaphore_pair_lock`;
the close goes through `ClosePort`, `AskRelease`, `TakeRelease` or `ReleaseTimesOut`, and
`Unregister`; a cycle of JACK through `BeginCycle`, `Events`, `CallCallbacks`, `LoadPort` (is there
a port?), `FetchPort` (`process()` reads `port_handle` again, and may find none), `Process` and `CheckReleased`. Three histories belong to
the close: the ports whose close found a token already there (`primed`) or waited in vain (`late`), and the threads that
were inside `process()` when it began (`caught`). The ring of the queued output holds headers and bodies,
written separately.

### WinmmInput: a driver with our buffers

The application's thread and the driver's, which is inside
`midiInputCallback()` or not. `do_open()` and `do_close()` are cut at every point where
the callback or a second close can see the difference; so is the callback, between its two
looks at `closing`. Calls of `midi_in` from within the user's callback are allowed. The
driver is external: it calls one callback at a time, gives all buffers back on
`midiInReset()`, and refuses to close while it has one.

### MidiStream: bytes to messages

A span is what a back-end passes to `on_bytes()` (one message or one part of a sysex) or
`on_bytes_multi()` (a packet of whole messages, or one part of a sysex). A byte is known by
the message it belongs to, its kind, and whether the span has the first and the
last byte of the message, which is all the decoder looks at. The device sends
legal MIDI, real-time messages between the parts of a sysex included; parts
can be lost while the port is closed, and WinMM can report one as damaged. The history `expected` is what the flags of
`input_configuration.hpp` let through, and `within` names the messages that came inside of a sysex: of those the decoder
does what it does with the sysex. `Transparent` leaves them out where the two flags disagree (`Decided`), and
`FilterApplies`, which does not, is what the documentation says and the code does not do (section 6).

### PwPorts: an output and the input it is linked to

The application opens (`OpenPort`, `Link`, or `OpenVirtualPort`), sends, and closes in the steps of
`do_close_port()` (`Unlink`, `RemovePort`, `ClearPort`), while the data thread is inside `process()` of the output
(`Dequeue`, then `Skip` or `Take` per message, then `Queue`) or of the input (`Read`, `ReadNothing`). A buffer
has a size and an offset, the queue belongs to the object and outlives its ports. Where `process()` has no port the code's
behaviour is undefined, and the model ends there (`ProcessNoPort`, `QueueNoPort`). External: PipeWire, which owns the buffers of a link.

### AlsaInput: a thread that is told to end

The threaded inputs of the sequencer, of raw MIDI and of raw UMP behind `midi_in`. The opening is `OpenPort`, then `CreatePort` and `Connect`, or
`OpenDevice` and `SetParams`, each of which may fail and leave what it did, then `Start`; the close is `Unsubscribe`, `Notify`, `Join`, `Consume`, `Closed`.
The termination event is a counter (an `eventfd` as a semaphore); the thread looks at it and at its descriptors in `Poll`, for the
sequencer only when no event is pending (`Look`). Devices can be unplugged and a poll can be interrupted.

### ServiceInputs: a service that calls back

`input` is the back-end. `midi_in` in front of it is `InOpenPort`, `InOpenVirtual`, `InClosePort`, `InDestroy`; what a back-end does in them is an operator of its own
(`CoreMidiOpen`, `WinuwpOpen`, `CloseWebmidi`, ...). The service calls back (`CallBack`) what is connected, with a message of a group, and the user's callback returns (`UserReturns`).
Android is answered later (`DeviceOpened`), polls on a thread (`PollMidi`, `ThreadEnds`) and joins it (`AskThread`, `JoinThread`); another input may share a port of WebMIDI.
Of five of the back-ends the code deviates from a property. The sets `FirstOnly`, `Served` and `Released` name the back-ends a property
is said of; with another back-end in one of them TLC shows the deviation (section 6). `Waiting` has the services whose disconnection waits for a callback that runs, a promise of theirs.

### Outputs: a send is a loop of calls

`output` is the back-end; the facade, the openings and the closes are as above (`OutOpenPort`, `SeqOpen`, `CloseWinmm`, ...). A send (`Send`) is cut into native calls (`Write`, `Refused`, `Thrown`, `Finish`), each of which the
service may refuse: the events that the coder of the sequencer finds, the chunks of raw MIDI, which wait for the device to play (`Room`, `DevicePlays`, `StopWaiting`), the packets
of a CoreMIDI list. `wire` has what the services took, with the send it was of and the ports it reached; `said` what each send returned. Other users of KDMAPI's stream come and go.
`Tells`, `Connects`, `Frees` and `Forgets` name the back-ends that each property is said of, as in `ServiceInputs`.

### Hotplug, Watchers and PortDirectory: what observers say

`Hotplug` has five observers, which differ in where their list comes from and where their news do: the ALSA sequencer with its own thread, and on the handler of a
`client`; raw ALSA, which lists again after an event of udev; JACK; WinMM, which lists all the time, by position.
The constructor, the thread and the destructor are cut between two entries of a listing, so that ports change while they are listed. The
races that remain are recorded in `raced`, per port.

`Watchers` has five that a service calls back. A device has blocks, which are its ports. The service announces each change (`announced`, a queue), and the handler of one announcement (`OnAdded`, `OnRemoved`,
`OnUpdated`, `Lookup`) leaves callbacks that are `due`, one after another (`Call`), so that the device may be another one by then. The constructors are two steps, in the order of the code
(`ListThenRegister`, `StartWatcher`, `CreateClient`, `ListThenListen`, then `Constructed`); what changes between the two is in `mixed`. WebMIDI compares by a timer of the page, which has one thread.
CoreMIDI is taken to answer for an object that is gone as it did before, and each service to announce a change once and in order. `Idle` has the
observers whose user makes and destroys them while the watcher runs no callback, which their destructors do not wait for.

`PortDirectory` is implemented by both for every other port (`ObserversAlternate` in `MCHotplug`).

### UmpConverter and MidiFile: two formats

`UmpConverter` has the converter from bytes to UMP with the RPN and NRPN that it keeps, the one from UMP to bytes, the walk of the MIDI 2 decoder
over the words of a buffer, its filters, and the upgrade of MIDI 1 channel messages. `MidiFile` has the events of tracks, the writer (variable-length
quantities, running status, the end of a track) and the parser with its modes of failure; a file is a sequence of bytes that can be cut or changed.
Both are functions, written with folds and recursive functions; their actions only choose what they are applied to.

### PacketLayouts, PacketStreams and MidiCi: the headers

A request is the name of a function and its arguments. In `PacketLayouts` a word is a sum of shifted terms, as the builders write it, so that an argument that is not masked carries into its neighbour; `Built` is what a function
returns, `Value` what the accessors read of it, `Meant` what they should, and `Alias` the pairs of requests that are the same by their specification. It has the builders of each type of packet,
the conversions from MIDI 1 and from [0, 1], and the builders and questions of `message.hpp`. `MidiCi` is the same for the inquiries, whose parts have lengths of their own.
`PacketStreams` has the forge (`Add`, `AddSingle`, `SendSysex7`, `SendText`, `SendDataSet`), the walk over it, the reader of system exclusives of eight bits with a buffer per stream, and the merge of two timed
sequences. Reading back is compared with what was put in, as data, and never with the builder's own arithmetic.

### RemoteControl: a handshake with a surface

The application (`Start`, `UpdateLcd`, `UpdateLcdAll`, `UpdateTimecode`, `Fader`, `Command`), `on_midi()` (`OnSysex`, with a disjunct for each command of the
surface that `on_rcp_command()` handles, and `OnControls`), and a wire each way. External: the surface, which asks with a challenge when it is switched on and when it is
queried, takes the answer to its last challenge only, and shows what it gets; its user, who can unplug it. Histories keep what the calls have put on the surface (`meant`) and what its user did (`reports`).

### ShowProtocols: stations on one cable

Machine, show and visual control. A call of one station (`Send`, with `make_mmc`, `make_msc` and `make_mvc` for what its class builds), or a message of another make (`SendOther`), goes to every station, and `told` is what each reports
(`on_midi_mmc`, `on_midi_msc`, `on_midi_mvc`). What each should report, `Meant`, is said without bytes. The classes keep no state.

### PortMatch: a port that was saved

Both searches of `port_comparison.hpp` as functions of a list of ports, with the edit distance by columns that they use, the truncation of scores to `int`, and the map that
keeps one port per score. A string is a sequence of a few letters with capitals. `Appear` puts one more port in the list and searches again.

### NetPorts: datagrams to a handler

`midi_in` and `midi_out` of `net` and `net_ump`. The input's io_context is its own, with a thread, or the application's. One
receive is outstanding; its handler goes through `Run`, `Aborted` or `OnBytes`, `UserReturns`, `Again`, and asks for the next; `close_port()` goes through `Stop`
and `CloseSocket`, and the destructor joins (`Join`). The network loses, repeats and reorders, and anyone may send to the socket.

### KeyboardInput: keys that change their meaning

`on_keypress()` with its three kinds of keys and `on_keyrelease()`, over the map from keys to notes; external: which keys are down, and what sounds of the messages.

### BackendChoice and CInterface: who answers

`BackendChoice` has the constructors of inputs, outputs and observers as functions of what is compiled, what the system has and what is asked (nothing, an API, a configuration): the lists of back-ends, `..._configuration_for()`,
`midi_api()` and the search, which passes over what throws. A back-end is known by its API. `CInterface` calls them from `..._new()` in steps (`New`, `Construct`, `OpenSucceeds` or `OpenFails`, `Constructed` of an observer),
between which an input or an observer may already call back, and from C++ (`NewInCpp`). External: APIs come and go (`SystemChanges`), constructors throw, ports open or do not.

### PyBindings: the lock of the interpreter

The calls of one Python thread as a stack, since a callback may call `poll()` or `close_port()` again; the thread of the library, which reports; the queue between them, or, of a direct object, the lock
that both need. External: the interpreter, which may give its lock away between two calls, the library, which joins its thread in a close.

### Compositions

A run is of one MC module. `MCPorts` (`AlsaInput`, `ServiceInputs`, `Outputs`, `NetPorts`, `KeyboardInput`, `PyBindings`, `CInterface`), `MCHotplug` (`Hotplug`, `Watchers`), `MCFormats` (`UmpConverter`, `MidiFile`, `PacketLayouts`, `PacketStreams`, `MidiCi`, `RemoteControl`,
`ShowProtocols`, `PortMatch`) and `MCPwClient` (`PwSubscription`, `PwPorts`) each
check models side by side: they share no state in the code, so one of them moves and the others stay in an initial state. The fairness of each is that of its module, and in an initial state
nothing is due of it (in `MCHotplug` it is conditional, since a constructor is).

## 3. Runs

| Run | Instance | Properties |
|---|---|---|
| `pw_context` | two clients, two connections, one error, after which the daemon closes the socket, or is away when it is built again; callbacks take no holders | `NoDanglingStream`, `ReconnectExclusive`, `SyncOnLiveCore`, `CallsReturn` |
| `pw_client` | three subscriptions, two of them to graph events; and an output that opens twice, three messages of five kinds (one empty, one a reset, one larger than a buffer), two buffers; subscribers of graph events subscribe and unsubscribe within their callbacks | `FrameAlive`, `ResetIsFinal`, `NoLateErase`, `GraphScanStable`, `ResetReturns`, `PortsOnceInOrder`, `PortsArrive` |
| `pw_context_solo` | a sole holder whose callbacks take holders, three connections, two errors | `SyncMeansRoundTrip` |
| `pw_graph` | a named node with a tracked port, an unnamed node with an untracked one, two changes, one reconnect | `SnapshotExact`, `AddedOnce`, `NoneMissed`, `CallbacksAlternate` |
| `jack` | an output that opens twice, or two inputs on a handler with three slots | `CleanHandshake`, `GoneIsForgotten`, `InOrder`, `CallsReturn` |
| `winmm` | two openings with two buffers each | `BuffersOutliveCallbacks`, `DriverOwnsNoFreed`, `QuietAfterClose`, `CloseReturns` |
| `midi_stream` | four messages in five spans, all choices of ignored kinds | `Transparent`, `TimesAddUp`, `Recovers` |
| `ports` | ALSA inputs: three openings, a queue of two, two events of senders we did not ask; seven inputs of services: two openings of one of two ports; thirteen outputs: two openings, two sends of up to four events or packets, a device buffer of three bytes and chunks of two, a list of three words; network: two openings under two names, two datagrams; keyboard: two notes an octave apart, two octave keys and two of velocity, four presses; Python: five calls, three deep, three reports; C and C++: two calls, a build with the sequencer, the keyboard and raw I/O, of which the sequencer comes and goes | `ClosedIsQuiet`, `OpenIsServed`, `HearsWhatWasDone`, `SendsWhatItSays`, `PortsReturn` |
| `hotplug` | ten observers, two ports or devices, of one or two blocks, four changes | `ObserversAlternate`, `CatchesUp` |
| `formats` | every two of 18 messages after every selection, every two of 33 packets; every file of two of ten events over three tracks, cut anywhere or with one of six bytes in any place; 563 requests for packets and messages and 279 inquiries, each compared with all others; three streams of up to three packets, added in any order around one packet of another kind; 25 pairs of sequences to merge; a surface switched on twice and two calls on a display of two rows of two; seven stations of a show, 67 calls and eleven messages of other makes; 25 searches in every list of two of eight ports | `ConverterKeeps`, `PacketsKeep`, `BuffersKeep`, `FilesKeep`, `RemoteFollows`, `PortFoundAgain` |
| `pw_holder_deadlock`, `jack_unregister` | | what the code does otherwise than it says: section 6 |

What each shows:

- `pw_client`: however deadlines, the worker and a reconnect fall, no item runs on the frame of a caller that left, a dropped subscriber stays dropped, and `reset()` returns;
  the list that the worker iterates is changed by nobody but the subscriber it is calling, which can do it, and should not (section 6);
  an output and an input neither lose, repeat nor reorder what fits in a buffer, across `process()` and the calls of the application.
- `pw_context`, `pw_context_solo`: a reconnect has the connection to itself, nothing outlives its core, and calls return whether or not the daemon answers or stays, as long as no callback takes a holder inside of `reconnect()`, which is what `pw_holder_deadlock` is about;
  a `synchronize()` that says true was a round trip.
- `pw_graph`, `hotplug`: an application that only listens to the callbacks knows what exists, in the end, and its observer can be destroyed.
- `jack`: a callback is on a port that was unregistered only if it was at work when the close of that port began, and that close timed out or took the token of an earlier cycle; the same of no port is not true (section 6).
- `winmm`, `ports`: the handover between an application that closes and a thread that calls back; and of an output, that a partial failure is not reported as success, or a success as failure; of C, that a call which fails leaves nothing behind; of Python, that the queue neither loses nor repeats.
- `midi_stream`, `formats`: bytes and packets arrive as what they were, whole, in order, with the filters applied, but to what is inside of a sysex; what the headers build can be read and is unambiguous; a surface and the processor agree, and the surface shows what was sent; a port is found again.

The type invariants of `PwSubscription`, `PwGraph`, `JackClient`, `WinmmInput`, `MidiStream` and `AlsaInput` are proved, and of `PwContext` what the proofs need of it. Those of the other modules are there to be added to a
`.cfg` as `INVARIANT TypeOK`. Besides the runs there are configurations that reproduce a deviation of section 6:
`MCPwContext_fatal.cfg`, `MCPwGraph_removed.cfg`, `MCPwClient_deviations.cfg`,
`MCFormats_deviations.cfg` and `MCPorts_deviations.cfg`, each for the MC module before the underscore. The last three list several properties: leave one of them in to see its counterexample.

Why the bounds are enough. The races in question take two actors: two holders,
two closers, a caller and the worker; two of one kind and one of the other
cover each pair. `MaxCores`, `MaxOpens` and `MaxReconnects` allow one incarnation
after another, which is what a stale handle or token needs; a third connection is
there for a sync whose answer belongs to the last connection but one. Two changes of the graph let a port go and come back under
its id. A handler queue of three slots overflows with two inputs; the real one has 16, and
nothing depends on the number. Five spans give a sysex of three parts with a real-time message inside
and a message after it, and a packet takes two messages, since the loop over a packet
keeps nothing between the second and a third. A third opening of an ALSA input meets what a second left of a first one that failed; two events
of others fill its queue. Two datagrams are one that is lost or wrong and one after it. Four presses hold two keys that give one note, in two octaves. Four changes let a port vanish and
return twice while it is listed. A converter keeps one selection, so that two messages after any selection see all of its states; two events show the running status and the times of a
file, and the third track is the one more than the header counts. `IndexSize` stands for the 256 of a `uint8_t` index. Being switched on twice
lets a challenge cross the answer to another; a row of two cells has a cell before its end, as one of 55 has. Two ports are the right one and one that could be taken for it, and the eight differ from each other in
one or two of the fields that a search looks at.
Two openings of an output or of an input of a service are one that left something and one that finds it; two sends are one that failed half-way and the next; a message of two parts is a loop of two turns, one of four has a packet that
is skipped in between. The buffers of two and three are such that a chunk fits, does not fit at first, and never fits. The arguments of a request are the ends of each field, the first value beyond, and one that differs from
another in that field alone, so that `Distinct` sees a field that is dropped. A stream of 14 bytes has three forms of packets, start, continue and end; 65535 is the largest timestamp of a packet, so that two of them add up to more.
Three reports are one in the queue, one that the thread has and one of a call; five calls construct, open, poll, poll again in the callback, and close. Two calls of C are one that fails and one that finds its handle and its memory again. A build needs an
API of each protocol that may be missing, one that has no output, and raw I/O at the end: what follows in the lists is never tried.

Fairness. A thread that can take a step of the library takes it; no
fairness is assumed for the user, for the daemon, for JACK's events or for the driver. So `FairSpec` of
`PwContext` has weak fairness of the steps of a call, and strong fairness only for
taking the mutex of the holders: the other client can take it again and again, and a mutex that starves nobody is what
the code relies on; of `JackClient`, that cycles go on, without which a waiting `send_message()` cannot return;
of `WinmmInput`, not the return of the user's callback, so that `CloseReturns` includes a callback that
never ends. Deadlines expire at any time, early ones included. Of `AlsaInput`, strong fairness for `Poll`, whose thread is woken between two interruptions and not
in each step; of `Hotplug`, the threads of the library, not the changes of the system; of `NetPorts`, the handlers of a context that the input owns, since that of an application may not run; of
`PwPorts`, that PipeWire goes on to call `process()`; of `Outputs`, that a send goes on and the device plays; of `ServiceInputs`, that the user's callback returns, the thread of Android looks at `running`, and the caller
that joins it goes on; of `Watchers`, that a constructor returns and that the service, the run loop and the timer run; of `PyBindings`, that a callback returns and that the interpreter is fair with its lock.

Deadlock is not checked where the system really stops: the models of `winmm`, `midi_stream`, `ports`, `hotplug`, `formats` and `pw_client` end when
the bounds on openings, spans, changes, messages or sends are used up, or where the code's behaviour is undefined. That nobody waits for ever is what the properties `...Returns` say.

## 4. Proofs

For every value of the constants that satisfies the assumptions, so for any number of subscriptions, clients, globals, buffers and openings:

- `PwClient_proofs`, the subscriptions: `IInv` is `TypeOK` with three parts. `QueueInv`: an item is on the queue
  at most once and only for a subscriber that waits or gave up. `PayloadInv`: `done` and
  `abandoned` say which, and the body that runs belongs to a caller that waits. `DispatchInv`: what the worker visits
  is registered, unless a subscriber changed the list under it (`"undefined"`), and the owner visits no subscriber of graph events. The three are inductive together; `FrameAlive` and `ResetIsFinal` follow from the invariant, and the action properties
  `NoLateErase` and `GraphScanStable` from the invariant and one step. `GraphScanStable` is of other threads and of the owner: the subscriber that is being called is named in it, since it can change the list, and
  that no list changes while it is iterated is false (`ScanStable`, section 6). For the same reason `ResetIsFinal` speaks of the dispatches whose iterators are alive.
- `PwClient_proofs`, the ports: `PortsOnceInOrder`. A message that was sent is in one of four places, and these, read from the end, are what was sent:
  `Flow` says that what is heard, in the buffer of the link, in the buffer that `process()` fills and in the queue, joined, is `sent` without what is
  inaudible or lost. Messages have the number of their call (`Numbered`), so that none is in two places, and a buffer that is lost takes no other message with it.
- `PwContext_proofs`: `IInv` is `Types /\ Locks /\ Counted /\ Alone /\ Live`: who is where holds which mutex; a
  client has tokens exactly in the roles that need one; a reconnecting client is alone; who synchronises has a token and a live core.
  A client's role follows from its `pc`. `Silent` covers the steps that keep every role, and `CountUp` and
  `CountDown` those in which one client takes or drops its token.
  `ReconnectExclusive`, `NoDanglingStream` and `SyncOnLiveCore` follow. `SyncMeansRoundTrip` is proved for a sole holder and no recoverable errors,
  which is what the code can promise (section 6). Its invariant follows the answer to the number in `m_sync_seq`: it is on the wire once, and then either its
  caller waits for it or the context is broken (`AnswerIsOurs`), since what makes a context usable again also discards the wire; the flags speak of the sync that was issued last (`FlagsAreOurs`).
- `WinmmInput_proofs`: `IInv` is `TypeOK`, `Registered` (the atomics say where the callback is) and, while no port was opened across a
  callback, `Core`. The argument is Dekker's: a callback counts itself and then looks at `closing`, a close sets `closing` and then
  looks at the count. So a close that found nobody (`Quiesced`) has no callback among the buffers for as long as it lasts, a close inside the callback knows
  where that is (`DriverCloses`), a close has the mutex and the handle it took (`ClosesAlone`), and the driver has nothing of ours without a device (`DriverHas`):
  hence `BuffersOutliveCallbacks` and `DriverOwnsNoFreed`. Each of the conditions is needed by another one; `CallbackHas`, for example, is
  kept by a callback that has a buffer deleted while it was not yet counted only because `closing` stays set.
  `QuietAfterClose` needs `Calm` besides: between a close and the next open, `closing` is set or the driver has neither a started device nor a buffer to give back
  (`KeptOut`), and only a close that deletes buffers leaves the flag of the facade without a device.
- `Observers_proofs`, PipeWire's: the mirror (`emitted` ports are bound, announced ports are listed and were emitted)
  gives `AddedOnce`. The refinement shows that `Init` maps to the initial state of
  `PortDirectory` and each step to a step or a stutter: an info that announces a set of ports is `Added`, a removal `Removed`, the end
  of the observer or the first reconnect `Closed`.
  For `SnapshotExact` and `NoneMissed` the invariant says what the worker will still hear. `Foreseen`: the globals and removals on the wire, read in order, lead from what it has bound to the graph of the daemon,
  by way of graphs that the daemon had, so that a removal is never of something unknown and an id that comes back is bound again. `Served`: a request, or a resource, is of a global that lives.
  `Pending`: what is bound and not listed is being asked for, or its info is on the way. `FirstSync` and `SecondSync` are the two round trips of `make()`: the answer to the first comes after all globals
  of the beginning, and the requests that these lead to are before the second sync, so that its answer comes after their infos.
- `Observers_proofs`, the other ten: `ObserversAlternate`, that is the refinement of `PortDirectory` by `Hotplug` and by `Watchers`, and that no callback is late, for any numbers of ports, devices, blocks, changes and checks.
  - `HotInv`. An observer that compares keeps an account (`Balanced`): what the user was told of a port and what is left to add is what is left to remove and what the list that will be adopted has of it; `Times` counts how often a list has a port, and is 0 or 1
    for every port that is not `raced`. An observer that listens knows what it told (`InTurn`), and before each announcement of a port that appears there is one that it went, with none that it came in between, or it is not known and there is none (`Free`): the announcements that are
    still unread alternate as well, which is what a handler that looks nothing up needs. `Visits` carries both through the constructor: what is known was visited, and what is behind the cursor changes in no way but a race.
  - `WatchInv`. `Hears`: what the user heard, and will when the calls that are `due` were made (`Will`), is what the service's thread has in its list, or for CoreMIDI, that has none, passes the filter. `DueInv`: these calls are of one kind, each once, and a lookup is last, so that no
    port is added and removed by one handler. `Alternates` is `Free` for a queue of devices: an added device has none of its ports known by then (`Clear`) or was announced to be gone before. CoreMIDI removes what it is told, known or not, and needs the reverse too (`Dually`). `Stages` says
    which of this holds in a constructor; the ports in `mixed` are excepted, and the proof is that nothing else becomes wrong by these races.
  - The hypothesis `Orderly` (`NotifyInConstructor`, and users of WinUWP and Windows MIDI Services who wait for the watcher) is needed by `Watchers` only: without it the code does what section 6 says of these two. `HotplugImplementsDirectory` has no hypothesis.
- `JackClient_proofs`: `CleanHandshake`, `GoneIsForgotten` and `InOrder`. `Turns`: each process thread works on objects of its own client only. `Ports`: the port that a callback is shown is the registered one, from the opening to the start of
  the close. `Handed`: while a callback works on a port, the port is open, or its close has found the callback at work (`caught`) and has no token to take, which only this callback can leave; or that close found it at work
  and went wrong, by its time or by an old token. It has no condition on what cycles there were before. `Once` and `Remembered` say where the
  handler knows an object from, and that `added` is before `removed`. `Rings`: a ring ends with a header only while its message is being written, and every other header has its body behind it.
- `MidiStream_proofs`: `Transparent`, `TimesAddUp` and the action property `Recovers`, for packets, streams and gaps of any length. What `Transparent` claims is what the flags of the configuration say, of all that is `Decided`; with `FilterApplies` in its place it would be false. Every call of the decoder is one of six (`Outcome`: it skips, collects, finishes, starts, passes or unpacks), which are proved of
  `on_bytes()` and `on_bytes_multi()` once and are all that the rest uses. `Collected`: what is collected began with the sysex that the device is inside of, or something of it was damaged. What was delivered and is being collected grows by what was received
  and is wanted (`Grows`), and what a gap damages is taken from both sides.
- `Ports_proofs`: `ClosedIsQuiet`, `OpenIsServed`, `HearsWhatWasDone` and `SendsWhatItSays`, of the models that `MCPorts` composes. `PortsInv` has a part for each; since one of them moves at a time, each part has its own `...Init` and `...Step`, and `PortsStep` joins them.
  - ALSA (`AlsaInv`): the eventfd has its token from `Notify` to `Consume` and at no other time (`HasToken`), and outside of a call a thread can be joined only of an open port (`IdleWithThread`), so that no token is left for the next thread and no thread for the next opening.
  - Inputs of services (`InInv`): what is called back, or polled by Android, is open; who waits for Android's thread has told it to end. Outputs (`OutInv`): the users of KDMAPI's stream are counted (`OutCounts`), and what is left of a connection when a port is closed, and there when it
    is open, per back-end. `Destinations` and `Sources` are any sets that do not have the names of what is none.
  - Sends (`SendInv`): while a send runs, the units that it handed over and those that are left are those of the message, in order (`SendRest`), so that a return with nothing left may say "ok" and any other hides nothing. `SendLogs`: what is on the wire is of a
    send that was begun, and went to what the output was open for. `Walks`: what is left is whole but for its beginning, which makes the length of the next native call (`NextWriteLaw`) positive and no more than is left: there is an end of an event or packet to write to, and a packet that fits
    a list (`SendsAssumption`). `Handed` and `Units` are a recursive function and a fold; their laws are proved by induction over the log and the message. An output that `Tells` does not have may return "ok" for what was refused (`seq_ump`, `kdmapi`, `webmidi`, `android`), or lose a list in the middle (`coremidi_ump`).
  - C and C++ (`CInv`): what lives is known to the application or is being made (`KnownOrMade`); a handle is of what is known, or of what is being opened (`HandedInTime`). That an object is what was asked for (`Promises`) is a case analysis of `BackendChoice`, whatever is compiled and whatever
    the system has: the search (`TriedLaw`, `FoundLaw`), an API (`ForApiLaw`), a configuration (`ForConfigurationLaw`), each constructor (`ChosenLaw`). It needs that the dummy is in both lists and always there, and that an API is of one protocol (`BuildAssumption`, `SystemAssumption`).
  - What inputs hear (`HearsWhatWasDone`). Network (`NetHears`): whatever waits at the socket, in the queue of the context or in a handler is a datagram of our output or of another program; of any such datagram the parser makes the packets that were sent, and nothing of what is cut or unknown (`Carries`). The parser is a
    recursive function over the type tags, and the law is proved by induction over the packets. Keyboard: a note that sounds is in the map of a key that is held; with keys that repeat it is false, and the theorem has the hypothesis that they do not (`~AutoRepeat`; section 6, item 11).
    Services (`InTells`): what listens, and every request that Android will answer, is for what was asked for last, and the group filter is of that port, unless the input keeps something of an earlier opening (`Again`).
    Python (`PyReports`): what Python was called with, what is in the queue and what a thread or the top of the stack carries are, joined, 1, 2, ... without a gap; of a direct object each is there once. C and C++: `SpeaksTheProtocol` follows from `Promises`.
- `DataLemmas`: what the others need of sequences. `Members` of a sequence, `Filtered` (a sequence without what is not in a set, with what becomes of it under `Append`, `\o`, `Head` and another filter), `Line` (four sequences, one behind the other), `Times` (how often a sequence has a value), `FlattenSeq` of the community modules, and folds. Induction over numbers and over sequences is stated
  without a predicate as a parameter: of a set `P` of numbers (`Induction`) or of sequences (`SeqInduction`). With it, what a fold of the community modules or a recursive function computes can be proved for every length: `FoldExists` and `FoldsAgree` give the function that a fold stands for,
  and `JackClient_proofs` (`ThoseLaws`), `MidiStream_proofs` (its laws of `Kept`, `Flatten` and `Sum`), `PwClient_proofs`, `Observers_proofs` and `Ports_proofs` use it.

The proofs found three definitions in `BackendChoice` and one in `CInterface` whose `CASE` had two guards that may hold at once: TLC takes the first, TLA+ does not say which. They are `IF`s now, in the order of the code. They found two steps of `Hotplug`: WinMM's comparison put several ports into `raced` at once, which no step of `PortDirectory` allows
of ports that the user knows; a port is in it now from the moment it is found at a second position. And `Adopt` had no guard against the constructor that already adopted.

Proved from the assumptions that the modules name (`ASSUME`), which TLC evaluates in the runs, and
about the models: a proof says nothing of the parts that section 5 leaves out. Only model-checked:

- liveness and what depends on `ENABLED`, which the prover does not do: the properties `...Return`, `...Returns`, `PortsArrive`, `CatchesUp`;
- what `MCFormats` checks: `UmpConverter`, `MidiFile`, `PacketLayouts`, `PacketStreams`, `MidiCi`, `RemoteControl`, `ShowProtocols` and `PortMatch`. Most of it is the comparison of what two functions compute for the requests, packets and files that the instance lists; those of these modules that
  declare `RECURSIVE` operators cannot be reasoned about by the prover at all.

## 5. What the models leave out

- Memory orders: the atomics that matter are sequentially consistent in the code.
- PipeWire: `auto_reconnect`, which is off and documented as unfinished; a context on a foreign core; formats, links and devices;
  object errors are sent but change nothing, as in the code.
- JACK: the shutdown of the server, error paths of opening, the direct output.
- WinMM: names of ports; the loops that retry `MIDIERR_STILLPLAYING` are one step with either outcome. The window between the driver's call
  and the registration of the callback is in the model, but not the object's memory: whether `midiInClose()` waits for a call that has
  just begun is not documented, and the code relies on it.
- Decoder: bytes that are not legal MIDI, running status, and the other timestamp modes, which keep no state.
- PipeWire ports: that links and ids arrive late (`link_ports()` polls the snapshot: it finds its port or gives up), the formats of messages, the destructor
  after `close_port()`, renaming.
- ALSA: the inputs whose descriptors the application polls itself, the inputs on the shared handler: their `client_open_` keeps its default `not_connected` (`alsa_seq/midi_in.hpp:469`,
  `detail/midi_api.hpp:37`), so that `midi_in::open_port()` refuses, and no input of a `client` hears anything.
- Observers: what JACK tells between the registration of the callback and `jack_activate()` is taken as queued (`Listens`); names that are not unique; that input and output ports are two lists; a shared JACK context.
- Services: what CoreMIDI, WinRT and the others do inside. That a disconnection of CoreMIDI, WinUWP, Windows MIDI Services or raw I/O returns after the callbacks that run (`Quiet`, the constant `Waiting`) is an assumption about them: nothing in the code
  establishes it, and without it `ClosedIsQuiet` is false of them. `ClosedIsQuiet` says something of the code where the code makes the callback end: ALSA's threads, Android's, and the strand of the network; one kind of ports (inputs or outputs) in `Watchers`; the list of devices that Java shares
  with all objects of Android, into which an opening indexes; the ports of JACK with UMP, which are those of `JackClient` but for the words in its ring.
- Headers: the process inquiry's bit maps as sets; text of several packets; the conversion of whole files between versions.
- Network: that a datagram is larger than `m_data`; the second context of an application.
- Formats: what is not in a message of channel, system or sysex kind (utility, flex data and stream messages pass through); SMPTE divisions of files.
- Show protocols: names of commands; text that is not of characters the protocols allow; that a `message` may be shorter than its status says.
- Keyboard: keys outside of the map; `close_port()`, which does nothing, so that the keys go on to play (`keyboard/midi_in.hpp:40`).
- Remote control: `control()`, what `response_to_challenge()` computes, the commands that the processor never sends, characters beyond ASCII.
- Port comparison: the rounding of a `double`; names of more than 1024 characters; identifiers of devices other than a number.
- Choice of a back-end: a system that changes within one constructor (`make_observer()` then calls itself again), moving an object, an API that C names by a number that is none.
- C: the clones of ports, and the functions that check a pointer and pass the call on. Arguments that are not looked at: `api`, which three functions read without a look whether it is `NULL` (`libremidi-c.cpp:191`, 278, 433).
- Python: `get_timestamp`, and the classes of ports and configurations, which are values. Of those, `__len__` of a message takes an argument too many (`pylibremidi.cpp:430`, 449).
- A callback of the application that throws, of an input in C++.
- Two hazards have a finding or a note only, and no property: `finalize_sync()` stores over a fatal error (item 4 below), and the object that a callback on the JACK handler refers to may be destroyed before its removal is read.
- The loaders of shared libraries (`dylib_loader.hpp` and the tables of functions) fill structures once; `system_error2.hpp` and the other vendored headers are not the library's own.

## 6. Where the code differs from what it says

A run or a configuration shows each of these with its counterexample, and `PROJECT.json` quotes the line.

1. `pw_holder_deadlock`: an `on_invalidated` subscriber that takes a holder can wait for a thread that waits for `reconnect()`.
2. `jack_unregister`: every ordinary cycle leaves a token, so that a close unregisters the port while a callback uses it.
3. `MCPwClient_deviations.cfg`, `CapturedStateMayDie`: a `reset()` that misses `sync_deadline` returns with the subscriber registered.
4. `MCPwContext_fatal.cfg`: `finalize_sync()` can overwrite `broken` with `connected`.
5. `MCPwGraph_removed.cfg`: a port announced by the constructor's walk is never announced as removed.
6. `MCPwClient_deviations.cfg`, `PortsTriedAgain`: a message that does not fit in a buffer makes the whole buffer unreadable, so that those before it are lost; one larger than
   a buffer does so in every cycle.
7. `MCPwClient_deviations.cfg`, `PortsHavePort`: `process()` runs before a port is opened and after it is closed.
8. `MCFormats_deviations.cfg`, `PortFuzzyCounts`: in the search over other APIs a similarity below 1 is added to an `int` and is lost: names that are nearly equal never count.
9. `MCFormats_deviations.cfg`, `RemoteLightsFollow`: `command()` sends a note on and at once the note off, so that nothing stays lit.
10. `MCFormats_deviations.cfg`, `ShowCuesKept`: a cue with a path and without a list comes back with the path as its list (`protocols/msc.hpp:247`).
11. `MCPorts_deviations.cfg`, `HearsWhatWasDone`: a key that repeats while the octave changes leaves a note that nothing ends (`keyboard/midi_in.hpp:60`).
12. `MCPorts_deviations.cfg`, `KeysAreNotes`: the octave goes up to 127, and from the eleventh a note is not one of MIDI (`keyboard/midi_in.hpp:57`).
13. `MCPorts_deviations.cfg`, `FindsWhatWorks`: raw I/O is always available and opens without a transport, so that a search does not go on to the other protocol (`midi_in.cpp:99` and `midi_in.cpp:197`, "No MIDI 2 backend, try the
   MIDI 1 ones with a wrap"): an input of packets where there is only MIDI 1 opens and hears nothing. A search for an output finds the dummy of the keyboard before any output of MIDI 2.
14. `MCPorts_deviations.cfg`, `ThrowsNothing`: an input with only `on_raw_data` that is given a back-end of the other protocol calls an empty function (`midi_in.cpp:21`), on the thread of the back-end.
15. `MCPorts_deviations.cfg`, `PortsReturn`: a direct object of Python takes the lock of the interpreter on the thread of the library, and its `close_port()` waits for that thread with the lock (`pylibremidi.cpp:147`).
16. `MCPorts_deviations.cfg`, `PythonGoesOn`: the visits are `noexcept`, so that an exception of a Python callback ends the process (`pylibremidi.cpp:99`).
17. `MCPwClient_deviations.cfg`, `ScanStable`: a list of subscribers changes while it is iterated. A subscriber of a graph event that subscribes to the same event, or drops a subscription to it, changes the vector that its own dispatch
    iterates, since `with_lock()` and `invoke_sync()` run at once on the loop thread (`context.hpp:284`, `context.hpp:347`, `context.hpp:653`); and `dispatch_state()` and `dispatch_invalidated()` iterate on the thread of `reconnect()`, outside of the loop lock that
    `context.hpp:616` says serialises changes with dispatch.
18. `MCJackClient_unregister.cfg` with `PortIsThere` in place of `PortStaysRegistered`: the callback looks whether there is a port (`jack/helpers.hpp:144`, `jack/helpers.hpp:169`), `process()` reads it again (`jack/midi_in.hpp:90`, `jack/midi_out.hpp:95`), and a close in between
    has JACK asked for the buffer of a null port, in the cycle of which `jack/helpers.hpp:235` says that it "sees the port as nullptr".
19. `MidiStream.cfg` with `FilterApplies` in place of `Transparent`: a clock or an active sensing message inside of a sysex is delivered as a part of it although `input_configuration.hpp:72` says that it is ignored, and one
    that is wanted is dropped with a sysex that is ignored.

Others were met while modelling and have no run; the properties are stated with the condition that excludes them:

- With two holders, syncs share one sequence number and one pair of flags: `SyncMeansRoundTrip` is checked for a sole holder.
- A rebuild that fails on a recoverable error leaves the context `connecting`, and the next `synchronize()` promotes it without a new
  generation (`context.hpp:266`).
- A port that goes around a `reconnect()` is never announced as removed, and one that stays is announced again.
- `winmm/midi_in.hpp:281`: a later `close_port()` does not retry a close that failed, since the facade has cleared its flag; only the destructor does.
- `winmm/midi_in.hpp:434`: the second look at `closing` does not help when the user's callback closes the port and opens it again: `overlapped`.
- The decoder: relative times count from the last span, not from the last
  message (`input_configuration.hpp:17`), and each message of a packet gets the same one; a sysex cut by a close goes on with whatever comes
  after the next open; the raw ALSA input passes many events to `on_bytes()`, which is for one.
- PipeWire ports: the queue is not cleared by a close, so that old messages go to the next port; a buffer that cannot be parsed is not given back; `link_ports()` reports success
  where the daemon refuses later; the link survives a `reconnect()`; a system reset is dropped (`midi_out.hpp:119`, "TODO why"); the form for UMP sends only the first packet of up to
  four words; `context.hpp:875` unlinks listeners that a failed rebuild never installed; `auto_reconnect` (`context.hpp:833`) stops the loop from inside of it.
- ALSA inputs: the UMP device is opened blocking (`alsa_raw_ump/midi_in.hpp:43`), so that a close waits for a silent device; a raw thread ends on any failed poll; an opening that fails after `rawmidi.open`
  leaks the handle (`alsa_raw/midi_in.hpp:42`); an event that cannot be processed ends the shared handler's thread (`shared_handler.hpp`), for all its ports.
- Observers: JACK and the ALSA sequencer list before they listen; the raw ALSA timer counts nanoseconds where it says milliseconds and is never read (`alsa_raw/observer.hpp:123`);
  WinMM lists by positions that shift, and takes a name from uninitialised memory when a device has gone; the JACK observer leaves its callback registered on a context it shares; the removal
  of `alsa_seq/shared_handler.hpp:77` is safe only in the order of `client.hpp:91`.
- Converters: indices are `uint8_t`, so that a sysex of 256 bytes never ends and a longer one is wrong; a sysex after another message of one call goes to the wrong words; selections are not kept
  per channel, an RPN wins over a later NRPN, and a selection that is not complete has later messages refused until a data entry (`cmidi2.hpp:2936`);
  a pitch bend of 14 bits is scaled as one of 16; MIDI 2 drops the song position with the clock and MIDI 1 does not; an input of the other protocol converts a sysex packet by packet and keeps the last;
  the way back keeps four words; statuses that MIDI 1 does not have arrive as empty packets; a last packet that is cut makes the count of words wrap.
- Files: bytes that look like an end of track end it; `invalid` is returned although tracks were kept; an `F7` event loses its status on the way; an event that is skipped loses its time; the
  number of tracks wraps at 65536; `add_track` adds two; an escape's payload sets the running status; `meta_events::channel` gives `clamp` its bounds the wrong way round.
- Network: a context of the input's own ends when it has no work (the guard of `helpers.hpp` guards nothing); a close of MIDI 1 leaves a handler that fails and asks again for ever, and the destructor waits for it;
  a second opening is deaf and the outputs say they succeeded; with the application's context a handler may run on a destroyed object; `m_portname` and `m_data` go before the thread is joined;
  of several packets in one datagram the first is heard; more than four words, flex data and stream messages are refused; a MIDI 1 output takes only messages of three bytes.
- Remote control: the character that falls on the end of a row is lost; any sysex of the manufacturer changes `impl.type`; nothing tells the processor that a surface is gone, so that it stays
  connected until the next handshake; a fader beyond 16383 wraps.
- Show protocols: `send()` of a locate or of a timed go leaves out the time, and no station understands it (`protocols/mmc.hpp:162`).
- Port comparison: a port that was given the saved handle and is called nearly the same (four letters of five) is returned instead of the right one; of two ports with one score the search over other APIs keeps the last;
  letters are compared without regard to case, so that `find_closest_port()` may return a port with other capitals; it does not look at the container (`port_comparison.hpp:191`), and `P_PRODUCT_MISMATCH` is not used.
- Outputs: ALSA's UMP output, KDMAPI, WebMIDI and CoreMIDI's earlier lists report success for what was refused; Windows MIDI Services lets an exception through, and an absent endpoint succeeds;
  a virtual port of the sequencer survives `close_port()` and hears what is sent to the next destination; CoreMIDI keeps `destinationId`; the destructor of KDMAPI ends the stream of other outputs; destructors close handles
  that no constructor initialised (`winmm/midi_out.hpp:74`) or a sequencer that was not opened. With one of these back-ends in `Tells`, `Connects`, `Frees` or `Forgets`, `MCPorts` shows each.
- Inputs of services: the group filter of Windows MIDI Services outlives the opening, and a block of two groups is heard in the first only; what `Open()` returns is not read; WebMIDI's `stop_stream` reads an argument it was not
  given (`midi_access.hpp:306`); Android starts a thread for an object that was closed, opened again or destroyed. `FirstOnly`, `Served` and `Released` exclude them.
- Observers of services: destructors do not wait for a callback of the watcher, and WinUWP changes the list of registrations without a lock while it is called (`Idle`); WinUWP and JACK list before they register, CoreMIDI may be
  called before it lists (`mixed`); Windows MIDI Services without `notify_in_constructor` announces what exists all the same when its watcher is slower than the constructor (`NotifyInConstructor`);
  WebMIDI calls `input_added` without a look whether it is set, and never announces a removal.
- Choice of a back-end: C that asks for an API of MIDI 1 that is not there gets another one and no error, where C++ gets the dummy and "Could not open midi in for the given api" (`libremidi.cpp:94`); an output with such a configuration is searched for
  (`midi_out.cpp:81`), an input or an observer is not; the list of MIDI 2 does not ask `available()` (`backends.hpp:217`), so that C++ may construct a back-end whose service is missing. `GetsWhatWasAsked` states each.
- Python: the queue is for one producer and one consumer, and the thread of the library reports while a call does (`raced`).
- Headers, `cmidi2.hpp`: `device_identity` writes `deviceFamilyMSB` twice (448); a name with a character of 128 or more borrows from its neighbour; `dctpq` is not masked (581) and the reader of `dcs` takes 16 bits of 20 (1399);
  the size of flex data and stream messages is 0, so that `add_single` adds nothing and `get_sysex8_data` does not advance; the chunks of a mixed data set are counted with 65536 and cut with 65535 and read beyond the
  data; the texts of flex data all begin with the first byte; the header of a mixed data set is written low byte first and read high byte first; the reader of sysex8 refuses what fits exactly (1802: and what
  `continueOnCompletion` says is inverted); the merge loses the first delta of a tail, is wrong from 0x10000 on, drops the tail at an exact capacity and copies without a look at it; MIDI-CI lengths of 128 leave the seven bits, `ack`
  and `nak` have one number, the size of a header is taken modulo 255.
- Headers, others: `from_midi1::pitch_bend` scales 14 bits as 16 and `as_midi1` gives 14; `get_message_size_smf` takes the type of a meta event as its length.

## 7. Plan

1. The direct JACK output; the shutdown of a JACK server; the ports of JACK with UMP.
2. Android's list of devices, shared with Java; the polled inputs of ALSA.
3. Proofs: `RemoteFollows`, whose state is small.
