------------------------------ MODULE Watchers ------------------------------
(* The observers that a service calls back: WinUWP (a watcher per process,  *)
(* shared by the observers), Windows MIDI Services (a watcher of its own,    *)
(* which also announces what exists already), CoreMIDI (through the run loop *)
(* of the user's thread), WebMIDI (a timer of the page) and JACK with UMP.   *)
(*                                                                           *)
(* External: the devices and the service, which announces each change once,  *)
(* in order and any time later. CoreMIDI is taken to answer for an object    *)
(* that was removed as it did before, JACK is not. WebMIDI keeps what was    *)
(* disconnected. Inputs and outputs are followed in the same way, one kind   *)
(* is here; a user who does not ask for notify_in_constructor lists the      *)
(* ports at that moment, which is the same but for Windows MIDI Services.    *)
EXTENDS Integers, Sequences, SequencesExt

CONSTANTS
  Services,    \* the observers considered, of "winuwp", "winmidi", "coremidi", "webmidi", "jackump"
  Devices,
  Layouts,     \* Windows MIDI Services: the sets of blocks that a device may have
  Physical,    \* the devices that are hardware, the others are virtual
  Ump,         \* JACK: the devices whose ports carry the flag of MIDI 2
  NotifyInConstructor, \* for Windows MIDI Services
  Idle,        \* the services whose observer the user makes and destroys while the watcher is idle
  MaxSteps     \* bound: devices that appear, vanish or change

VARIABLES
  service, tracks,
  blocks,    \* blocks[d]: of the device, none when it does not exist
  steps,
  watching,  \* the service announces what happens
  announced, \* what it has announced and we did not hear
  stage,     \* of the observer: "new", "between" two steps of its constructor, "made", "gone"
  seen,      \* portList_, m_known_input_devices, seen_input_ports, m_known_inputs
  due,       \* callbacks that the handler of an announcement still has to make
  heard,     \* heard[p]: added callbacks less removed ones
  late,      \* history: a callback was made after the destructor
  mixed      \* history: ports that a race of the constructor may get wrong

outside == <<blocks, steps, watching>>
wvars == <<service, tracks, outside, announced, stage, seen, due, heard, late, mixed>>

AllPorts == Devices \X UNION Layouts
PortsOf(d) == {<<d, b>> : b \in blocks[d]}
Existing == UNION {PortsOf(d) : d \in Devices}
Kinds == {"added", "updated", "removed", "lookup"}

\* track_hardware, track_virtual, track_any; the flag of MIDI 2.
Filters == service \in {"coremidi", "jackump"}
Passes(p) ==
  /\ Filters => \/ tracks = "any"
                \/ tracks = (IF p[1] \in Physical THEN "hardware" ELSE "virtual")
  /\ service = "jackump" => p[1] \in Ump
Wanted == {p \in Existing : Passes(p)}

WatchersTypeOK ==
  /\ service \in Services /\ tracks \in {"hardware", "virtual", "any"}
  /\ blocks \in [Devices -> SUBSET UNION Layouts] /\ steps \in 0..MaxSteps /\ watching \in BOOLEAN
  /\ announced \in Seq([kind : Kinds, device : Devices, ports : SUBSET AllPorts])
  /\ stage \in {"new", "between", "made", "gone"}
  /\ seen \subseteq AllPorts
  /\ due \in Seq([kind : Kinds, port : AllPorts] \cup [kind : Kinds, device : Devices])
  /\ heard \in [AllPorts -> Int] /\ late \in BOOLEAN /\ mixed \subseteq AllPorts

Announcement(kind, d, ports) == [kind |-> kind, device |-> d, ports |-> ports]
Calls(kind, ports) == SetToSeq({[kind |-> kind, port |-> p] : p \in ports})
Announcing == SetToSeq({Announcement("added", d, PortsOf(d)) : d \in {x \in Devices : blocks[x] # {}}})

\* The process may have used WinUWP's watcher before.
Init ==
  /\ service \in Services
  /\ tracks \in (IF Filters THEN {"hardware", "virtual", "any"} ELSE {"any"})
  /\ blocks \in {[d \in Devices |-> {}], [d \in Devices |-> IF d = 1 THEN {1} ELSE {}]}
  /\ steps = 0
  /\ watching \in {FALSE, service = "winuwp"}
  /\ seen = IF watching THEN Existing ELSE {}
  /\ announced = <<>> /\ stage = "new" /\ due = <<>>
  /\ heard = [p \in AllPorts |-> 0] /\ late = FALSE /\ mixed = {}

-----------------------------------------------------------------------------
(* The devices and the service.                                             *)

\* What happens between two steps of these constructors is announced and
\* listed, or neither.
Slips == stage = "between" /\ service \in {"coremidi", "jackump"}

Happens(kind, d, now) ==
  /\ steps < MaxSteps
  /\ steps' = steps + 1
  /\ blocks' = [blocks EXCEPT ![d] = now]
  /\ announced' =
       IF watching THEN Append(announced, Announcement(kind, d, {<<d, b>> : b \in now \cup blocks[d]})) ELSE announced
  /\ mixed' = IF Slips THEN mixed \cup {<<d, b>> : b \in now \cup blocks[d]} ELSE mixed
  /\ UNCHANGED <<service, tracks, watching, stage, seen, due, heard, late>>

Arrives(d) ==
  /\ blocks[d] = {}
  /\ \E now \in (IF service = "winmidi" THEN Layouts ELSE {{1}}) : Happens("added", d, now)
Leaves(d) == blocks[d] # {} /\ service # "webmidi" /\ Happens("removed", d, {})
Changes(d) == service = "winmidi" /\ blocks[d] # {} /\ \E now \in Layouts \ {blocks[d]} : Happens("updated", d, now)

-----------------------------------------------------------------------------
(* The constructors and destructors.                                        *)

Tell(ports) == heard' = [p \in AllPorts |-> IF p \in ports THEN heard[p] + 1 ELSE heard[p]]

\* The user's thread makes CoreMIDI's callbacks, and a client of JACK is closed
\* once its thread has ended.
Unhurried == service \in Idle \cup {"coremidi", "jackump"} => due = <<>>

\* The ports are listed and the watcher, if there is none, is made and starts
\* with what exists; the observer is registered with it later.
ListThenRegister ==
  /\ service = "winuwp" /\ stage = "new"
  /\ stage' = "between" /\ watching' = TRUE
  /\ announced' = IF watching THEN announced ELSE Announcing
  /\ Tell(seen)
  /\ mixed' = mixed \cup {due[i].port : i \in DOMAIN due}
  /\ UNCHANGED <<service, tracks, blocks, steps, seen, due, late>>

\* The watcher announces what exists from threads of its own.
StartWatcher ==
  /\ service = "winmidi" /\ stage = "new"
  /\ stage' = "between" /\ watching' = TRUE /\ announced' = Announcing
  /\ UNCHANGED <<service, tracks, blocks, steps, seen, due, heard, late, mixed>>

\* initial_callback(), then the callback is set and the client activated.
ListThenListen ==
  /\ service = "jackump" /\ stage = "new"
  /\ stage' = "between" /\ seen' = Wanted /\ Tell(Wanted)
  /\ UNCHANGED <<service, tracks, outside, announced, due, late, mixed>>

\* The client is made first; the run loop, which runs before the ports are
\* listed, may announce the same ports.
CreateClient ==
  /\ service = "coremidi" /\ stage = "new"
  /\ stage' = "between" /\ watching' = TRUE
  /\ UNCHANGED <<service, tracks, blocks, steps, announced, seen, due, heard, late, mixed>>

\* m_in_constructor is reset; without notify_in_constructor the user lists the
\* ports.
Constructed ==
  /\ stage = "between" /\ (service = "winuwp" => Unhurried)
  /\ stage' = "made" /\ watching' = TRUE
  /\ CASE service = "coremidi" -> Tell(Wanted)
       [] service = "winmidi" /\ ~NotifyInConstructor -> Tell(Existing)
       [] OTHER -> UNCHANGED heard
  /\ UNCHANGED <<service, tracks, blocks, steps, announced, seen, due, late, mixed>>

\* A page has one thread: nothing happens within the constructor.
LoadAndUpdate ==
  /\ service = "webmidi" /\ stage = "new"
  /\ stage' = "made" /\ seen' = Existing /\ Tell(Existing)
  /\ UNCHANGED <<service, tracks, outside, announced, due, late, mixed>>

\* No destructor waits for the watcher, which may be in a callback; and the one
\* of WinUWP changes, without a lock, the list that is being called.
Destruct ==
  /\ stage = "made" /\ Unhurried
  /\ stage' = "gone"
  /\ late' = (service = "winuwp" /\ due # <<>>)
  /\ UNCHANGED <<service, tracks, outside, announced, seen, due, heard, mixed>>

-----------------------------------------------------------------------------
(* The watcher: one announcement at a time.                                 *)

Heed(kind) == due = <<>> /\ announced # <<>> /\ Head(announced).kind = kind /\ announced' = Tail(announced)
Listening == service = "winuwp" \/ stage \in {"between", "made"}

\* Of a port that was listed while its handler ran, or that changed before the
\* observer was registered, the user hears too much or nothing.
Mixed(ports) == mixed' = IF service = "winuwp" /\ stage = "between" THEN mixed \cup ports ELSE mixed

\* on_device_added(), notify(), on_port_callback(): whatever is announced is
\* told; a list is kept by the watcher of WinUWP and by JACK.
OnAdded ==
  /\ Listening /\ Heed("added")
  /\ LET ports == {p \in Head(announced).ports : Passes(p)}
     IN /\ seen' = IF service \in {"winuwp", "jackump"} THEN seen \cup ports ELSE seen
        /\ due' = Calls("added", ports)
        /\ Mixed(ports)
  /\ UNCHANGED <<service, tracks, outside, stage, heard, late>>

\* Mutated form of OnRemoved: JACK is asked about a port that is gone.
OnRemovedAsking ==
  /\ Listening /\ Heed("removed")
  /\ LET of == {p \in AllPorts : p[1] = Head(announced).device}
         ports == CASE service = "coremidi" -> {p \in Head(announced).ports : Passes(p)}
                    [] service = "jackump" -> seen \cap of \cap Existing
                    [] OTHER -> seen \cap of
     IN /\ seen' = seen \ of
        /\ due' = Calls("removed", ports)
        /\ Mixed(ports)
  /\ UNCHANGED <<service, tracks, outside, stage, heard, late>>

\* on_device_removed(), remove_device(): only what was recorded is told, and the
\* flags of a port of JACK that is gone are not read. CoreMIDI keeps nothing.
OnRemoved ==
  /\ Listening /\ Heed("removed")
  /\ LET of == {p \in AllPorts : p[1] = Head(announced).device}
         ports == IF service = "coremidi" THEN {p \in Head(announced).ports : Passes(p)} ELSE seen \cap of
     IN /\ seen' = seen \ of
        /\ due' = Calls("removed", ports)
        /\ Mixed(ports)
  /\ UNCHANGED <<service, tracks, outside, stage, heard, late>>

\* on_device_updated(): all blocks are removed, and those that the device has by
\* then are added.
OnUpdated ==
  /\ Listening /\ Heed("updated")
  /\ LET of == {p \in seen : p[1] = Head(announced).device}
     IN /\ seen' = seen \ of
        /\ due' = Append(Calls("removed", of), [kind |-> "lookup", device |-> Head(announced).device])
  /\ UNCHANGED <<service, tracks, outside, stage, heard, late, mixed>>

Lookup ==
  /\ due # <<>> /\ Head(due).kind = "lookup"
  /\ due' = Calls("added", PortsOf(Head(due).device))
  /\ UNCHANGED <<service, tracks, outside, announced, stage, seen, heard, late, mixed>>

\* Whom the watcher calls: WinUWP who is registered; Windows MIDI Services in the
\* constructor only if that was asked for.
Registered == service = "winuwp" => stage = "made"
Announces(kind) == service = "winmidi" /\ kind = "added" => stage # "between" \/ NotifyInConstructor

\* add_block() records the port and tells it.
Call ==
  /\ due # <<>> /\ Head(due).kind \in {"added", "removed"}
  /\ LET p == Head(due).port
         kind == Head(due).kind
     IN /\ due' = Tail(due)
        /\ seen' = IF service = "winmidi" /\ kind = "added" THEN seen \cup {p} ELSE seen
        /\ heard' = IF Registered /\ Announces(kind)
                    THEN [heard EXCEPT ![p] = @ + (IF kind = "added" THEN 1 ELSE -1)] ELSE heard
        /\ late' = (late \/ (stage = "gone" /\ Registered))
        /\ Mixed({p})
  /\ UNCHANGED <<service, tracks, outside, announced, stage>>

\* libremidi_devices_poll(), by a timer.
DevicesPoll ==
  /\ service = "webmidi" /\ stage = "made" /\ Existing # seen
  /\ seen' = Existing /\ Tell(Existing \ seen)
  /\ UNCHANGED <<service, tracks, outside, announced, stage, due, late, mixed>>

-----------------------------------------------------------------------------

World == \E d \in Devices : Arrives(d) \/ Leaves(d) \/ Changes(d)
Construct == ListThenRegister \/ StartWatcher \/ ListThenListen \/ CreateClient \/ Constructed \/ LoadAndUpdate
Watch == OnAdded \/ OnRemoved \/ OnUpdated \/ Lookup \/ Call \/ DevicesPoll

Next == World \/ Construct \/ Watch \/ Destruct
Spec == Init /\ [][Next]_wvars

\* The constructor returns, and the service, the run loop and the timer run.
Fairness == WF_wvars(Construct) /\ WF_wvars(Watch)

-----------------------------------------------------------------------------

\* But for the races of the constructors, the callbacks for a port alternate,
\* added first, although a device is looked up later than it changed, its ports
\* are not the ones it was added with, and JACK forgot its flags.
Told == [p \in AllPorts |-> IF p \in mixed THEN 0 ELSE heard[p]]
Directory == INSTANCE PortDirectory WITH Ports <- AllPorts, count <- Told

\* ... none is made after the destructor returned,
NoneLate == ~late

\* ... and the user comes to know the ports that exist and pass the filter.
Knows == \A p \in AllPorts \ mixed : (heard[p] > 0) = (p \in Wanted)
Settles == <>[](stage = "gone" \/ Knows)
=============================================================================
