----------------------------- MODULE MCHotplug ------------------------------
\* Each observer, two ports or devices that come and go before, in and after its
\* constructor; one observer at a time, which compares or listens (Hotplug) or is
\* called back by a service (Watchers). A device of Windows MIDI Services has one
\* block or two. The first device is hardware, and of MIDI 2 for JACK.
EXTENDS Integers, Sequences, FiniteSets

CONSTANTS Backends, PortCount, Rechecks, MaxMoves
CONSTANTS Services, Devices, Layouts, Physical, Ump, NotifyInConstructor, Idle, MaxSteps

VARIABLES watched
VARIABLES backend, devices, moves, news, phase, at, cursor, last, found, adding, removing, known, callbacks, checks, raced
VARIABLES service, tracks, blocks, steps, watching, announced, stage, seen, due, heard, late, mixed
tvars == <<backend, devices, moves, news, raced, phase, at, cursor, last, found, adding, removing, known, callbacks, checks>>
wvars == <<service, tracks, blocks, steps, watching, announced, stage, seen, due, heard, late, mixed>>

Thread == INSTANCE Hotplug
Service == INSTANCE Watchers

\* The observers are those that the modules describe; ports are counted.
ObserversAssumption ==
  /\ Backends \subseteq {"seq", "shared", "raw", "jack", "winmm"}
  /\ Services \subseteq {"winuwp", "winmidi", "coremidi", "webmidi", "jackump"}
  /\ PortCount \in Nat \ {0} /\ Rechecks \in Nat /\ MaxMoves \in Nat /\ MaxSteps \in Nat
\* What is not Windows MIDI Services has devices with one block, 1; a device that
\* exists has one.
DevicesAssumption == IsFiniteSet(Devices) /\ IsFiniteSet(UNION Layouts) /\ 1 \in UNION Layouts /\ {} \notin Layouts
ASSUME HotplugAssumption == ObserversAssumption /\ DevicesAssumption

MCLayouts == {{1}, {1, 2}}

\* What is not used is in one of its initial states.
MCInit ==
  /\ watched \in BOOLEAN
  /\ Thread!Init /\ (watched => backend = "seq" /\ devices = <<>>)
  /\ Service!Init /\ (~watched => service = "webmidi" /\ \A d \in Devices : blocks[d] = {})
MCNext ==
  /\ UNCHANGED watched
  /\ \/ ~watched /\ Thread!Next /\ UNCHANGED wvars
     \/ watched /\ Service!Next /\ UNCHANGED tvars
MCSpec ==
  /\ MCInit /\ [][MCNext]_<<watched, tvars, wvars>>
  /\ (~watched => Thread!Fairness) /\ (watched => Service!Fairness)

\* Whichever observer there is, the callbacks for a port alternate, added first,
\* and none comes after a destructor (Hotplug, Watchers: PortDirectory).
ObserversAlternate == Thread!Directory!Spec /\ Service!Directory!Spec /\ [](Service!NoneLate)

\* The user comes to know the ports that exist, and a destructor that waits for
\* a thread returns (Hotplug, Converges, DestroyReturns; Watchers, Settles).
CatchesUp == (~watched => Thread!Converges /\ Thread!DestroyReturns) /\ (watched => Service!Settles)
=============================================================================
