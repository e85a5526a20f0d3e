---------------------------- MODULE Ports_proofs -----------------------------
(***************************************************************************)
(* Proofs about the ports that MCPorts composes, for any number of openings *)
(* and messages, any ports of other programs and any set of back-ends: what *)
(* a port leaves behind when it is closed, what an open one is served by,   *)
(* what an input hears and what an output says.                             *)
(***************************************************************************)
EXTENDS MCPorts, DataLemmas

-----------------------------------------------------------------------------
(* The inputs of ALSA. The eventfd has a token from the moment a close adds  *)
(* it until it takes it back, with no thread left in between.                *)

HasToken == tokens = 1 <=> call.at \in {"join", "consume"}
ThreadIsHeld == reader # "ended" => m_thread = "joinable"
OpensWithoutThread == call.at \in {"consume", "open", "connect", "params", "start"} => m_thread = "none"
IdleWithThread == call.at = "none" /\ m_thread = "joinable" => port_open /\ ~destroyed

\* What a call is for.
CallsInOrder ==
  /\ destroyed <=> call.purpose = "destroy"
  /\ call.at \in {"open", "connect", "params", "start"} => call.purpose = "open"
  /\ call.at # "none" /\ call.purpose = "open" => ~port_open

\* A thread ends on its own after a fault only, else in the call that ends it.
EndsWhenAsked ==
  port_open /\ ~destroyed /\ ~fault /\ reader = "ended" =>
    call.at \in {"join", "consume"} /\ call.purpose = "close"

ReadsWhatIsThere == backend = "seq" /\ reader = "read" => pending > 0

AlsaInv ==
  /\ TypeOK /\ HasToken /\ ThreadIsHeld /\ OpensWithoutThread /\ IdleWithThread
  /\ CallsInOrder /\ EndsWhenAsked /\ ReadsWhatIsThere


LEMMA AlsaInit == Init => AlsaInv
  <1> SUFFICES ASSUME Init PROVE AlsaInv
    OBVIOUS
  <1> USE DEF Init
  <1>a. call \in [at : Calls, purpose : Purposes] /\ reader \in Places
    BY DEF Calls, Purposes, Places
  <1>b. opens \in 0..MaxOpens /\ pending \in 0..QueueSize /\ unasked \in 0..MaxUnasked
    BY BoundsAssumption
  <1>c. port_open \in BOOLEAN /\ destroyed \in BOOLEAN /\ vport \in BOOLEAN /\ subscription \in BOOLEAN /\ fault \in BOOLEAN
    BY Zenon
  <1>d. device \in {"none", "open", "gone"} /\ tokens \in {0, 1} /\ m_thread \in {"none", "joinable"} /\ backend \in Backends
    OBVIOUS
  <1> HIDE DEF Init
  <1>1. TypeOK
    BY <1>a, <1>b, <1>c, <1>d DEF TypeOK
  <1> USE DEF Init
  <1>2. HasToken /\ ThreadIsHeld /\ OpensWithoutThread /\ IdleWithThread
    BY DEF HasToken, ThreadIsHeld, OpensWithoutThread, IdleWithThread
  <1>3. CallsInOrder /\ EndsWhenAsked /\ ReadsWhatIsThere
    BY DEF CallsInOrder, EndsWhenAsked, ReadsWhatIsThere
  <1>4. QED
    BY <1>1, <1>2, <1>3 DEF AlsaInv

LEMMA AlsaStep == AlsaInv /\ [Next]_vars => AlsaInv'
  <1> SUFFICES ASSUME AlsaInv, [Next]_vars PROVE AlsaInv'
    OBVIOUS
  <1> USE BoundsAssumption DEF AlsaInv, TypeOK, HasToken, ThreadIsHeld, OpensWithoutThread, IdleWithThread,
        CallsInOrder, EndsWhenAsked, ReadsWhatIsThere, Calls, Purposes, Places,
        object_vars, thread_vars, alsa_vars
  <1>1. CASE OpenPort
    BY <1>1 DEF OpenPort, Begin
  <1>2. CASE ClosePort
    BY <1>2 DEF ClosePort, Begin
  <1>3. CASE Destroy
    BY <1>3 DEF Destroy, Begin
  <1>4. CASE Unsubscribe
    BY <1>4, ZenonT(40) DEF Unsubscribe, Go
  <1>5. CASE Notify
    BY <1>5 DEF Notify, Go
  <1>6. CASE Join
    BY <1>6 DEF Join, Go
  <1>7. CASE Consume
    <2>1. call.at = "consume" /\ call' = [call EXCEPT !.at = IF call.purpose = "open" THEN "open" ELSE "none"]
      BY <1>7 DEF Consume, Go, Closed
    <2>2. tokens = 1 /\ tokens' = 0
      BY <1>7, <2>1 DEF Consume
    <2>a. call' \in [at : Calls, purpose : Purposes] /\ pending' \in 0..QueueSize
      BY <1>7, <2>1 DEF Consume, Closed
    <2>b. port_open' \in BOOLEAN /\ vport' \in BOOLEAN /\ device' \in {"none", "open", "gone"}
      BY <1>7, Zenon DEF Consume, Closed
    <2>3. TypeOK'
      BY <1>7, <2>2, <2>a, <2>b DEF Consume
    <2>4. HasToken' /\ ThreadIsHeld' /\ OpensWithoutThread' /\ ReadsWhatIsThere'
      BY <1>7, <2>1, <2>2 DEF Consume
    <2>5. m_thread = "none" /\ reader = "ended" /\ (port_open' <=> port_open /\ call.purpose # "close")
      BY <1>7, <2>1 DEF Consume, Closed
    <2>6. IdleWithThread' /\ EndsWhenAsked' /\ CallsInOrder'
      BY <1>7, <2>1, <2>5 DEF Consume
    <2>7. QED
      BY <2>3, <2>4, <2>6
  <1>8. CASE CreatePort
    BY <1>8, Zenon DEF CreatePort, Go, Finish
  <1>9. CASE Connect
    BY <1>9 DEF Connect, Go, Finish
  <1>10. CASE OpenDevice
    BY <1>10 DEF OpenDevice, Go, Finish
  <1>11. CASE SetParams
    BY <1>11 DEF SetParams, Go, Finish
  <1>12. CASE Start
    <2>1. call.at = "start" /\ call' = [call EXCEPT !.at = "none"] /\ call.purpose = "open" /\ ~destroyed /\ tokens = 0
      BY <1>12 DEF Start, Finish
    <2>2. TypeOK'
      BY <1>12, <2>1, Zenon DEF Start
    <2>3. QED
      BY <1>12, <2>1, <2>2 DEF Start
  <1>13. CASE Look
    BY <1>13 DEF Look, Run
  <1>14. CASE Poll
    BY <1>14 DEF Poll, Run
  <1>15. CASE ReadEvent
    BY <1>15 DEF ReadEvent, Run
  <1>16. CASE ReadBuffer
    BY <1>16 DEF ReadBuffer, Run
  <1>17. CASE ReadFails
    BY <1>17 DEF ReadFails, Run
  <1>18. CASE PollFails
    BY <1>18 DEF PollFails, Run
  <1>19. CASE UserReturns
    BY <1>19 DEF UserReturns, Run
  <1>20. CASE Send
    BY <1>20 DEF Send
  <1>21. CASE SendUnasked
    BY <1>21 DEF SendUnasked
  <1>22. CASE Unplug
    BY <1>22 DEF Unplug
  <1>23. CASE UNCHANGED vars
    BY <1>23 DEF vars
  <1>24. QED
    BY <1>1, <1>2, <1>3, <1>4, <1>5, <1>6, <1>7, <1>8, <1>9, <1>10, <1>11, <1>12, <1>13, <1>14, <1>15, <1>16, <1>17, <1>18, <1>19, <1>20, <1>21, <1>22, <1>23 DEF Next, Closing, Opening, Reading

LEMMA AlsaQuiet == AlsaInv => QuietAfterClose /\ ListensWhileOpen
  BY DEF AlsaInv, TypeOK, HasToken, ThreadIsHeld, OpensWithoutThread, IdleWithThread, CallsInOrder, EndsWhenAsked,
    QuietAfterClose, ListensWhileOpen, Calls, Purposes, Places

-----------------------------------------------------------------------------
(* The input of the network: once it is gone, no thread is left to take a    *)
(* step, and none is started.                                                *)

LEMMA NetInit == Net!Init => Net!GoneIsQuiet
  BY Zenon DEF Net!Init, Net!GoneIsQuiet

LEMMA NetStep == Net!GoneIsQuiet /\ [Net!Next]_netvars => Net!GoneIsQuiet'
  <1> SUFFICES ASSUME Net!GoneIsQuiet, [Net!Next]_netvars, setup'.owned, app' = "gone"
               PROVE  \A t \in Net!Threads : threads'[t].at \in {"none", "ended"}
    BY DEF Net!GoneIsQuiet
  <1> USE DEF Net!GoneIsQuiet, Net!out_vars, Net!socket_vars, Net!object_vars, Net!context_vars
  <1>1. CASE Net!Output
    BY <1>1, Zenon DEF Net!Output, Net!OutOpen, Net!OutClose, Net!Send, Net!Arrive
  <1>2. CASE Net!Network
    BY <1>2 DEF Net!Network, Net!Arrive
  <1>3. CASE Net!Application
    BY <1>3 DEF Net!Application, Net!OpenPort, Net!Assign, Net!ClosePort, Net!Destroy, Net!Stop, Net!CloseSocket, Net!Join
  <1>4. ASSUME NEW t \in Net!Threads, Net!Run(t) \/ Net!Aborted(t) \/ Net!OnBytes(t) \/ Net!UserReturns(t) \/ Net!Again(t)
        PROVE  \A i \in Net!Threads : threads'[i].at \in {"none", "ended"}
    BY <1>4, Zenon DEF Net!Run, Net!Aborted, Net!OnBytes, Net!UserReturns, Net!Again, Net!At
  <1>5. CASE UNCHANGED netvars
    BY <1>5 DEF netvars
  <1>6. QED
    BY <1>1, <1>2, <1>3, <1>4, <1>5 DEF Net!Next, Net!Context

-----------------------------------------------------------------------------
(* The inputs that a service calls back.                                     *)

IsIn(names) == input.backend \in names
InCoreMidi == {"coremidi", "coremidi_ump"}

\* Only Android has requests.
InRequests == in_requests # <<>> => IsIn({"android"})

\* What a service calls back, or the thread of Android polls, is open, and so
\* is what a callback runs in.
InHears ==
  /\ ~IsIn({"android"}) /\ listening # "none" => in_alive /\ in_port_open
  /\ IsIn({"android"}) /\ running => in_linked /\ in_port_open /\ in_alive
  /\ IsIn({"android"}) /\ callback # "none" => poll_thread = "runs" /\ in_linked
  /\ callback # "none" => in_alive /\ in_port_open

InUses ==
  /\ ~IsIn({"android", "webmidi"} \cup InCoreMidi) => ~in_abused
  /\ IsIn(InCoreMidi) /\ in_alive => ~in_abused

InServes == IsIn(InCoreMidi \cup {"winuwp", "rawio"}) /\ in_alive => listening = IF in_port_open THEN in_asked ELSE "none"

\* Who waits for the thread of Android has asked it to end.
InWaits == waits # "idle" => ~running

InInv == input.backend \in InBackends /\ InWaits /\ InRequests /\ InHears /\ InUses /\ InServes


LEMMA InInit == In!Init => InInv
  BY DEF In!Init, In!Is, In!CoreMidi, InInv, InWaits, InRequests, InHears, InUses, InServes, IsIn, InCoreMidi, In!None

LEMMA InStep == InInv /\ [In!Next]_invars => InInv'
  <1> SUFFICES ASSUME InInv, [In!Next]_invars PROVE InInv'
    OBVIOUS
  <1> USE ClaimsAssumption, PortsAssumption DEF InInv, InWaits, InRequests, InHears, InUses, InServes, IsIn, InCoreMidi,
        In!Is, In!CoreMidi, In!None, In!Virtual, In!object, In!native, In!android, In!heard, In!Idle, In!Quiet
  <1>1. ASSUME NEW d \in Sources, In!InOpenPort(d) PROVE InInv'
    <2> PICK ret \in BOOLEAN :
             /\ in_port_open' = ret
             /\ In!CoreMidiOpen(d, ret) \/ In!WinuwpOpen(d, ret) \/ In!WinmidiOpen(d, ret)
                \/ In!WebmidiOpen(d, ret) \/ In!AndroidOpen(d, ret) \/ In!RawioOpen(d, ret)
      BY <1>1 DEF In!InOpenPort
    <2>1. /\ ~in_port_open /\ in_alive /\ in_asked' = d
          /\ UNCHANGED <<input, in_alive, callback, in_abused, waits>> /\ waits = "idle"
      BY <1>1 DEF In!InOpenPort
    <2>2. CASE In!CoreMidiOpen(d, ret)
      BY <2>1, <2>2 DEF In!CoreMidiOpen
    <2>3. CASE In!WinuwpOpen(d, ret)
      BY <2>1, <2>3 DEF In!WinuwpOpen
    <2>4. CASE In!WinmidiOpen(d, ret)
      BY <2>1, <2>4 DEF In!WinmidiOpen
    <2>5. CASE In!WebmidiOpen(d, ret)
      BY <2>1, <2>5 DEF In!WebmidiOpen
    <2>6. CASE In!AndroidOpen(d, ret)
      BY <2>1, <2>6 DEF In!AndroidOpen, In!OpenDevice
    <2>7. CASE In!RawioOpen(d, ret)
      BY <2>1, <2>7 DEF In!RawioOpen
    <2>8. QED
      BY <2>2, <2>3, <2>4, <2>5, <2>6, <2>7
  <1>2. ASSUME NEW d \in Sources, In!SharerOpens(d) PROVE InInv'
    BY <1>2 DEF In!SharerOpens
  <1>3. ASSUME NEW g, In!CallBack(g) PROVE InInv'
    BY <1>3 DEF In!CallBack, In!Hear
  <1>4. ASSUME NEW g, In!PollMidi(g) PROVE InInv'
    BY <1>4 DEF In!PollMidi, In!Hear
  <1>5. CASE In!InOpenVirtual
    <2> PICK ret \in BOOLEAN :
             /\ in_port_open' = ret
             /\ In!CoreMidiOpenVirtual(ret) \/ In!WinmidiOpenVirtual(ret) \/ In!RawioOpen("virtual", ret)
      BY <1>5 DEF In!InOpenVirtual
    <2>1. /\ ~in_port_open /\ in_alive /\ in_asked' = "virtual"
          /\ UNCHANGED <<input, in_alive, callback, in_abused, waits>> /\ waits = "idle"
      BY <1>5 DEF In!InOpenVirtual
    <2>2. CASE In!CoreMidiOpenVirtual(ret)
      BY <2>1, <2>2 DEF In!CoreMidiOpenVirtual
    <2>3. CASE In!WinmidiOpenVirtual(ret)
      BY <2>1, <2>3 DEF In!WinmidiOpenVirtual
    <2>4. CASE In!RawioOpen("virtual", ret)
      BY <2>1, <2>4 DEF In!RawioOpen
    <2>5. QED
      BY <2>2, <2>3, <2>4
  <1>6. CASE In!DeviceOpened
    BY <1>6 DEF In!DeviceOpened
  <1>7. CASE In!InClosePort
    <2>1. /\ in_alive /\ in_port_open /\ (IsIn({"android"}) /\ in_linked => poll_thread = "none")
          /\ (IsIn({"webmidi"}) => callback = "none") /\ in_port_open' = in_abused'
          /\ running' = (running /\ ~in_linked)
          /\ UNCHANGED <<input, in_alive, callback, in_asked, poll_thread, in_requests, waits>> /\ waits = "idle"
      BY <1>7 DEF In!InClosePort
    <2>2. CASE In!CloseCoreMidi
      BY <2>1, <2>2 DEF In!CloseCoreMidi
    <2>3. CASE In!CloseWinuwp
      BY <2>1, <2>3 DEF In!CloseWinuwp
    <2>4. CASE In!CloseWinmidi
      BY <2>1, <2>4 DEF In!CloseWinmidi
    <2>5. CASE In!CloseWebmidi
      BY <2>1, <2>5 DEF In!CloseWebmidi
    <2>6. CASE In!CloseRawio
      BY <2>1, <2>6 DEF In!CloseRawio
    <2>7. CASE In!CloseAndroid
      BY <2>1, <2>7, Zenon DEF In!CloseAndroid
    <2>8. QED
      BY <1>7, <2>2, <2>3, <2>4, <2>5, <2>6, <2>7 DEF In!InClosePort, In!CloseNative
  <1>8. CASE In!AskThreadToClose
    BY <1>8 DEF In!AskThreadToClose, In!AskThread
  <1>9. CASE In!AskThreadToDestroy
    BY <1>9 DEF In!AskThreadToDestroy, In!AskThread
  <1>10. CASE In!JoinThread
    <2>1. IsIn({"android"}) /\ poll_thread = "ended" /\ callback = "none"
      BY <1>10 DEF In!JoinThread, In!CloseAndroid
    <2>2. IsIn({"android"})' /\ in_linked' = FALSE /\ callback' = "none" /\ in_requests' = in_requests
      BY <1>10, <2>1 DEF In!JoinThread, In!CloseAndroid
    <2>3. ~running
      BY <1>10 DEF In!JoinThread
    <2>4. QED
      BY <1>10, <2>1, <2>2, <2>3 DEF In!JoinThread
  <1>11. CASE In!InDestroy
    <2>1. /\ in_alive /\ waits = "idle" /\ ~in_alive' /\ ~in_port_open' /\ running' = (running /\ ~in_linked)
          /\ (IsIn({"android"}) /\ in_linked => poll_thread = "none") /\ (IsIn({"webmidi"}) => callback = "none")
          /\ UNCHANGED <<input, callback, in_asked, poll_thread, in_requests, waits>>
      BY <1>11 DEF In!InDestroy
    <2>2. CASE IsIn(InCoreMidi)
      BY <1>11, <2>1, <2>2 DEF In!InDestroy
    <2>3. CASE IsIn({"android"})
      <3>1. callback = "none" /\ listening' = "none" /\ in_linked' = FALSE
        BY <1>11, <2>1, <2>3 DEF In!InDestroy
      <3>2. QED
        BY <2>1, <2>3, <3>1, Zenon
    <2>4. CASE In!CloseWinuwp
      BY <2>1, <2>4 DEF In!CloseWinuwp
    <2>5. CASE In!CloseWinmidi
      BY <2>1, <2>5 DEF In!CloseWinmidi
    <2>6. CASE In!CloseWebmidi
      BY <2>1, <2>6 DEF In!CloseWebmidi
    <2>7. CASE In!CloseRawio
      BY <2>1, <2>7 DEF In!CloseRawio
    <2>8. QED
      BY <1>11, <2>2, <2>3, <2>4, <2>5, <2>6, <2>7 DEF In!InDestroy, In!CloseNative, In!CloseCoreMidi, In!CloseAndroid
  <1>12. CASE In!SharerCloses
    BY <1>12 DEF In!SharerCloses
  <1>13. CASE In!UserReturns
    BY <1>13 DEF In!UserReturns
  <1>14. CASE In!ThreadEnds
    BY <1>14 DEF In!ThreadEnds
  <1>15. CASE UNCHANGED invars
    BY <1>15 DEF invars
  <1>16. QED
    BY <1>1, <1>2, <1>3, <1>4, <1>5, <1>6, <1>7, <1>8, <1>9, <1>10, <1>11, <1>12, <1>13, <1>14, <1>15 DEF In!Next

LEMMA InQuiet == InInv => In!QuietWhenClosed /\ In!ReleasesItsOwn /\ In!OpenMeansListening
  BY ClaimsAssumption, Zenon DEF InInv, InWaits, InRequests, InHears, InUses, InServes, IsIn, InCoreMidi, In!QuietWhenClosed,
    In!ReleasesItsOwn, In!OpenMeansListening, In!Is, In!None

-----------------------------------------------------------------------------
(* The outputs.                                                              *)

IsOut(names) == output.backend \in names
OutSeq == {"seq", "seq_ump"}
OutRaw == {"raw", "ump"}
OutCoreMidi == {"coremidi", "coremidi_ump"}

OutAsked == asked \in Destinations \cup {"virtual", "none"}
OutRequests == requests # <<>> => IsOut({"android"})

OutUses == ~IsOut({"android", "winmm"} \cup OutSeq \cup OutCoreMidi) => ~abused

\* Everybody counts in the stream of KDMAPI, until the destructor of an output
\* that is closed takes off what it never added.
OutCounts ==
  /\ m_rc \in Nat /\ others \in Nat
  /\ ~IsOut({"kdmapi"}) => m_rc = 0 /\ others = 0
  /\ IsOut({"kdmapi"}) /\ alive => m_rc = others + (IF port_open_ THEN 1 ELSE 0)

\* What is left of a connection when the output is closed.
OutLeaves ==
  /\ ~alive => ~port_open_
  /\ destinationId \in Destinations \cup {"none"} /\ (~IsOut(OutCoreMidi) => destinationId = "none")
  /\ ~IsOut(OutSeq \cup OutCoreMidi \cup {"winmidi"}) => ~virtual
  /\ ~port_open_ =>
       /\ IsOut(OutRaw \cup {"winuwp", "winmm"}) => ~linked
       /\ IsOut(OutSeq \cup OutCoreMidi \cup {"kdmapi", "rawio"}) => handle = "none"
       /\ IsOut(OutCoreMidi) => ~virtual

\* What an open output is connected to.
OutConnects ==
  port_open_ =>
    /\ IsOut(OutCoreMidi) =>
         \/ asked \in Destinations /\ handle = asked /\ destinationId = asked /\ ~virtual
         \/ asked = "virtual" /\ virtual /\ handle = "none"
    /\ IsOut({"rawio"}) => handle = asked
    /\ IsOut(OutSeq) => (asked \in Destinations /\ handle = asked) \/ (asked = "virtual" /\ virtual /\ handle = "none")
    /\ IsOut(OutRaw \cup {"winuwp", "winmm", "webmidi"}) => linked /\ handle = asked /\ asked \in Destinations
    /\ IsOut({"kdmapi"}) => handle = asked /\ asked \in Destinations

OutInv == OutAsked /\ OutRequests /\ OutUses /\ OutCounts /\ OutLeaves /\ OutConnects


LEMMA OutInit == Out!Init => OutInv
  BY PortsAssumption DEF Out!Init, Out!Is, Out!Seq_, Out!CoreMidi, Out!None, Out!Garbage, OutInv, OutAsked, OutRequests, OutUses, OutCounts,
    OutLeaves, OutConnects, IsOut, OutSeq, OutRaw, OutCoreMidi

LEMMA OutStep == OutInv /\ [Out!Next]_outvars => OutInv'
  <1> SUFFICES ASSUME OutInv, [Out!Next]_outvars PROVE OutInv'
    OBVIOUS
  <1> USE PortsAssumption DEF OutInv, OutAsked, OutRequests, OutUses, OutCounts, OutLeaves, OutConnects, IsOut, OutSeq, OutRaw, OutCoreMidi,
        Out!Is, Out!Seq_, Out!Raw, Out!CoreMidi, Out!None, Out!Virtual, Out!Garbage
  <1>1. ASSUME NEW d \in Destinations, Out!OutOpenPort(d) PROVE OutInv'
    <2> PICK ret \in BOOLEAN :
             /\ port_open_' = ret
             /\ \/ Out!SeqOpen(d, ret) \/ Out!DeviceOpen(d, ret) \/ Out!WinmmOpen(d, ret) \/ Out!WinmidiOpen(d, ret)
                \/ Out!KdmapiOpen(d, ret) \/ Out!WebmidiOpen(d, ret) \/ Out!AndroidOpen(d, ret) \/ Out!RawioOpen(d, ret)
                \/ Out!CoreMidiOpen(d, ret)
      BY <1>1 DEF Out!OutOpenPort
    <2>0. ~port_open_ /\ alive /\ asked' = d /\ UNCHANGED <<output, alive>>
      BY <1>1 DEF Out!OutOpenPort, Out!Idle
    <2>1. CASE Out!SeqOpen(d, ret)
      BY <2>0, <2>1 DEF Out!SeqOpen, Out!service
    <2>2. CASE Out!DeviceOpen(d, ret)
      BY <2>0, <2>2 DEF Out!DeviceOpen, Out!service
    <2>3. CASE Out!WinmmOpen(d, ret)
      BY <2>0, <2>3 DEF Out!WinmmOpen, Out!service
    <2>4. CASE Out!WinmidiOpen(d, ret)
      BY <2>0, <2>4 DEF Out!WinmidiOpen, Out!service
    <2>5. CASE Out!KdmapiOpen(d, ret)
      BY <2>0, <2>5 DEF Out!KdmapiOpen, Out!service
    <2>6. CASE Out!WebmidiOpen(d, ret)
      BY <2>0, <2>6 DEF Out!WebmidiOpen, Out!service
    <2>7. CASE Out!AndroidOpen(d, ret)
      BY <2>0, <2>7 DEF Out!AndroidOpen, Out!service
    <2>8. CASE Out!RawioOpen(d, ret)
      BY <2>0, <2>8 DEF Out!RawioOpen, Out!service
    <2>9. CASE Out!CoreMidiOpen(d, ret)
      BY <2>0, <2>9 DEF Out!CoreMidiOpen, Out!service
    <2>10. QED
      BY <2>1, <2>2, <2>3, <2>4, <2>5, <2>6, <2>7, <2>8, <2>9
  <1>2. CASE Out!OutOpenVirtual
    <2> PICK ret \in BOOLEAN :
             /\ port_open_' = ret
             /\ \/ Out!SeqOpenVirtual(ret) \/ Out!CoreMidiOpenVirtual(ret) \/ Out!WinmidiOpenVirtual(ret)
                \/ Out!RawioOpen("virtual", ret)
      BY <1>2 DEF Out!OutOpenVirtual
    <2>0. ~port_open_ /\ alive /\ asked' = "virtual" /\ UNCHANGED <<output, alive>>
      BY <1>2 DEF Out!OutOpenVirtual, Out!Idle
    <2>1. CASE Out!SeqOpenVirtual(ret)
      BY <2>0, <2>1, Zenon DEF Out!SeqOpenVirtual, Out!service
    <2>2. CASE Out!CoreMidiOpenVirtual(ret)
      BY <2>0, <2>2 DEF Out!CoreMidiOpenVirtual, Out!service
    <2>3. CASE Out!WinmidiOpenVirtual(ret)
      BY <2>0, <2>3 DEF Out!WinmidiOpenVirtual, Out!service
    <2>4. CASE Out!RawioOpen("virtual", ret)
      BY <2>0, <2>4 DEF Out!RawioOpen, Out!service
    <2>5. QED
      BY <2>1, <2>2, <2>3, <2>4
  <1>3. CASE Out!OutClosePort
    <2>0. /\ port_open_ /\ alive /\ ~port_open_'
          /\ UNCHANGED <<output, alive, asked, destinationId>>
      BY <1>3 DEF Out!OutClosePort, Out!Idle
    <2>1. CASE Out!CloseSeq
      BY <2>0, <2>1 DEF Out!CloseSeq, Out!service
    <2>2. CASE Out!CloseDevice
      BY <2>0, <2>2 DEF Out!CloseDevice, Out!service
    <2>3. CASE Out!CloseWinmm
      BY <2>0, <2>3 DEF Out!CloseWinmm, Out!service
    <2>4. CASE Out!CloseCoreMidi
      BY <2>0, <2>4 DEF Out!CloseCoreMidi, Out!service
    <2>5. CASE Out!CloseWinmidi
      BY <2>0, <2>5 DEF Out!CloseWinmidi, Out!service
    <2>6. CASE Out!CloseKdmapi
      BY <2>0, <2>6 DEF Out!CloseKdmapi, Out!service
    <2>7. CASE Out!CloseWebmidi
      BY <2>0, <2>7 DEF Out!CloseWebmidi, Out!service
    <2>8. CASE Out!CloseAndroid
      BY <2>0, <2>8 DEF Out!CloseAndroid, Out!service
    <2>9. CASE Out!CloseRawio
      BY <2>0, <2>9 DEF Out!CloseRawio, Out!service
    <2>10. QED
      BY <1>3, <2>1, <2>2, <2>3, <2>4, <2>5, <2>6, <2>7, <2>8, <2>9 DEF Out!OutClosePort, Out!CloseNative
  <1>4. CASE Out!OutDestroy
    <2>0. alive /\ ~alive' /\ ~port_open_' /\ UNCHANGED <<output, asked, destinationId>>
      BY <1>4 DEF Out!OutDestroy, Out!Idle
    <2>1. CASE IsOut(OutSeq \cup OutCoreMidi)
      BY <1>4, <2>0, <2>1 DEF Out!OutDestroy
    <2>2. CASE Out!CloseDevice
      BY <2>0, <2>2 DEF Out!CloseDevice, Out!service
    <2>3. CASE Out!CloseWinmm
      BY <2>0, <2>3 DEF Out!CloseWinmm, Out!service
    <2>4. CASE Out!CloseWinmidi
      BY <2>0, <2>4 DEF Out!CloseWinmidi, Out!service
    <2>5. CASE Out!CloseKdmapi
      BY <2>0, <2>5 DEF Out!CloseKdmapi, Out!service
    <2>6. CASE Out!CloseWebmidi
      BY <2>0, <2>6 DEF Out!CloseWebmidi, Out!service
    <2>7. CASE Out!CloseAndroid
      BY <2>0, <2>7 DEF Out!CloseAndroid, Out!service
    <2>8. CASE Out!CloseRawio
      BY <2>0, <2>8 DEF Out!CloseRawio, Out!service
    <2>9. QED
      BY <1>4, <2>1, <2>2, <2>3, <2>4, <2>5, <2>6, <2>7, <2>8 DEF Out!OutDestroy, Out!CloseNative, Out!CloseSeq, Out!CloseCoreMidi
  <1>5. CASE Out!Opened
    BY <1>5 DEF Out!Opened, Out!object
  <1>6. CASE Out!OtherOpens
    BY <1>6 DEF Out!OtherOpens, Out!object, Out!native
  <1>7. CASE Out!OtherCloses
    BY <1>7 DEF Out!OtherCloses, Out!object, Out!native
  <1>8. ASSUME NEW m, Out!Send(m) PROVE OutInv'
    BY <1>8 DEF Out!Send, Out!object, Out!native, Out!service
  <1>9. CASE Out!Sending \/ Out!StopWaiting \/ Out!DevicePlays
    <2>1. UNCHANGED <<Out!object, asked, Out!native, Out!service>>
      BY <1>9 DEF Out!Sending, Out!Write, Out!Incomplete, Out!Finish, Out!Played, Out!StopWaiting, Out!DevicePlays
    <2>2. QED
      BY <2>1 DEF Out!object, Out!native, Out!service
  <1>10. CASE UNCHANGED outvars
    BY <1>10 DEF outvars
  <1>11. QED
    BY <1>1, <1>2, <1>3, <1>4, <1>5, <1>6, <1>7, <1>8, <1>9, <1>10 DEF Out!Next

LEMMA OutQuiet == OutInv => Out!ClosedIsGone /\ Out!ReleasesItsOwn /\ Out!OpenMeansConnected
  <1> SUFFICES ASSUME OutInv PROVE Out!ClosedIsGone /\ Out!ReleasesItsOwn /\ Out!OpenMeansConnected
    OBVIOUS
  <1> USE ClaimsAssumption, PortsAssumption DEF OutInv, OutAsked, OutRequests, OutUses, OutCounts, OutLeaves, OutConnects, IsOut, OutSeq, OutRaw, OutCoreMidi,
        Out!Is, Out!Seq_, Out!Raw, Out!CoreMidi, Out!None, Out!Virtual, Out!Garbage
  <1>1. Out!ReleasesItsOwn
    BY DEF Out!ReleasesItsOwn
  <1>2. Out!ClosedIsGone
    BY DEF Out!ClosedIsGone, Out!Reaches
  <1>3. Out!OpenMeansConnected
    BY DEF Out!OpenMeansConnected, Out!Connected, Out!Reaches
  <1>4. QED
    BY <1>1, <1>2, <1>3

-----------------------------------------------------------------------------
(* The choice of a back-end.                                                 *)

\* What is compiled, of either protocol.
Compiled == {Build1[i] : i \in DOMAIN Build1} \cup {Build2[i] : i \in DOMAIN Build2}

\* A system has some of it, and the dummy.
System(avail) == avail \subseteq Compiled /\ "DUMMY" \in avail

\* What is compiled for a protocol is of it.
LEMMA BuildLaw ==
  ASSUME NEW midi \in {1, 2}
  PROVE  /\ C!Build(midi) \in Seq(C!Family(midi)) /\ C!Other(midi) \in {1, 2} /\ C!Other(C!Other(midi)) = midi
         /\ C!Other(midi) # midi
         /\ \E i \in DOMAIN C!Build(midi) : C!Build(midi)[i] = "DUMMY"
         /\ \A i \in DOMAIN C!Build(midi) :
              /\ C!Build(midi)[i] \in Compiled
              /\ C!Build(midi)[i] \notin {"UNSPECIFIED", "unspecified", "null", "throws"}
  <1>1. CASE midi = 1
    BY <1>1, BuildAssumption DEF C!Build, C!Family, C!Other, Compiled
  <1>2. CASE midi = 2
    BY <1>2, BuildAssumption DEF C!Build, C!Family, C!Other, Compiled
  <1>3. QED
    BY <1>1, <1>2

LEMMA CompiledLaw ==
  /\ Compiled = C!ToSet(Build1) \cup C!ToSet(Build2)
  /\ \A api \in Compiled : \E midi \in {1, 2} : \E i \in DOMAIN C!Build(midi) : C!Build(midi)[i] = api
  /\ \A api : C!Contains(Build2, api) <=> api \in C!ToSet(Build2)
  /\ \A api : C!Contains(Build1, api) <=> api \in C!ToSet(Build1)
  /\ {"UNSPECIFIED", "unspecified", "null", "throws"} \cap Compiled = {}
  <1>1. Compiled = C!ToSet(Build1) \cup C!ToSet(Build2)
    BY DEF Compiled, C!ToSet
  <1>2. \A api \in Compiled : \E midi \in {1, 2} : \E i \in DOMAIN C!Build(midi) : C!Build(midi)[i] = api
    BY DEF Compiled, C!Build
  <1>3. \A api : (C!Contains(Build2, api) <=> api \in C!ToSet(Build2)) /\ (C!Contains(Build1, api) <=> api \in C!ToSet(Build1))
    BY BuildAssumption DEF C!Contains, C!ToSet
  <1>4. {"UNSPECIFIED", "unspecified", "null", "throws"} \cap Compiled = {}
    BY <1>2, BuildLaw
  <1>5. QED
    BY <1>1, <1>2, <1>3, <1>4

\* A configuration of what is compiled makes its back-end, another one nothing.
LEMMA MadeLaw ==
  ASSUME NEW midi \in {1, 2}, NEW kind, NEW conf
  PROVE  /\ C!Made(conf, midi, kind) = IF \E i \in DOMAIN C!Build(midi) : C!Type(C!Build(midi)[i], kind) = conf THEN conf ELSE "null"
         /\ conf \in {"UNSPECIFIED", "unspecified"} => C!Made(conf, midi, kind) = "null"
         /\ C!Made("DUMMY", midi, kind) = "DUMMY"
  <1>1. C!Made(conf, midi, kind) = IF \E i \in DOMAIN C!Build(midi) : C!Type(C!Build(midi)[i], kind) = conf THEN conf ELSE "null"
    BY DEF C!Made, C!ToSet
  <1>2. C!Made("DUMMY", midi, kind) = IF \E i \in DOMAIN C!Build(midi) : C!Type(C!Build(midi)[i], kind) = "DUMMY" THEN "DUMMY" ELSE "null"
    BY DEF C!Made, C!ToSet
  <1>3. QED
    BY <1>1, <1>2, BuildLaw DEF C!Type

\* What may be tried for a kind of object: the null pointer or a back-end that
\* the system has; for an input, one that speaks its protocol, or that of the
\* other protocol with a conversion.
Candidates(kind, midi, avail) ==
  {o \in [is : avail \cup {"null"}, converts : BOOLEAN] :
     kind = "in" /\ o.is \notin {"null", "DUMMY"} => o.is \in C!Family(IF o.converts THEN C!Other(midi) ELSE midi)}

LEMMA TriedLaw ==
  ASSUME NEW kind, NEW midi \in {1, 2}, NEW list \in {1, 2}, NEW avail, System(avail)
  PROVE  C!Tried(kind, midi, list, avail) \in Seq(Candidates(kind, midi, avail))
  <1> DEFINE Conf(api) == C!ConfigurationFor(api, kind, avail)
             Class(api) == IF api \notin avail THEN "null"
                           ELSE IF kind = "in" THEN C!Made(Conf(api), list, kind) ELSE C!MadeOfEither(Conf(api), kind)
             Item(i) == C!Object(Class(C!Build(list)[i]), kind = "in" /\ midi # list)
  <1>1. C!Tried(kind, midi, list, avail) = [i \in DOMAIN C!Build(list) |-> Item(i)]
    BY DEF C!Tried
  <1>2. ASSUME NEW i \in DOMAIN C!Build(list) PROVE Item(i) \in Candidates(kind, midi, avail)
    <2> DEFINE api == C!Build(list)[i]
    <2>1. api \in Compiled /\ api \in C!Family(list)
      BY BuildLaw
    <2>2. CASE api \notin avail
      <3>1. Class(api) = "null"
        BY <2>2
      <3> HIDE DEF Class
      <3>2. Item(i) = [is |-> "null", converts |-> (kind = "in" /\ midi # list)]
        BY <3>1 DEF C!Object
      <3> HIDE DEF Item
      <3>3. QED
        BY <3>2 DEF Candidates
    <2>3. CASE api \in avail
      <3>1. Conf(api) = C!Type(api, kind)
        BY <2>1, <2>3, CompiledLaw DEF C!ConfigurationFor
      <3>2. C!Made(Conf(api), 1, kind) \in {Conf(api), "null"} /\ C!Made(Conf(api), 2, kind) \in {Conf(api), "null"}
        BY MadeLaw
      <3>3. Class(api) \in {api, "DUMMY", "null"}
        BY <2>3, <3>1, <3>2 DEF C!Type, C!MadeOfEither
      <3>4. kind = "in" /\ midi # list => C!Other(midi) = list
        BY DEF C!Other
      <3> HIDE DEF Class
      <3>5. Class(api) \in avail \cup {"null"}
        BY <2>3, <3>3 DEF System
      <3>6. Item(i).is = Class(api) /\ Item(i).converts = (kind = "in" /\ midi # list)
            /\ Item(i) \in [is : avail \cup {"null"}, converts : BOOLEAN]
        BY <3>5 DEF C!Object
      <3> HIDE DEF Item
      <3>7. QED
        BY <2>1, <3>3, <3>4, <3>6 DEF Candidates
    <2>4. QED
      BY <2>2, <2>3
  <1>3. Len(C!Build(list)) \in Nat /\ DOMAIN C!Build(list) = 1..Len(C!Build(list))
    BY BuildLaw
  <1> HIDE DEF Item
  <1>4. QED
    BY <1>1, <1>2, <1>3

\* A search finds a candidate that does not throw.
LEMMA FoundLaw ==
  ASSUME NEW kind, NEW midi \in {1, 2}, NEW avail, System(avail), NEW throwing, "DUMMY" \notin throwing
  PROVE  /\ C!FoundBySearch(kind, midi, avail, throwing) \in Candidates(kind, midi, avail)
         /\ C!FoundBySearch(kind, midi, avail, throwing).is \notin throwing \cup {"null"}
  <1> DEFINE first == IF kind = "in" THEN midi ELSE 1
             candidates == C!Tried(kind, midi, first, avail) \o C!Tried(kind, midi, C!Other(first), avail)
             works == {i \in DOMAIN candidates : candidates[i].is \notin throwing \cup {"null"}}
  <1>1. C!FoundBySearch(kind, midi, avail, throwing) = IF works = {} THEN C!Object("DUMMY", FALSE) ELSE candidates[C!Min(works)]
    BY DEF C!FoundBySearch
  <1>2. candidates \in Seq(Candidates(kind, midi, avail))
    <2>1. first \in {1, 2} /\ C!Other(first) \in {1, 2}
      BY BuildLaw
    <2>2. C!Tried(kind, midi, first, avail) \in Seq(Candidates(kind, midi, avail))
      BY <2>1, TriedLaw
    <2>3. C!Tried(kind, midi, C!Other(first), avail) \in Seq(Candidates(kind, midi, avail))
      BY <2>1, TriedLaw
    <2> HIDE DEF first
    <2>4. QED
      BY <2>2, <2>3
  <1> HIDE DEF candidates
  <1>3. CASE works = {}
    BY <1>1, <1>3 DEF Candidates, C!Object, System
  <1>4. CASE works # {}
    <2>1. works \in SUBSET Nat
      BY <1>2
    <2> HIDE DEF works
    <2>2. \E m \in works : \A n \in works : m <= n
      BY <1>4, <2>1, LeastElement
    <2>3. C!Min(works) \in works
      BY <2>2 DEF C!Min
    <2>4. C!Min(works) \in DOMAIN candidates /\ candidates[C!Min(works)].is \notin throwing \cup {"null"}
      BY <2>3 DEF works
    <2>5. candidates[C!Min(works)] \in Candidates(kind, midi, avail)
      BY <1>2, <2>4
    <2>6. C!FoundBySearch(kind, midi, avail, throwing) = candidates[C!Min(works)]
      BY <1>1, <1>4, Zenon
    <2>7. QED
      BY <2>4, <2>5, <2>6
  <1>5. QED
    BY <1>3, <1>4

\* What a constructor is given, and what its object promises: what was asked,
\* or the dummy with an error, or what a search found (CInterface,
\* GetsWhatWasAsked), and for an input the protocol it was made for.
Promises(kind, midi, how, what, avail, o) ==
  LET there == what \in avail
      searched == \/ what = "UNSPECIFIED"
                  \/ how = "c" /\ ~there /\ ~C!Contains(Build2, what)
                  \/ how # "api" /\ ~there /\ kind = "out"
  IN  /\ IF searched THEN o.is \in avail /\ ~o.told
         ELSE /\ o.is = C!Type(what, kind) \/ (o.is = "DUMMY" /\ o.told /\ ~there)
              /\ o.is \notin avail => how = "api" /\ what \in Apis2
      /\ kind = "in" /\ o.is # "DUMMY" => o.is \in C!Family(IF o.converts THEN C!Other(midi) ELSE midi)

\* An object of a class, with a conversion or not.
IsObject(o, class) == o = C!Object(class, FALSE) \/ o = C!Object(class, TRUE)

\* What an input of what is asked is: of the system, or the null pointer.
LEMMA InputLaw ==
  ASSUME NEW midi \in {1, 2}, NEW avail, System(avail), NEW api \in Compiled, NEW conf, conf \in {api, "DUMMY"}, conf = C!Type(api, "in")
  PROVE  IsObject(C!InputOf(conf, api, midi), conf) /\
         (conf # "DUMMY" => conf \in C!Family(IF C!InputOf(conf, api, midi).converts THEN C!Other(midi) ELSE midi))
  <1>1. PICK list \in {1, 2} : \E i \in DOMAIN C!Build(list) : C!Build(list)[i] = api
    BY CompiledLaw
  <1>2. api \in C!Family(list) /\ C!Made(conf, list, "in") = conf
    BY <1>1, BuildLaw, MadeLaw
  <1>3. list # midi => C!Other(midi) = list
    BY DEF C!Other
  <1>4. ~C!Object(conf, FALSE).converts /\ C!Object(conf, TRUE).converts
    BY DEF C!Object
  <1>5. C!Made("DUMMY", midi, "in") = "DUMMY"
    BY MadeLaw
  <1>6. CASE api \in C!Family(midi)
    <2>1. C!InputOf(conf, api, midi) = C!Object(C!Made(conf, midi, "in"), FALSE)
      BY <1>6, Zenon DEF C!InputOf
    <2>2. CASE list = midi
      BY <1>2, <1>4, <2>1, <2>2, Zenon DEF IsObject
    <2>3. CASE list # midi
      <3>1. api = "DUMMY"
        BY <1>2, <1>6, <2>3, BuildAssumption DEF C!Family
      <3>2. QED
        BY <1>4, <1>5, <2>1, <3>1, Zenon DEF IsObject, C!Type
    <2>4. QED
      BY <2>2, <2>3
  <1>7. CASE api \notin C!Family(midi)
    <2>1. list # midi /\ api \in C!Family(C!Other(midi)) \ C!Family(midi)
      BY <1>2, <1>3, <1>7
    <2>2. C!InputOf(conf, api, midi) = C!Object(conf, TRUE)
      BY <1>2, <1>3, <2>1, Zenon DEF C!InputOf
    <2>3. QED
      BY <1>2, <1>3, <1>4, <2>1, <2>2, Zenon DEF C!Family, IsObject
  <1>8. QED
    BY <1>6, <1>7

\* Every class that is compiled makes what it is of.
LEMMA EitherLaw ==
  ASSUME NEW kind, NEW api \in Compiled, NEW conf, conf = C!Type(api, kind)
  PROVE  /\ C!MadeOfEither(conf, kind) = conf /\ conf \in Compiled /\ conf \in {api, "DUMMY"} /\ conf = C!Type(conf, kind)
         /\ C!MadeOfEither("unspecified", kind) = "null"
  <1>1. PICK list \in {1, 2} : \E i \in DOMAIN C!Build(list) : C!Build(list)[i] = api
    BY CompiledLaw
  <1>2. C!Made(conf, list, kind) = conf
    BY <1>1, MadeLaw
  <1>3. "DUMMY" \in Compiled
    BY BuildLaw
  <1>4. conf \in Compiled /\ conf \in {api, "DUMMY"} /\ conf # "null"
    BY <1>3, CompiledLaw DEF C!Type
  <1>5. C!Made(conf, 1, kind) \in {conf, "null"}
    BY MadeLaw
  <1>6. C!MadeOfEither(conf, kind) = conf
    BY <1>1, <1>2, <1>4, <1>5 DEF C!MadeOfEither
  <1>7. C!Made("unspecified", 1, kind) = "null" /\ C!Made("unspecified", 2, kind) = "null"
    BY MadeLaw
  <1>8. QED
    BY <1>4, <1>6, <1>7 DEF C!MadeOfEither, C!Type

\* An object that may be the null pointer, and what becomes of it.
Told(o) ==
  [is |-> IF o.is = "null" THEN "DUMMY" ELSE o.is, converts |-> o.converts /\ o.is # "null", told |-> o.is = "null"]

LEMMA ObjectLaw ==
  ASSUME NEW c, NEW o, IsObject(o, c)
  PROVE  /\ o.is = c
         /\ c # "null" => Told(o).is = c /\ ~Told(o).told /\ Told(o).converts = o.converts
         /\ c = "null" => Told(o).is = "DUMMY" /\ Told(o).told
  <1>1. CASE o = [is |-> c, converts |-> FALSE]
    BY <1>1, Zenon DEF Told
  <1>2. CASE o = [is |-> c, converts |-> TRUE]
    BY <1>2, Zenon DEF Told
  <1>3. QED
    BY <1>1, <1>2 DEF C!Object, IsObject

LEMMA ForConfigurationLaw ==
  ASSUME NEW kind \in {"in", "out", "observer"}, NEW midi \in {1, 2}, NEW how \in {"c", "configuration"}, NEW what,
         NEW avail, NEW throwing, NEW conf, NEW o,
         System(avail), "DUMMY" \notin throwing, what \notin {"unspecified", "UNSPECIFIED"}, conf = C!Type(what, kind),
         how = "c" => C!Contains(Build2, what) \/ what \in avail,
         o = C!ForConfiguration(kind, midi, conf, avail, throwing)
  PROVE  Promises(kind, midi, how, what, avail, Told(o))
  <1>1. conf \in {what, "DUMMY"} /\ conf = C!Type(conf, kind)
    BY DEF C!Type
  <1>2. C!midi_api(conf, avail) = IF conf \in avail THEN conf ELSE "UNSPECIFIED"
    BY CompiledLaw DEF C!midi_api, System
  <1>3. "UNSPECIFIED" \notin avail /\ "null" \notin avail /\ "DUMMY" \in avail
    BY CompiledLaw DEF System
  <1>4. CASE conf \in avail
    <2>1. conf \in Compiled /\ conf # "UNSPECIFIED" /\ C!midi_api(conf, avail) = conf
      BY <1>2, <1>3, <1>4 DEF System
    <2>2. CASE kind = "in"
      <3>1. o = C!InputOf(conf, conf, midi)
        BY <2>1, <2>2 DEF C!ForConfiguration
      <3>2. /\ IsObject(o, conf)
            /\ conf # "DUMMY" => conf \in C!Family(IF o.converts THEN C!Other(midi) ELSE midi)
        <4>1. conf = C!Type(conf, "in")
          BY <1>1, <2>2
        <4>2. /\ IsObject(C!InputOf(conf, conf, midi), conf)
              /\ conf # "DUMMY" => conf \in C!Family(IF C!InputOf(conf, conf, midi).converts THEN C!Other(midi) ELSE midi)
          BY <2>1, <4>1, InputLaw
        <4>3. QED
          BY <3>1, <4>2
      <3>3. Told(o).is = conf /\ ~Told(o).told /\ Told(o).converts = o.converts
        <4>1. conf # "null" /\ IsObject(o, conf)
          BY <1>3, <1>4, <3>2
        <4>2. QED
          BY <4>1, ObjectLaw
      <3>4. QED
        BY <1>1, <1>3, <1>4, <2>2, <3>2, <3>3, BuildAssumption DEF Promises
    <2>3. CASE kind # "in"
      <3>1. o = C!Object(conf, FALSE)
        <4>1. C!MadeOfEither(conf, kind) = conf
          BY <1>1, <2>1, EitherLaw
        <4>2. QED
          BY <2>1, <2>3, <4>1 DEF C!ForConfiguration
      <3>2. Told(o).is = conf /\ ~Told(o).told
        BY <1>3, <1>4, <3>1, ObjectLaw, Zenon DEF IsObject
      <3>3. QED
        BY <1>1, <1>3, <1>4, <2>3, <3>2 DEF Promises
    <2>4. QED
      BY <2>2, <2>3
  <1>5. CASE conf \notin avail
    <2>1. C!midi_api(conf, avail) = "UNSPECIFIED" /\ conf = what /\ what \notin avail
      BY <1>1, <1>2, <1>3, <1>5
    <2>2. CASE kind = "out"
      <3>1. o = C!FoundBySearch(kind, midi, avail, throwing)
        BY <2>1, <2>2 DEF C!ForConfiguration
      <3>2. o \in Candidates(kind, midi, avail) /\ o.is # "null"
        BY <3>1, FoundLaw
      <3>3. o.is \in avail
        BY <3>2 DEF Candidates
      <3>4. Told(o).is = o.is /\ ~Told(o).told
        BY <3>2, Zenon DEF Told
      <3>5. QED
        BY <2>1, <2>2, <3>3, <3>4 DEF Promises
    <2>3. CASE kind # "out"
      <3>1. o = C!Null
        <4>1. CASE kind = "in"
          <5>1. "UNSPECIFIED" \notin C!Family(midi) \cup C!Family(C!Other(midi))
            BY BuildAssumption DEF C!Family
          <5>2. C!InputOf(conf, "UNSPECIFIED", midi) = C!Null
            BY <5>1, Zenon DEF C!InputOf
          <5>3. QED
            BY <2>1, <2>3, <4>1, <5>2 DEF C!ForConfiguration
        <4>2. CASE kind # "in"
          BY <2>1, <2>3, <4>2 DEF C!ForConfiguration
        <4>3. QED
          BY <4>1, <4>2
      <3>2. Told(o).is = "DUMMY" /\ Told(o).told
        BY <3>1, ObjectLaw, Zenon DEF C!Null, IsObject
      <3>3. QED
        BY <1>3, <2>1, <2>3, <3>2 DEF Promises
    <2>4. QED
      BY <2>2, <2>3
  <1>6. QED
    BY <1>4, <1>5

\* An API is asked for: it is there, or compiled for MIDI 2, or it is not.
LEMMA ForApiLaw ==
  ASSUME NEW kind \in {"in", "out", "observer"}, NEW midi \in {1, 2}, NEW what, NEW avail, NEW o,
         System(avail), what \notin {"unspecified", "UNSPECIFIED"}, o = C!ForApi(kind, midi, what, avail)
  PROVE  Promises(kind, midi, "api", what, avail, Told(o))
  <1> DEFINE conf == C!ConfigurationFor(what, kind, avail)
  <1>1. "null" \notin Compiled /\ "DUMMY" \in avail /\ "DUMMY" \in Compiled
    BY CompiledLaw DEF System
  <1>2. CASE C!Contains(Build2, what) \/ what \in avail
    <2>1. what \in Compiled /\ conf = C!Type(what, kind)
      BY <1>2, CompiledLaw DEF System, C!ConfigurationFor
    <2>2. conf \in {what, "DUMMY"} /\ conf \in Compiled /\ C!MadeOfEither(conf, kind) = conf
      BY <2>1, EitherLaw
    <2> HIDE DEF conf
    <2>3. IsObject(o, conf)
      <3>1. CASE kind = "in"
        BY <2>1, <2>2, <3>1, InputLaw DEF C!ForApi, conf
      <3>2. CASE kind # "in"
        BY <2>2, <3>2 DEF C!ForApi, IsObject, conf
      <3>3. QED
        BY <3>1, <3>2
    <2>4. Told(o).is = conf /\ ~Told(o).told /\ Told(o).converts = o.converts
      BY <1>1, <2>2, <2>3, ObjectLaw
    <2>5. kind = "in" /\ conf # "DUMMY" => conf \in C!Family(IF o.converts THEN C!Other(midi) ELSE midi)
      BY <2>1, <2>2, InputLaw DEF C!ForApi, conf
    <2>6. what \notin avail /\ what # "DUMMY" => what \in Apis2
      <3>1. C!Contains(Build2, what) => what \in Apis2 \cup {"DUMMY"}
        BY BuildAssumption, CompiledLaw DEF C!ToSet
      <3>2. QED
        BY <1>2, <3>1
    <2>7. QED
      BY <1>1, <2>1, <2>2, <2>4, <2>5, <2>6 DEF Promises
  <1>3. CASE ~C!Contains(Build2, what) /\ what \notin avail
    <2>1. conf = "unspecified"
      BY <1>3 DEF C!ConfigurationFor
    <2>2. \A m \in {1, 2} : C!Made("unspecified", m, "in") = "null"
      BY MadeLaw
    <2>3. C!MadeOfEither("unspecified", kind) = "null"
      BY <1>1, EitherLaw
    <2>4. IsObject(o, "null")
      <3>1. CASE kind = "in"
        <4>1. o = C!InputOf("unspecified", what, midi)
          BY <2>1, <3>1 DEF C!ForApi
        <4>2. QED
          BY <2>2, <4>1, BuildLaw, Zenon DEF C!InputOf, IsObject, C!Null
      <3>2. CASE kind # "in"
        BY <2>1, <2>3, <3>2, Zenon DEF C!ForApi, IsObject
      <3>3. QED
        BY <3>1, <3>2
    <2>5. Told(o).is = "DUMMY" /\ Told(o).told
      BY <2>4, ObjectLaw
    <2>6. QED
      BY <1>1, <1>3, <2>5 DEF Promises
  <1>4. QED
    BY <1>2, <1>3

LEMMA ChosenLaw ==
  ASSUME NEW kind \in {"in", "out", "observer"}, NEW midi \in {1, 2}, NEW how \in {"c", "api", "configuration"}, NEW what,
         NEW avail, NEW throwing, NEW o,
         System(avail), "DUMMY" \notin throwing, what # "unspecified",
         o = C!Chosen(kind, midi, how, what, avail, throwing), o.is # "throws"
  PROVE  Promises(kind, midi, how, what, avail, o) /\ DOMAIN o = {"is", "converts", "told"}
  <1> DEFINE conf == CASE how = "c" -> C!ConfigurationFor(what, kind, avail)
                       [] how = "configuration" /\ what # "UNSPECIFIED" -> C!Type(what, kind)
                       [] OTHER -> what
             searches == conf \in {"unspecified", "UNSPECIFIED"}
             object == IF searches THEN C!FoundBySearch(kind, midi, avail, throwing)
                       ELSE IF how = "api" THEN C!ForApi(kind, midi, what, avail)
                       ELSE C!ForConfiguration(kind, midi, conf, avail, throwing)
  <1>1. o = [is |-> CASE object.is = "null" -> "DUMMY"
                      [] ~searches /\ object.is \in throwing -> "throws"
                      [] OTHER -> object.is,
             converts |-> object.converts /\ object.is # "null", told |-> object.is = "null"]
    BY DEF C!Chosen
  <1> HIDE DEF object
  <1>2. o = Told(object)
    BY <1>1 DEF Told
  <1>3. DOMAIN o = {"is", "converts", "told"}
    BY <1>2 DEF Told
  <1> HIDE DEF conf
  <1>a. System(avail) /\ "null" \notin avail /\ avail \subseteq Compiled
    BY CompiledLaw DEF System
  <1>b. what = "UNSPECIFIED" => searches
    <2>1. what = "UNSPECIFIED" => what \notin Compiled /\ ~C!Contains(Build2, what)
      BY CompiledLaw
    <2>2. what = "UNSPECIFIED" /\ how = "c" => conf = "unspecified"
      BY <1>a, <2>1 DEF conf, C!ConfigurationFor
    <2>3. what = "UNSPECIFIED" /\ how # "c" => conf = "UNSPECIFIED"
      BY DEF conf
    <2>4. QED
      BY <2>2, <2>3
  <1>c. how = "c" => conf = IF C!Contains(Build2, what) \/ what \in avail THEN C!Type(what, kind) ELSE "unspecified"
    BY <1>a, CompiledLaw DEF conf, C!ConfigurationFor
  <1>d. how = "configuration" /\ what # "UNSPECIFIED" => conf = C!Type(what, kind)
    BY DEF conf
  <1>e. how = "api" => conf = what
    BY DEF conf
  <1>4. CASE searches
    <2>1. object = C!FoundBySearch(kind, midi, avail, throwing)
      BY <1>4 DEF object
    <2>2. object \in Candidates(kind, midi, avail) /\ object.is # "null"
      BY <2>1, FoundLaw
    <2>a. object.is \in avail /\ object.converts \in BOOLEAN
      BY <2>2 DEF Candidates
    <2>b. o.is = object.is /\ ~o.told
      <3>1. Told(object).is = IF object.is = "null" THEN "DUMMY" ELSE object.is
        BY DEF Told
      <3>2. Told(object).told = (object.is = "null")
        BY DEF Told
      <3>3. QED
        BY <1>2, <2>2, <3>1, <3>2, Zenon
    <2>3. o.is = object.is /\ ~o.told /\ o.is \in avail
      BY <2>a, <2>b
    <2>4. o.converts = object.converts
      BY <1>2, <2>2, <2>a DEF Told
    <2>5. kind = "in" /\ o.is # "DUMMY" => o.is \in C!Family(IF o.converts THEN C!Other(midi) ELSE midi)
      BY <2>2, <2>3, <2>4 DEF Candidates
    <2>6. what = "UNSPECIFIED" \/ (how = "c" /\ what \notin avail /\ ~C!Contains(Build2, what))
      BY <1>4, <1>c, <1>d, <1>e, CompiledLaw DEF C!Type, System
    <2>7. QED
      BY <1>3, <2>3, <2>5, <2>6 DEF Promises
  <1>5. CASE ~searches
    <2>1. what \notin {"unspecified", "UNSPECIFIED"}
      BY <1>b, <1>5
    <2>2. CASE how = "api"
      BY <1>2, <1>3, <1>5, <2>1, <2>2, ForApiLaw DEF object
    <2>3. CASE how # "api"
      <3>1. object = C!ForConfiguration(kind, midi, conf, avail, throwing)
        BY <1>5, <2>3 DEF object
      <3>2. conf = C!Type(what, kind) /\ (how = "c" => C!Contains(Build2, what) \/ what \in avail)
        BY <1>5, <1>c, <1>d, <2>1, <2>3
      <3>3. QED
        BY <1>2, <1>3, <2>1, <2>3, <3>1, <3>2, ForConfigurationLaw
    <2>4. QED
      BY <2>2, <2>3
  <1>6. QED
    BY <1>4, <1>5

-----------------------------------------------------------------------------
(* The objects and handles of the C interface.                               *)

SystemHasTheDummy == System(available)

\* A call, and what it has made when.
ACall ==
  /\ calling = [at |-> calling.at, by |-> calling.by, config |-> calling.config, object |-> calling.object, chosen |-> calling.chosen]
  /\ calling.at \in {"idle", "construct", "observes", "open", "made"} /\ calling.by \in {"c", "api", "configuration"}
  /\ calling.at = "idle" => calling = C!Idle
  /\ calling.object \in 0..MaxObjects
  /\ calling.object = 0 <=> calling.at \in {"idle", "construct"}
  /\ calling.config.kind \in C!Kinds /\ calling.config.api # "unspecified"
  /\ calling.at = "observes" => calling.config.kind = "observer"
  /\ calling.at = "open" => calling.config.kind # "observer"

\* What lives is known, or being made.
KnownOrMade ==
  /\ objects \in [1..MaxObjects -> [kind : C!Kinds \cup {"none"}, reacts : {"never", "calls", "throws"}, open : BOOLEAN]]
  /\ known \subseteq 1..MaxObjects
  /\ \A i \in 1..MaxObjects : objects[i].kind # "none" <=> i \in known \/ i = calling.object
  /\ calling.object \notin known
  /\ calling.object # 0 =>
       objects[calling.object].kind = calling.config.kind /\ ~objects[calling.object].open

\* The handle is of what is known, or of what is being opened.
HandedInTime ==
  /\ handed \in {0, calling.object} \cup known
  /\ handed # 0 /\ handed = calling.object <=> calling.at = "open"

AnswersAreTrue ==
  /\ calling.at # "idle" => answer = "none"
  /\ answer = "ok" => handed \in known /\ (objects[handed].kind = "observer" \/ objects[handed].open)
  /\ answer = "EIO" => handed = 0

\* A callback is called from an object that lives; from an input that is being
\* made only while its port is opened.
InsideLives ==
  /\ inside # 0 => inside \in known \cup {calling.object}
  /\ inside # 0 /\ inside = calling.object /\ calling.config.kind = "in" => calling.at = "open"

ChosenAsAsked ==
  calling.object # 0 =>
    Promises(calling.config.kind, C!Midi(calling.config.version), calling.by, calling.config.api, calling.chosen.had, calling.chosen)

CInv ==
  SystemHasTheDummy /\ ACall /\ KnownOrMade /\ HandedInTime /\ AnswersAreTrue /\ InsideLives /\ ChosenAsAsked
LEMMA CInit == C!Init => CInv
  <1> SUFFICES ASSUME C!Init PROVE CInv
    OBVIOUS
  <1> USE ObjectsAssumption DEF C!Init
  <1>1. SystemHasTheDummy
    <2>1. "DUMMY" \in Compiled
      BY BuildLaw
    <2>2. QED
      BY <2>1, CompiledLaw, SystemAssumption DEF SystemHasTheDummy, System
  <1>2. ACall
    BY DEF ACall, C!Idle, C!Kinds
  <1>3. calling.object = 0 /\ calling.at = "idle"
    BY DEF C!Idle
  <1>4. objects \in [1..MaxObjects -> [kind : C!Kinds \cup {"none"}, reacts : {"never", "calls", "throws"}, open : BOOLEAN]]
    BY DEF C!Free
  <1>5. \A i \in 1..MaxObjects : objects[i].kind = "none"
    BY DEF C!Free
  <1>6. KnownOrMade /\ HandedInTime /\ AnswersAreTrue /\ InsideLives /\ ChosenAsAsked
    BY <1>3, <1>4, <1>5 DEF KnownOrMade, HandedInTime, AnswersAreTrue, InsideLives, ChosenAsAsked
  <1>7. QED
    BY <1>1, <1>2, <1>6 DEF CInv

LEMMA CStep == CInv /\ [C!Next]_cvars => CInv'
  <1> SUFFICES ASSUME CInv, [C!Next]_cvars PROVE CInv'
    OBVIOUS
  <1> USE ObjectsAssumption DEF CInv
  <1>0. calling = C!Idle <=> calling.at = "idle"
    BY DEF ACall, C!Idle
  <1>1. ASSUME NEW api \in ComeAndGo, C!SystemChanges(api) PROVE CInv'
    <2>1. UNCHANGED <<calling, handed, objects, known, answer, inside, news, terminated>>
      BY <1>1 DEF C!SystemChanges
    <2>2. SystemHasTheDummy'
      BY <1>1, SystemAssumption DEF C!SystemChanges, SystemHasTheDummy, System, Compiled
    <2>3. QED
      BY <2>1, <2>2 DEF ACall, KnownOrMade, HandedInTime, AnswersAreTrue, InsideLives, ChosenAsAsked
  <1>2. ASSUME NEW c \in C!Configurations, C!Refused(c) PROVE CInv'
    <2>1. UNCHANGED <<available, calling, handed, objects, known, inside>> /\ answer' = "EINVAL"
      BY <1>2 DEF C!Refused, C!Calls, C!Answers
    <2>2. QED
      BY <1>0, <1>2, <2>1 DEF C!Refused, C!Calls, SystemHasTheDummy, ACall, KnownOrMade, HandedInTime, AnswersAreTrue, InsideLives, ChosenAsAsked
  <1>3. ASSUME NEW c \in C!Configurations, C!New(c) \/ \E how \in {"api", "configuration"} : C!NewInCpp(c, how) PROVE CInv'
    <2>1. /\ UNCHANGED <<available, objects, known, inside>> /\ calling = C!Idle
          /\ handed' \in {handed, 0}
          /\ answer' \in {"none", "EINVAL"}
      BY <1>3 DEF C!New, C!NewInCpp, C!Calls, C!Answers
    <2>2. \/ calling' = C!Idle
          \/ /\ \E how \in {"c", "api", "configuration"} : calling' = [C!Idle EXCEPT !.at = "construct", !.by = how, !.config = c]
             /\ answer' = "none"
      <3>1. C!Idle.by = "c"
        BY DEF C!Idle
      <3>2. [C!Idle EXCEPT !.at = "construct", !.config = c] = [C!Idle EXCEPT !.at = "construct", !.by = "c", !.config = c]
        BY <3>1, Zenon DEF C!Idle
      <3>3. CASE C!New(c)
        BY <3>2, <3>3 DEF C!New, C!Answers
      <3>4. CASE \E how \in {"api", "configuration"} : C!NewInCpp(c, how)
        BY <3>4, Zenon DEF C!NewInCpp
      <3>5. QED
        BY <1>3, <3>3, <3>4
    <2>3. ACall' /\ calling'.object = 0 /\ calling'.at \in {"idle", "construct"} /\ (calling'.at = "construct" => answer' = "none")
      <3>1. c.kind \in C!Kinds /\ c.api # "unspecified"
        BY BuildAssumption DEF C!Configurations
      <3>2. CASE calling' = C!Idle
        BY <2>1, <3>2 DEF ACall, C!Idle
      <3>3. CASE calling' # C!Idle
        <4>1. PICK how \in {"c", "api", "configuration"} :
                 calling' = [C!Idle EXCEPT !.at = "construct", !.by = how, !.config = c]
          BY <2>2, <3>3
        <4>2. calling' = [at |-> "construct", by |-> how, config |-> c, object |-> 0, chosen |-> C!Nothing]
          BY <4>1, Zenon DEF C!Idle
        <4>3. QED
          BY <2>2, <3>1, <3>3, <4>2 DEF ACall
      <3>4. QED
        BY <3>2, <3>3
    <2>4. calling.object = 0
      BY <2>1 DEF C!Idle
    <2>5. QED
      BY <2>1, <2>3, <2>4 DEF SystemHasTheDummy, KnownOrMade, HandedInTime, AnswersAreTrue, InsideLives, ChosenAsAsked
  <1>4. CASE C!Construct
    <2> DEFINE c == calling.config
               i == C!Min((1..MaxObjects) \ C!Alive)
               Choice(throwing) == C!Chosen(c.kind, C!Midi(c.version), calling.by, c.api, available, throwing)
    <2>1. /\ calling.at = "construct" /\ C!Alive # 1..MaxObjects /\ UNCHANGED <<available, known, inside>>
          /\ \E throwing \in SUBSET MayThrow :
               LET chosen == Choice(throwing)
               IN  IF chosen.is = "throws"
                   THEN C!Answers("EINVAL") /\ UNCHANGED <<handed, objects>>
                   ELSE /\ calling' = [calling EXCEPT !.chosen = [f \in DOMAIN chosen \cup {"had"} |-> IF f = "had" THEN available ELSE chosen[f]],
                                         !.object = i,
                                         !.at = IF calling.by # "c" THEN "made" ELSE IF c.kind = "observer" THEN "observes" ELSE "open"]
                        /\ objects' = [objects EXCEPT ![i] = [kind |-> c.kind, reacts |-> C!Reacts(c, chosen), open |-> FALSE]]
                        /\ handed' = IF calling.by = "c" /\ c.kind # "observer" THEN i ELSE handed
                        /\ UNCHANGED answer
      BY <1>4, Zenon DEF C!Construct
    <2>2. i \in (1..MaxObjects) \ C!Alive
      <3>1. (1..MaxObjects) \ C!Alive # {} /\ (1..MaxObjects) \ C!Alive \in SUBSET Nat
        BY <2>1 DEF C!Alive, KnownOrMade
      <3>2. \E m \in (1..MaxObjects) \ C!Alive : \A n \in (1..MaxObjects) \ C!Alive : m <= n
        BY <3>1, LeastElement, Zenon
      <3>3. QED
        BY <3>2 DEF C!Min
    <2> HIDE DEF i
    <2>3. i \in 1..MaxObjects /\ i # 0 /\ objects[i].kind = "none" /\ i \notin known
      BY <2>2 DEF C!Alive, KnownOrMade
    <2>4. calling.object = 0 /\ answer = "none" /\ inside # i
      BY <2>1, <2>3 DEF ACall, AnswersAreTrue, InsideLives
    <2>5. PICK throwing \in SUBSET MayThrow :
             LET chosen == Choice(throwing)
             IN  IF chosen.is = "throws"
                 THEN C!Answers("EINVAL") /\ UNCHANGED <<handed, objects>>
                 ELSE /\ calling' = [calling EXCEPT !.chosen = [f \in DOMAIN chosen \cup {"had"} |-> IF f = "had" THEN available ELSE chosen[f]],
                                       !.object = i,
                                       !.at = IF calling.by # "c" THEN "made" ELSE IF c.kind = "observer" THEN "observes" ELSE "open"]
                      /\ objects' = [objects EXCEPT ![i] = [kind |-> c.kind, reacts |-> C!Reacts(c, chosen), open |-> FALSE]]
                      /\ handed' = IF calling.by = "c" /\ c.kind # "observer" THEN i ELSE handed
                      /\ UNCHANGED answer
      BY <2>1, Zenon
    <2>6. CASE Choice(throwing).is = "throws"
      <3>1. calling' = C!Idle /\ answer' = "EINVAL" /\ UNCHANGED <<handed, objects>>
        BY <2>5, <2>6 DEF C!Answers
      <3>2. ACall' /\ calling'.object = 0 /\ calling'.at = "idle"
        BY <3>1 DEF ACall, C!Idle, C!Kinds
      <3>3. QED
        BY <2>1, <2>4, <3>1, <3>2 DEF SystemHasTheDummy, KnownOrMade, HandedInTime, AnswersAreTrue, InsideLives, ChosenAsAsked
    <2>7. CASE Choice(throwing).is # "throws"
      <3> DEFINE o == Choice(throwing)
                 chosen == [f \in DOMAIN o \cup {"had"} |-> IF f = "had" THEN available ELSE o[f]]
                 place == IF calling.by # "c" THEN "made" ELSE IF c.kind = "observer" THEN "observes" ELSE "open"
                 item == [kind |-> c.kind, reacts |-> C!Reacts(c, o), open |-> FALSE]
      <3>1. /\ calling' = [calling EXCEPT !.chosen = chosen, !.object = i, !.at = place]
            /\ objects' = [objects EXCEPT ![i] = item]
            /\ handed' = IF calling.by = "c" /\ c.kind # "observer" THEN i ELSE handed
            /\ UNCHANGED answer
        BY <2>5, <2>7
      <3>2. Promises(c.kind, C!Midi(c.version), calling.by, c.api, available, o) /\ DOMAIN o = {"is", "converts", "told"}
        <4>1. "DUMMY" \notin throwing /\ System(available)
          BY SystemAssumption DEF SystemHasTheDummy
        <4>2. c.kind \in {"in", "out", "observer"} /\ c.api # "unspecified" /\ calling.by \in {"c", "api", "configuration"}
              /\ C!Midi(c.version) \in {1, 2}
          BY DEF ACall, C!Kinds, C!Midi
        <4>3. QED
          BY <2>7, <4>1, <4>2, ChosenLaw
      <3> HIDE DEF o
      <3>3. chosen.is = o.is /\ chosen.converts = o.converts /\ chosen.told = o.told /\ chosen.had = available
        BY <3>2
      <3>4. Promises(c.kind, C!Midi(c.version), calling.by, c.api, chosen.had, chosen)
        BY <3>2, <3>3 DEF Promises
      <3> HIDE DEF chosen
      <3>5. calling' = [at |-> place, by |-> calling.by, config |-> c, object |-> i, chosen |-> chosen]
        BY <3>1, Zenon DEF ACall
      <3>6. ACall'
        BY <2>3, <3>5 DEF ACall
      <3>7. item \in [kind : C!Kinds \cup {"none"}, reacts : {"never", "calls", "throws"}, open : BOOLEAN]
        BY DEF ACall, C!Reacts
      <3>8. item.kind = c.kind /\ ~item.open /\ c.kind # "none"
        BY DEF ACall, C!Kinds
      <3> HIDE DEF item
      <3>9. KnownOrMade'
        BY <2>1, <2>3, <2>4, <3>1, <3>5, <3>7, <3>8 DEF KnownOrMade
      <3>10. HandedInTime'
        BY <2>1, <2>3, <2>4, <3>1, <3>5 DEF HandedInTime
      <3>11. AnswersAreTrue' /\ InsideLives'
        BY <2>1, <2>3, <2>4, <3>1, <3>5 DEF AnswersAreTrue, InsideLives
      <3>12. ChosenAsAsked' /\ SystemHasTheDummy'
        BY <2>1, <3>4, <3>5 DEF ChosenAsAsked, SystemHasTheDummy
      <3>13. QED
        BY <3>6, <3>9, <3>10, <3>11, <3>12
    <2>8. QED
      BY <2>6, <2>7
  <1>5. CASE C!Constructed
    <2>1. calling' = C!Idle /\ calling'.object = 0 /\ calling'.at = "idle" /\ ACall'
      BY <1>5 DEF C!Constructed, C!Answers, C!Idle, ACall, C!Kinds
    <2>2. /\ UNCHANGED <<available, objects, inside>> /\ handed' = calling.object /\ known' = known \cup {calling.object}
          /\ answer' = "ok" /\ calling.at = "observes"
      BY <1>5 DEF C!Constructed, C!Answers
    <2>3. QED
      BY <2>1, <2>2 DEF SystemHasTheDummy, ACall, KnownOrMade, HandedInTime, AnswersAreTrue, InsideLives, ChosenAsAsked
  <1>6. CASE C!OpenSucceeds
    <2>1. calling' = C!Idle /\ calling'.object = 0 /\ calling'.at = "idle" /\ ACall'
      BY <1>6 DEF C!OpenSucceeds, C!Answers, C!Idle, ACall, C!Kinds
    <2>2. /\ UNCHANGED <<available, handed, inside>> /\ known' = known \cup {calling.object}
          /\ objects' = [objects EXCEPT ![calling.object].open = TRUE]
          /\ answer' = "ok" /\ calling.at = "open"
      BY <1>6 DEF C!OpenSucceeds, C!Answers
    <2>3. calling.object \in 1..MaxObjects /\ handed = calling.object
      BY <2>2 DEF ACall, HandedInTime
    <2>a. calling.object \in DOMAIN objects /\ objects[calling.object].kind # "none"
      BY <2>3 DEF KnownOrMade
    <2>b. objects'[calling.object] = [objects[calling.object] EXCEPT !.open = TRUE]
          /\ \A i \in 1..MaxObjects : i # calling.object => objects'[i] = objects[i]
      BY <2>2, <2>3, Zenon DEF KnownOrMade
    <2>c. objects[calling.object] \in [kind : C!Kinds \cup {"none"}, reacts : {"never", "calls", "throws"}, open : BOOLEAN]
      BY <2>3 DEF KnownOrMade
    <2>d. \A i \in 1..MaxObjects : objects'[i].kind = objects[i].kind
      BY <2>b, <2>c
    <2>e. objects' \in [1..MaxObjects -> [kind : C!Kinds \cup {"none"}, reacts : {"never", "calls", "throws"}, open : BOOLEAN]]
      BY <2>2, <2>3, Zenon DEF KnownOrMade
    <2>4. KnownOrMade' /\ objects'[calling.object].open
      BY <2>1, <2>2, <2>3, <2>b, <2>c, <2>d, <2>e DEF KnownOrMade
    <2>5. QED
      BY <2>1, <2>2, <2>3, <2>4 DEF SystemHasTheDummy, HandedInTime, AnswersAreTrue, InsideLives, ChosenAsAsked
  <1>7. CASE C!OpenFails \/ C!FreedInCpp
    <2>1. calling' = C!Idle /\ calling'.object = 0 /\ calling'.at = "idle" /\ ACall'
      BY <1>7 DEF C!OpenFails, C!FreedInCpp, C!Answers, C!Idle, ACall, C!Kinds
    <2>2. /\ UNCHANGED <<available, known, inside>> /\ inside # calling.object
          /\ objects' = [objects EXCEPT ![calling.object] = C!Free]
          /\ calling.at \in {"open", "made"}
          /\ (calling.at = "open" /\ handed' = 0 /\ answer' = "EIO") \/ (calling.at = "made" /\ handed' = handed /\ answer' = "none")
      BY <1>7 DEF C!OpenFails, C!FreedInCpp, C!Answers, C!Deleted
    <2>3. calling.object \in 1..MaxObjects
      BY <2>2 DEF ACall
    <2>4. KnownOrMade'
      BY <2>1, <2>2, <2>3 DEF KnownOrMade, C!Free
    <2>5. QED
      BY <2>1, <2>2, <2>3, <2>4 DEF SystemHasTheDummy, HandedInTime, AnswersAreTrue, InsideLives, ChosenAsAsked
  <1>8. ASSUME NEW i \in 1..MaxObjects, C!FreeObject(i) PROVE CInv'
    <2>1. calling = C!Idle /\ calling.object = 0 /\ calling.at = "idle"
      BY <1>8 DEF C!FreeObject, C!Idle
    <2>2. /\ UNCHANGED <<available, calling, inside>> /\ inside # i /\ i \in known /\ known' = known \ {i}
          /\ objects' = [objects EXCEPT ![i] = C!Free]
          /\ handed' = (IF handed = i THEN 0 ELSE handed) /\ answer' = "none"
      BY <1>8 DEF C!FreeObject, C!Deleted
    <2>3. KnownOrMade'
      BY <2>1, <2>2 DEF KnownOrMade, C!Free
    <2>4. QED
      BY <2>1, <2>2, <2>3 DEF SystemHasTheDummy, ACall, HandedInTime, AnswersAreTrue, InsideLives, ChosenAsAsked
  <1>9. ASSUME NEW i \in 1..MaxObjects, C!CallsBack(i) PROVE CInv'
    <2>1. UNCHANGED <<available, calling, handed, objects, known, answer>>
      BY <1>9 DEF C!CallsBack
    <2>2. inside' = i \/ inside' = inside
      BY <1>9 DEF C!CallsBack
    <2>3. /\ objects[i].kind # "none"
          /\ objects[i].kind = "observer" \/ objects[i].open \/ (calling.at = "open" /\ calling.object = i)
      BY <1>9 DEF C!CallsBack
    <2>4. InsideLives'
      BY <2>1, <2>2, <2>3 DEF InsideLives, KnownOrMade
    <2>5. QED
      BY <2>1, <2>4 DEF SystemHasTheDummy, ACall, KnownOrMade, HandedInTime, AnswersAreTrue, ChosenAsAsked
  <1>10. CASE C!Leaves
    BY <1>10 DEF C!Leaves, SystemHasTheDummy, ACall, KnownOrMade, HandedInTime, AnswersAreTrue, InsideLives, ChosenAsAsked
  <1>11. CASE UNCHANGED cvars
    BY <1>11 DEF cvars, SystemHasTheDummy, ACall, KnownOrMade, HandedInTime, AnswersAreTrue, InsideLives, ChosenAsAsked
  <1>12. QED
    BY <1>1, <1>2, <1>3, <1>4, <1>5, <1>6, <1>7, <1>8, <1>9, <1>10, <1>11 DEF C!Next

LEMMA CServes == CInv => C!HandlesAreTrue /\ C!InputFindsItself /\ C!GetsWhatWasAsked /\ C!SpeaksTheProtocol
  <1> SUFFICES ASSUME CInv PROVE C!HandlesAreTrue /\ C!InputFindsItself /\ C!GetsWhatWasAsked /\ C!SpeaksTheProtocol
    OBVIOUS
  <1> USE DEF CInv
  <1>1. C!Alive = known \cup ({calling.object} \ {0})
    BY ObjectsAssumption DEF C!Alive, KnownOrMade, ACall
  <1>2. C!HandlesAreTrue
    BY <1>1 DEF C!HandlesAreTrue, ACall, C!Idle, HandedInTime, AnswersAreTrue
  <1>3. C!InputFindsItself
    BY DEF C!InputFindsItself, InsideLives, HandedInTime
  <1>4. C!GetsWhatWasAsked /\ C!SpeaksTheProtocol
    BY DEF C!GetsWhatWasAsked, C!SpeaksTheProtocol, ChosenAsAsked, Promises
  <1>5. QED
    BY <1>2, <1>3, <1>4

-----------------------------------------------------------------------------
(* What an output says of a send. While one runs, the units that it handed   *)
(* over and those that are left are those of the message.                    *)

Parts == [kind : STRING, n : Nat]
Units == Nat \X Nat
Entries == [send : Nat, unit : Units, to : SUBSET (Destinations \cup {"virtual"})]
Answers == [message : Seq(Parts), to : Destinations \cup {"virtual", "none"}, ret : {"ok", "error", "thrown"}, connected : BOOLEAN]
Sending == [at : {"idle", "sending", "playing"}, message : Seq(Parts), left : Seq(Units), first : BOOLEAN]

Log == wire \o buffered

\* In what is left of a message, a unit is followed by the next one of its part,
\* or it is the last one, and followed by the first of another.
Walks(left, m) ==
  \A j \in 1..Len(left) :
    /\ left[j][1] \in 1..Len(m)
    /\ IF left[j][2] < m[left[j][1]].n THEN j < Len(left) /\ left[j + 1] = <<left[j][1], left[j][2] + 1>>
       ELSE left[j][2] = m[left[j][1]].n /\ (j < Len(left) => left[j + 1][2] = 1)

SendTypes ==
  /\ current \in Sending /\ wire \in Seq(Entries) /\ buffered \in Seq(Entries) /\ said \in Seq(Answers)
  /\ filled \in 0..DeviceBuffer /\ output.chunked \in BOOLEAN /\ (output.chunked => IsOut({"raw"}))
  /\ ~IsOut({"seq"}) => buffered = <<>>

\* Where a send is.
SendPlace ==
  /\ current.at # "idle" => alive /\ port_open_
  /\ current.at = "playing" => current.left = <<>>
  /\ current.at = "sending" =>
       /\ Walks(current.left, current.message) /\ Len(current.left) <= Len(Out!Units(current.message))
       /\ output.chunked /\ current.first => current.left = Out!Units(current.message)
       /\ IsOut({"coremidi_ump"}) /\ current.left # <<>> => current.left[1][2] = 1
       /\ IsOut({"coremidi_ump"}) => \A i \in 1..Len(current.message) : current.message[i].n <= ListSize

\* How many sends there were, with the one that runs, and what they handed
\* over: of back-ends that forget their connections, to what it was asked for.
Turn == Len(said) + (IF current.at = "idle" THEN 0 ELSE 1)
Numbered(n) == {e \in Entries : e.send \in 1..n}
Delivered(n) ==
  {e \in Numbered(n) : IsOut(Forgets) =>
     e.to \cap Destinations \subseteq {IF e.send \in 1..Len(said) THEN said[e.send].to ELSE asked}}
SendLogs == wire \in Seq(Delivered(Turn)) /\ buffered \in Seq(Numbered(Turn))

\* What the answer a says, of a send that handed over came, is so.
Honest(a, came) ==
  LET all == Out!Units(a.message)
  IN  IF a.ret = "ok" THEN came = all ELSE Out!IsPrefix(came, all) /\ (all # <<>> => came # all)

SendAnswers == IsOut(Tells) => \A c \in 1..Len(said) : said[c].connected => Honest(said[c], Out!Handed(Log, c))

\* The rest of what is sent is left.
SendRest ==
  current.at # "idle" /\ IsOut(Tells) /\ Out!Connected =>
    Out!Units(current.message) = Out!Handed(Log, Len(said) + 1) \o current.left

SendInv == SendTypes /\ SendPlace /\ SendLogs /\ SendRest /\ SendAnswers

\* What Handed() computes, by induction over the log. An entry has its parts.
LEMMA EntryTypes ==
  ASSUME NEW log \in Seq(Entries), NEW i \in 1..Len(log)
  PROVE  log[i] \in Entries /\ log[i].unit \in Units /\ log[i].send \in Nat
<1>1. log[i] \in Entries
  BY ElementOfSeq
<1> QED  BY <1>1 DEF Entries

HandedBy(f, log, c) ==
  /\ f \in [0..Len(log) -> Seq(Units)] /\ f[0] = <<>> /\ Out!Handed(log, c) = f[Len(log)]
  /\ \A i \in 1..Len(log) : f[i] = IF log[i].send = c THEN Append(f[i - 1], log[i].unit) ELSE f[i - 1]

LEMMA HandedFold ==
  ASSUME NEW log \in Seq(Entries), NEW c
  PROVE  \E f : HandedBy(f, log, c)
<1> DEFINE Of(f) == [i \in 0..Len(log) |->
                       IF i = 0 THEN <<>> ELSE IF log[i].send = c THEN Append(f[i - 1], log[i].unit) ELSE f[i - 1]]
           of == CHOOSE f : f = Of(f)
           n == Len(log)
           A == Seq(Units)
           step == [i \in 1..n |-> [x \in A |-> IF log[i].send = c THEN Append(x, log[i].unit) ELSE x]]
<1>1. n \in Nat /\ <<>> \in A /\ \A i \in 1..n : i \in 0..n /\ i # 0 /\ i - 1 \in 0..n
  OBVIOUS
<1>2. step \in [1..n -> [A -> A]]
  <2>1. \A i \in 1..n : log[i].unit \in Units
    BY EntryTypes
  <2>2. ASSUME NEW i \in 1..n, NEW x \in A PROVE Append(x, log[i].unit) \in A
    BY <2>1, AppendProperties
  <2> HIDE DEF A, n
  <2> QED  BY <2>2
<1>3. PICK f \in [0..n -> A] : IsFold(f, n, <<>>, step)
  <2> HIDE DEF n, A, step
  <2> QED  BY <1>1, <1>2, FoldExists
<1>4. \A i \in 0..n : f[i] = IF i = 0 THEN <<>> ELSE step[i][f[i - 1]]
  <2> HIDE DEF n, A, step
  <2> QED  BY <1>3, Zenon DEF IsFold
<1>5. ASSUME NEW i \in 1..n PROVE f[i] = IF log[i].send = c THEN Append(f[i - 1], log[i].unit) ELSE f[i - 1]
  <2>1. f[i - 1] \in A
    BY <1>1, Zenon
  <2>2. f[i] = step[i][f[i - 1]]
    <3> HIDE DEF n, step
    <3> QED  BY <1>1, <1>4, Zenon
  <2> HIDE DEF n, A
  <2> QED  BY <2>1, <2>2
<1>6. f[0] = <<>>
  <2> HIDE DEF n, step
  <2>1. 0 \in 0..n
    BY <1>1
  <2> QED  BY <1>4, <2>1
<1>7. f = Of(f)
  <2>1. \A i \in 0..n : i = 0 \/ i \in 1..n
    OBVIOUS
  <2>2. \A i \in 0..n : f[i] = Of(f)[i]
    BY <1>5, <1>6, <2>1, Zenon
  <2> QED  BY <2>2
<1>8. ASSUME NEW g, g = Of(g) PROVE g = f
  <2>1. \A i \in 0..n : g[i] = Of(g)[i]
    BY <1>8, Zenon
  <2>2. g[0] = <<>>
    BY <1>1, <2>1
  <2>3. \A i \in 1..n : g[i] = IF log[i].send = c THEN Append(g[i - 1], log[i].unit) ELSE g[i - 1]
    BY <1>1, <2>1
  <2>4. Alike(g, f, n)
    BY <1>5, <1>6, <2>2, <2>3 DEF Alike
  <2>5. \A i \in 0..n : g[i] = f[i]
    <3> HIDE DEF n
    <3> QED  BY <1>1, <2>4, SameRecursion
  <2>6. g = [i \in 0..n |-> g[i]] /\ f = [i \in 0..n |-> f[i]]
    BY <1>8
  <2> QED  BY <2>5, <2>6
<1>9. Out!Handed(log, c) = of[Len(log)]
  BY DEF Out!Handed
<1>10. of = f
  BY <1>7, <1>8, Zenon
<1>11. HandedBy(f, log, c)
  BY <1>3, <1>5, <1>6, <1>9, <1>10, Zenon DEF HandedBy
<1> QED  BY <1>11

LEMMA HandedLaws ==
  ASSUME NEW c
  PROVE  /\ Out!Handed(<<>>, c) = <<>>
         /\ \A log \in Seq(Entries) : Out!Handed(log, c) \in Seq(Units)
         /\ \A log \in Seq(Entries), e \in Entries :
              Out!Handed(Append(log, e), c) =
                IF e.send = c THEN Append(Out!Handed(log, c), e.unit) ELSE Out!Handed(log, c)
<1>1. Out!Handed(<<>>, c) = <<>>
  <2>1. <<>> \in Seq(Entries) /\ Len(<<>>) = 0
    OBVIOUS
  <2>2. ASSUME NEW log \in Seq(Entries), Len(log) = 0 PROVE Out!Handed(log, c) = <<>>
    <3>1. PICK f : HandedBy(f, log, c)
      BY HandedFold
    <3> QED  BY <2>2, <3>1 DEF HandedBy
  <2> QED  BY <2>1, <2>2, Zenon
<1>2. ASSUME NEW log \in Seq(Entries) PROVE Out!Handed(log, c) \in Seq(Units)
  <2>1. Len(log) \in 0..Len(log)
    OBVIOUS
  <2>2. PICK f : HandedBy(f, log, c)
    BY HandedFold
  <2> QED  BY <2>1, <2>2 DEF HandedBy
<1>3. ASSUME NEW log \in Seq(Entries), NEW e \in Entries
      PROVE  Out!Handed(Append(log, e), c) =
               IF e.send = c THEN Append(Out!Handed(log, c), e.unit) ELSE Out!Handed(log, c)
  <2> DEFINE t == Append(log, e)
             n == Len(log)
  <2>1. /\ t \in Seq(Entries) /\ Len(t) = n + 1 /\ n \in Nat /\ t[n + 1] = e
        /\ \A i \in 1..n : t[i] = log[i]
        /\ n + 1 \in 1..(n + 1) /\ (n + 1) - 1 = n /\ n \in 0..n /\ \A i \in 1..n : i \in 1..(n + 1)
    OBVIOUS
  <2> HIDE DEF t, n
  <2>2. PICK f : /\ f[0] = <<>> /\ Out!Handed(log, c) = f[n]
                 /\ \A i \in 1..n : f[i] = IF log[i].send = c THEN Append(f[i - 1], log[i].unit) ELSE f[i - 1]
    <3>1. \E f : HandedBy(f, log, c)
      BY HandedFold
    <3> QED  BY <3>1 DEF HandedBy, n
  <2>3. PICK g : /\ g[0] = <<>> /\ Out!Handed(t, c) = g[n + 1]
                 /\ \A i \in 1..(n + 1) : g[i] = IF t[i].send = c THEN Append(g[i - 1], t[i].unit) ELSE g[i - 1]
    <3>1. \E g : HandedBy(g, t, c)
      BY <2>1, HandedFold, Zenon
    <3> QED  BY <2>1, <3>1, Zenon DEF HandedBy
  <2>4. Alike(f, g, n)
    BY <2>1, <2>2, <2>3, Zenon DEF Alike
  <2>5. f[n] = g[n]
    BY <2>1, <2>4, SameRecursion
  <2>6. g[n + 1] = IF e.send = c THEN Append(g[n], e.unit) ELSE g[n]
    BY <2>1, <2>3
  <2> QED  BY <2>2, <2>3, <2>5, <2>6 DEF t
<1> QED  BY <1>1, <1>2, <1>3

\* What a native call hands over is of one send.
UnitsOf(log) == [i \in 1..Len(log) |-> log[i].unit]
OfSend(log, n) == \A i \in 1..Len(log) : log[i].send = n

LEMMA UnitsOfAppend ==
  ASSUME NEW log \in Seq(Entries), NEW e \in Entries
  PROVE  UnitsOf(log) \in Seq(Units) /\ UnitsOf(Append(log, e)) = Append(UnitsOf(log), e.unit)
<1> DEFINE n == Len(log)
           t == Append(log, e)
<1>1. /\ t \in Seq(Entries) /\ Len(t) = n + 1 /\ n \in Nat /\ t[n + 1] = e /\ \A i \in 1..n : t[i] = log[i]
  OBVIOUS
<1>2. \A i \in 1..n : log[i].unit \in Units
  BY EntryTypes
<1>3. e.unit \in Units
  BY DEF Entries
<1> HIDE DEF n, t
<1>4. UnitsOf(log) = [i \in 1..n |-> log[i].unit] /\ UnitsOf(t) = [i \in 1..(n + 1) |-> t[i].unit]
  BY <1>1 DEF UnitsOf, n
<1>5. UnitsOf(log) \in Seq(Units) /\ Len(UnitsOf(log)) = n
  BY <1>1, <1>2, <1>4
<1> DEFINE a == UnitsOf(log)
<1>6. \A i \in 1..n : a[i] = log[i].unit
  BY <1>4
<1> HIDE DEF a
<1>7. Append(a, e.unit) = [i \in 1..(n + 1) |-> IF i <= n THEN a[i] ELSE e.unit]
  <2>1. a \in Seq(Units) /\ Len(a) = n
    BY <1>5 DEF a
  <2> QED  BY <1>1, <1>3, <2>1
<1>8. \A i \in 1..(n + 1) : t[i].unit = IF i <= n THEN a[i] ELSE e.unit
  BY <1>1, <1>6
<1>9. UnitsOf(t) = Append(a, e.unit)
  BY <1>4, <1>7, <1>8
<1> QED  BY <1>5, <1>9 DEF a, t

LEMMA HandedMore ==
  ASSUME NEW log \in Seq(Entries), NEW more \in Seq(Entries), NEW n, NEW c, OfSend(more, n)
  PROVE  Out!Handed(log \o more, c) = IF c = n THEN Out!Handed(log, c) \o UnitsOf(more) ELSE Out!Handed(log, c)
<1> DEFINE Proved == {t \in Seq(Entries) : OfSend(t, n) =>
                   Out!Handed(log \o t, c) = IF c = n THEN Out!Handed(log, c) \o UnitsOf(t) ELSE Out!Handed(log, c)}
           h == Out!Handed(log, c)
<1>0. h \in Seq(Units)
  BY HandedLaws
<1>1. <<>> \in Proved
  <2>1. <<>> \in Seq(Entries) /\ log \o <<>> = log /\ UnitsOf(<<>>) = <<>>
    BY DEF UnitsOf
  <2>2. h \o <<>> = h
    BY <1>0
  <2> QED  BY <2>1, <2>2, Zenon
<1>2. ASSUME NEW t \in Seq(Entries), NEW e \in Entries, t \in Proved PROVE Append(t, e) \in Proved
  <2> DEFINE v == Append(t, e)
  <2> SUFFICES ASSUME OfSend(v, n)
               PROVE  Out!Handed(log \o v, c) = IF c = n THEN h \o UnitsOf(v) ELSE h
    OBVIOUS
  <2>1. /\ v \in Seq(Entries) /\ log \o t \in Seq(Entries) /\ log \o v = Append(log \o t, e)
        /\ Len(v) = Len(t) + 1 /\ v[Len(t) + 1] = e /\ Len(t) + 1 \in 1..Len(v)
        /\ \A i \in 1..Len(t) : i \in 1..Len(v) /\ v[i] = t[i]
    OBVIOUS
  <2>2. OfSend(t, n) /\ e.send = n
    BY <2>1 DEF OfSend
  <2>3. Out!Handed(log \o t, c) = IF c = n THEN h \o UnitsOf(t) ELSE h
    BY <1>2, <2>2
  <2>4. Out!Handed(log \o v, c) = IF e.send = c THEN Append(Out!Handed(log \o t, c), e.unit) ELSE Out!Handed(log \o t, c)
    <3> DEFINE w == log \o t
    <3>1. w \in Seq(Entries) /\ log \o v = Append(w, e)
      BY <2>1
    <3> HIDE DEF w, v
    <3>2. Out!Handed(Append(w, e), c) = IF e.send = c THEN Append(Out!Handed(w, c), e.unit) ELSE Out!Handed(w, c)
      BY <3>1, HandedLaws, Zenon
    <3> QED  BY <3>1, <3>2 DEF w
  <2>5. UnitsOf(t) \in Seq(Units) /\ UnitsOf(v) = Append(UnitsOf(t), e.unit) /\ e.unit \in Units
    BY UnitsOfAppend, Zenon DEF Entries
  <2> DEFINE a == UnitsOf(t)
             b == UnitsOf(v)
             u == e.unit
  <2> HIDE DEF a, b, u, h, v
  <2>6. h \o Append(a, u) = Append(h \o a, u)
    <3>1. a \in Seq(Units) /\ u \in Units
      BY <2>5 DEF a, u
    <3> QED  BY <1>0, <3>1, AppendRegroup
  <2>7. CASE c = n
    BY <2>2, <2>3, <2>4, <2>5, <2>6, <2>7 DEF a, b, u
  <2>8. CASE c # n
    BY <2>2, <2>3, <2>4, <2>8
  <2> QED  BY <2>7, <2>8
<1>3. Seq(Entries) \subseteq Proved
  <2> HIDE DEF Proved
  <2> QED  BY <1>1, <1>2, SeqInduction
<1> QED  BY <1>3

LEMMA HandedNothing ==
  ASSUME NEW log \in Seq(Entries), NEW c, \A i \in 1..Len(log) : log[i].send # c
  PROVE  Out!Handed(log, c) = <<>>
<1> DEFINE Proved == {t \in Seq(Entries) : (\A i \in 1..Len(t) : t[i].send # c) => Out!Handed(t, c) = <<>>}
<1>1. <<>> \in Proved
  BY HandedLaws
<1>2. ASSUME NEW t \in Seq(Entries), NEW e \in Entries, t \in Proved PROVE Append(t, e) \in Proved
  <2> DEFINE v == Append(t, e)
  <2>1. /\ v \in Seq(Entries) /\ Len(v) = Len(t) + 1 /\ v[Len(t) + 1] = e /\ Len(t) + 1 \in 1..Len(v)
        /\ \A i \in 1..Len(t) : i \in 1..Len(v) /\ v[i] = t[i]
    OBVIOUS
  <2>2. Out!Handed(v, c) = IF e.send = c THEN Append(Out!Handed(t, c), e.unit) ELSE Out!Handed(t, c)
    BY HandedLaws, Zenon
  <2> HIDE DEF v
  <2>3. (\A i \in 1..Len(v) : v[i].send # c) => e.send # c /\ \A i \in 1..Len(t) : t[i].send # c
    BY <2>1
  <2>4. v \in Proved
    BY <1>2, <2>1, <2>2, <2>3
  <2> QED  BY <2>4 DEF v
<1>3. Seq(Entries) \subseteq Proved
  <2> HIDE DEF Proved
  <2> QED  BY <1>1, <1>2, SeqInduction
<1> QED  BY <1>3

\* It does not ask where a unit went.
LEMMA HandedAlike ==
  ASSUME NEW a \in Seq(Entries), NEW b \in Seq(Entries), NEW c, Len(a) = Len(b),
         \A i \in 1..Len(a) : a[i].send = b[i].send /\ a[i].unit = b[i].unit
  PROVE  Out!Handed(a, c) = Out!Handed(b, c)
<1> DEFINE n == Len(a)
<1>1. PICK f : HandedBy(f, a, c)
  BY HandedFold
<1>2. PICK g : HandedBy(g, b, c)
  BY HandedFold
<1>3. /\ f[0] = <<>> /\ Out!Handed(a, c) = f[n]
      /\ \A i \in 1..n : f[i] = IF a[i].send = c THEN Append(f[i - 1], a[i].unit) ELSE f[i - 1]
  BY <1>1 DEF HandedBy
<1>4. /\ g[0] = <<>> /\ Out!Handed(b, c) = g[n]
      /\ \A i \in 1..n : g[i] = IF b[i].send = c THEN Append(g[i - 1], b[i].unit) ELSE g[i - 1]
  BY <1>2 DEF HandedBy
<1>5. \A i \in 1..n : a[i].send = b[i].send /\ a[i].unit = b[i].unit
  OBVIOUS
<1>6. n \in Nat /\ n \in 0..n
  OBVIOUS
<1> HIDE DEF n
<1>7. Alike(f, g, n)
  BY <1>3, <1>4, <1>5 DEF Alike
<1> QED  BY <1>3, <1>4, <1>6, <1>7, SameRecursion

-----------------------------------------------------------------------------
(* The units of a message, part after part. *)

UnitsIn(m, i) == IF m[i].kind = "noop" THEN <<>> ELSE [k \in 1..m[i].n |-> <<i, k>>]

LEMMA UnitsInTypes ==
  ASSUME NEW m \in Seq(Parts), NEW i \in 1..Len(m)
  PROVE  /\ UnitsIn(m, i) \in Seq(Units) /\ m[i].n \in Nat /\ i \in Nat
         /\ UnitsIn(m, i) # <<>> => Len(UnitsIn(m, i)) = m[i].n
         /\ \A k \in 1..Len(UnitsIn(m, i)) : UnitsIn(m, i)[k] = <<i, k>>
<1>1. m[i].n \in Nat /\ i \in Nat
  <2>1. m[i] \in Parts
    BY ElementOfSeq
  <2> QED  BY <2>1 DEF Parts
<1> DEFINE n == m[i].n
           s == [k \in 1..n |-> <<i, k>>]
<1> HIDE DEF n
<1>2. s \in Seq(Units) /\ Len(s) = n /\ \A k \in 1..n : s[k] = <<i, k>>
  <2>1. n \in Nat /\ \A k \in 1..n : <<i, k>> \in Units
    BY <1>1 DEF Units, n
  <2> QED  BY <2>1
<1>3. CASE m[i].kind = "noop"
  BY <1>1, <1>3 DEF UnitsIn
<1>4. CASE m[i].kind # "noop"
  <2>1. UnitsIn(m, i) = s
    BY <1>4 DEF UnitsIn, n
  <2> QED  BY <1>1, <1>2, <2>1 DEF n
<1> QED  BY <1>3, <1>4

LEMMA UnitsFold ==
  ASSUME NEW m \in Seq(Parts)
  PROVE  \E f \in [0..Len(m) -> Seq(Units)] :
           /\ f[0] = <<>> /\ Out!Units(m) = f[Len(m)]
           /\ \A i \in 1..Len(m) : f[i] = f[i - 1] \o UnitsIn(m, i)
<1> DEFINE s == [i \in 1..Len(m) |-> UnitsIn(m, i)]
<1>1. s \in Seq(Seq(Units)) /\ Len(s) = Len(m) /\ \A i \in 1..Len(m) : s[i] = UnitsIn(m, i)
  BY UnitsInTypes
<1>2. Out!Units(m) = Out!FlattenSeq(s)
  <2>1. s = [i \in DOMAIN m |-> IF m[i].kind = "noop" THEN <<>> ELSE [k \in 1..m[i].n |-> <<i, k>>]]
    BY DEF UnitsIn
  <2> QED  BY <2>1, Zenon DEF Out!Units
<1> HIDE DEF s
<1>3. Out!FlattenSeq(s) = Flattened(s)
  BY DEF Out!FlattenSeq, Flattened
<1>4. PICK f \in [0..Len(s) -> Seq(Units)] :
             f[0] = <<>> /\ Flattened(s) = f[Len(s)] /\ \A i \in 1..Len(s) : f[i] = f[i - 1] \o s[i]
  BY <1>1, FlattenedFold, Zenon
<1>5. \A i \in 1..Len(m) : f[i] = f[i - 1] \o UnitsIn(m, i)
  BY <1>1, <1>4, Zenon
<1>6. f \in [0..Len(m) -> Seq(Units)] /\ Out!Units(m) = f[Len(m)]
  BY <1>1, <1>2, <1>3, <1>4
<1> QED  BY <1>4, <1>5, <1>6, Zenon

\* One more part keeps the units in their order.
LEMMA WalksOn ==
  ASSUME NEW m \in Seq(Parts), NEW i \in 1..Len(m), NEW left \in Seq(Units), Walks(left, m)
  PROVE  /\ left \o UnitsIn(m, i) \in Seq(Units) /\ Walks(left \o UnitsIn(m, i), m)
         /\ (left # <<>> => left[1][2] = 1) /\ left \o UnitsIn(m, i) # <<>> => (left \o UnitsIn(m, i))[1][2] = 1
<1> DEFINE s == UnitsIn(m, i)
           all == left \o s
           n == Len(left)
<1>1. /\ s \in Seq(Units) /\ (s # <<>> => Len(s) = m[i].n) /\ (\A k \in 1..Len(s) : s[k] = <<i, k>>) /\ i \in Nat /\ m[i].n \in Nat
  BY UnitsInTypes
<1> HIDE DEF s
<1>2. /\ all \in Seq(Units) /\ Len(all) = n + Len(s) /\ n \in Nat /\ Len(s) \in Nat
      /\ \A j \in 1..n : all[j] = left[j]
      /\ \A j \in 1..Len(s) : all[n + j] = s[j]
  BY <1>1
<1> HIDE DEF all
<1>3. \A j \in 1..n : left[j][2] \in Nat
  <2>1. ASSUME NEW j \in 1..n PROVE left[j][2] \in Nat
    <3>1. left[j] \in Units
      BY ElementOfSeq
    <3> QED  BY <3>1 DEF Units
  <2> QED  BY <2>1
<1>4. Walks(all, m)
  <2> SUFFICES ASSUME NEW j \in 1..Len(all)
               PROVE  /\ all[j][1] \in 1..Len(m)
                      /\ IF all[j][2] < m[all[j][1]].n THEN j < Len(all) /\ all[j + 1] = <<all[j][1], all[j][2] + 1>>
                         ELSE all[j][2] = m[all[j][1]].n /\ (j < Len(all) => all[j + 1][2] = 1)
    BY DEF Walks
  <2>1. CASE j < n
    <3>1. j \in 1..n /\ j + 1 \in 1..n /\ j < Len(all)
      BY <1>2, <2>1
    <3>2. all[j] = left[j] /\ all[j + 1] = left[j + 1]
      BY <1>2, <3>1
    <3> QED  BY <2>1, <3>1, <3>2 DEF Walks
  <2>2. CASE j = n
    <3>1. j \in 1..n /\ ~(j < n) /\ all[j] = left[j]
      BY <1>2, <2>2
    <3>2. left[j][1] \in 1..Len(m) /\ ~(left[j][2] < m[left[j][1]].n) /\ left[j][2] = m[left[j][1]].n
      BY <3>1 DEF Walks
    <3>3. j < Len(all) => all[j + 1] = <<i, 1>>
      <4>1. j < Len(all) => 1 \in 1..Len(s) /\ all[j + 1] = s[1]
        BY <1>2, <2>2
      <4> QED  BY <1>1, <4>1, Zenon
    <3> QED  BY <3>1, <3>2, <3>3
  <2>3. CASE j > n
    <3> DEFINE k == j - n
    <3>1. k \in 1..Len(s) /\ j = n + k /\ all[j] = s[k]
      BY <1>2, <2>3
    <3>2. all[j] = <<i, k>> /\ Len(s) = m[i].n
      BY <1>1, <3>1
    <3>3. k < Len(s) => j < Len(all) /\ all[j + 1] = <<i, k + 1>>
      <4>1. k < Len(s) => k + 1 \in 1..Len(s) /\ j + 1 = n + (k + 1) /\ j < Len(all)
        BY <1>2, <3>1
      <4>2. k < Len(s) => all[j + 1] = s[k + 1]
        BY <1>2, <4>1
      <4> QED  BY <1>1, <4>1, <4>2, Zenon
    <3>4. ~(k < Len(s)) => k = Len(s) /\ ~(j < Len(all))
      BY <1>2, <3>1
    <3> QED  BY <3>2, <3>3, <3>4
  <2> QED  BY <1>2, <2>1, <2>2, <2>3
<1>5. (left # <<>> => left[1][2] = 1) /\ all # <<>> => all[1][2] = 1
  <2>1. CASE left = <<>>
    <3>1. all # <<>> => 1 \in 1..Len(s) /\ all[1] = s[1]
      BY <1>2, <2>1
    <3> QED  BY <1>1, <3>1
  <2>2. CASE left # <<>>
    <3>1. 1 \in 1..n /\ all[1] = left[1]
      BY <1>2, <2>2
    <3> QED  BY <2>2, <3>1
  <2> QED  BY <2>1, <2>2
<1> QED  BY <1>2, <1>4, <1>5 DEF all, s

LEMMA UnitsLaws ==
  ASSUME NEW m \in Seq(Parts)
  PROVE  /\ Out!Units(m) \in Seq(Units) /\ Walks(Out!Units(m), m)
         /\ Out!Units(m) # <<>> => Out!Units(m)[1][2] = 1
         /\ m = <<>> => Out!Units(m) = <<>>
<1>1. PICK f \in [0..Len(m) -> Seq(Units)] :
           /\ f[0] = <<>> /\ Out!Units(m) = f[Len(m)]
           /\ \A i \in 1..Len(m) : f[i] = f[i - 1] \o UnitsIn(m, i)
  BY UnitsFold
<1> DEFINE n == Len(m)
           Good(left) == left \in Seq(Units) /\ Walks(left, m) /\ (left # <<>> => left[1][2] = 1)
           Proved == {i \in Nat : i <= n => Good(f[i])}
<1>2. n \in Nat
  OBVIOUS
<1>3. 0 \in Proved
  BY <1>1 DEF Walks
<1>4. ASSUME NEW i \in Nat, i \in Proved PROVE i + 1 \in Proved
  <2>1. i + 1 <= n => i + 1 \in 1..n /\ i <= n /\ (i + 1) - 1 = i
    BY <1>2
  <2>2. i + 1 <= n => Good(f[i]) /\ f[i + 1] = f[i] \o UnitsIn(m, i + 1)
    BY <1>1, <1>4, <2>1, Zenon
  <2>3. i + 1 <= n => Good(f[i + 1])
    BY <2>1, <2>2, WalksOn, Zenon
  <2> QED  BY <2>3
<1>5. Nat \subseteq Proved
  <2> HIDE DEF Proved
  <2> QED  BY <1>3, <1>4, Induction
<1>6. Good(Out!Units(m))
  <2>1. n \in Proved
    BY <1>2, <1>5
  <2> QED  BY <1>1, <1>2, <2>1
<1>7. m = <<>> => Out!Units(m) = <<>>
  BY <1>1
<1> QED  BY <1>6, <1>7

-----------------------------------------------------------------------------
(* How much the next native call is given. *)

LEMMA LeastLaw ==
  ASSUME NEW S \in SUBSET Nat, S # {}
  PROVE  Out!Least(S) \in S /\ \A o \in S : Out!Least(S) <= o
<1>1. \E n \in S : \A o \in S : n <= o
  BY LeastElement
<1> QED  BY <1>1, Zenon DEF Out!Least

LEMMA MostLaw ==
  ASSUME NEW N \in Nat, NEW S \in SUBSET (0..N), S # {}
  PROVE  Out!Most(S) \in S
<1> DEFINE B == {x \in Nat : \E n \in S : x = N - n}
<1>0. \A n \in S : n \in Nat /\ N - n \in Nat
  OBVIOUS
<1>1. B \in SUBSET Nat /\ B # {}
  BY <1>0, Zenon
<1>2. PICK b \in B : \A c \in B : b <= c
  <2> HIDE DEF B
  <2> QED  BY <1>1, LeastElement
<1>3. PICK n \in S : b = N - n
  OBVIOUS
<1>4. ASSUME NEW o \in S PROVE n >= o
  <2>1. N - o \in B /\ o \in Nat /\ n \in Nat
    BY <1>0
  <2>2. b <= N - o
    BY <1>2, <2>1, Zenon
  <2> QED  BY <1>3, <2>1, <2>2
<1>5. \E x \in S : \A o \in S : x >= o
  BY <1>4
<1> QED  BY <1>5, Zenon DEF Out!Most

\* What is left after n units.
After(left, n) == SubSeq(left, n + 1, Len(left))
Given(left, n) == SubSeq(left, 1, n)

LEMMA WalksRest ==
  ASSUME NEW m, NEW left \in Seq(Units), Walks(left, m), NEW n \in 1..Len(left)
  PROVE  /\ After(left, n) \in Seq(Units) /\ Len(After(left, n)) = Len(left) - n /\ Walks(After(left, n), m)
         /\ left[n][2] = m[left[n][1]].n /\ After(left, n) # <<>> => After(left, n)[1][2] = 1
         /\ Given(left, n) \in Seq(Units) /\ Len(Given(left, n)) = n /\ (\A i \in 1..n : Given(left, n)[i] = left[i])
         /\ left = Given(left, n) \o After(left, n)
<1> DEFINE k == Len(left)
           r == After(left, n)
           g == Given(left, n)
<1>1. k \in Nat /\ n \in Nat /\ n >= 1 /\ n <= k
  OBVIOUS
<1>2. /\ r \in Seq(Units) /\ Len(r) = k - n
      /\ \A j \in 1..(k - n) : r[j] = left[n + j]
  <2>1. n + 1 \in Int /\ k \in Int /\ \A i \in (n + 1)..k : left[i] \in Units
    BY <1>1, ElementOfSeq
  <2>2. /\ r \in Seq(Units)
        /\ Len(r) = IF n + 1 <= k THEN k - (n + 1) + 1 ELSE 0
        /\ \A j \in 1..(k - (n + 1) + 1) : r[j] = left[(n + 1) + j - 1]
    BY <2>1, SubSeqProperties DEF After
  <2> HIDE DEF r, k
  <2> QED  BY <1>1, <2>2
<1>3. g \in Seq(Units) /\ Len(g) = n /\ \A i \in 1..n : g[i] = left[i]
  <2>1. 1 \in Int /\ n \in Int /\ \A i \in 1..n : left[i] \in Units
    BY <1>1, ElementOfSeq
  <2>2. /\ g \in Seq(Units)
        /\ Len(g) = IF 1 <= n THEN n - 1 + 1 ELSE 0
        /\ \A j \in 1..(n - 1 + 1) : g[j] = left[1 + j - 1]
    BY <2>1, SubSeqProperties DEF Given
  <2> HIDE DEF g, k
  <2> QED  BY <1>1, <2>2
<1>6. left = g \o r
  <2>1. 1 \in 1..(k + 1) /\ n \in 0..k /\ k \in n..k
    BY <1>1
  <2>2. g \o r = SubSeq(left, 1, k)
    BY <2>1, ConcatAdjacentSubSeq DEF Given, After
  <2>3. SubSeq(left, 1, k) = left
    BY SubSeqFull
  <2> QED  BY <2>2, <2>3, Zenon
<1> HIDE DEF r, g, k
<1>4. Walks(r, m)
  <2> SUFFICES ASSUME NEW j \in 1..Len(r)
               PROVE  /\ r[j][1] \in 1..Len(m)
                      /\ IF r[j][2] < m[r[j][1]].n THEN j < Len(r) /\ r[j + 1] = <<r[j][1], r[j][2] + 1>>
                         ELSE r[j][2] = m[r[j][1]].n /\ (j < Len(r) => r[j + 1][2] = 1)
    BY DEF Walks
  <2>1. n + j \in 1..k /\ r[j] = left[n + j] /\ (j < Len(r) <=> n + j < k)
    BY <1>1, <1>2
  <2>2. n + j < k => j + 1 \in 1..(k - n) /\ n + (j + 1) = (n + j) + 1
    BY <1>1, <1>2
  <2>3. n + j < k => r[j + 1] = left[(n + j) + 1]
    BY <1>2, <2>2
  <2> DEFINE i == n + j
  <2>4. /\ left[i][1] \in 1..Len(m)
        /\ IF left[i][2] < m[left[i][1]].n THEN i < k /\ left[i + 1] = <<left[i][1], left[i][2] + 1>>
           ELSE left[i][2] = m[left[i][1]].n /\ (i < k => left[i + 1][2] = 1)
    BY <2>1 DEF Walks, k
  <2> QED  BY <2>1, <2>3, <2>4, Zenon
<1>5. left[n][2] = m[left[n][1]].n /\ r # <<>> => r[1][2] = 1
  <2> SUFFICES ASSUME left[n][2] = m[left[n][1]].n, r # <<>> PROVE r[1][2] = 1
    OBVIOUS
  <2>1. n < k /\ r[1] = left[n + 1]
    BY <1>1, <1>2
  <2>2. left[n] \in Units
    BY <1>1, ElementOfSeq DEF k
  <2>3. left[n][2] \in Nat
    BY <2>2 DEF Units
  <2>4. ~(left[n][2] < m[left[n][1]].n)
    BY <2>3
  <2> QED  BY <1>1, <2>1, <2>4 DEF Walks, k
<1> QED  BY <1>2, <1>3, <1>4, <1>5, <1>6, Zenon DEF r, g, k

LEMMA EndsLaw ==
  ASSUME NEW left \in Seq(Units), NEW m \in Seq(Parts), left # <<>>, Walks(left, m),
         left = current.left, m = current.message
  PROVE  /\ Out!Ends \subseteq 1..Len(left) /\ Len(left) \in Out!Ends /\ Len(left) \in Nat /\ Len(left) >= 1
         /\ left[1][2] = 1 /\ (\A i \in 1..Len(m) : m[i].n <= ListSize) => \E n \in Out!Ends : n <= ListSize
<1> DEFINE k == Len(left)
<1>1. k \in Nat /\ k >= 1 /\ DOMAIN left = 1..k /\ 1 \in 1..k /\ k \in 1..k
  OBVIOUS
<1>2. Out!Ends = {n \in 1..k : left[n][2] = m[left[n][1]].n}
  BY <1>1 DEF Out!Ends
<1> HIDE DEF k
<1>3. k \in Out!Ends
  BY <1>1, <1>2 DEF Walks, k
<1>4. ASSUME left[1][2] = 1, \A i \in 1..Len(m) : m[i].n <= ListSize
      PROVE  \E n \in Out!Ends : n <= ListSize
  <2> DEFINE p == left[1][1]
             s == m[p].n
             Proved == {i \in Nat : i + 1 <= s => i + 1 \in 1..k /\ left[i + 1] = <<p, i + 1>>}
  <2>1. p \in 1..Len(m) /\ s \in Nat /\ s <= ListSize
    <3>1. p \in 1..Len(m)
      BY <1>1 DEF Walks, k
    <3>2. m[p] \in Parts
      BY <3>1, ElementOfSeq
    <3> QED  BY <1>4, <3>1, <3>2 DEF Parts
  <2>2. s >= 1
    <3>1. 1 < s \/ 1 = s
      BY <1>1, <1>4, Zenon DEF Walks, k
    <3> QED  BY <2>1, <3>1
  <2>3. left[1] = <<p, 1>>
    <3>1. left[1] \in Units
      BY <1>1, ElementOfSeq DEF k
    <3> QED  BY <1>4, <3>1 DEF Units
  <2> HIDE DEF p, s
  <2>4. 0 \in Proved
    BY <1>1, <2>3
  <2>5. ASSUME NEW i \in Nat, i \in Proved PROVE i + 1 \in Proved
    <3> SUFFICES ASSUME (i + 1) + 1 <= s PROVE (i + 1) + 1 \in 1..k /\ left[(i + 1) + 1] = <<p, (i + 1) + 1>>
      OBVIOUS
    <3> DEFINE j == i + 1
    <3>1. j \in 1..k /\ left[j] = <<p, j>> /\ j < s
      BY <2>1, <2>5
    <3>2. left[j][1] = p /\ left[j][2] = j
      BY <3>1
    <3>3. left[j][2] < m[left[j][1]].n
      BY <3>1, <3>2 DEF s
    <3>4. j < k /\ left[j + 1] = <<left[j][1], left[j][2] + 1>>
      BY <3>1, <3>3 DEF Walks, k
    <3>5. j + 1 \in 1..k
      BY <1>1, <3>1, <3>4
    <3> QED  BY <3>2, <3>4, <3>5
  <2>6. Nat \subseteq Proved
    <3> HIDE DEF Proved
    <3> QED  BY <2>4, <2>5, Induction
  <2>7. s - 1 \in Proved /\ (s - 1) + 1 = s
    BY <2>1, <2>2, <2>6
  <2>8. s \in 1..k /\ left[s] = <<p, s>>
    BY <2>1, <2>7
  <2>9. s \in Out!Ends
    BY <1>2, <2>8 DEF s
  <2> QED  BY <2>1, <2>9
<1> QED  BY <1>1, <1>2, <1>3, <1>4 DEF k

LEMMA ChunkLaw ==
  ASSUME SendTypes, Len(Out!Units(current.message)) \in Nat \ {0}
  PROVE  Out!Chunk \in Nat \ {0} /\ Out!Chunk <= DeviceBuffer /\ Out!Chunk <= Len(Out!Units(current.message))
<1> DEFINE n == Len(Out!Units(current.message))
           S == {DeviceBuffer, ChunkSize, n}
<1>1. S \in SUBSET Nat /\ S # {} /\ 0 \notin S
  BY SendsAssumption
<1>2. Out!Chunk = Out!Least(S)
  BY DEF Out!Chunk
<1>3. Out!Least(S) \in S /\ \A o \in S : Out!Least(S) <= o
  <2> HIDE DEF S
  <2> QED  BY <1>1, LeastLaw
<1> QED  BY <1>1, <1>2, <1>3

\* It is something, and no more than there is.
LEMMA NextWriteLaw ==
  ASSUME SendTypes, SendPlace, current.at = "sending", current.left # <<>>
  PROVE  /\ Out!NextWrite \in 1..Len(current.left)
         /\ output.chunked => Out!NextWrite <= Out!Chunk
         /\ IsOut({"coremidi_ump"}) => Out!NextWrite \in Out!Ends
<1> DEFINE left == current.left
           m == current.message
           k == Len(left)
           u == Len(Out!Units(m))
<1>1. left \in Seq(Units) /\ m \in Seq(Parts) /\ Walks(left, m) /\ k <= u
  BY DEF SendTypes, Sending, SendPlace
<1>2. Out!Units(m) \in Seq(Units)
  BY <1>1, UnitsLaws
<1>3. /\ Out!Ends \subseteq 1..k /\ k \in Out!Ends /\ k \in Nat /\ k >= 1
      /\ left[1][2] = 1 /\ (\A i \in 1..Len(m) : m[i].n <= ListSize) => \E n \in Out!Ends : n <= ListSize
  BY <1>1, EndsLaw
<1>4. u \in Nat \ {0}
  BY <1>1, <1>2, <1>3
<1>5. Out!Chunk \in Nat \ {0} /\ Out!Chunk <= u
  BY <1>4, ChunkLaw
<1> DEFINE list == {n \in Out!Ends : n <= ListSize}
           some == {Out!Chunk, k} \cup {n \in Out!Ends : Out!Kind(n) = "sysex"}
           event == Out!Least(Out!Ends)
           packet == Out!Least({PacketSize, k})
           most == Out!Most(list)
           part == Out!Least(some)
           back == output.backend
<1>6. Out!NextWrite =
        CASE back \in {"seq", "seq_ump", "winmidi"} -> event
          [] back \in {"coremidi"} -> packet
          [] back \in {"coremidi_ump"} -> most
          [] output.chunked /\ current.first -> Out!Chunk
          [] output.chunked /\ ~current.first -> part
          [] OTHER -> k
  BY DEF Out!NextWrite, Out!Is
<1>7. output.chunked \in BOOLEAN /\ (output.chunked => back = "raw")
  BY DEF SendTypes, IsOut
<1>8. event \in Out!Ends
  <2>1. Out!Ends \in SUBSET Nat /\ Out!Ends # {}
    BY <1>3
  <2> QED  BY <2>1, LeastLaw
<1>9. packet \in 1..k
  <2> DEFINE S == {PacketSize, k}
  <2>1. S \in SUBSET Nat /\ 0 \notin S /\ S # {} /\ k \in S
    BY <1>3, SendsAssumption
  <2>2. packet = Out!Least(S)
    OBVIOUS
  <2>3. Out!Least(S) \in S /\ \A o \in S : Out!Least(S) <= o
    <3> HIDE DEF S
    <3> QED  BY <2>1, LeastLaw
  <2> HIDE DEF S, packet, k
  <2>4. packet \in Nat /\ packet # 0 /\ packet <= k
    BY <2>1, <2>2, <2>3, Zenon
  <2> QED  BY <1>3, <2>4
<1>10. ASSUME back = "coremidi_ump" PROVE most \in Out!Ends
  <2>1. list # {}
    BY <1>3, <1>10 DEF SendPlace, IsOut
  <2>2. list \in SUBSET (0..k)
    <3>1. \A n \in Out!Ends : n \in 0..k
      BY <1>3
    <3> QED  BY <3>1
  <2>3. Out!Most(list) \in list
    <3> HIDE DEF list, k
    <3> QED  BY <1>3, <2>1, <2>2, MostLaw, Zenon
  <2> QED  BY <2>3
<1>11. ASSUME output.chunked, current.first PROVE k = u
  BY <1>11 DEF SendPlace
<1>12. part \in 1..k /\ part <= Out!Chunk
  <2>1. some \in SUBSET Nat
    <3>1. \A n \in Out!Ends : n \in Nat
      BY <1>3
    <3> QED  BY <1>3, <1>5, <3>1, Zenon
  <2>2. some # {} /\ 0 \notin some /\ k \in some /\ Out!Chunk \in some
    <3>1. \A n \in Out!Ends : n # 0
      BY <1>3
    <3> QED  BY <1>3, <1>5, <3>1
  <2>3. part \in some /\ \A o \in some : part <= o
    <3> HIDE DEF some
    <3> QED  BY <2>1, <2>2, LeastLaw
  <2> HIDE DEF some, part, k
  <2>4. part \in Nat /\ part # 0 /\ part <= k /\ part <= Out!Chunk
    BY <2>1, <2>2, <2>3
  <2> QED  BY <1>3, <2>4
<1>13. \A n \in Out!Ends : n \in 1..k
  BY <1>3
<1> HIDE DEF left, m, u, list, some, event, packet, most, part, back
<1>14. k = Len(current.left)
  BY DEF left
<1> HIDE DEF k
<1>15. (IsOut({"coremidi_ump"}) <=> back = "coremidi_ump")
  BY <1>7 DEF IsOut, back
<1>16. CASE back \in {"seq", "seq_ump", "winmidi"}
  <2>1. Out!NextWrite = event /\ ~output.chunked
    BY <1>6, <1>7, <1>16
  <2> QED  BY <1>8, <1>13, <1>14, <1>15, <1>16, <2>1
<1>17. CASE back = "coremidi"
  <2>1. Out!NextWrite = packet /\ ~output.chunked
    BY <1>6, <1>7, <1>17
  <2> QED  BY <1>9, <1>14, <1>15, <1>17, <2>1
<1>18. CASE back = "coremidi_ump"
  <2>1. Out!NextWrite = most /\ ~output.chunked
    BY <1>6, <1>7, <1>18
  <2> QED  BY <1>10, <1>13, <1>14, <1>15, <1>18, <2>1
<1>19. CASE output.chunked /\ current.first
  <2>1. Out!NextWrite = Out!Chunk
    BY <1>6, <1>7, <1>19
  <2>2. k = u
    BY <1>11, <1>19 DEF u, k, left
  <2> QED  BY <1>3, <1>5, <1>7, <1>14, <1>15, <1>19, <2>1, <2>2
<1>20. CASE output.chunked /\ ~current.first
  <2>1. Out!NextWrite = part
    BY <1>6, <1>7, <1>20
  <2> QED  BY <1>7, <1>12, <1>14, <1>15, <1>20, <2>1
<1>21. CASE ~output.chunked /\ back \notin {"seq", "seq_ump", "winmidi", "coremidi", "coremidi_ump"}
  <2>1. Out!NextWrite = k
    BY <1>6, <1>21
  <2> QED  BY <1>3, <1>14, <1>15, <1>21, <2>1
<1> QED  BY <1>7, <1>16, <1>17, <1>18, <1>19, <1>20, <1>21

-----------------------------------------------------------------------------
(* The log grows by what a native call takes.                                *)

LEMMA SeqMono ==
  ASSUME NEW A, NEW B, A \subseteq B, NEW s \in Seq(A)
  PROVE  s \in Seq(B)
  OBVIOUS

Grown(w, b, more, w2, b2) ==
  \/ w2 = w \o more /\ b2 = b /\ (more = <<>> \/ b = <<>>)
  \/ w2 = w /\ b2 = b \o more

LEMMA LogGrows ==
  ASSUME NEW w \in Seq(Entries), NEW b \in Seq(Entries), NEW more \in Seq(Entries), NEW n, NEW w2, NEW b2,
         OfSend(more, n), Grown(w, b, more, w2, b2)
  PROVE  \A c : Out!Handed(w2 \o b2, c) = IF c = n THEN Out!Handed(w \o b, c) \o UnitsOf(more) ELSE Out!Handed(w \o b, c)
<1> DEFINE l == w \o b
           E == Entries
<1>0. w \in Seq(E) /\ b \in Seq(E) /\ more \in Seq(E)
  OBVIOUS
<1>1. w2 \o b2 = l \o more
  <2> HIDE DEF E
  <2>1. CASE w2 = w \o more /\ b2 = b /\ more = <<>>
    <3>1. w \o more = w /\ (w \o b) \o more = w \o b
      BY <1>0, <2>1
    <3> QED  BY <2>1, <3>1
  <2>2. CASE w2 = w \o more /\ b2 = b /\ b = <<>>
    <3>1. w \o b = w /\ (w \o more) \o b = w \o more
      BY <1>0, <2>2
    <3> QED  BY <2>2, <3>1
  <2>3. CASE w2 = w /\ b2 = b \o more
    <3>1. w \o (b \o more) = (w \o b) \o more
      BY <1>0, Regroup
    <3> QED  BY <2>3, <3>1
  <2> QED  BY <2>1, <2>2, <2>3, Zenon DEF Grown
<1>2. l \in Seq(Entries)
  OBVIOUS
<1> HIDE DEF l
<1>3. ASSUME NEW c PROVE Out!Handed(l \o more, c) = IF c = n THEN Out!Handed(l, c) \o UnitsOf(more) ELSE Out!Handed(l, c)
  BY <1>2, HandedMore
<1>4. \A c : Out!Handed(w2 \o b2, c) = IF c = n THEN Out!Handed(l, c) \o UnitsOf(more) ELSE Out!Handed(l, c)
  BY <1>1, <1>3, Zenon
<1> QED  BY <1>4 DEF l

LEMMA PrefixLaw ==
  ASSUME NEW h \in Seq(Units), NEW r \in Seq(Units)
  PROVE  Out!IsPrefix(h, h \o r) /\ (r # <<>> => h # h \o r)
<1> DEFINE t == h \o r
<1>1. t \in Seq(Units) /\ Len(t) = Len(h) + Len(r) /\ Len(h) \in Nat /\ Len(r) \in Nat
  OBVIOUS
<1>2. SubSeq(t, 1, Len(h)) = SubSeq(h, 1, Len(h))
  <2>1. CASE Len(h) = 0
    BY <2>1, SubSeqEmpty
  <2>2. CASE Len(h) # 0
    <3>1. 1 \in 1..Len(h) /\ Len(h) \in 1..Len(h)
      BY <1>1, <2>2
    <3> QED  BY <3>1, SubSeqOfConcat1
  <2> QED  BY <2>1, <2>2
<1>3. r # <<>> => Len(r) # 0
  BY <1>1
<1>4. r # <<>> => h # t
  BY <1>1, <1>3
<1>5. Out!IsPrefix(h, t)
  <2> HIDE DEF t
  <2> QED  BY <1>1, <1>2 DEF Out!IsPrefix
<1> QED  BY <1>4, <1>5

\* A write adds to the log what it gave of what is left.
LEMMA WriteLogs ==
  ASSUME OutInv, SendInv, current.at = "sending", NEW k \in 1..Len(current.left),
         NEW to \in SUBSET (Destinations \cup {"virtual"}), NEW ok \in BOOLEAN, Out!Taken(to, ok),
         NEW taken, taken = [i \in 1..k |-> [send |-> Len(said) + 1, unit |-> current.left[i], to |-> to]],
         wire' = (IF IsOut({"seq"}) \/ to = {} THEN wire ELSE wire \o taken),
         buffered' = (IF IsOut({"seq"}) /\ ok THEN buffered \o taken ELSE buffered)
  PROVE  /\ wire' \in Seq(Delivered(Len(said) + 1)) /\ buffered' \in Seq(Numbered(Len(said) + 1))
         /\ ~IsOut({"seq"}) => buffered' = <<>>
         /\ \A c \in 1..Len(said) : Out!Handed(wire' \o buffered', c) = Out!Handed(Log, c)
         /\ IsOut(Tells) /\ Out!Connected =>
              Out!Handed(wire' \o buffered', Len(said) + 1) =
                IF ok THEN Out!Handed(Log, Len(said) + 1) \o Given(current.left, k) ELSE Out!Handed(Log, Len(said) + 1)
<1> DEFINE n == Len(said) + 1
           left == current.left
<1>1. /\ left \in Seq(Units) /\ wire \in Seq(Entries) /\ buffered \in Seq(Entries) /\ n \in Nat /\ n >= 1 /\ Len(said) \in Nat
      /\ k \in Nat /\ ~IsOut({"seq"}) => buffered = <<>>
  BY DEF SendInv, SendTypes, Sending
<1>2. wire \in Seq(Delivered(n)) /\ buffered \in Seq(Numbered(n))
  BY DEF SendInv, SendLogs, Turn
<1>3. \A i \in 1..k : left[i] \in Units
  BY <1>1, ElementOfSeq
<1>4. Out!Reaches \cap Destinations \subseteq {asked} \/ ~IsOut(Forgets)
  BY ClaimsAssumption, PortsAssumption DEF SendInv, SendPlace, OutInv, OutConnects, OutLeaves, OutCounts, OutAsked,
    Out!Reaches, Out!Is, Out!Seq_, Out!CoreMidi, Out!None, Out!Virtual, Out!Garbage, IsOut, OutSeq, OutRaw, OutCoreMidi
<1>5. to = {} \/ to = {"virtual"} \/ (ok /\ to = Out!Reaches)
  BY DEF Out!Taken, Out!Virtual
<1>6. IsOut(Forgets) => to \cap Destinations \subseteq {asked}
  BY <1>4, <1>5, PortsAssumption
<1>7. ASSUME NEW i \in 1..k PROVE taken[i] \in Delivered(n) /\ taken[i].send = n /\ taken[i].unit = left[i]
  <2>1. taken[i] = [send |-> n, unit |-> left[i], to |-> to]
    OBVIOUS
  <2>2. left[i] \in Units
    BY <1>3
  <2> HIDE DEF n, left
  <2>3. taken[i] \in Entries
    BY <1>1, <2>1, <2>2, Zenon DEF Entries
  <2>4. taken[i].send = n /\ taken[i].to = to /\ n \in 1..n /\ n \notin 1..Len(said)
    BY <1>1, <2>1 DEF n
  <2> QED  BY <1>6, <2>1, <2>3, <2>4 DEF Delivered, Numbered
<1>8. DOMAIN taken = 1..k /\ taken = [i \in 1..k |-> taken[i]]
  OBVIOUS
<1>9. taken \in Seq(Delivered(n)) /\ Len(taken) = k
  <2> DEFINE D == Delivered(n)
  <2>1. \A i \in 1..k : taken[i] \in D
    BY <1>7
  <2> HIDE DEF D, left, n
  <2>2. taken \in Seq(D) /\ Len(taken) = k
    BY <1>1, <1>8, <2>1
  <2> QED  BY <2>2 DEF D
<1>10. Delivered(n) \subseteq Numbered(n) /\ Numbered(n) \subseteq Entries
  BY DEF Delivered, Numbered
<1>11. taken \in Seq(Numbered(n)) /\ taken \in Seq(Entries)
  BY <1>9, <1>10, SeqMono
<1>12. OfSend(taken, n) /\ UnitsOf(taken) = Given(left, k)
  <2>1. OfSend(taken, n)
    BY <1>7, <1>9 DEF OfSend
  <2>2. UnitsOf(taken) = [i \in 1..k |-> left[i]]
    BY <1>7, <1>9 DEF UnitsOf
  <2>3. Given(left, k) = [i \in 1..k |-> left[i]]
    BY <1>1, <1>3 DEF Given
  <2> QED  BY <2>1, <2>2, <2>3
<1> HIDE DEF n, left
<1>13. wire' \in Seq(Delivered(n)) /\ buffered' \in Seq(Numbered(n))
  BY <1>2, <1>9, <1>11, ConcatProperties
<1>14. ~IsOut({"seq"}) => buffered' = <<>>
  BY <1>1
<1>15. CASE (IsOut({"seq"}) /\ ok) \/ (~IsOut({"seq"}) /\ to # {})
  <2>1. \/ wire' = wire \o taken /\ buffered' = buffered /\ (taken = <<>> \/ buffered = <<>>)
        \/ wire' = wire /\ buffered' = buffered \o taken
    <3>1. CASE IsOut({"seq"}) /\ ok
      BY <3>1, Zenon
    <3>2. CASE ~IsOut({"seq"}) /\ to # {}
      <4>1. buffered = <<>>
        BY <1>1, <3>2
      <4> QED  BY <3>2, <4>1, Zenon
    <3> QED  BY <1>15, <3>1, <3>2, Zenon
  <2>2. \A c : Out!Handed(wire' \o buffered', c) =
                 IF c = n THEN Out!Handed(wire \o buffered, c) \o UnitsOf(taken) ELSE Out!Handed(wire \o buffered, c)
    <3> DEFINE w2 == wire'
               b2 == buffered'
    <3> HIDE DEF w2, b2
    <3>1. Grown(wire, buffered, taken, w2, b2)
      BY <2>1, Zenon DEF w2, b2, Grown
    <3>2. \A c : Out!Handed(w2 \o b2, c) =
                   IF c = n THEN Out!Handed(wire \o buffered, c) \o UnitsOf(taken) ELSE Out!Handed(wire \o buffered, c)
      <4> DEFINE t == taken
                 u == UnitsOf(t)
      <4>1. wire \in Seq(Entries) /\ buffered \in Seq(Entries) /\ t \in Seq(Entries) /\ OfSend(t, n) /\ Grown(wire, buffered, t, w2, b2)
        BY <1>1, <1>11, <1>12, <3>1
      <4> HIDE DEF t
      <4>2. ASSUME NEW c PROVE Out!Handed(w2 \o b2, c) = IF c = n THEN Out!Handed(wire \o buffered, c) \o u ELSE Out!Handed(wire \o buffered, c)
        <5>1. \A x : Out!Handed(w2 \o b2, x) = IF x = n THEN Out!Handed(wire \o buffered, x) \o UnitsOf(t) ELSE Out!Handed(wire \o buffered, x)
          BY <4>1, LogGrows
        <5> QED  BY <5>1, Zenon
      <4> QED  BY <4>2, Zenon DEF t
    <3> QED  BY <3>2, Zenon DEF w2, b2
  <2>3. \A c \in 1..Len(said) : c # n
    BY <1>1 DEF n
  <2>4. IsOut(Tells) /\ Out!Connected => ok
    BY <1>15, ClaimsAssumption, PortsAssumption DEF SendInv, SendPlace, OutInv, OutConnects, OutLeaves, OutAsked, Out!Connected,
      Out!Taken, Out!Reaches, Out!Is, Out!Seq_, Out!CoreMidi, Out!None, Out!Virtual, Out!Garbage, IsOut, OutSeq, OutRaw, OutCoreMidi
  <2> QED  BY <1>12, <1>13, <1>14, <2>2, <2>3, <2>4, Zenon DEF Log, n, left
<1>16. CASE ~((IsOut({"seq"}) /\ ok) \/ (~IsOut({"seq"}) /\ to # {}))
  <2>1. wire' = wire /\ buffered' = buffered
    BY <1>16
  <2>2. IsOut(Tells) /\ Out!Connected => ~ok
    BY <1>16 DEF Out!Connected, Out!Taken, Out!Is, Out!CoreMidi, IsOut
  <2> QED  BY <1>13, <1>14, <2>1, <2>2, Zenon DEF Log, n
<1> QED  BY <1>15, <1>16, Zenon

-----------------------------------------------------------------------------
(* The steps.                                                                *)

LEMMA SendInit == Out!Init => SendInv
<1> SUFFICES ASSUME Out!Init PROVE SendInv
  OBVIOUS
<1>1. /\ current = [at |-> "idle", message |-> <<>>, left |-> <<>>, first |-> TRUE]
      /\ wire = <<>> /\ buffered = <<>> /\ said = <<>> /\ filled = 0
      /\ output.chunked \in BOOLEAN /\ (output.chunked => IsOut({"raw"}))
  BY DEF Out!Init, Out!Nothing, Out!Is, IsOut
<1>2. current \in Sending
  BY <1>1 DEF Sending
<1>3. SendTypes
  BY <1>1, <1>2, SendsAssumption DEF SendTypes
<1>4. SendPlace
  BY <1>1 DEF SendPlace
<1>5. SendLogs
  BY <1>1 DEF SendLogs
<1>6. SendRest
  BY <1>1 DEF SendRest
<1>7. SendAnswers
  BY <1>1 DEF SendAnswers
<1> QED  BY <1>3, <1>4, <1>5, <1>6, <1>7 DEF SendInv

\* A step that no send takes part in.
LEMMA SendKept ==
  ASSUME SendInv, UNCHANGED <<output, current, buffered, wire, said>>, filled' \in 0..DeviceBuffer,
         \/ current.at = "idle"
         \/ /\ UNCHANGED <<alive, port_open_, asked>>
            /\ IsOut(Tells) => UNCHANGED <<handle, virtual, destinationId, linked, m_rc>>
  PROVE  SendInv'
<1> USE DEF SendInv, IsOut
<1>1. SendTypes'
  BY DEF SendTypes
<1>2. SendPlace'
  BY DEF SendPlace, Out!Is
<1>3. SendLogs'
  <2> DEFINE t == Turn
             A == Delivered(t)
             B == (Delivered(t))'
             N == Numbered(t)
  <2>1. Turn' = t
    BY DEF Turn
  <2>2. (Numbered(t))' = N
    BY <2>1 DEF Numbered
  <2>3. A \subseteq B
    <3>1. CASE current.at = "idle"
      <4>1. t = Len(said)
        BY <3>1 DEF Turn, SendTypes
      <4> QED  BY <2>1, <4>1 DEF Delivered, Numbered
    <3>2. CASE asked' = asked
      BY <2>1, <3>2 DEF Delivered, Numbered
    <3> QED  BY <3>1, <3>2
  <2>4. wire \in Seq(A) /\ buffered \in Seq(N)
    BY DEF SendLogs
  <2> HIDE DEF A, B, N
  <2>5. wire \in Seq(B)
    BY <2>3, <2>4, SeqMono
  <2> QED  BY <2>2, <2>4, <2>5 DEF SendLogs, B, N
<1>4. SendRest'
  <2>1. CASE current.at = "idle"
    BY <2>1 DEF SendRest
  <2>2. CASE IsOut(Tells) /\ UNCHANGED <<asked, handle, virtual, destinationId, linked, m_rc>>
    <3>1. Out!Reaches' = Out!Reaches
      BY <2>2 DEF Out!Reaches, Out!Is
    <3>2. Out!Connected' <=> Out!Connected
      BY <2>2, <3>1 DEF Out!Connected
    <3> QED  BY <3>2, Zenon DEF SendRest, Log
  <2>3. CASE ~IsOut(Tells)
    BY <2>3 DEF SendRest
  <2> QED  BY <2>1, <2>2, <2>3
<1>5. SendAnswers'
  BY DEF SendAnswers, Log
<1> QED  BY <1>1, <1>2, <1>3, <1>4, <1>5

\* A send returns: what it returned is so.
LEMMA SendReturns ==
  ASSUME OutInv, SendInv, NEW m \in Seq(Parts), NEW ret \in {"ok", "error", "thrown"},
         Out!Return(m, ret), UNCHANGED <<output, asked>>, filled' \in 0..DeviceBuffer,
         wire' \in Seq(Delivered(Len(said) + 1)), buffered' \in Seq(Numbered(Len(said) + 1)),
         ~IsOut({"seq"}) => buffered' = <<>>,
         \A c \in 1..Len(said) : Out!Handed(wire' \o buffered', c) = Out!Handed(Log, c),
         NEW a, a = [message |-> m, to |-> asked, ret |-> ret, connected |-> Out!Connected],
         IsOut(Tells) /\ Out!Connected => Honest(a, Out!Handed(wire' \o buffered', Len(said) + 1))
  PROVE  SendInv'
<1> DEFINE n == Len(said) + 1
<1>1. /\ current' = [at |-> "idle", message |-> <<>>, left |-> <<>>, first |-> TRUE]
      /\ said' = Append(said, a)
  BY DEF Out!Return, Out!Nothing
<1>2. said \in Seq(Answers) /\ a \in Answers
  <2>1. Out!Connected \in BOOLEAN
    BY DEF Out!Connected
  <2>2. asked \in Destinations \cup {"virtual", "none"}
    BY DEF OutInv, OutAsked
  <2>3. a \in Answers
    BY <2>1, <2>2 DEF Answers
  <2> QED  BY <2>3 DEF SendInv, SendTypes
<1>3. /\ said' \in Seq(Answers) /\ Len(said') = n /\ n \in Nat /\ n >= 1 /\ said'[n] = a
      /\ \A c \in 1..Len(said) : said'[c] = said[c]
      /\ \A c \in 1..n : c = n \/ c \in 1..Len(said)
  BY <1>1, <1>2
<1>4. Turn' = n
  BY <1>1, <1>3 DEF Turn
<1>5. Delivered(n) \subseteq Numbered(n) /\ Numbered(n) \subseteq Entries
  BY DEF Delivered, Numbered
<1>6. wire' \in Seq(Entries) /\ buffered' \in Seq(Entries)
  BY <1>5, SeqMono
<1>7. SendTypes'
  <2>1. current' \in Sending
    BY <1>1 DEF Sending
  <2> QED  BY <1>3, <1>6, <2>1 DEF SendInv, SendTypes, IsOut
<1>8. SendPlace'
  BY <1>1 DEF SendPlace
<1>9. SendRest'
  BY <1>1 DEF SendRest
<1>10. SendLogs'
  <2> DEFINE A == Delivered(n)
             B == (Delivered(Turn))'
             N == Numbered(n)
  <2>1. (Numbered(Turn))' = N
    BY <1>4 DEF Numbered
  <2>2. A \subseteq B
    <3> SUFFICES ASSUME NEW e \in Numbered(n),
                        IsOut(Forgets) => e.to \cap Destinations \subseteq {IF e.send \in 1..Len(said) THEN said[e.send].to ELSE asked}
                 PROVE  e \in (Delivered(Turn))'
      BY DEF Delivered
    <3>1. e \in Entries /\ e.send \in 1..n
      BY DEF Numbered
    <3>2. said'[e.send].to = IF e.send \in 1..Len(said) THEN said[e.send].to ELSE asked
      <4>1. a.to = asked
        OBVIOUS
      <4> QED  BY <1>3, <3>1, <4>1
    <3>3. e \in (Numbered(Turn))'
      BY <2>1
    <3> QED  BY <1>3, <3>1, <3>2, <3>3, Zenon DEF Delivered, IsOut
  <2>3. wire' \in Seq(A) /\ buffered' \in Seq(N)
    OBVIOUS
  <2> HIDE DEF A, B, N
  <2>4. wire' \in Seq(B)
    BY <2>2, <2>3, SeqMono
  <2> QED  BY <2>1, <2>3, <2>4 DEF SendLogs, B, N
<1>11. SendAnswers'
  <2> SUFFICES ASSUME IsOut(Tells), NEW c \in 1..n, said'[c].connected
               PROVE  Honest(said'[c], Out!Handed(wire' \o buffered', c))
    BY <1>3 DEF SendAnswers, Log, IsOut
  <2>1. CASE c = n
    <3>1. a.connected <=> Out!Connected
      OBVIOUS
    <3> QED  BY <1>3, <2>1, <3>1
  <2>2. CASE c \in 1..Len(said)
    <3>1. said[c].connected /\ Honest(said[c], Out!Handed(Log, c))
      BY <1>3, <2>2 DEF SendInv, SendAnswers
    <3> QED  BY <1>3, <2>2, <3>1
  <2> QED  BY <1>3, <2>1, <2>2
<1> QED  BY <1>7, <1>8, <1>9, <1>10, <1>11 DEF SendInv

\* What there is to say of a send that has not returned.
LEMMA LogsSoFar ==
  ASSUME SendInv
  PROVE  /\ wire \in Seq(Delivered(Len(said) + 1)) /\ buffered \in Seq(Numbered(Len(said) + 1)) /\ Log \in Seq(Entries)
         /\ current.at = "idle" => Out!Handed(Log, Len(said) + 1) = <<>>
         /\ Len(said) \in Nat
<1> DEFINE n == Len(said) + 1
<1>0. Len(said) \in Nat /\ wire \in Seq(Entries) /\ buffered \in Seq(Entries) /\ (Turn = Len(said) \/ Turn = n)
  BY DEF SendInv, SendTypes, Turn
<1>1. Delivered(Turn) \subseteq Delivered(n) /\ Numbered(Turn) \subseteq Numbered(n)
  BY <1>0 DEF Delivered, Numbered
<1>2. wire \in Seq(Delivered(Turn)) /\ buffered \in Seq(Numbered(Turn))
  BY DEF SendInv, SendLogs
<1>3. wire \in Seq(Delivered(n)) /\ buffered \in Seq(Numbered(n))
  BY <1>1, <1>2, SeqMono
<1>4. Log \in Seq(Entries)
  BY <1>0, ConcatProperties DEF Log
<1>5. ASSUME current.at = "idle" PROVE Out!Handed(Log, n) = <<>>
  <2> DEFINE N == Numbered(Turn)
  <2>1. wire \in Seq(N) /\ buffered \in Seq(N)
    <3>1. Delivered(Turn) \subseteq N
      BY DEF Delivered
    <3> QED  BY <1>2, <3>1, SeqMono
  <2>2. \A e \in N : e.send # n
    BY <1>0, <1>5 DEF Numbered, Turn
  <2> HIDE DEF N
  <2>3. Log \in Seq(N)
    BY <2>1, ConcatProperties DEF Log
  <2>4. \A i \in 1..Len(Log) : Log[i] \in N
    BY <2>3, ElementOfSeq
  <2>5. \A i \in 1..Len(Log) : Log[i].send # n
    BY <2>2, <2>4
  <2> QED  BY <1>4, <2>5, HandedNothing
<1> QED  BY <1>0, <1>3, <1>4, <1>5

LEMMA NothingYet ==
  ASSUME SendInv, current.at = "idle", NEW m \in Seq(Parts), NEW a, a.message = m, a.ret # "ok"
  PROVE  Honest(a, Out!Handed(Log, Len(said) + 1))
<1> DEFINE all == Out!Units(m)
<1>1. all \in Seq(Units) /\ <<>> \in Seq(Units) /\ Out!Handed(Log, Len(said) + 1) = <<>>
  BY UnitsLaws, LogsSoFar
<1> HIDE DEF all
<1>2. <<>> \o all = all
  BY <1>1
<1>3. Out!IsPrefix(<<>>, all)
  BY <1>1, <1>2, PrefixLaw, Zenon
<1> QED  BY <1>1, <1>3 DEF Honest, all

LEMMA SomeYet ==
  ASSUME SendInv, current.at # "idle", IsOut(Tells), Out!Connected, NEW a, a.message = current.message
  PROVE  /\ current.left # <<>> /\ a.ret # "ok" => Honest(a, Out!Handed(Log, Len(said) + 1))
         /\ current.left = <<>> /\ a.ret = "ok" => Honest(a, Out!Handed(Log, Len(said) + 1))
<1> DEFINE h == Out!Handed(Log, Len(said) + 1)
           left == current.left
           all == Out!Units(current.message)
<1>1. h \in Seq(Units) /\ left \in Seq(Units) /\ all = h \o left
  <2>1. Log \in Seq(Entries)
    BY LogsSoFar
  <2>2. h \in Seq(Units)
    BY <2>1, HandedLaws, Zenon
  <2> QED  BY <2>2, Zenon DEF SendInv, SendRest, SendTypes, Sending
<1> HIDE DEF h, left, all
<1>2. Out!IsPrefix(h, h \o left) /\ (left # <<>> => h # h \o left)
  BY <1>1, PrefixLaw
<1>3. left = <<>> => h = h \o left
  BY <1>1
<1>4. Out!IsPrefix(h, all) /\ (left # <<>> => h # all) /\ (left = <<>> => h = all)
  BY <1>1, <1>2, <1>3
<1> QED  BY <1>4 DEF Honest, h, left, all

LEMMA ReturnsAsIs ==
  ASSUME OutInv, SendInv, NEW m \in Seq(Parts), NEW ret \in {"ok", "error", "thrown"},
         Out!Return(m, ret), UNCHANGED <<output, asked, wire, buffered, filled>>,
         NEW a, a = [message |-> m, to |-> asked, ret |-> ret, connected |-> Out!Connected],
         IsOut(Tells) /\ Out!Connected => Honest(a, Out!Handed(Log, Len(said) + 1))
  PROVE  SendInv'
<1> DEFINE n == Len(said) + 1
<1>1. wire \in Seq(Delivered(n)) /\ buffered \in Seq(Numbered(n))
  BY LogsSoFar
<1>2. wire' \in Seq(Delivered(n)) /\ buffered' \in Seq(Numbered(n)) /\ wire' \o buffered' = Log
  BY <1>1 DEF Log
<1>3. (~IsOut({"seq"}) => buffered' = <<>>) /\ filled' \in 0..DeviceBuffer
  BY DEF SendInv, SendTypes
<1>4. \A c \in 1..Len(said) : Out!Handed(wire' \o buffered', c) = Out!Handed(Log, c)
  BY <1>2
<1>5. IsOut(Tells) /\ Out!Connected => Honest(a, Out!Handed(wire' \o buffered', n))
  BY <1>2
<1> QED  BY <1>2, <1>3, <1>4, <1>5, SendReturns

\* A message is of events, or of packets that fit a list.
LEMMA MessageTypes ==
  ASSUME NEW m \in Messages[IF Out!Is(Out!Ump) THEN "ump" ELSE "midi1"]
  PROVE  m \in Seq(Parts) /\ (IsOut({"coremidi_ump"}) => \A i \in 1..Len(m) : m[i].n <= ListSize)
<1> DEFINE Packets == [kind : STRING, n : 0..ListSize]
<1>1. Packets \subseteq Parts /\ \A p \in Packets : p.n <= ListSize
  BY SendsAssumption DEF Parts
<1>2. CASE Out!Is(Out!Ump)
  <2>1. m \in Seq(Packets)
    BY <1>2, SendsAssumption, Zenon
  <2> HIDE DEF Packets
  <2>2. \A i \in 1..Len(m) : m[i] \in Packets
    BY <2>1, ElementOfSeq
  <2>3. m \in Seq(Parts)
    BY <1>1, <2>1, SeqMono
  <2> QED  BY <1>1, <2>2, <2>3
<1>3. CASE ~Out!Is(Out!Ump)
  <2>1. m \in Seq(Parts)
    BY <1>3, SendsAssumption DEF Parts
  <2> QED  BY <1>3, <2>1 DEF Out!Is, Out!Ump, IsOut
<1> QED  BY <1>2, <1>3

LEMMA SendStarts ==
  ASSUME OutInv, SendInv, NEW m \in Messages[IF Out!Is(Out!Ump) THEN "ump" ELSE "midi1"], Out!Send(m)
  PROVE  SendInv'
<1>1. m \in Seq(Parts) /\ (IsOut({"coremidi_ump"}) => \A i \in 1..Len(m) : m[i].n <= ListSize)
  BY MessageTypes
<1>2. /\ alive /\ port_open_ /\ current.at = "idle"
      /\ UNCHANGED <<output, alive, client, client_open_, port_open_, asked, handle, virtual, destinationId, linked,
                     requests, m_rc, others, abused, buffered, wire, filled, tries>>
  BY DEF Out!Send, Out!Idle, Out!object, Out!native, Out!service
<1> DEFINE Answer(ret) == [message |-> m, to |-> asked, ret |-> ret, connected |-> Out!Connected]
<1>3. ASSUME NEW ret \in {"error", "thrown"}, Out!Return(m, ret) PROVE SendInv'
  <2> DEFINE a == Answer(ret)
  <2>1. a.message = m /\ a.ret # "ok"
    OBVIOUS
  <2>2. Honest(a, Out!Handed(Log, Len(said) + 1))
    <3> HIDE DEF a
    <3> QED  BY <1>1, <1>2, <2>1, NothingYet
  <2>3. a = [message |-> m, to |-> asked, ret |-> ret, connected |-> Out!Connected]
    OBVIOUS
  <2> HIDE DEF a
  <2> QED  BY <1>1, <1>2, <1>3, <2>2, <2>3, ReturnsAsIs
<1>4. ASSUME IsOut({"android"}), Out!Return(m, "ok") PROVE SendInv'
  <2> DEFINE a == Answer("ok")
  <2>1. ~IsOut(Tells)
    BY <1>4, ClaimsAssumption DEF IsOut
  <2>2. a = [message |-> m, to |-> asked, ret |-> "ok", connected |-> Out!Connected]
    OBVIOUS
  <2> HIDE DEF a
  <2> QED  BY <1>1, <1>2, <1>4, <2>1, <2>2, ReturnsAsIs
<1>5. ASSUME current' = [at |-> "sending", message |-> m, left |-> Out!Units(m), first |-> TRUE], said' = said PROVE SendInv'
  <2> DEFINE all == Out!Units(m)
  <2>1. all \in Seq(Units) /\ Walks(all, m) /\ (all # <<>> => all[1][2] = 1)
    BY <1>1, UnitsLaws
  <2> HIDE DEF all
  <2>2. /\ current'.at = "sending" /\ current'.message = m /\ current'.left = all /\ current' \in Sending
    BY <1>1, <1>5, <2>1 DEF Sending, all
  <2>3. SendTypes'
    BY <1>2, <1>5, <2>2 DEF SendInv, SendTypes, IsOut
  <2>4. SendPlace'
    BY <1>1, <1>2, <2>1, <2>2 DEF SendPlace, IsOut, all
  <2>5. SendLogs'
    <3>1. wire \in Seq(Delivered(Len(said) + 1)) /\ buffered \in Seq(Numbered(Len(said) + 1))
      BY LogsSoFar
    <3>2. Turn' = Len(said) + 1
      BY <1>5, <2>2 DEF Turn
    <3>3. (Delivered(Turn))' = Delivered(Len(said) + 1) /\ (Numbered(Turn))' = Numbered(Len(said) + 1)
      BY <1>2, <1>5, <3>2 DEF Delivered, Numbered, IsOut
    <3> QED  BY <1>2, <3>1, <3>3 DEF SendLogs
  <2>6. SendRest'
    <3>1. Out!Handed(Log, Len(said) + 1) = <<>>
      BY <1>2, LogsSoFar
    <3>2. <<>> \o all = all
      BY <2>1
    <3>3. (Out!Handed(Log, Len(said) + 1))' = <<>>
      BY <1>2, <1>5, <3>1 DEF Log
    <3> QED  BY <2>2, <3>2, <3>3, Zenon DEF SendRest, all
  <2>7. SendAnswers'
    BY <1>2, <1>5 DEF SendInv, SendAnswers, Log, IsOut
  <2> QED  BY <2>3, <2>4, <2>5, <2>6, <2>7 DEF SendInv
<1> QED
  BY <1>3, <1>4, <1>5 DEF Out!Send, Out!Is, IsOut

\* What is returned while something is left is no "ok", of what tells.
LEMMA SendFails ==
  ASSUME OutInv, SendInv, current.at # "idle", current.left # <<>>, UNCHANGED <<output, asked, wire, buffered, filled>>,
         Out!Return(current.message, "error")
  PROVE  SendInv'
<1> DEFINE a == [message |-> current.message, to |-> asked, ret |-> "error", connected |-> Out!Connected]
<1>1. a.message = current.message /\ a.ret # "ok"
  OBVIOUS
<1>2. current.message \in Seq(Parts)
  BY DEF SendInv, SendTypes, Sending
<1>3. a = [message |-> current.message, to |-> asked, ret |-> "error", connected |-> Out!Connected]
  OBVIOUS
<1> HIDE DEF a
<1>4. IsOut(Tells) /\ Out!Connected => Honest(a, Out!Handed(Log, Len(said) + 1))
  BY <1>1, SomeYet
<1> QED  BY <1>2, <1>3, <1>4, ReturnsAsIs

\* What is left in the buffer of the sequencer goes, or stays for the next time.
LEMMA DrainLogs ==
  ASSUME OutInv, SendInv, current.at = "sending",
         \/ UNCHANGED <<wire, buffered>>
         \/ /\ IsOut({"seq"}) /\ buffered' = <<>>
            /\ wire' = wire \o [i \in DOMAIN buffered |-> [buffered[i] EXCEPT !.to = Out!Reaches]]
  PROVE  /\ wire' \in Seq(Delivered(Len(said) + 1)) /\ buffered' \in Seq(Numbered(Len(said) + 1))
         /\ ~IsOut({"seq"}) => buffered' = <<>>
         /\ \A c : Out!Handed(wire' \o buffered', c) = Out!Handed(Log, c)
<1> DEFINE n == Len(said) + 1
           D == Delivered(n)
           N == Numbered(n)
<1>1. /\ wire \in Seq(D) /\ buffered \in Seq(N) /\ wire \in Seq(Entries) /\ buffered \in Seq(Entries)
      /\ ~IsOut({"seq"}) => buffered = <<>>
  BY LogsSoFar DEF SendInv, SendTypes
<1>2. CASE UNCHANGED <<wire, buffered>>
  BY <1>1, <1>2 DEF Log
<1>3. CASE /\ IsOut({"seq"}) /\ buffered' = <<>>
           /\ wire' = wire \o [i \in DOMAIN buffered |-> [buffered[i] EXCEPT !.to = Out!Reaches]]
  <2> DEFINE k == Len(buffered)
             d == [i \in 1..k |-> [buffered[i] EXCEPT !.to = Out!Reaches]]
  <2>1. Out!Reaches \subseteq Destinations \cup {"virtual"}
    BY <1>3 DEF SendInv, SendPlace, OutInv, OutConnects, Out!Reaches, Out!Is, Out!Seq_, Out!CoreMidi, Out!None, Out!Virtual,
      IsOut, OutSeq, OutCoreMidi
  <2>2. D = N
    BY <1>3, ClaimsAssumption DEF Delivered, IsOut
  <2>3. k \in Nat /\ DOMAIN buffered = 1..k
    BY <1>1
  <2>4. ASSUME NEW i \in 1..k
        PROVE  d[i] \in D /\ d[i] \in Entries /\ d[i].send = buffered[i].send /\ d[i].unit = buffered[i].unit
    <3>1. buffered[i] \in N
      BY <1>1, ElementOfSeq
    <3>2. buffered[i] \in Entries /\ buffered[i].send \in 1..n
      BY <3>1 DEF Numbered
    <3>3. d[i] = [buffered[i] EXCEPT !.to = Out!Reaches]
      OBVIOUS
    <3> DEFINE b == buffered[i]
               e == d[i]
    <3>4. b \in Entries /\ e = [b EXCEPT !.to = Out!Reaches]
      BY <3>2, <3>3
    <3> HIDE DEF b, e, d
    <3>5. e \in Entries /\ e.send = b.send /\ e.unit = b.unit
      BY <2>1, <3>4 DEF Entries
    <3>6. e \in N
      BY <3>2, <3>5 DEF Numbered, b
    <3> QED  BY <2>2, <3>5, <3>6 DEF b, e
  <2>5. DOMAIN d = 1..k
    OBVIOUS
  <2>6. wire' = wire \o d /\ buffered' = <<>>
    BY <1>3, <2>3
  <2>7. d = [i \in 1..k |-> d[i]]
    OBVIOUS
  <2> HIDE DEF d, k, D
  <2>8. d \in Seq(D) /\ d \in Seq(Entries) /\ Len(d) = k
    BY <2>3, <2>4, <2>7
  <2>9. wire' \in Seq(D) /\ buffered' \in Seq(N)
    BY <1>1, <2>6, <2>8, ConcatProperties
  <2>10. \A c : Out!Handed(wire' \o buffered', c) = Out!Handed(Log, c)
    <3> DEFINE x == wire \o d
               y == wire \o buffered
    <3>1. x \in Seq(Entries) /\ y \in Seq(Entries) /\ Len(x) = Len(y) /\ Len(x) = Len(wire) + k
          /\ \A i \in 1..(Len(wire) + k) :
               /\ x[i] = IF i <= Len(wire) THEN wire[i] ELSE d[i - Len(wire)]
               /\ y[i] = IF i <= Len(wire) THEN wire[i] ELSE buffered[i - Len(wire)]
      <4>1. /\ x \in Seq(Entries) /\ Len(x) = Len(wire) + k
            /\ \A i \in 1..(Len(wire) + k) : x[i] = IF i <= Len(wire) THEN wire[i] ELSE d[i - Len(wire)]
        BY <1>1, <2>8, ConcatProperties, Zenon
      <4>2. /\ y \in Seq(Entries) /\ Len(y) = Len(wire) + k
            /\ \A i \in 1..(Len(wire) + k) : y[i] = IF i <= Len(wire) THEN wire[i] ELSE buffered[i - Len(wire)]
        BY <1>1, ConcatProperties DEF k
      <4> QED  BY <4>1, <4>2
    <3>2. \A i \in 1..(Len(wire) + k) : ~(i <= Len(wire)) => i - Len(wire) \in 1..k
      BY <1>1, <2>3
    <3>3. x \o <<>> = x
      BY <3>1
    <3>4. wire' \o buffered' = x /\ Log = y
      BY <2>6, <3>3 DEF Log
    <3> HIDE DEF x, y
    <3>5. \A i \in 1..Len(x) : x[i].send = y[i].send /\ x[i].unit = y[i].unit
      BY <2>4, <3>1, <3>2, Zenon
    <3>6. ASSUME NEW c PROVE Out!Handed(x, c) = Out!Handed(y, c)
      BY <3>1, <3>5, HandedAlike, Zenon
    <3> QED  BY <3>4, <3>6
  <2> QED  BY <1>3, <2>9, <2>10 DEF D
<1> QED  BY <1>2, <1>3, Zenon

LEMMA SendEnds ==
  ASSUME OutInv, SendInv, Out!Finish
  PROVE  SendInv'
<1> DEFINE n == Len(said) + 1
           m == current.message
           a == [message |-> m, to |-> asked, ret |-> "ok", connected |-> Out!Connected]
<1>1. /\ current.at = "sending" /\ current.left = <<>>
      /\ UNCHANGED <<output, alive, port_open_, asked, handle, virtual, destinationId, linked, m_rc, filled>>
      /\ \/ UNCHANGED <<wire, buffered>>
         \/ /\ IsOut({"seq"}) /\ buffered' = <<>>
            /\ wire' = wire \o [i \in DOMAIN buffered |-> [buffered[i] EXCEPT !.to = Out!Reaches]]
  BY Zenon DEF Out!Finish, Out!object, Out!native, Out!service, Out!Is, IsOut
<1>2. /\ wire' \in Seq(Delivered(n)) /\ buffered' \in Seq(Numbered(n))
      /\ ~IsOut({"seq"}) => buffered' = <<>>
      /\ \A c : Out!Handed(wire' \o buffered', c) = Out!Handed(Log, c)
  BY <1>1, DrainLogs, Zenon
<1>3. m \in Seq(Parts) /\ filled' \in 0..DeviceBuffer /\ current \in Sending
  BY <1>1 DEF SendInv, SendTypes, Sending
<1>4. CASE Out!Return(m, "ok")
  <2>1. a.message = m /\ a.ret = "ok"
    OBVIOUS
  <2>2. a = [message |-> m, to |-> asked, ret |-> "ok", connected |-> Out!Connected]
    OBVIOUS
  <2> HIDE DEF a
  <2>3. IsOut(Tells) /\ Out!Connected => Honest(a, Out!Handed(Log, n))
    BY <1>1, <2>1, SomeYet
  <2>4. IsOut(Tells) /\ Out!Connected => Honest(a, Out!Handed(wire' \o buffered', n))
    BY <1>2, <2>3
  <2>5. \A c \in 1..Len(said) : Out!Handed(wire' \o buffered', c) = Out!Handed(Log, c)
    BY <1>2
  <2> HIDE DEF m
  <2> QED  BY <1>1, <1>2, <1>3, <1>4, <2>2, <2>4, <2>5, SendReturns
<1>5. CASE current' = [current EXCEPT !.at = "playing"] /\ said' = said
  <2>1. /\ current'.at = "playing" /\ current'.message = m /\ current'.left = <<>> /\ current' \in Sending
    BY <1>1, <1>3, <1>5 DEF Sending
  <2>2. Delivered(n) \subseteq Numbered(n) /\ Numbered(n) \subseteq Entries
    BY DEF Delivered, Numbered
  <2>3. wire' \in Seq(Entries) /\ buffered' \in Seq(Entries)
    BY <1>2, <2>2, SeqMono
  <2>4. SendTypes'
    BY <1>1, <1>2, <1>3, <1>5, <2>1, <2>3 DEF SendInv, SendTypes, IsOut
  <2>5. SendPlace'
    BY <1>1, <2>1 DEF SendInv, SendPlace
  <2>6. Turn' = n
    BY <1>5, <2>1 DEF Turn
  <2>7. (Delivered(Turn))' = Delivered(n) /\ (Numbered(Turn))' = Numbered(n)
    BY <1>1, <1>5, <2>6 DEF Delivered, Numbered, IsOut
  <2>8. SendLogs'
    BY <1>2, <2>7 DEF SendLogs
  <2>9. SendRest'
    <3>1. Out!Reaches' = Out!Reaches
      BY <1>1 DEF Out!Reaches, Out!Is
    <3>2. Out!Connected' <=> Out!Connected
      BY <1>1, <3>1 DEF Out!Connected
    <3>3. (Out!Handed(Log, Len(said) + 1))' = Out!Handed(Log, n)
      BY <1>2, <1>5 DEF Log
    <3> QED  BY <1>1, <2>1, <3>2, <3>3 DEF SendInv, SendRest, IsOut
  <2>10. SendAnswers'
    BY <1>1, <1>2, <1>5 DEF SendInv, SendAnswers, Log, IsOut
  <2> QED  BY <2>4, <2>5, <2>8, <2>9, <2>10 DEF SendInv
<1> QED  BY <1>4, <1>5 DEF Out!Finish

LEMMA SendPlayed ==
  ASSUME OutInv, SendInv, Out!Played
  PROVE  SendInv'
<1> DEFINE m == current.message
           a == [message |-> m, to |-> asked, ret |-> "ok", connected |-> Out!Connected]
<1>1. /\ current.at = "playing" /\ Out!Return(m, "ok") /\ UNCHANGED <<output, asked, wire, buffered, filled>>
  BY DEF Out!Played, Out!object
<1>2. current.left = <<>> /\ m \in Seq(Parts)
  BY <1>1 DEF SendInv, SendPlace, SendTypes, Sending
<1>3. a.message = m /\ a.ret = "ok"
  OBVIOUS
<1>4. a = [message |-> m, to |-> asked, ret |-> "ok", connected |-> Out!Connected]
  OBVIOUS
<1> HIDE DEF a
<1>5. IsOut(Tells) /\ Out!Connected => Honest(a, Out!Handed(Log, Len(said) + 1))
  BY <1>1, <1>2, <1>3, SomeYet
<1> HIDE DEF m
<1> QED  BY <1>1, <1>2, <1>4, <1>5, ReturnsAsIs

LEMMA UnitsRegroup ==
  \A h, g, r \in Seq(Units) : h \o (g \o r) = (h \o g) \o r
<1> DEFINE S == Units
<1> HIDE DEF S
<1>1. ASSUME NEW h \in Seq(S), NEW g \in Seq(S), NEW r \in Seq(S) PROVE h \o (g \o r) = (h \o g) \o r
  BY Regroup
<1> QED  BY <1>1, Zenon DEF S

\* A turn of the loop: what it gave, or what was refused, is no longer left.
LEMMA SendGoesOn ==
  ASSUME OutInv, SendInv, current.at = "sending", NEW k \in 1..Len(current.left),
         IsOut({"coremidi_ump"}) => k \in Out!Ends,
         UNCHANGED <<output, alive, port_open_, asked, handle, virtual, destinationId, linked, m_rc, said>>,
         filled' \in 0..DeviceBuffer,
         current'.at = "sending", current'.message = current.message, current'.left = After(current.left, k), current' \in Sending,
         output.chunked => ~current'.first,
         wire' \in Seq(Delivered(Len(said) + 1)), buffered' \in Seq(Numbered(Len(said) + 1)),
         ~IsOut({"seq"}) => buffered' = <<>>,
         \A c \in 1..Len(said) : Out!Handed(wire' \o buffered', c) = Out!Handed(Log, c),
         IsOut(Tells) /\ Out!Connected =>
           Out!Handed(wire' \o buffered', Len(said) + 1) = Out!Handed(Log, Len(said) + 1) \o Given(current.left, k)
  PROVE  SendInv'
<1> DEFINE n == Len(said) + 1
           left == current.left
           m == current.message
           r == After(left, k)
           g == Given(left, k)
<1>1. left \in Seq(Units) /\ Walks(left, m) /\ Len(left) <= Len(Out!Units(m)) /\ m \in Seq(Parts)
  BY DEF SendInv, SendTypes, SendPlace, Sending
<1>2. /\ r \in Seq(Units) /\ Len(r) = Len(left) - k /\ Walks(r, m)
      /\ left[k][2] = m[left[k][1]].n /\ r # <<>> => r[1][2] = 1
      /\ g \in Seq(Units) /\ left = g \o r
  BY <1>1, WalksRest, Zenon
<1>3. Delivered(n) \subseteq Numbered(n) /\ Numbered(n) \subseteq Entries
  BY DEF Delivered, Numbered
<1>4. wire' \in Seq(Entries) /\ buffered' \in Seq(Entries)
  BY <1>3, SeqMono
<1>5. SendTypes'
  BY <1>4 DEF SendInv, SendTypes, IsOut
<1>6. SendPlace'
  <2>1. IsOut({"coremidi_ump"}) => left[k][2] = m[left[k][1]].n
    <3>1. \A j \in Out!Ends : left[j][2] = m[left[j][1]].n
      BY DEF Out!Ends
    <3> HIDE DEF left, m
    <3> QED  BY <3>1
  <2>2. Len(Out!Units(m)) \in Nat
    BY <1>1, UnitsLaws
  <2>3. Len(r) <= Len(Out!Units(m))
    BY <1>1, <1>2, <2>2
  <2>4. IsOut({"coremidi_ump"}) => \A i \in 1..Len(m) : m[i].n <= ListSize
    BY DEF SendInv, SendPlace
  <2>5. alive' /\ port_open_'
    BY DEF SendInv, SendPlace
  <2>6. current'.left = r /\ current'.message = m
    OBVIOUS
  <2> HIDE DEF r, m, left
  <2> QED  BY <1>2, <2>1, <2>3, <2>4, <2>5, <2>6, Zenon DEF SendPlace, IsOut
<1>7. Turn' = n
  BY DEF Turn
<1>8. (Delivered(Turn))' = Delivered(n) /\ (Numbered(Turn))' = Numbered(n)
  BY <1>7 DEF Delivered, Numbered, IsOut
<1>9. SendLogs'
  BY <1>8 DEF SendLogs
<1>10. SendRest'
  <2>1. Out!Reaches' = Out!Reaches
    BY DEF Out!Reaches, Out!Is
  <2>2. Out!Connected' <=> Out!Connected
    BY <2>1 DEF Out!Connected
  <2> SUFFICES ASSUME IsOut(Tells), Out!Connected
               PROVE  Out!Units(m) = Out!Handed(wire' \o buffered', n) \o r
    BY <2>2 DEF SendRest, Log, IsOut
  <2> DEFINE h == Out!Handed(Log, n)
  <2>3. h \in Seq(Units)
    <3>1. Log \in Seq(Entries)
      BY LogsSoFar
    <3> QED  BY <3>1, HandedLaws, Zenon
  <2>4. Out!Units(m) = h \o left
    BY Zenon DEF SendInv, SendRest
  <2>5. Out!Handed(wire' \o buffered', n) = h \o g
    OBVIOUS
  <2>6. g \in Seq(Units) /\ r \in Seq(Units) /\ left = g \o r
    BY <1>2, Zenon
  <2> HIDE DEF h, g, r, left
  <2>7. h \o (g \o r) = (h \o g) \o r
    BY <2>3, <2>6, UnitsRegroup, Zenon
  <2> QED  BY <2>4, <2>5, <2>6, <2>7, Zenon
<1>11. SendAnswers'
  BY DEF SendInv, SendAnswers, Log, IsOut
<1> QED  BY <1>5, <1>6, <1>9, <1>10, <1>11 DEF SendInv

LEMMA SendWrites ==
  ASSUME OutInv, SendInv, Out!Write
  PROVE  SendInv'
<1> DEFINE k == Out!NextWrite
           left == current.left
           m == current.message
           n == Len(said) + 1
           Taken(to) == [i \in 1..k |-> [send |-> n, unit |-> left[i], to |-> to]]
<1>1. /\ current.at = "sending" /\ left # <<>>
      /\ output.chunked /\ ~current.first => filled + Out!Chunk <= DeviceBuffer
      /\ UNCHANGED <<output, alive, port_open_, asked, handle, virtual, destinationId, linked, m_rc>>
  BY DEF Out!Write, Out!Room, Out!object, Out!native, Out!service
<1>2. PICK to \in SUBSET (Destinations \cup {"virtual"}), ok \in BOOLEAN :
        /\ Out!Taken(to, ok)
        /\ IF ok THEN current' = [current EXCEPT !.left = SubSeq(@, k + 1, Len(@)), !.first = FALSE] /\ UNCHANGED said
                 ELSE Out!Failed(k)
        /\ wire' = IF IsOut({"seq"}) \/ to = {} THEN wire ELSE wire \o Taken(to)
        /\ buffered' = IF IsOut({"seq"}) /\ ok THEN buffered \o Taken(to) ELSE buffered
        /\ filled' = IF ~output.chunked \/ ~ok THEN filled
                     ELSE IF current.first THEN Out!Least({DeviceBuffer, filled + k}) ELSE filled + k
  BY Zenon DEF Out!Write, Out!Is, IsOut, Out!Virtual
<1>3. /\ k \in 1..Len(left) /\ (output.chunked => k <= Out!Chunk) /\ (IsOut({"coremidi_ump"}) => k \in Out!Ends)
  BY <1>1, NextWriteLaw DEF SendInv
<1>4. current \in Sending /\ m \in Seq(Parts) /\ left \in Seq(Units) /\ filled \in 0..DeviceBuffer /\ output.chunked \in BOOLEAN
  BY DEF SendInv, SendTypes, Sending
<1>5. Len(left) \in Nat /\ k \in Nat
  BY <1>3, <1>4
<1> HIDE DEF k, left, m
<1> DEFINE taken == Taken(to)
<1>6. taken = [i \in 1..k |-> [send |-> Len(said) + 1, unit |-> current.left[i], to |-> to]]
  BY DEF left
<1> HIDE DEF taken
<1>7. /\ wire' = (IF IsOut({"seq"}) \/ to = {} THEN wire ELSE wire \o taken)
      /\ buffered' = (IF IsOut({"seq"}) /\ ok THEN buffered \o taken ELSE buffered)
  BY <1>2 DEF taken
<1>8. /\ wire' \in Seq(Delivered(n)) /\ buffered' \in Seq(Numbered(n))
      /\ ~IsOut({"seq"}) => buffered' = <<>>
      /\ \A c \in 1..Len(said) : Out!Handed(wire' \o buffered', c) = Out!Handed(Log, c)
      /\ IsOut(Tells) /\ Out!Connected =>
           Out!Handed(wire' \o buffered', n) =
             IF ok THEN Out!Handed(Log, n) \o Given(left, k) ELSE Out!Handed(Log, n)
  <2>1. k \in 1..Len(current.left) /\ Out!Taken(to, ok)
    BY <1>2, <1>3 DEF left
  <2> QED  BY <1>1, <1>6, <1>7, <2>1, WriteLogs, Zenon DEF left
<1>9. filled' \in 0..DeviceBuffer
  <2>0. DeviceBuffer \in Nat
    BY SendsAssumption
  <2>1. CASE ~output.chunked \/ ~ok
    BY <1>2, <1>4, <2>1
  <2>2. CASE output.chunked /\ ok /\ current.first
    <3>1. filled' = Out!Least({DeviceBuffer, filled + k})
      BY <1>2, <2>2
    <3> DEFINE S == {DeviceBuffer, filled + k}
    <3>2. S \in SUBSET Nat /\ S # {} /\ DeviceBuffer \in S
      BY <1>4, <1>5, <2>0
    <3>3. filled' = Out!Least(S)
      BY <3>1
    <3> HIDE DEF S
    <3>4. filled' \in Nat /\ filled' <= DeviceBuffer
      BY <3>2, <3>3, LeastLaw, Zenon
    <3> QED  BY <2>0, <3>4
  <2>3. CASE output.chunked /\ ok /\ ~current.first
    <3>1. filled' = filled + k /\ filled + Out!Chunk <= DeviceBuffer /\ k <= Out!Chunk
      BY <1>1, <1>2, <1>3, <2>3
    <3>2. Out!Chunk \in Nat
      <4>1. Len(left) <= Len(Out!Units(m)) /\ Out!Units(m) \in Seq(Units)
        BY <1>1, <1>4, UnitsLaws DEF SendInv, SendPlace, left, m
      <4>2. Len(Out!Units(m)) \in Nat \ {0}
        BY <1>3, <1>5, <4>1
      <4> QED  BY <4>2, ChunkLaw DEF SendInv, m
    <3> QED  BY <1>4, <1>5, <2>0, <3>1, <3>2
  <2> QED  BY <1>4, <2>1, <2>2, <2>3
<1>10. CASE ok
  <2>1. current' = [current EXCEPT !.left = After(left, k), !.first = FALSE] /\ said' = said
    BY <1>2, <1>10 DEF After, left
  <2>2. After(left, k) \in Seq(Units)
    BY <1>1, <1>3, <1>4, WalksRest DEF SendInv, SendPlace, left
  <2>3. /\ current'.at = "sending" /\ current'.message = m /\ current'.left = After(left, k) /\ ~current'.first /\ current' \in Sending
    BY <1>1, <1>4, <2>1, <2>2, Zenon DEF Sending, m
  <2>4. IsOut(Tells) /\ Out!Connected => Out!Handed(wire' \o buffered', n) = Out!Handed(Log, n) \o Given(left, k)
    BY <1>8, <1>10
  <2> QED  BY <1>1, <1>3, <1>8, <1>9, <2>1, <2>3, <2>4, SendGoesOn, Zenon DEF left, m
<1>11. CASE ~ok
  <2>1. Out!Failed(k)
    BY <1>2, <1>11
  <2>2. IsOut(Tells) /\ Out!Connected => Out!Handed(wire' \o buffered', n) = Out!Handed(Log, n)
    BY <1>8, <1>11
  <2>3. ASSUME NEW ret \in {"ok", "error", "thrown"}, Out!Return(m, ret), IsOut(Tells) => ret # "ok" PROVE SendInv'
    <3> DEFINE a == [message |-> m, to |-> asked, ret |-> ret, connected |-> Out!Connected]
    <3>1. a.message = m /\ a.ret = ret
      OBVIOUS
    <3>2. a = [message |-> m, to |-> asked, ret |-> ret, connected |-> Out!Connected]
      OBVIOUS
    <3> HIDE DEF a
    <3>3. IsOut(Tells) /\ Out!Connected => Honest(a, Out!Handed(Log, n))
      BY <1>1, <2>3, <3>1, SomeYet DEF m, left
    <3>4. IsOut(Tells) /\ Out!Connected => Honest(a, Out!Handed(wire' \o buffered', n))
      BY <2>2, <3>3
    <3> QED  BY <1>1, <1>4, <1>8, <1>9, <2>3, <3>2, <3>4, SendReturns
  <2>4. CASE Out!Unheeded
    <3>1. ~IsOut(Tells) /\ Out!Return(m, "ok")
      BY <2>4, ClaimsAssumption DEF Out!Unheeded, Out!Is, IsOut, m
    <3> QED  BY <2>3, <3>1
  <2>5. CASE Out!Refused
    <3>1. Out!Return(m, "error")
      BY <2>5 DEF Out!Refused, m
    <3> QED  BY <2>3, <3>1
  <2>6. CASE Out!Thrown
    <3>1. Out!Return(m, "thrown")
      BY <2>6 DEF Out!Thrown, m
    <3> QED  BY <2>3, <3>1
  <2>7. CASE Out!ListRefused(k)
    <3>1. IsOut({"coremidi_ump"})
      BY <2>7 DEF Out!ListRefused, Out!Is, IsOut
    <3>2. CASE Out!Return(m, "error")
      BY <2>3, <3>2
    <3>3. CASE current' = [current EXCEPT !.left = SubSeq(@, k + 1, Len(@))] /\ said' = said
      <4>1. current' = [current EXCEPT !.left = After(left, k)]
        BY <3>3 DEF After, left
      <4>2. After(left, k) \in Seq(Units)
        BY <1>1, <1>3, <1>4, WalksRest DEF SendInv, SendPlace, left
      <4>3. /\ current'.at = "sending" /\ current'.message = m /\ current'.left = After(left, k) /\ current' \in Sending
        BY <1>1, <1>4, <4>1, <4>2, Zenon DEF Sending, m
      <4>4. ~output.chunked /\ ~IsOut(Tells)
        BY <3>1, ClaimsAssumption DEF SendInv, SendTypes, IsOut
      <4> QED  BY <1>1, <1>3, <1>8, <1>9, <3>3, <4>3, <4>4, SendGoesOn, Zenon DEF left, m
    <3> QED  BY <2>7, <3>2, <3>3 DEF Out!ListRefused, m
  <2> QED  BY <2>1, <2>4, <2>5, <2>6, <2>7 DEF Out!Failed
<1> QED  BY <1>10, <1>11

LEMMA SendStep == OutInv /\ SendInv /\ [Out!Next]_outvars => SendInv'
<1> SUFFICES ASSUME OutInv, SendInv, [Out!Next]_outvars PROVE SendInv'
  OBVIOUS
<1>0. filled \in 0..DeviceBuffer
  BY DEF SendInv, SendTypes
<1>1. ASSUME NEW d \in Destinations, Out!OutOpenPort(d) PROVE SendInv'
  BY <1>0, <1>1, SendKept DEF Out!OutOpenPort, Out!Idle, Out!sending
<1>2. CASE Out!OutOpenVirtual
  BY <1>0, <1>2, SendKept DEF Out!OutOpenVirtual, Out!Idle, Out!sending
<1>3. CASE Out!OutClosePort
  BY <1>0, <1>3, SendKept DEF Out!OutClosePort, Out!Idle, Out!sending
<1>4. CASE Out!OutDestroy
  BY <1>0, <1>4, SendKept DEF Out!OutDestroy, Out!Idle, Out!sending
<1>5. CASE Out!Opened
  <2>1. ~IsOut(Tells)
    BY <1>5, ClaimsAssumption DEF Out!Opened, OutInv, OutRequests, IsOut
  <2> QED  BY <1>0, <1>5, <2>1, SendKept DEF Out!Opened, Out!object, Out!sending
<1>6. CASE Out!OtherOpens \/ Out!OtherCloses
  <2>1. ~IsOut(Tells)
    BY <1>6, ClaimsAssumption DEF Out!OtherOpens, Out!OtherCloses, Out!Is, OutInv, OutCounts, IsOut
  <2> QED  BY <1>0, <1>6, <2>1, SendKept DEF Out!OtherOpens, Out!OtherCloses, Out!object, Out!native, Out!sending
<1>7. ASSUME NEW m \in Messages[IF Out!Is(Out!Ump) THEN "ump" ELSE "midi1"], Out!Send(m) PROVE SendInv'
  BY <1>7, SendStarts
<1>8. CASE Out!Write
  BY <1>8, SendWrites
<1>9. CASE Out!Incomplete
  BY <1>9, SendFails DEF Out!Incomplete, Out!object
<1>10. CASE Out!Finish
  BY <1>10, SendEnds
<1>11. CASE Out!Played
  BY <1>11, SendPlayed
<1>12. CASE Out!StopWaiting
  BY <1>12, SendFails DEF Out!StopWaiting, Out!object
<1>13. CASE Out!DevicePlays
  <2>1. filled' \in 0..DeviceBuffer
    BY <1>0, <1>13, SendsAssumption DEF Out!DevicePlays
  <2>2. UNCHANGED <<output, current, buffered, wire, said, alive, port_open_, asked, handle, virtual, destinationId, linked, m_rc>>
    BY <1>13 DEF Out!DevicePlays, Out!object, Out!native, Out!service
  <2> QED  BY <2>1, <2>2, SendKept
<1>14. CASE UNCHANGED outvars
  BY <1>0, <1>14, SendKept DEF outvars
<1> QED
  BY <1>1, <1>2, <1>3, <1>4, <1>5, <1>6, <1>7, <1>8, <1>9, <1>10, <1>11, <1>12, <1>13, <1>14 DEF Out!Next, Out!Sending

LEMMA SendSays == SendInv => SendsWhatItSays
<1> SUFFICES ASSUME SendInv PROVE SendsWhatItSays
  OBVIOUS
<1>1. Out!ChunksFit
  BY SendsAssumption DEF Out!ChunksFit, SendInv, SendTypes
<1>2. Out!SaysWhatHappened
  <2>1. DOMAIN said = 1..Len(said)
    BY DEF SendInv, SendTypes
  <2>2. ASSUME NEW c \in 1..Len(said), IsOut(Tells), said[c].connected PROVE Honest(said[c], Out!Handed(wire \o buffered, c))
    BY <2>2 DEF SendInv, SendAnswers, Log
  <2> QED  BY <2>1, <2>2 DEF Out!SaysWhatHappened, Honest, Out!Is, IsOut
<1>3. Out!NeverMisdelivered
  <2>1. DOMAIN said = 1..Len(said) /\ wire \in Seq(Delivered(Turn)) /\ DOMAIN wire = 1..Len(wire)
    BY DEF SendInv, SendTypes, SendLogs
  <2>2. \A i \in 1..Len(wire) : wire[i] \in Delivered(Turn)
    BY <2>1, ElementOfSeq
  <2> QED  BY <2>1, <2>2 DEF Out!NeverMisdelivered, Delivered, Out!Is, IsOut
<1> QED  BY <1>1, <1>2, <1>3 DEF SendsWhatItSays

-----------------------------------------------------------------------------
(* Datagrams. What the parser of the network input makes of one, by induction *)
(* over its type tags: the packets that it has are the first of those sent,   *)
(* and the next one begins where they end.                                    *)

LEMMA WordsTypes ==
  ASSUME NEW p \in UmpPackets
  PROVE  /\ Net!Words(p) \in Seq(UmpWords) /\ Len(Net!Words(p)) = p.words /\ p.words \in Nat \ {0}
         /\ p.size \in {0, p.words} /\ Net!Words(p)[1].packet = p
<1> DEFINE n == p.words
           w == [i \in 1..n |-> [packet |-> p, part |-> i]]
<1>1. n \in Nat \ {0} /\ p.size \in {0, n}
  BY DEF UmpPackets
<1>2. \A i \in 1..n : [packet |-> p, part |-> i] \in UmpWords
  BY <1>1 DEF UmpWords
<1> HIDE DEF n
<1>3. w \in Seq(UmpWords) /\ Len(w) = n /\ w[1].packet = p
  BY <1>1, <1>2
<1>4. Net!Words(p) = w
  BY DEF Net!Words, n
<1> QED  BY <1>1, <1>3, <1>4 DEF n

LEMMA WordsFold ==
  ASSUME NEW ps \in Seq(UmpPackets)
  PROVE  \E f \in [0..Len(ps) -> Seq(UmpWords)] :
           /\ f[0] = <<>> /\ WordsOf(ps) = f[Len(ps)]
           /\ \A i \in 1..Len(ps) : f[i] = f[i - 1] \o Net!Words(ps[i])
<1> DEFINE s == [i \in DOMAIN ps |-> Net!Words(ps[i])]
<1>1. s \in Seq(Seq(UmpWords)) /\ Len(s) = Len(ps) /\ \A i \in 1..Len(ps) : s[i] = Net!Words(ps[i])
  <2>1. DOMAIN ps = 1..Len(ps) /\ \A i \in 1..Len(ps) : ps[i] \in UmpPackets
    OBVIOUS
  <2>2. \A i \in 1..Len(ps) : Net!Words(ps[i]) \in Seq(UmpWords)
    BY <2>1, WordsTypes
  <2> QED  BY <2>1, <2>2
<1>2. WordsOf(ps) = Net!FlattenSeq(s)
  BY DEF WordsOf
<1> HIDE DEF s
<1>3. Net!FlattenSeq(s) = Flattened(s)
  BY DEF Net!FlattenSeq, Flattened
<1>4. PICK f \in [0..Len(s) -> Seq(UmpWords)] :
             f[0] = <<>> /\ Flattened(s) = f[Len(s)] /\ \A i \in 1..Len(s) : f[i] = f[i - 1] \o s[i]
  BY <1>1, FlattenedFold, Zenon
<1>5. \A i \in 1..Len(ps) : f[i] = f[i - 1] \o Net!Words(ps[i])
  BY <1>1, <1>4, Zenon
<1>6. f \in [0..Len(ps) -> Seq(UmpWords)] /\ WordsOf(ps) = f[Len(ps)]
  BY <1>1, <1>2, <1>3, <1>4
<1> QED  BY <1>4, <1>5, <1>6

\* Where each packet ends in the words of all.
Ends(e, ps) ==
  /\ e \in [0..Len(ps) -> Nat] /\ e[0] = 0 /\ e[Len(ps)] = Len(WordsOf(ps))
  /\ \A i \in 1..Len(ps) :
       /\ e[i] = e[i - 1] + ps[i].words /\ e[i] <= Len(WordsOf(ps))
       /\ WordsOf(ps)[e[i - 1] + 1].packet = ps[i]

LEMMA WordsEnd ==
  ASSUME NEW ps \in Seq(UmpPackets)
  PROVE  WordsOf(ps) \in Seq(UmpWords) /\ \E e : Ends(e, ps)
<1> DEFINE n == Len(ps)
<1>1. PICK f \in [0..n -> Seq(UmpWords)] :
           /\ f[0] = <<>> /\ WordsOf(ps) = f[n]
           /\ \A i \in 1..n : f[i] = f[i - 1] \o Net!Words(ps[i])
  BY WordsFold, Zenon
<1>2. n \in Nat /\ \A i \in 1..n : i \in 0..n /\ i - 1 \in 0..n /\ ps[i] \in UmpPackets
  OBVIOUS
<1>3. ASSUME NEW i \in 1..n
      PROVE  /\ Len(f[i]) = Len(f[i - 1]) + ps[i].words /\ Len(f[i - 1]) \in Nat /\ ps[i].words \in Nat \ {0}
             /\ \A x \in 1..Len(f[i - 1]) : f[i][x] = f[i - 1][x]
             /\ f[i][Len(f[i - 1]) + 1].packet = ps[i]
  <2> DEFINE a == f[i - 1]
             w == Net!Words(ps[i])
  <2>1. a \in Seq(UmpWords) /\ w \in Seq(UmpWords) /\ Len(w) = ps[i].words /\ ps[i].words \in Nat \ {0} /\ w[1].packet = ps[i]
    BY <1>2, WordsTypes, Zenon
  <2>2. f[i] = a \o w
    BY <1>1, Zenon
  <2> HIDE DEF a, w
  <2>3. Len(a \o w) = Len(a) + Len(w) /\ Len(a) \in Nat /\ (\A x \in 1..Len(a) : (a \o w)[x] = a[x]) /\ (a \o w)[Len(a) + 1] = w[1]
    BY <2>1
  <2> QED  BY <2>1, <2>2, <2>3 DEF a
<1> DEFINE Kept(i, k) == Len(f[i]) <= Len(f[k]) /\ \A x \in 1..Len(f[i]) : f[k][x] = f[i][x]
           Proved == {k \in Nat : k <= n => \A i \in 0..k : Kept(i, k)}
<1> HIDE DEF n
<1>4. 0 \in Proved
  <2>1. Len(f[0]) = 0 /\ \A i \in 0..0 : i = 0
    BY <1>1
  <2> QED  BY <2>1
<1>5. ASSUME NEW k \in Nat, k \in Proved PROVE k + 1 \in Proved
  <2> SUFFICES ASSUME k + 1 <= n, NEW i \in 0..(k + 1) PROVE Kept(i, k + 1)
    OBVIOUS
  <2>1. k + 1 \in 1..n /\ (k + 1) - 1 = k /\ k <= n /\ k + 1 \in 0..n /\ k \in 0..n
    BY <1>2
  <2>2. Len(f[k]) \in Nat /\ Len(f[k + 1]) \in Nat /\ Len(f[k]) <= Len(f[k + 1]) /\ \A x \in 1..Len(f[k]) : f[k + 1][x] = f[k][x]
    <3> DEFINE j == k + 1
    <3>1. j \in 1..n /\ j - 1 = k
      BY <2>1
    <3> HIDE DEF j
    <3>2. /\ Len(f[j]) = Len(f[j - 1]) + ps[j].words /\ Len(f[j - 1]) \in Nat /\ ps[j].words \in Nat \ {0}
          /\ \A x \in 1..Len(f[j - 1]) : f[j][x] = f[j - 1][x]
      BY <1>3, <3>1
    <3>3. /\ Len(f[j]) = Len(f[k]) + ps[j].words /\ Len(f[k]) \in Nat /\ ps[j].words \in Nat \ {0}
          /\ \A x \in 1..Len(f[k]) : f[j][x] = f[k][x]
      BY <3>1, <3>2, Zenon
    <3>4. Len(f[j]) \in Nat /\ Len(f[k]) <= Len(f[j])
      BY <3>3
    <3> QED  BY <3>3, <3>4 DEF j
  <2>3. CASE i = k + 1
    BY <2>2, <2>3
  <2>4. CASE i # k + 1
    <3>1. i \in 0..k /\ i \in 0..n
      BY <1>2, <2>1, <2>4
    <3>2. Kept(i, k)
      BY <1>5, <2>1, <3>1
    <3>3. Len(f[i]) \in Nat
      BY <1>1, <3>1
    <3> QED  BY <2>2, <3>2, <3>3
  <2> QED  BY <2>3, <2>4
<1>6. \A i \in 0..n : Kept(i, n)
  <2>1. n \in Proved
    <3> HIDE DEF Proved
    <3> QED  BY <1>2, <1>4, <1>5, Induction, Zenon
  <2> QED  BY <1>2, <2>1
<1> DEFINE e == [i \in 0..n |-> Len(f[i])]
<1>7. Ends(e, ps)
  <2>1. e \in [0..n -> Nat] /\ e[0] = 0 /\ e[n] = Len(WordsOf(ps))
    <3>1. \A i \in 0..n : Len(f[i]) \in Nat
      BY <1>1
    <3> QED  BY <1>1, <1>2, <3>1
  <2>2. ASSUME NEW i \in 1..n
        PROVE  /\ e[i] = e[i - 1] + ps[i].words /\ e[i] <= Len(WordsOf(ps)) /\ WordsOf(ps)[e[i - 1] + 1].packet = ps[i]
    <3>1. e[i] = Len(f[i]) /\ e[i - 1] = Len(f[i - 1])
      BY <1>2
    <3>2. Kept(i, n)
      BY <1>2, <1>6
    <3>3. Len(f[i - 1]) + 1 \in 1..Len(f[i])
      <4>1. Len(f[i]) = Len(f[i - 1]) + ps[i].words /\ Len(f[i - 1]) \in Nat /\ ps[i].words \in Nat \ {0}
        BY <1>3
      <4> QED  BY <4>1
    <3> HIDE DEF e
    <3> QED  BY <1>1, <1>3, <3>1, <3>2, <3>3, Zenon
  <2> HIDE DEF e
  <2> QED  BY <2>1, <2>2 DEF Ends, n
<1>8. WordsOf(ps) \in Seq(UmpWords)
  BY <1>1, <1>2
<1> QED  BY <1>7, <1>8

\* The words of whole packets, and at most the beginning of one more or one of
\* a size that is not known.
WholePackets(d) ==
  /\ d.data \in Seq(UmpWords) /\ d.sent \in Seq(UmpPackets)
  /\ Len(WordsOf(d.sent)) <= Len(d.data) /\ SubSeq(d.data, 1, Len(WordsOf(d.sent))) = WordsOf(d.sent)
  /\ Len(WordsOf(d.sent)) < Len(d.data) =>
       \/ d.data[Len(WordsOf(d.sent)) + 1].packet.size = 0
       \/ Len(WordsOf(d.sent)) + d.data[Len(WordsOf(d.sent)) + 1].packet.size > Len(d.data)

ParserStates == [heard : Seq(UmpPackets), at : Nat]

\* The parser has the first k packets, and goes on behind them or gave up.
HasParsed(r, e, k, ps) == r \in ParserStates /\ r.heard = SubSeq(ps, 1, k) /\ r.at \in {0, e[k] + 1}

LEMMA AddPacketLaw ==
  ASSUME NEW d, WholePackets(d), NEW e, Ends(e, d.sent), NEW k \in 0..Len(d.sent), NEW r, HasParsed(r, e, k, d.sent)
  PROVE  \/ /\ HasParsed(Net!AddPacket(r, d, TRUE), e, k, d.sent)
            /\ k < Len(d.sent) /\ r.at # 0 => d.sent[k + 1].size = 0
         \/ /\ k < Len(d.sent) /\ HasParsed(Net!AddPacket(r, d, TRUE), e, k + 1, d.sent)
            /\ r.at # 0 => Net!AddPacket(r, d, TRUE).at # 0
<1> DEFINE ps == d.sent
           n == Len(ps)
           m == Len(d.data)
           whole == Len(WordsOf(ps))
           q == Net!AddPacket(r, d, TRUE)
           p == d.data[r.at].packet
<1>1. /\ d.data \in Seq(UmpWords) /\ ps \in Seq(UmpPackets) /\ m \in Nat /\ n \in Nat /\ whole \in Nat
      /\ whole <= m /\ e[k] \in Nat /\ e[k] <= whole /\ e[n] = whole
  <2>1. d.data \in Seq(UmpWords) /\ ps \in Seq(UmpPackets) /\ whole <= m
    BY DEF WholePackets
  <2>2. WordsOf(ps) \in Seq(UmpWords)
    BY <2>1, WordsEnd
  <2>3. n \in Nat /\ m \in Nat /\ whole \in Nat
    BY <2>1, <2>2
  <2>4. e[k] \in Nat /\ e[n] = whole /\ e[0] = 0
    BY <2>3, Zenon DEF Ends
  <2>5. k = 0 \/ k \in 1..n
    BY <2>3
  <2>6. k \in 1..n => e[k] <= whole
    BY DEF Ends
  <2> QED  BY <2>1, <2>3, <2>4, <2>5, <2>6
<1>2. r.heard \in Seq(UmpPackets) /\ r.at \in Nat /\ r \in ParserStates /\ r.heard = SubSeq(ps, 1, k)
  BY DEF HasParsed, ParserStates
<1>3. q = IF r.at = 0 \/ r.at > m THEN r
          ELSE IF p.size = 0 \/ r.at + p.size - 1 > m THEN [r EXCEPT !.at = 0]
          ELSE [heard |-> Append(r.heard, p), at |-> r.at + p.size]
  BY DEF Net!AddPacket
<1>4. [r EXCEPT !.at = 0] \in ParserStates /\ [r EXCEPT !.at = 0].heard = r.heard /\ [r EXCEPT !.at = 0].at = 0
  BY <1>2 DEF ParserStates
<1> HIDE DEF q, p, m, whole, n, ps
<1>5. CASE r.at = 0
  <2>1. q = r
    BY <1>3, <1>5
  <2> QED  BY <1>5, <2>1, Zenon DEF q, ps
<1>6. CASE r.at # 0 /\ k < n
  <2>1. r.at = e[k] + 1
    BY <1>6 DEF HasParsed
  <2> DEFINE j == k + 1
  <2>2. j \in 1..n /\ j - 1 = k /\ ps[j] \in UmpPackets
    <3>1. j \in 1..n /\ j - 1 = k
      BY <1>1, <1>6 DEF n, ps
    <3> QED  BY <1>1, <3>1, ElementOfSeq DEF n
  <2> HIDE DEF j
  <2>3. e[j] = e[j - 1] + ps[j].words /\ e[j] <= whole /\ WordsOf(ps)[e[j - 1] + 1].packet = ps[j]
    BY <2>2 DEF Ends, ps, n, whole
  <2>4. e[j] = e[k] + ps[j].words /\ e[j] <= whole /\ WordsOf(ps)[r.at].packet = ps[j]
    BY <2>1, <2>2, <2>3
  <2>5. ps[j].words \in Nat \ {0} /\ ps[j].size \in {0, ps[j].words}
    BY <2>2, WordsTypes
  <2>6. r.at \in 1..whole /\ r.at <= m /\ e[j] \in Nat /\ e[j] <= m
    <3>1. m \in Nat /\ whole \in Nat /\ whole <= m /\ e[k] \in Nat
      BY <1>1
    <3>2. ps[j].words \in Nat \ {0} /\ e[j] = e[k] + ps[j].words /\ e[j] <= whole
      BY <2>4, <2>5
    <3>3. e[j] \in Nat /\ e[k] + 1 <= e[j]
      BY <3>1, <3>2
    <3> QED  BY <2>1, <3>1, <3>2, <3>3
  <2>7. p = ps[j]
    <3>1. SubSeq(d.data, 1, whole)[r.at] = d.data[r.at]
      BY <1>1, <2>6 DEF m
    <3>2. SubSeq(d.data, 1, whole) = WordsOf(ps)
      BY DEF WholePackets, whole, ps
    <3> QED  BY <2>4, <3>1, <3>2, Zenon DEF p
  <2>8. CASE ps[j].size = 0
    <3>1. q = [r EXCEPT !.at = 0]
      BY <1>3, <1>6, <2>6, <2>7, <2>8, <1>1
    <3>2. HasParsed(q, e, k, ps)
      BY <1>2, <1>4, <3>1 DEF HasParsed
    <3> QED  BY <2>8, <3>2, Zenon DEF q, ps, j
  <2>9. CASE ps[j].size # 0
    <3>1. r.at + p.size - 1 = e[j] /\ r.at + p.size = e[j] + 1 /\ p.size # 0
      <4>1. p.size = ps[j].words
        BY <2>5, <2>7, <2>9
      <4>2. p.size \in Nat \ {0} /\ e[j] = e[k] + p.size
        BY <2>4, <2>5, <4>1
      <4>3. e[k] \in Nat /\ r.at = e[k] + 1
        BY <1>1, <2>1
      <4>4. r.at + p.size = e[j] + 1
        BY <4>2, <4>3
      <4>5. r.at + p.size - 1 = e[j]
        BY <4>2, <4>3
      <4> QED  BY <4>2, <4>4, <4>5
    <3>2. ~(r.at + p.size - 1 > m) /\ ~(r.at > m)
      <4>1. m \in Nat /\ r.at \in Nat
        BY <1>1, <1>2
      <4> QED  BY <2>6, <3>1, <4>1
    <3>3. q = [heard |-> Append(r.heard, p), at |-> r.at + p.size]
      BY <1>3, <1>6, <3>1, <3>2
    <3>4. q.heard = Append(r.heard, ps[j]) /\ q.at = e[j] + 1
      BY <2>7, <3>1, <3>3
    <3>5. Append(SubSeq(ps, 1, k), ps[j]) = SubSeq(ps, 1, j)
      BY <1>1, <2>2 DEF n
    <3>6. q \in ParserStates
      <4>1. Append(r.heard, p) \in Seq(UmpPackets)
        BY <1>2, <2>2, <2>7
      <4>2. e[j] + 1 \in Nat
        BY <2>6
      <4>3. r.at + p.size \in Nat
        BY <3>1, <4>2
      <4> QED  BY <3>3, <4>1, <4>3 DEF ParserStates
    <3>7. HasParsed(q, e, j, ps) /\ q.at # 0
      <4>1. e[j] \in Nat
        BY <1>1, <2>4, <2>5
      <4>2. q.heard = SubSeq(ps, 1, j)
        BY <1>2, <3>4, <3>5, Zenon
      <4>3. q.at \in {0, e[j] + 1} /\ q.at # 0
        BY <3>4, <4>1
      <4> QED  BY <3>6, <4>2, <4>3 DEF HasParsed
    <3> QED  BY <1>6, <3>7, Zenon DEF q, ps, j, n
  <2> QED  BY <2>8, <2>9, Zenon
<1>7. CASE r.at # 0 /\ ~(k < n)
  <2>1. k = n /\ r.at = e[n] + 1 /\ e[n] = whole
    <3>1. k = n
      BY <1>1, <1>7 DEF n, ps
    <3> QED  BY <1>1, <1>7, <3>1 DEF HasParsed
  <2>2. CASE r.at > m
    <3>1. q = r
      BY <1>3, <2>2
    <3> QED  BY <1>7, <3>1, Zenon DEF q, ps, n
  <2>3. CASE ~(r.at > m)
    <3>1. whole < m /\ whole + 1 = r.at
      BY <1>1, <2>1, <2>3
    <3>2. p.size = 0 \/ whole + p.size > m
      BY <3>1 DEF WholePackets, p, m, whole, ps
    <3>3. p.size \in Nat
      <4>1. r.at \in 1..m
        BY <1>1, <2>1, <2>3, <3>1
      <4>2. d.data[r.at] \in UmpWords
        BY <1>1, <4>1 DEF m
      <4> QED  BY <4>2 DEF p, UmpWords, UmpPackets
    <3>4. p.size = 0 \/ r.at + p.size - 1 > m
      BY <1>1, <3>1, <3>2, <3>3
    <3>5. q = [r EXCEPT !.at = 0]
      BY <1>3, <1>7, <2>3, <3>4
    <3>6. HasParsed(q, e, k, ps)
      BY <1>2, <1>4, <3>5 DEF HasParsed
    <3> QED  BY <1>7, <3>6, Zenon DEF q, ps, n
  <2> QED  BY <2>2, <2>3, Zenon
<1> QED  BY <1>5, <1>6, <1>7, Zenon

Sized(ps) == \A i \in DOMAIN ps : ps[i].size # 0

LEMMA ProcessUmpLaw ==
  ASSUME NEW d, WholePackets(d), Len(d.tags) \in Nat
  PROVE  \E k \in 0..Len(d.sent) :
           /\ Net!ProcessUmp(d) = SubSeq(d.sent, 1, k)
           /\ Len(d.tags) = Len(d.sent) /\ Sized(d.sent) => k = Len(d.sent)
<1> DEFINE ps == d.sent
           n == Len(ps)
           t == Len(d.tags)
           A == ParserStates
           first == [heard |-> <<>>, at |-> 1]
           Recursion(h) == h = [i \in 0..t |-> IF i = 0 THEN first ELSE Net!AddPacket(h[i - 1], d, TRUE)]
<1>1. ps \in Seq(UmpPackets) /\ n \in Nat /\ t \in Nat /\ d.data \in Seq(UmpWords)
  BY DEF WholePackets
<1>2. PICK e : Ends(e, ps)
  BY <1>1, WordsEnd
<1> DEFINE Good(j, r) ==
             \E k \in 0..n : HasParsed(r, e, k, ps) /\ (Sized(ps) /\ j <= n => k = j /\ r.at # 0)
<1>3. Good(0, first)
  <2>1. HasParsed(first, e, 0, ps)
    <3>1. e[0] = 0 /\ SubSeq(ps, 1, 0) = <<>>
      BY <1>1, <1>2 DEF Ends
    <3>2. first \in A
      BY DEF ParserStates
    <3> QED  BY <3>1, <3>2 DEF HasParsed
  <2> QED  BY <1>1, <2>1
<1>4. ASSUME NEW j \in Nat, NEW r, Good(j, r) PROVE Good(j + 1, Net!AddPacket(r, d, TRUE))
  <2>1. PICK k \in 0..n : HasParsed(r, e, k, ps) /\ (Sized(ps) /\ j <= n => k = j /\ r.at # 0)
    BY <1>4
  <2> DEFINE q == Net!AddPacket(r, d, TRUE)
  <2>2. \/ HasParsed(q, e, k, ps) /\ (k < n /\ r.at # 0 => ps[k + 1].size = 0)
        \/ k < n /\ HasParsed(q, e, k + 1, ps) /\ (r.at # 0 => q.at # 0)
    BY <1>2, <2>1, AddPacketLaw, Zenon
  <2> HIDE DEF q
  <2>3. CASE HasParsed(q, e, k, ps) /\ (k < n /\ r.at # 0 => ps[k + 1].size = 0)
    <3>1. ~(Sized(ps) /\ j + 1 <= n)
      <4> SUFFICES ASSUME Sized(ps), j + 1 <= n PROVE FALSE
        OBVIOUS
      <4>1. k = j /\ r.at # 0 /\ k < n /\ k + 1 \in DOMAIN ps
        BY <1>1, <2>1
      <4> QED  BY <2>3, <4>1 DEF Sized
    <3> HIDE DEF n
    <3> QED  BY <2>3, <3>1, Zenon DEF q
  <2>4. CASE k < n /\ HasParsed(q, e, k + 1, ps) /\ (r.at # 0 => q.at # 0)
    <3>1. k + 1 \in 0..n
      BY <1>1, <2>4
    <3>2. Sized(ps) /\ j + 1 <= n => k + 1 = j + 1 /\ q.at # 0
      BY <1>1, <2>1, <2>4
    <3> HIDE DEF n
    <3> QED  BY <2>4, <3>1, <3>2, Zenon DEF q
  <2> QED  BY <2>2, <2>3, <2>4, Zenon
<1>5. \E h : Recursion(h)
  <2> DEFINE step == [i \in 1..t |-> [r \in A |-> Net!AddPacket(r, d, TRUE)]]
  <2>1. step \in [1..t -> [A -> A]]
    <3>1. ASSUME NEW r \in A PROVE Net!AddPacket(r, d, TRUE) \in A
      <4>1. [r EXCEPT !.at = 0] \in A /\ r.at \in Nat /\ r.heard \in Seq(UmpPackets)
        BY DEF ParserStates
      <4>2. ASSUME r.at # 0, ~(r.at > Len(d.data))
            PROVE  LET p == d.data[r.at].packet IN [heard |-> Append(r.heard, p), at |-> r.at + p.size] \in A
        <5>1. d.data[r.at] \in UmpWords
          BY <1>1, <4>1, <4>2
        <5>2. d.data[r.at].packet \in UmpPackets /\ d.data[r.at].packet.size \in Nat
          BY <5>1 DEF UmpWords, UmpPackets
        <5>3. Append(r.heard, d.data[r.at].packet) \in Seq(UmpPackets)
          BY <4>1, <5>2
        <5>4. r.at + d.data[r.at].packet.size \in Nat
          BY <4>1, <5>2
        <5> QED  BY <5>3, <5>4 DEF ParserStates
      <4> QED  BY <4>1, <4>2 DEF Net!AddPacket
    <3> HIDE DEF A
    <3> QED  BY <3>1, Zenon
  <2>2. first \in A
    BY DEF ParserStates
  <2> HIDE DEF step, A, first
  <2>3. PICK f \in [0..t -> A] : IsFold(f, t, first, step)
    BY <1>1, <2>1, <2>2, FoldExists, Zenon
  <2>4. ASSUME NEW i \in 0..t, i # 0 PROVE step[i][f[i - 1]] = Net!AddPacket(f[i - 1], d, TRUE)
    <3>1. i \in 1..t /\ i - 1 \in 0..t
      BY <1>1, <2>4
    <3>2. f[i - 1] \in A
      BY <2>3, <3>1
    <3> QED  BY <3>1, <3>2, Zenon DEF step
  <2>5. f = [i \in 0..t |-> IF i = 0 THEN first ELSE step[i][f[i - 1]]]
    BY <2>3, Zenon DEF IsFold
  <2>6. [i \in 0..t |-> IF i = 0 THEN first ELSE step[i][f[i - 1]]]
          = [i \in 0..t |-> IF i = 0 THEN first ELSE Net!AddPacket(f[i - 1], d, TRUE)]
    BY <2>4, Zenon
  <2> QED  BY <2>5, <2>6, Zenon
<1> DEFINE parsed == CHOOSE h : h = [i \in 0..t |-> IF i = 0 THEN first ELSE Net!AddPacket(h[i - 1], d, TRUE)]
<1>6. Net!ProcessUmp(d) = parsed[t].heard
  BY DEF Net!ProcessUmp
<1>7. Recursion(parsed)
  BY <1>5, Zenon
<1> DEFINE Proved == {j \in Nat : j <= t => Good(j, parsed[j])}
<1> HIDE DEF parsed, Good, t
<1>8. \A i \in 0..t : parsed[i] = IF i = 0 THEN first ELSE Net!AddPacket(parsed[i - 1], d, TRUE)
  BY <1>7, Zenon
<1> HIDE DEF first
<1>9. 0 \in Proved
  <2>1. 0 \in 0..t
    BY <1>1
  <2> QED  BY <1>3, <1>8, <2>1, Zenon
<1>10. ASSUME NEW j \in Nat, j \in Proved PROVE j + 1 \in Proved
  <2>1. j + 1 <= t => j <= t /\ j + 1 \in 0..t /\ j + 1 # 0 /\ (j + 1) - 1 = j
    BY <1>1
  <2>2. j + 1 <= t => parsed[j + 1] = Net!AddPacket(parsed[j], d, TRUE)
    BY <1>8, <2>1, Zenon
  <2>3. j + 1 <= t => Good(j, parsed[j])
    BY <1>10, <2>1
  <2>4. j + 1 <= t => Good(j + 1, parsed[j + 1])
    BY <1>4, <2>2, <2>3, Zenon
  <2> QED  BY <2>4
<1>11. Good(t, parsed[t])
  <2>1. t \in Proved
    <3> HIDE DEF Proved
    <3> QED  BY <1>1, <1>9, <1>10, Induction, Zenon
  <2> QED  BY <1>1, <2>1
<1> HIDE DEF n
<1>12. PICK k \in 0..n : HasParsed(parsed[t], e, k, ps) /\ (Sized(ps) /\ t <= n => k = t /\ parsed[t].at # 0)
  BY <1>11 DEF Good
<1>13. Net!ProcessUmp(d) = SubSeq(ps, 1, k)
  BY <1>6, <1>12 DEF HasParsed
<1>14. t = n /\ Sized(ps) => k = n
  BY <1>1, <1>12
<1> QED  BY <1>12, <1>13, <1>14 DEF n, t

\* What may be made of a datagram.
Truthful(d, name, heard) ==
  /\ Net!IsPrefix(heard, d.sent)
  /\ d.name # name => heard = <<>>
  /\ d.name = name /\ Len(d.tags) = Len(d.sent) /\ Sized(d.sent) => heard = d.sent

LEMMA PrefixesLaw ==
  ASSUME NEW S, NEW s \in Seq(S), NEW k \in 0..Len(s)
  PROVE  Net!IsPrefix(SubSeq(s, 1, k), s) /\ Net!IsPrefix(<<>>, s) /\ SubSeq(s, 1, Len(s)) = s
<1> DEFINE t == SubSeq(s, 1, k)
<1>1. t \in Seq(S) /\ Len(t) = k /\ Len(s) \in Nat /\ \A i \in 1..k : t[i] = s[i]
  OBVIOUS
<1> HIDE DEF t
<1>2. SubSeq(t, 1, k) = t
  BY <1>1
<1>3. SubSeq(s, 1, k) = t /\ SubSeq(s, 1, 0) = <<>> /\ SubSeq(<<>>, 1, 0) = <<>> /\ SubSeq(s, 1, Len(s)) = s
  BY <1>1 DEF t
<1>4. Net!IsPrefix(t, s)
  BY <1>1, <1>2, <1>3 DEF Net!IsPrefix
<1>5. Net!IsPrefix(<<>>, s)
  BY <1>1, <1>3 DEF Net!IsPrefix
<1> QED  BY <1>3, <1>4, <1>5 DEF t

LEMMA ParseLaw ==
  ASSUME setup.protocol \in {"midi1", "ump"}, NEW d, IsDatagram(d, setup.protocol), NEW name
  PROVE  Truthful(d, name, Net!Parse(d, name))
<1> DEFINE pr == setup.protocol
           h == Net!Parse(d, name)
<1>1. Len(d.tags) \in Nat /\ Carries(d, pr)
  BY DEF IsDatagram
<1>2. CASE ~IsOurs(d, pr)
  <2>1. h = <<>> /\ d.sent = <<>>
    BY <1>1, <1>2 DEF Net!Parse, IsOurs, Carries
  <2>2. Net!IsPrefix(<<>>, <<>>)
    BY DEF Net!IsPrefix
  <2> QED  BY <2>1, <2>2 DEF Truthful
<1>3. CASE IsOurs(d, pr) /\ pr = "midi1"
  <2>1. d.data \in Seq(MidiMessages) /\ (d.sent = d.data \/ (d.sent = <<>> /\ Len(d.data) # Len(d.tags)))
    BY <1>1, <1>3 DEF IsDatagram, Carries
  <2>2. h = IF d.name # name THEN <<>> ELSE IF Len(d.data) = Len(d.tags) THEN d.data ELSE <<>>
    BY <1>3 DEF Net!Parse, Net!ProcessMidi1, IsOurs
  <2>4. Net!IsPrefix(d.sent, d.sent) /\ Net!IsPrefix(<<>>, d.sent)
    <3> DEFINE s == d.sent
               all == d.data
    <3>1. all \in Seq(MidiMessages) /\ (s = all \/ s = <<>>)
      BY <2>1
    <3> HIDE DEF s, all
    <3>2. s \in Seq(MidiMessages)
      <4>1. <<>> \in Seq(MidiMessages)
        OBVIOUS
      <4> QED  BY <3>1, <4>1, Zenon
    <3>3. Len(s) \in 0..Len(s)
      BY <3>2
    <3>4. Net!IsPrefix(SubSeq(s, 1, Len(s)), s) /\ Net!IsPrefix(<<>>, s) /\ SubSeq(s, 1, Len(s)) = s
      BY <3>2, <3>3, PrefixesLaw
    <3> QED  BY <3>4, Zenon DEF s
  <2> HIDE DEF h
  <2> QED  BY <2>1, <2>2, <2>4 DEF Truthful, h
<1>4. CASE IsOurs(d, pr) /\ pr = "ump"
  <2>1. WholePackets(d)
    BY <1>1, <1>4 DEF IsDatagram, Carries, WholePackets
  <2>2. h = IF d.name # name THEN <<>> ELSE Net!ProcessUmp(d)
    BY <1>4 DEF Net!Parse, IsOurs
  <2>3. PICK k \in 0..Len(d.sent) :
           Net!ProcessUmp(d) = SubSeq(d.sent, 1, k) /\ (Len(d.tags) = Len(d.sent) /\ Sized(d.sent) => k = Len(d.sent))
    BY <1>1, <2>1, ProcessUmpLaw
  <2>4. Net!IsPrefix(SubSeq(d.sent, 1, k), d.sent) /\ Net!IsPrefix(<<>>, d.sent) /\ SubSeq(d.sent, 1, Len(d.sent)) = d.sent
    BY <2>1, PrefixesLaw DEF WholePackets
  <2> HIDE DEF h
  <2> QED  BY <2>2, <2>3, <2>4, Zenon DEF Truthful, h
<1> QED  BY <1>2, <1>3, <1>4

LEMMA PacketLaw ==
  ASSUME setup.protocol \in Protocols, NEW name, NEW ms \in Sends[setup.protocol]
  PROVE  IsDatagram(Net!Packet(name, ms), setup.protocol)
<1> DEFINE pr == setup.protocol
           d == Net!Packet(name, ms)
<1>1. /\ d.form = "message" /\ d.tags = <<pr>> /\ d.sent = ms
      /\ d.data = IF pr = "midi1" THEN ms ELSE WordsOf(ms)
  BY DEF Net!Packet, WordsOf
<1>2. pr \in {"midi1", "ump"} /\ Len(d.tags) \in Nat /\ IsOurs(d, pr)
  <2>1. pr \in {"midi1", "ump"}
    BY NetworkAssumption, Zenon
  <2> HIDE DEF pr, d
  <2>2. <<pr>> \in Seq({pr}) /\ Len(<<pr>>) = 1 /\ <<pr>>[1] = pr
    OBVIOUS
  <2>3. DOMAIN <<pr>> = 1..1
    BY <2>2
  <2> QED  BY <1>1, <2>1, <2>2, <2>3 DEF IsOurs
<1> HIDE DEF d
<1>3. CASE pr = "midi1"
  <2>1. ms \in Seq(MidiMessages)
    BY <1>3, NetworkAssumption
  <2> QED  BY <1>1, <1>2, <1>3, <2>1 DEF IsDatagram, Carries, d
<1>4. CASE pr = "ump"
  <2>1. ms \in Seq(UmpPackets)
    BY <1>4, NetworkAssumption
  <2> DEFINE w == WordsOf(ms)
  <2>2. w \in Seq(UmpWords)
    BY <2>1, WordsEnd
  <2> HIDE DEF w
  <2>3. Len(w) \in Nat /\ SubSeq(w, 1, Len(w)) = w
    BY <2>2
  <2>4. d.data = w /\ w = WordsOf(d.sent) /\ d.data \in Seq(UmpWords) /\ d.sent \in Seq(UmpPackets)
    BY <1>1, <1>4, <2>1, <2>2 DEF w
  <2>5. Carries(d, pr)
    BY <1>2, <1>4, <2>3, <2>4 DEF Carries
  <2> QED  BY <1>2, <1>4, <2>4, <2>5 DEF IsDatagram, d
<1> QED  BY <1>2, <1>3, <1>4

-----------------------------------------------------------------------------
(* The network input. What waits, at the socket, in the queue of the context  *)
(* or in a handler, is a datagram of our output or of another program.        *)

DatagramsOf(protocol) ==
  {d \in [form : {"message"}, name : Names \cup {""}, tags : {<<protocol>>}, sent : Sends[protocol],
          data : Seq(IF protocol = "midi1" THEN MidiMessages ELSE UmpWords)] \cup Foreign[protocol] :
     IsDatagram(d, protocol)}
Datagrams == DatagramsOf(setup.protocol)
HandlersOf(ds) == [ec : {"ok"}, d : ds] \cup {[ec |-> "bad_descriptor"], [ec |-> "aborted"], [ec |-> "none"]}
Handlers == HandlersOf(Datagrams)

NetPlaces == {"none", "run", "handler", "user", "again", "ended"}
NetTypes ==
  /\ setup.protocol \in Protocols /\ receives \in Nat
  /\ out \in [open : BOOLEAN, name : Names \cup {""}, socket : {"open", "closed"}]
  /\ inbox \in Seq(Datagrams) /\ queue \in Seq(Handlers)
  /\ threads \in [Net!Threads -> [at : NetPlaces, handler : Handlers]]

NetHears == NetTypes /\ Net!HearsWhatWasSent

LEMMA NetHearsInit == Net!Init => NetHears
<1> SUFFICES ASSUME Net!Init PROVE NetHears
  OBVIOUS
<1>1. NetTypes
  <2>1. [ec |-> "none"] \in Handlers
    BY DEF Handlers, HandlersOf
  <2>2. threads \in [Net!Threads -> [at : NetPlaces, handler : Handlers]]
    <3> DEFINE hs == Handlers
               none == [ec |-> "none"]
    <3>1. none \in hs
      BY <2>1
    <3>2. threads = [t \in Net!Threads |-> [at |-> IF ~setup.owned /\ t = 1 THEN "run" ELSE "none", handler |-> none]]
      BY Zenon DEF Net!Init, Net!None
    <3> HIDE DEF hs, none
    <3>3. threads \in [Net!Threads -> [at : NetPlaces, handler : hs]]
      BY <3>1, <3>2 DEF NetPlaces
    <3> QED  BY <3>3 DEF hs
  <2>3. setup.protocol \in Protocols /\ receives \in Nat /\ out \in [open : BOOLEAN, name : Names \cup {""}, socket : {"open", "closed"}]
    BY Zenon DEF Net!Init
  <2>4. inbox = <<>> /\ queue = <<>>
    BY Zenon DEF Net!Init
  <2>5. inbox \in Seq(Datagrams) /\ queue \in Seq(Handlers)
    BY <2>4
  <2> QED  BY <2>1, <2>2, <2>3, <2>4, <2>5, Zenon DEF NetTypes
<1>2. Net!HearsWhatWasSent
  BY Zenon DEF Net!Init, Net!HearsWhatWasSent, Net!Heard
<1> QED  BY <1>1, <1>2 DEF NetHears

LEMMA DatagramLaw ==
  ASSUME setup.protocol \in Protocols
  PROVE  /\ \A name \in Names \cup {""}, ms \in Sends[setup.protocol] : Net!Packet(name, ms) \in Datagrams
         /\ Foreign[setup.protocol] \subseteq Datagrams
         /\ \A d \in Datagrams : \A name : Truthful(d, name, Net!Parse(d, name))
<1> DEFINE pr == setup.protocol
<1>1. ASSUME NEW name \in Names \cup {""}, NEW ms \in Sends[pr] PROVE Net!Packet(name, ms) \in Datagrams
  <2> DEFINE d == Net!Packet(name, ms)
  <2>1. IsDatagram(d, pr)
    BY <1>1, PacketLaw, Zenon
  <2>2. d \in [form : {"message"}, name : Names \cup {""}, tags : {<<pr>>}, sent : Sends[pr],
               data : Seq(IF pr = "midi1" THEN MidiMessages ELSE UmpWords)]
    <3>1. d.data \in Seq(IF pr = "midi1" THEN MidiMessages ELSE UmpWords)
      BY <2>1, Zenon DEF IsDatagram
    <3>2. d = [form |-> "message", name |-> name, tags |-> <<pr>>, sent |-> ms, data |-> d.data]
      BY Zenon DEF Net!Packet
    <3> DEFINE data == d.data
    <3> HIDE DEF d, data
    <3>3. d = [form |-> "message", name |-> name, tags |-> <<pr>>, sent |-> ms, data |-> data]
      BY <3>2, Zenon DEF data
    <3>4. data \in Seq(IF pr = "midi1" THEN MidiMessages ELSE UmpWords)
      BY <3>1, Zenon DEF data
    <3> DEFINE all == Seq(IF pr = "midi1" THEN MidiMessages ELSE UmpWords)
               tags == <<pr>>
    <3> HIDE DEF all, tags
    <3>5. d \in [form : {"message"}, name : Names \cup {""}, tags : {tags}, sent : Sends[pr], data : all]
      BY <1>1, <3>3, <3>4, Zenon DEF all, tags
    <3> QED  BY <3>5, Zenon DEF all, tags
  <2> HIDE DEF d
  <2>3. d \in DatagramsOf(pr)
    BY <2>1, <2>2, Zenon DEF DatagramsOf
  <2> QED  BY <2>3, Zenon DEF d, Datagrams
<1>2. Foreign[pr] \subseteq Datagrams
  BY NetworkAssumption, Zenon DEF Datagrams, DatagramsOf
<1>3. ASSUME NEW d \in Datagrams, NEW name PROVE Truthful(d, name, Net!Parse(d, name))
  <2>1. IsDatagram(d, pr) /\ pr \in {"midi1", "ump"}
    BY <1>3, NetworkAssumption, Zenon DEF Datagrams, DatagramsOf
  <2> QED  BY <2>1, ParseLaw
<1>4. \A name \in Names \cup {""}, ms \in Sends[pr] : Net!Packet(name, ms) \in Datagrams
  BY <1>1, Zenon
<1>5. \A d \in Datagrams : \A name : Truthful(d, name, Net!Parse(d, name))
  BY <1>3
<1> HIDE DEF pr
<1> QED  BY <1>2, <1>4, <1>5, Zenon DEF pr

\* receive() leaves datagrams where there were.
LEMMA ReceiveLaw ==
  ASSUME receives \in Nat, inbox \in Seq(Datagrams), queue \in Seq(Handlers), Net!AsyncReceive
  PROVE  receives' \in Nat /\ inbox' \in Seq(Datagrams) /\ queue' \in Seq(Handlers)
<1>1. [ec |-> "bad_descriptor"] \in Handlers /\ \A d \in Datagrams : [ec |-> "ok", d |-> d] \in Handlers
  BY DEF Handlers, HandlersOf
<1>2. CASE m_socket = "closed"
  BY <1>1, <1>2 DEF Net!AsyncReceive
<1>3. CASE m_socket # "closed" /\ inbox = <<>>
  BY <1>3 DEF Net!AsyncReceive
<1>4. CASE m_socket # "closed" /\ inbox # <<>>
  <2>1. Head(inbox) \in Datagrams /\ Tail(inbox) \in Seq(Datagrams)
    BY <1>4
  <2> DEFINE h == [ec |-> "ok", d |-> Head(inbox)]
  <2>2. receives' = receives /\ inbox' = Tail(inbox) /\ queue' = Append(queue, h)
    BY <1>4 DEF Net!AsyncReceive
  <2>3. h \in Handlers
    BY <1>1, <2>1
  <2> HIDE DEF h
  <2>4. queue' \in Seq(Handlers)
    BY <2>2, <2>3
  <2> QED  BY <2>1, <2>2, <2>4
<1> QED  BY <1>2, <1>3, <1>4

LEMMA ArriveLaw ==
  ASSUME receives \in Nat, inbox \in Seq(Datagrams), queue \in Seq(Handlers), NEW d \in Datagrams, Net!Arrive(d)
  PROVE  receives' \in Nat /\ inbox' \in Seq(Datagrams) /\ queue' \in Seq(Handlers)
<1>1. [ec |-> "ok", d |-> d] \in Handlers
  BY DEF Handlers, HandlersOf
<1>2. CASE receives > 0
  <2>1. receives' = receives - 1 /\ queue' = Append(queue, [ec |-> "ok", d |-> d]) /\ inbox' = inbox
    BY <1>2 DEF Net!Arrive
  <2> DEFINE h == [ec |-> "ok", d |-> d]
  <2> HIDE DEF h
  <2>2. queue' \in Seq(Handlers)
    BY <1>1, <2>1 DEF h
  <2>3. receives' \in Nat
    BY <1>2, <2>1
  <2> QED  BY <2>1, <2>2, <2>3
<1>3. CASE ~(receives > 0)
  <2>1. Append(inbox, d) \in Seq(Datagrams) /\ <<d>> \o inbox \in Seq(Datagrams)
    OBVIOUS
  <2>2. inbox' \in {Append(inbox, d), <<d>> \o inbox} /\ receives' = receives /\ queue' = queue
    BY <1>3 DEF Net!Arrive
  <2> QED  BY <2>1, <2>2, Zenon
<1> QED  BY <1>2, <1>3


\* A thread goes to a place, with the handler that it has or with another.
LEMMA ThreadsLaw ==
  ASSUME NEW ts, NEW hs, NEW ths \in [ts -> [at : NetPlaces, handler : hs]], NEW t, NEW place \in NetPlaces, NEW h \in hs
  PROVE  /\ [ths EXCEPT ![t].at = place] \in [ts -> [at : NetPlaces, handler : hs]]
         /\ [ths EXCEPT ![t] = [at |-> place, handler |-> h]] \in [ts -> [at : NetPlaces, handler : hs]]
<1>1. CASE t \in ts
  <2>1. ths[t] \in [at : NetPlaces, handler : hs]
    BY <1>1
  <2>2. [ths[t] EXCEPT !.at = place] \in [at : NetPlaces, handler : hs] /\ [at |-> place, handler |-> h] \in [at : NetPlaces, handler : hs]
    BY <2>1
  <2> DEFINE A == [at : NetPlaces, handler : hs]
             a == [ths[t] EXCEPT !.at = place]
             b == [at |-> place, handler |-> h]
  <2>3. a \in A /\ b \in A /\ ths \in [ts -> A]
    BY <2>2
  <2> HIDE DEF A, a, b
  <2>4. [ths EXCEPT ![t] = a] \in [ts -> A] /\ [ths EXCEPT ![t] = b] \in [ts -> A]
    BY <2>3, Zenon
  <2> QED  BY <2>4 DEF A, a, b
<1>2. CASE t \notin ts
  <2> DEFINE A == [at : NetPlaces, handler : hs]
             a == [ths[t] EXCEPT !.at = place]
             b == [at |-> place, handler |-> h]
  <2>1. ths \in [ts -> A]
    OBVIOUS
  <2> HIDE DEF A, a, b
  <2>2. [ths EXCEPT ![t] = a] \in [ts -> A] /\ [ths EXCEPT ![t] = b] \in [ts -> A]
    BY <1>2, <2>1, Zenon
  <2> QED  BY <2>2 DEF A, a, b
<1> QED  BY <1>1, <1>2

\* Each step of the network ports keeps NetTypes.
LEMMA NetTypesStep ==
  ASSUME NetTypes, Net!Next
  PROVE  NetTypes' /\ setup' = setup
<1> DEFINE ds == Datagrams
           hs == Handlers
           ths == [Net!Threads -> [at : NetPlaces, handler : hs]]
           outs == [open : BOOLEAN, name : Names \cup {""}, socket : {"open", "closed"}]
           Socket == receives' \in Nat /\ inbox' \in Seq(ds) /\ queue' \in Seq(hs)
           Handling == threads' \in ths
           Open == out' \in outs
<1>1. setup' = setup
  BY Zenon DEF Net!Next, Net!Output, Net!Network, Net!Application, Net!Context, Net!OutOpen, Net!Send, Net!OutClose, Net!Arrive,
    Net!OpenPort, Net!Assign, Net!ClosePort, Net!Destroy, Net!Stop, Net!CloseSocket, Net!Join,
    Net!Run, Net!Aborted, Net!OnBytes, Net!UserReturns, Net!Again, Net!out_vars
<1>2. Datagrams' = Datagrams /\ Handlers' = Handlers
  BY <1>1 DEF Datagrams, Handlers
<1>3. [ec |-> "none"] \in hs /\ [ec |-> "aborted"] \in hs
  BY DEF Handlers, HandlersOf
<1>4. /\ setup.protocol \in Protocols /\ receives \in Nat /\ out \in outs
      /\ inbox \in Seq(ds) /\ queue \in Seq(hs) /\ threads \in ths
  BY Zenon DEF NetTypes
<1>5. Socket /\ Handling /\ Open => NetTypes' /\ setup' = setup
  BY <1>1, <1>2, <1>4, Zenon DEF NetTypes
<1>7. ASSUME NEW d \in ds, Net!Arrive(d) PROVE Socket /\ Handling /\ Open
  <2>1. Socket
    BY <1>4, <1>7, ArriveLaw, Zenon
  <2> HIDE DEF ds, hs, ths, outs
  <2> QED  BY <1>4, <1>7, <2>1 DEF Net!Arrive, Net!out_vars
<1>8. ASSUME NEW n \in Names, Net!OutOpen(n) PROVE Socket /\ Handling /\ Open
  <2> HIDE DEF ds, hs, ths
  <2>1. Open
    BY <1>4, <1>8, Zenon DEF Net!OutOpen
  <2> HIDE DEF outs
  <2> QED  BY <1>4, <1>8, <2>1 DEF Net!OutOpen, Net!socket_vars, Net!context_vars
<1>9. ASSUME NEW ms \in Sends[setup.protocol], Net!Send(ms) PROVE Socket /\ Handling /\ Open
  <2>1. Net!Packet(out.name, ms) \in ds /\ Net!Arrive(Net!Packet(out.name, ms))
    BY <1>4, <1>9, DatagramLaw, Zenon DEF Net!Send
  <2> HIDE DEF Socket, Handling, Open
  <2> QED  BY <1>7, <2>1
<1>10. CASE Net!OutClose
  <2> HIDE DEF ds, hs, ths
  <2>1. Open
    BY <1>4, <1>10, Zenon DEF Net!OutClose
  <2> HIDE DEF outs
  <2>2. Socket /\ Handling
    BY <1>4, <1>10 DEF Net!OutClose, Net!socket_vars, Net!context_vars
  <2>3. Socket /\ Handling /\ Open
    BY <2>1, <2>2
  <2> QED  BY <1>5, <2>3, Zenon DEF ds, hs, ths, outs
<1>11. CASE Net!Network
  <2>1. PICK d \in Foreign[setup.protocol] : Net!Arrive(d)
    BY <1>11 DEF Net!Network
  <2>2. d \in ds
    BY <1>4, DatagramLaw, Zenon
  <2> HIDE DEF Socket, Handling, Open
  <2> QED  BY <1>5, <1>7, <2>1, <2>2
<1>12. CASE Net!Application
  <2>1. Open
    <3> HIDE DEF ds, hs, ths, outs
    <3> QED  BY <1>4, <1>12, Zenon DEF Net!Application, Net!OpenPort, Net!Assign, Net!ClosePort, Net!Destroy, Net!Stop, Net!CloseSocket,
               Net!Join, Net!out_vars
  <2>2. Handling
    <3>1. threads' = threads \/ threads' = [threads EXCEPT ![openings + 1].at = "run"]
      BY <1>12, Zenon DEF Net!Application, Net!OpenPort, Net!Assign, Net!ClosePort, Net!Destroy, Net!Stop, Net!CloseSocket, Net!Join
    <3>2. "run" \in NetPlaces
      BY DEF NetPlaces
    <3>3. [threads EXCEPT ![openings + 1].at = "run"] \in ths
      BY <1>3, <1>4, <3>2, ThreadsLaw, Zenon
    <3> HIDE DEF ths
    <3> QED  BY <1>4, <3>1, <3>3, Zenon
  <2>3. Socket
    <3>1. ASSUME NEW n \in Names, Net!OpenPort(n) PROVE Socket
      BY <1>4, <3>1, ReceiveLaw, Zenon DEF Net!OpenPort
    <3> HIDE DEF ds, hs
    <3>2. ASSUME Net!CloseSocket PROVE Socket
      <4> DEFINE more == [i \in 1..receives |-> [ec |-> "aborted"]]
      <4>1. inbox' = <<>> /\ receives' = 0 /\ queue' = queue \o more
        BY <3>2, Zenon DEF Net!CloseSocket
      <4>2. \A x \in hs : queue \o [i \in 1..receives |-> x] \in Seq(hs)
        BY <1>4, SameMany, Zenon
      <4> DEFINE all == queue \o more
      <4>3. all \in Seq(hs) /\ queue' = all
        BY <1>3, <4>1, <4>2, Zenon
      <4> HIDE DEF more, all
      <4>4. inbox' \in Seq(ds) /\ receives' \in Nat
        BY <4>1
      <4> QED  BY <4>3, <4>4
    <3>3. ASSUME Net!Join PROVE Socket
      <4>1. inbox' = inbox /\ receives' = receives /\ (queue' = queue \/ queue' = <<>>)
        BY <3>3 DEF Net!Join, Net!socket_vars
      <4>2. <<>> \in Seq(hs)
        OBVIOUS
      <4>3. queue' \in Seq(hs)
        BY <1>4, <4>1, <4>2, Zenon
      <4> QED  BY <1>4, <4>1, <4>3, Zenon
    <3>4. ASSUME Net!Assign \/ Net!ClosePort \/ Net!Destroy \/ Net!Stop PROVE Socket
      <4>1. inbox' = inbox /\ queue' = queue /\ receives' = receives
        BY <3>4, Zenon DEF Net!Assign, Net!ClosePort, Net!Destroy, Net!Stop, Net!socket_vars, Net!context_vars
      <4> QED  BY <1>4, <4>1, Zenon
    <3> HIDE DEF Socket
    <3> QED  BY <1>12, <3>1, <3>2, <3>3, <3>4 DEF Net!Application
  <2> HIDE DEF Socket, Handling, Open
  <2> QED  BY <1>5, <2>1, <2>2, <2>3
<1>13. CASE Net!Context
  <2>1. PICK t \in Net!Threads : Net!Run(t) \/ Net!Aborted(t) \/ Net!OnBytes(t) \/ Net!UserReturns(t) \/ Net!Again(t)
    BY <1>13 DEF Net!Context
  <2>2. Open
    <3> HIDE DEF ds, hs, ths, outs
    <3> QED  BY <1>4, <2>1, Zenon DEF Net!Run, Net!Aborted, Net!OnBytes, Net!UserReturns, Net!Again, Net!out_vars
  <2>3. \A place \in NetPlaces, h \in hs :
          [threads EXCEPT ![t].at = place] \in ths /\ [threads EXCEPT ![t] = [at |-> place, handler |-> h]] \in ths
    BY <1>4, ThreadsLaw, Zenon
  <2>4. {"run", "ended", "handler", "again", "user"} \subseteq NetPlaces
    BY DEF NetPlaces
  <2>5. ASSUME Net!Run(t) PROVE Socket /\ Handling
    <3> HIDE DEF ds, hs, ths
    <3>1. inbox' = inbox /\ receives' = receives
      BY <2>5 DEF Net!Run, Net!socket_vars
    <3>2. CASE stopped
      <4>1. threads' = [threads EXCEPT ![t].at = "ended"] /\ queue' = queue
        BY <2>5, <3>2 DEF Net!Run, Net!Goto
      <4> QED  BY <1>3, <1>4, <2>3, <2>4, <3>1, <4>1, Zenon
    <3>3. CASE ~stopped
      <4>1. /\ queue # <<>> /\ queue' = Tail(queue)
            /\ threads' = [threads EXCEPT ![t] = [at |-> "handler", handler |-> Head(queue)]]
        BY <2>5, <3>3 DEF Net!Run
      <4>2. Head(queue) \in hs /\ Tail(queue) \in Seq(hs)
        BY <1>4, <4>1, TailLaw, Zenon
      <4> QED  BY <1>4, <2>3, <2>4, <3>1, <4>1, <4>2, Zenon
    <3> QED  BY <3>2, <3>3
  <2>6. ASSUME Net!Aborted(t) PROVE Socket /\ Handling
    <3>1. threads' = [threads EXCEPT ![t] = [at |-> "run", handler |-> [ec |-> "none"]]]
      BY <2>6 DEF Net!Aborted, Net!None
    <3> HIDE DEF ds, hs, ths
    <3>2. Handling
      BY <1>3, <2>3, <2>4, <3>1, Zenon
    <3> QED  BY <1>4, <2>6, <3>2, Zenon DEF Net!Aborted, Net!socket_vars
  <2>7. ASSUME Net!OnBytes(t) \/ Net!UserReturns(t) PROVE Socket /\ Handling
    <3> HIDE DEF ds, hs, ths
    <3>1. PICK place \in {"again", "user"} : threads' = [threads EXCEPT ![t].at = place]
      BY <2>7 DEF Net!OnBytes, Net!UserReturns, Net!Goto
    <3>2. Handling
      BY <1>3, <2>3, <2>4, <3>1, Zenon
    <3> QED  BY <1>4, <2>7, <3>2, Zenon DEF Net!OnBytes, Net!UserReturns, Net!socket_vars, Net!context_vars
  <2>8. ASSUME Net!Again(t) PROVE Socket /\ Handling
    <3>1. Socket
      BY <1>4, <2>8, ReceiveLaw, Zenon DEF Net!Again
    <3>2. threads' = [threads EXCEPT ![t] = [at |-> "run", handler |-> [ec |-> "none"]]]
      BY <2>8, Zenon DEF Net!Again, Net!None
    <3> HIDE DEF ds, hs, ths
    <3>3. Handling
      BY <1>3, <2>3, <2>4, <3>2, Zenon
    <3> QED  BY <3>1, <3>3
  <2> HIDE DEF Socket, Handling, Open
  <2> QED  BY <1>5, <2>1, <2>2, <2>5, <2>6, <2>7, <2>8
<1>14. CASE Net!Output
  <2> HIDE DEF Socket, Handling, Open
  <2> QED  BY <1>5, <1>8, <1>9, <1>10, <1>14 DEF Net!Output
<1> QED  BY <1>10, <1>11, <1>12, <1>13, <1>14 DEF Net!Next

LEMMA NetHearsStep == NetHears /\ [Net!Next]_netvars => NetHears'
<1> SUFFICES ASSUME NetHears, [Net!Next]_netvars PROVE NetHears'
  OBVIOUS
<1>1. CASE UNCHANGED netvars
  <2>1. setup' = setup /\ receives' = receives /\ out' = out /\ inbox' = inbox /\ queue' = queue /\ threads' = threads /\ last' = last
    BY <1>1 DEF netvars
  <2>2. Datagrams' = Datagrams /\ Handlers' = Handlers
    BY <2>1 DEF Datagrams, Handlers
  <2> QED  BY <2>1, <2>2, Zenon DEF NetHears, NetTypes, Net!HearsWhatWasSent
<1>2. CASE Net!Next
  <2>1. NetTypes' /\ setup' = setup
    BY <1>2, NetTypesStep DEF NetHears
  <2>2. CASE last' = last \/ last' = Net!Heard(Net!None, "", <<>>)
    <3>1. Net!HearsWhatWasSent'
      <4>1. CASE last' = last
        BY <4>1 DEF NetHears, Net!HearsWhatWasSent
      <4>2. CASE last' = Net!Heard(Net!None, "", <<>>)
        <5>1. last'.d = Net!None
          BY <4>2, Zenon DEF Net!Heard
        <5> QED  BY <5>1 DEF Net!HearsWhatWasSent
      <4> QED  BY <2>2, <4>1, <4>2, Zenon
    <3> QED  BY <2>1, <3>1 DEF NetHears
  <2>3. ASSUME NEW t \in Net!Threads, Net!OnBytes(t) PROVE NetHears'
    <3> DEFINE d == threads[t].handler.d
    <3>1. d \in Datagrams
      <4>1. threads[t].handler \in Handlers /\ threads[t].handler.ec = "ok"
        BY <2>3, Zenon DEF NetHears, NetTypes, Net!OnBytes
      <4> QED  BY <4>1 DEF Handlers, HandlersOf
    <3>2. PICK name : last' = Net!Heard(d, name, Net!Parse(d, name))
      BY <2>3 DEF Net!OnBytes
    <3> HIDE DEF d
    <3> DEFINE h == Net!Parse(d, name)
    <3>3. Truthful(d, name, h)
      BY <3>1, DatagramLaw, Zenon DEF NetHears, NetTypes
    <3> HIDE DEF h
    <3>4. last'.d = d /\ last'.name = name /\ last'.heard = h
      BY <3>2 DEF h, Net!Heard
    <3>5. Net!HearsWhatWasSent'
      <4>1. Net!IsPrefix(h, d.sent) /\ (d.name # name => h = <<>>)
        BY <3>3 DEF Truthful
      <4>2. d.name = name /\ Len(d.tags) = Len(d.sent) /\ (\A i \in DOMAIN d.sent : d.sent[i].size # 0) => h = d.sent
        BY <3>3 DEF Truthful, Sized
      <4> QED  BY <3>4, <4>1, <4>2 DEF Net!HearsWhatWasSent
    <3> QED  BY <2>1, <3>5 DEF NetHears
  <2>4. last' = last \/ last' = Net!Heard(Net!None, "", <<>>) \/ \E t \in Net!Threads : Net!OnBytes(t)
    BY <1>2, Zenon DEF Net!Next, Net!Output, Net!Network, Net!Application, Net!Context, Net!OutOpen, Net!Send, Net!OutClose, Net!Arrive,
      Net!OpenPort, Net!Assign, Net!ClosePort, Net!Destroy, Net!Stop, Net!CloseSocket, Net!Join,
      Net!Run, Net!Aborted, Net!UserReturns, Net!Again
  <2> QED  BY <2>2, <2>3, <2>4, Zenon
<1> QED  BY <1>1, <1>2
-----------------------------------------------------------------------------
(* The keys of a computer, which do not repeat: a key that is pressed was up. *)

LEMMA KeysInit == Keyboard!Init => Keyboard!NothingHangs
BY DEF Keyboard!Init, Keyboard!NothingHangs

LEMMA KeysStep ==
  ASSUME ~AutoRepeat, Keyboard!NothingHangs, [Keyboard!Next]_kbdvars
  PROVE  Keyboard!NothingHangs'
<1> USE DEF Keyboard!NothingHangs
<1>1. SUFFICES ASSUME NEW n \in sounding'
               PROVE  \E j \in Keyboard!Notes \cap held' :
                        j \in DOMAIN m_current_notes_scancodes' /\ m_current_notes_scancodes'[j] = n
  OBVIOUS
<1>2. CASE UNCHANGED kbdvars
  BY <1>1, <1>2 DEF kbdvars
<1>3. ASSUME NEW k \in DOMAIN ScancodeMap, Keyboard!PressNote(k)
      PROVE  \E j \in Keyboard!Notes \cap held' :
               j \in DOMAIN m_current_notes_scancodes' /\ m_current_notes_scancodes'[j] = n
  <2> DEFINE note == (ScancodeMap[k].value + 12 * m_current_octave) % 256
             is == ScancodeMap[k].is
  <2>1. /\ is = "note" /\ k \notin held /\ held' = held \cup {k}
        /\ sounding' = IF m_current_velocity > 0 THEN sounding \cup {note} ELSE sounding \ {note}
        /\ m_current_notes_scancodes' =
             [j \in DOMAIN m_current_notes_scancodes \cup {k} |-> IF j = k THEN note ELSE m_current_notes_scancodes[j]]
    BY <1>3 DEF Keyboard!PressNote, Keyboard!Press, Keyboard!note_on
  <2>2. k \in Keyboard!Notes
    BY <2>1 DEF Keyboard!Notes
  <2> HIDE DEF note, is
  <2>3. CASE n = note
    BY <2>1, <2>2, <2>3
  <2>4. CASE n # note
    <3>1. PICK j \in Keyboard!Notes \cap held : j \in DOMAIN m_current_notes_scancodes /\ m_current_notes_scancodes[j] = n
      BY <1>1, <2>1, <2>4
    <3> QED  BY <2>1, <3>1
  <2> QED  BY <2>3, <2>4
<1>4. ASSUME NEW k \in DOMAIN ScancodeMap, Keyboard!PressVelocity(k) \/ Keyboard!PressOctave(k)
      PROVE  \E j \in Keyboard!Notes \cap held' :
               j \in DOMAIN m_current_notes_scancodes' /\ m_current_notes_scancodes'[j] = n
  <2>1. held' = held \cup {k} /\ sounding' = sounding /\ m_current_notes_scancodes' = m_current_notes_scancodes
    BY <1>4 DEF Keyboard!PressVelocity, Keyboard!PressOctave, Keyboard!Press
  <2> QED  BY <1>1, <2>1
<1>5. ASSUME NEW k \in DOMAIN ScancodeMap, Keyboard!ReleaseNote(k)
      PROVE  \E j \in Keyboard!Notes \cap held' :
               j \in DOMAIN m_current_notes_scancodes' /\ m_current_notes_scancodes'[j] = n
  <2>1. held' = held \ {k}
    BY <1>5 DEF Keyboard!ReleaseNote, Keyboard!Release
  <2>2. CASE k \in DOMAIN m_current_notes_scancodes
    <3>1. /\ sounding' = sounding \ {m_current_notes_scancodes[k]}
          /\ m_current_notes_scancodes' = [j \in DOMAIN m_current_notes_scancodes \ {k} |-> m_current_notes_scancodes[j]]
      BY <1>5, <2>2 DEF Keyboard!ReleaseNote, Keyboard!note_off
    <3>2. PICK j \in Keyboard!Notes \cap held : j \in DOMAIN m_current_notes_scancodes /\ m_current_notes_scancodes[j] = n
      BY <1>1, <3>1
    <3>3. j # k
      BY <1>1, <3>1, <3>2
    <3> QED  BY <2>1, <3>1, <3>2, <3>3
  <2>3. CASE k \notin DOMAIN m_current_notes_scancodes
    <3>1. sounding' = sounding /\ m_current_notes_scancodes' = m_current_notes_scancodes
      BY <1>5, <2>3 DEF Keyboard!ReleaseNote
    <3> QED  BY <1>1, <2>1, <2>3, <3>1
  <2> QED  BY <2>2, <2>3
<1>6. ASSUME NEW k \in DOMAIN ScancodeMap, Keyboard!ReleaseOther(k)
      PROVE  \E j \in Keyboard!Notes \cap held' :
               j \in DOMAIN m_current_notes_scancodes' /\ m_current_notes_scancodes'[j] = n
  <2>1. ScancodeMap[k].is # "note" /\ held' = held \ {k} /\ sounding' = sounding
        /\ m_current_notes_scancodes' = m_current_notes_scancodes
    BY <1>6 DEF Keyboard!ReleaseOther, Keyboard!Release
  <2>2. k \notin Keyboard!Notes
    BY <2>1 DEF Keyboard!Notes
  <2> QED  BY <1>1, <2>1, <2>2
<1> QED  BY <1>2, <1>3, <1>4, <1>5, <1>6 DEF Keyboard!Next

-----------------------------------------------------------------------------
(* What an input of a service hears. What the service calls back is what was  *)
(* asked for last, but for the inputs that keep something of an opening: the  *)
(* group of Windows MIDI Services, the request of Android.                    *)

Keeps == IsIn({"winmidi", "android"})
Again == Keeps /\ in_tries > 1

InOpenings ==
  /\ in_tries \in Nat
  /\ listening \in Sources \cup {"virtual", "none"} /\ in_asked \in Sources \cup {"virtual", "none"}
  /\ in_requests \in Seq(Sources)
  /\ in_tries = 0 => listening = "none" /\ in_requests = <<>> /\ m_group_filter = -1
InListens ==
  ~Again => (listening # "none" => listening = in_asked) /\ in_requests \in Seq({in_asked})
InFilters ==
  /\ ~IsIn({"winmidi"}) => m_group_filter = -1
  /\ ~Again /\ IsIn({"winmidi"}) =>
       (listening \in Sources => m_group_filter = In!First(listening)) /\ (listening = "virtual" => m_group_filter = -1)
InTold == ~Again => delivered.heard = delivered.meant

InTells == InOpenings /\ InListens /\ InFilters /\ InTold

LEMMA TellsInit == In!Init => InTells
<1> SUFFICES ASSUME In!Init PROVE InTells
  OBVIOUS
<1>1. /\ in_tries = 0 /\ listening = "none" /\ in_asked = "none" /\ in_requests = <<>> /\ m_group_filter = -1
      /\ delivered.heard = delivered.meant
  BY DEF In!Init, In!None, In!NoFilter
<1>2. in_requests \in Seq({in_asked})
  BY <1>1
<1>3. InListens
  BY <1>1, <1>2 DEF InListens
<1> QED  BY <1>1, <1>3, PortsAssumption DEF InTells, InOpenings, InFilters, InTold

\* A step that opens nothing and calls nobody back.
LEMMA TellsKept ==
  ASSUME InTells, UNCHANGED <<input, in_tries, in_asked, m_group_filter, delivered>>,
         listening' \in {listening, "none"}, in_requests' = in_requests
  PROVE  InTells'
<1>1. Again' = Again /\ Keeps' = Keeps /\ \A names : IsIn(names)' = IsIn(names)
  BY DEF Again, Keeps, IsIn
<1>2. InOpenings'
  BY DEF InTells, InOpenings
<1>3. InListens'
  BY <1>1 DEF InTells, InListens
<1>4. InFilters'
  BY <1>1, PortsAssumption DEF InTells, InFilters, In!First
<1>5. InTold'
  BY <1>1 DEF InTells, InTold
<1> QED  BY <1>2, <1>3, <1>4, <1>5 DEF InTells

LEMMA TellsOpens ==
  ASSUME InInv, InTells, NEW a \in Sources \cup {"virtual"}, ~in_port_open,
         in_tries' = in_tries + 1, in_asked' = a, UNCHANGED <<input, delivered>>,
         listening' \in {listening, a, "none"},
         in_requests' = in_requests \/ (a \in Sources /\ IsIn({"android"}) /\ in_requests' = Append(in_requests, a)),
         \/ IsIn({"winmidi"}) /\ a \in Sources /\ m_group_filter' = In!First(a)
         \/ m_group_filter' = m_group_filter /\ (IsIn({"winmidi"}) => listening' \in {listening, "none"} \/ a = "virtual")
  PROVE  InTells'
<1>1. Keeps' = Keeps /\ \A names : IsIn(names)' = IsIn(names)
  BY DEF Keeps, IsIn
<1>2. in_tries \in Nat /\ in_tries' \in Nat /\ in_tries' > 0 /\ (in_tries' > 1 <=> in_tries > 0)
  BY DEF InTells, InOpenings
<1>3. ~Again' => ~Again /\ listening = "none" /\ in_requests = <<>> /\ (IsIn({"winmidi"}) => m_group_filter = -1)
  <2> SUFFICES ASSUME ~Again' PROVE ~Again /\ listening = "none" /\ in_requests = <<>> /\ (IsIn({"winmidi"}) => m_group_filter = -1)
    OBVIOUS
  <2>1. ~Keeps \/ in_tries = 0
    BY <1>1, <1>2 DEF Again
  <2>2. ~Again
    BY <2>1 DEF Again
  <2>3. CASE in_tries = 0
    BY <2>2, <2>3 DEF InTells, InOpenings
  <2>4. CASE ~Keeps
    BY <2>2, <2>4 DEF Keeps, IsIn, InInv, InHears, InRequests
  <2> QED  BY <2>1, <2>3, <2>4
<1>4. in_requests' \in Seq(Sources)
  <2>1. in_requests \in Seq(Sources)
    BY DEF InTells, InOpenings
  <2>2. a \in Sources => Append(in_requests, a) \in Seq(Sources)
    BY <2>1
  <2> QED  BY <2>1, <2>2
<1>5. InOpenings'
  BY <1>2, <1>4 DEF InTells, InOpenings
<1>6. InListens'
  <2>1. SUFFICES ASSUME ~Again' PROVE (listening' # "none" => listening' = a) /\ in_requests' \in Seq({a})
    BY DEF InListens
  <2>2. listening = "none" /\ in_requests = <<>>
    BY <1>3, <2>1
  <2>3. in_requests \in Seq({a}) /\ Append(in_requests, a) \in Seq({a})
    BY <2>2, EmptyOf
  <2> QED  BY <2>2, <2>3, Zenon
<1>7. InFilters'
  <2>1. ~IsIn({"winmidi"}) => m_group_filter' = -1
    BY DEF InTells, InFilters
  <2>2. ASSUME ~Again', IsIn({"winmidi"})
        PROVE  (listening' \in Sources => m_group_filter' = In!First(listening')) /\ (listening' = "virtual" => m_group_filter' = -1)
    <3>1. listening = "none" /\ m_group_filter = -1
      BY <1>3, <2>2
    <3>2. listening' \in {"none", a}
      BY <3>1
    <3> QED  BY <2>2, <3>1, <3>2, PortsAssumption
  <2> QED  BY <1>1, <2>1, <2>2 DEF InFilters
<1>8. InTold'
  BY <1>3 DEF InTells, InTold
<1> QED  BY <1>5, <1>6, <1>7, <1>8 DEF InTells

LEMMA TellsHears ==
  ASSUME InTells, NEW g, listening # "none", In!Hear(g)
  PROVE  InTells'
<1> DEFINE ours == listening = "virtual" \/ g \in Block[listening]
           passes == m_group_filter = -1 \/ g = m_group_filter
           meant == listening = in_asked /\ (ours \/ ~IsIn({"winmidi"}))
<1>1. UNCHANGED <<input, in_tries, in_asked, m_group_filter, listening, in_requests>>
  BY DEF In!Hear, In!object, In!native, In!android
<1>2. delivered' = [meant |-> meant, heard |-> passes]
  BY DEF In!Hear, In!Virtual, In!NoFilter, In!Is, IsIn
<1>3. Again' = Again /\ Keeps' = Keeps /\ \A names : IsIn(names)' = IsIn(names)
  BY <1>1 DEF Again, Keeps, IsIn
<1>4. InOpenings' /\ InListens' /\ InFilters'
  <2>1. InOpenings'
    BY <1>1 DEF InTells, InOpenings
  <2>2. InListens'
    BY <1>1, <1>3 DEF InTells, InListens
  <2>3. InFilters'
    BY <1>1, <1>3 DEF InTells, InFilters
  <2> QED  BY <2>1, <2>2, <2>3
<1>5. ASSUME ~Again PROVE meant <=> passes
  <2>1. listening = in_asked /\ listening \in Sources \cup {"virtual"}
    BY <1>5 DEF InTells, InOpenings, InListens
  <2>2. CASE ~IsIn({"winmidi"})
    BY <2>1, <2>2 DEF InTells, InFilters
  <2>3. CASE IsIn({"winmidi"}) /\ listening = "virtual"
    BY <1>5, <2>1, <2>3 DEF InTells, InFilters
  <2>4. CASE IsIn({"winmidi"}) /\ listening \in Sources
    <3>1. PICK b \in Nat : Block[listening] = {b}
      BY <2>4, PortsAssumption
    <3>2. In!First(listening) = b
      BY <3>1 DEF In!First
    <3>3. m_group_filter = b /\ listening # "virtual"
      BY <1>5, <2>4, <3>2, PortsAssumption DEF InTells, InFilters
    <3>4. passes <=> g = b
      BY <3>1, <3>3
    <3>5. meant <=> g = b
      BY <2>1, <2>4, <3>1, <3>3
    <3> QED  BY <3>4, <3>5
  <2> QED  BY <2>1, <2>2, <2>3, <2>4
<1>6. ~Again => meant = passes
  BY <1>5
<1> HIDE DEF meant, passes
<1>7. InTold'
  BY <1>2, <1>3, <1>6 DEF InTold
<1> QED  BY <1>4, <1>7 DEF InTells

LEMMA TellsStep ==
  ASSUME InInv, InTells, [In!Next]_invars
  PROVE  InTells'
<1> USE DEF In!None, In!Virtual, In!object, In!native, In!android, In!heard
<1>1. ASSUME NEW d \in Sources, In!InOpenPort(d) PROVE InTells'
  <2>1. PICK ret \in BOOLEAN :
           In!CoreMidiOpen(d, ret) \/ In!WinuwpOpen(d, ret) \/ In!WinmidiOpen(d, ret)
             \/ In!WebmidiOpen(d, ret) \/ In!AndroidOpen(d, ret) \/ In!RawioOpen(d, ret)
    BY <1>1 DEF In!InOpenPort
  <2>2. ~in_port_open /\ in_tries' = in_tries + 1 /\ in_asked' = d /\ UNCHANGED <<input, delivered>>
    BY <1>1 DEF In!InOpenPort
  <2>3. listening' \in {listening, d, "none"}
    BY <2>1 DEF In!CoreMidiOpen, In!WinuwpOpen, In!WinmidiOpen, In!WebmidiOpen, In!AndroidOpen, In!RawioOpen
  <2>4. in_requests' = in_requests \/ (IsIn({"android"}) /\ in_requests' = Append(in_requests, d))
    BY <2>1 DEF In!CoreMidiOpen, In!WinuwpOpen, In!WinmidiOpen, In!WebmidiOpen, In!AndroidOpen, In!RawioOpen,
      In!OpenDevice, In!Is, IsIn
  <2>5. \/ IsIn({"winmidi"}) /\ m_group_filter' = In!First(d)
        \/ m_group_filter' = m_group_filter /\ (IsIn({"winmidi"}) => listening' \in {listening, "none"})
    <3>1. CASE In!WinmidiOpen(d, ret)
      BY <3>1 DEF In!WinmidiOpen, In!Is, IsIn
    <3>2. CASE ~In!WinmidiOpen(d, ret)
      BY <2>1, <3>2 DEF In!CoreMidiOpen, In!WinuwpOpen, In!WebmidiOpen, In!AndroidOpen, In!RawioOpen, In!Is, In!CoreMidi, IsIn
    <3> QED  BY <3>1, <3>2
  <2> QED  BY <1>1, <2>2, <2>3, <2>4, <2>5, TellsOpens
<1>2. CASE In!InOpenVirtual
  <2>1. PICK ret \in BOOLEAN :
           In!CoreMidiOpenVirtual(ret) \/ In!WinmidiOpenVirtual(ret) \/ In!RawioOpen("virtual", ret)
    BY <1>2 DEF In!InOpenVirtual
  <2>2. ~in_port_open /\ in_tries' = in_tries + 1 /\ in_asked' = "virtual" /\ UNCHANGED <<input, delivered>>
    BY <1>2 DEF In!InOpenVirtual
  <2>3. listening' \in {listening, "virtual", "none"} /\ in_requests' = in_requests /\ m_group_filter' = m_group_filter
    BY <2>1 DEF In!CoreMidiOpenVirtual, In!WinmidiOpenVirtual, In!RawioOpen
  <2> QED  BY <2>2, <2>3, TellsOpens
<1>3. ASSUME NEW g, In!CallBack(g) \/ In!PollMidi(g) PROVE InTells'
  <2>1. listening # "none" /\ In!Hear(g)
    BY <1>3 DEF In!CallBack, In!PollMidi
  <2> QED  BY <2>1, TellsHears
<1>4. CASE In!DeviceOpened
  <2>1. /\ in_requests # <<>> /\ in_requests' = Tail(in_requests) /\ listening' \in {listening, Head(in_requests), "none"}
        /\ UNCHANGED <<input, in_tries, in_asked, m_group_filter, delivered>>
    BY <1>4 DEF In!DeviceOpened
  <2>2. Again' = Again /\ Keeps' = Keeps /\ \A names : IsIn(names)' = IsIn(names)
    BY <2>1 DEF Again, Keeps, IsIn
  <2>3. IsIn({"android"}) /\ ~IsIn({"winmidi"})
    BY <2>1 DEF InInv, InRequests, IsIn
  <2>4. InOpenings'
    <3>1. in_requests \in Seq(Sources) /\ in_tries # 0
      BY <2>1 DEF InTells, InOpenings
    <3>2. Head(in_requests) \in Sources /\ Tail(in_requests) \in Seq(Sources)
      BY <2>1, <3>1
    <3> QED  BY <2>1, <3>1, <3>2 DEF InTells, InOpenings
  <2>5. InListens'
    <3>1. ASSUME ~Again PROVE Head(in_requests) = in_asked /\ Tail(in_requests) \in Seq({in_asked})
      <4>1. in_requests \in Seq({in_asked})
        BY <3>1 DEF InTells, InListens
      <4> QED  BY <2>1, <4>1, TailOf
    <3> QED  BY <2>1, <2>2, <3>1 DEF InTells, InListens
  <2>6. InFilters' /\ InTold'
    BY <2>1, <2>2, <2>3 DEF InTells, InFilters, InTold
  <2> QED  BY <2>4, <2>5, <2>6 DEF InTells
<1>5. CASE In!InClosePort
  <2>1. listening' \in {listening, "none"}
    BY <1>5 DEF In!InClosePort, In!CloseNative, In!CloseCoreMidi, In!CloseWinuwp, In!CloseWinmidi, In!CloseWebmidi,
      In!CloseRawio, In!CloseAndroid
  <2> QED  BY <1>5, <2>1, TellsKept DEF In!InClosePort
<1>6. CASE In!AskThreadToClose \/ In!AskThreadToDestroy
  BY <1>6, TellsKept DEF In!AskThreadToClose, In!AskThreadToDestroy, In!AskThread
<1>7. CASE In!JoinThread
  BY <1>7, TellsKept DEF In!JoinThread, In!CloseAndroid
<1>8. CASE In!InDestroy
  <2>1. listening' \in {listening, "none"}
    BY <1>8 DEF In!InDestroy, In!CloseNative, In!CloseCoreMidi, In!CloseWinuwp, In!CloseWinmidi, In!CloseWebmidi,
      In!CloseRawio, In!CloseAndroid
  <2> QED  BY <1>8, <2>1, TellsKept DEF In!InDestroy
<1>9. ASSUME NEW d, In!SharerOpens(d) PROVE InTells'
  BY <1>9, TellsKept DEF In!SharerOpens
<1>10. CASE In!SharerCloses \/ In!UserReturns \/ In!ThreadEnds
  BY <1>10, TellsKept DEF In!SharerCloses, In!UserReturns, In!ThreadEnds
<1>11. CASE UNCHANGED invars
  BY <1>11, TellsKept DEF invars
<1> QED  BY <1>1, <1>2, <1>3, <1>4, <1>5, <1>6, <1>7, <1>8, <1>9, <1>10, <1>11 DEF In!Next

LEMMA TellsItsPort == InInv /\ InTells => In!HearsItsPort
BY ClaimsAssumption DEF InInv, InTells, InTold, Again, Keeps, IsIn, In!HearsItsPort, In!Is

-----------------------------------------------------------------------------
(* The objects of Python.                                                     *)

PyCalls == Py!Calls \cup {"poll", "callback", "enqueue"}
PyTypes ==
  /\ wrapper.direct \in BOOLEAN /\ wrapper.threaded \in BOOLEAN
  /\ stack \in Seq([call : PyCalls, report : Nat])
  /\ reporter \in [at : {"idle", "enqueue", "waits", "calls"}, report : Nat]
  /\ poll_queue \in Seq(Nat) /\ visited \in Seq(Nat) /\ reported \in Nat


\* The thread of Python puts one report in the queue at a time.
PyStack == \A i \in 1..Len(stack) : stack[i].call = "enqueue" => i = Len(stack)
NothingQueued == \A i \in 1..Len(stack) : stack[i].call # "enqueue"

\* Nothing is reported before there is an object.
PyNew ==
  lives = "new" =>
    stack = <<>> /\ ~attached /\ reporter = Py!Idle /\ poll_queue = <<>> /\ reported = 0 /\ visited = <<>>

\* A direct object uses no queue, another one calls Python from the queue only.
PyDirect ==
  IF wrapper.direct
  THEN poll_queue = <<>> /\ NothingQueued /\ reporter.at # "enqueue"
  ELSE reporter.at \in {"idle", "enqueue"} /\ (Py!Both => raced)

\* What was reported: what Python was called with, what waits in the queue, and
\* what is on its way.
OnStack == IF Py!Top = "enqueue" THEN <<Py!Last(stack).report>> ELSE <<>>
OnThread == IF reporter.at \in {"enqueue", "waits"} THEN <<reporter.report>> ELSE <<>>
PyKnown == visited \o poll_queue \o (OnStack \o OnThread)
EachOnce(ks, n) == Len(ks) = n /\ Py!ToSet(ks) = 1..n
InOrder(ks, n) == ks = [i \in 1..n |-> i]
PyReports ==
  ~raced /\ lives = "lives" => IF wrapper.direct THEN EachOnce(PyKnown, reported) ELSE InOrder(PyKnown, reported)

PyInv == PyTypes /\ PyStack /\ PyNew /\ PyDirect /\ PyReports

LEMMA PyVisits == PyInv => Py!VisitsReports
BY Zenon DEF PyInv, PyReports, PyKnown, OnStack, OnThread, EachOnce, InOrder, Py!VisitsReports, Py!Pending

Numbers == Nat

LEMMA EnqueuedLast ==
  ASSUME NEW v \in Seq(Numbers), NEW q \in Seq(Numbers), NEW r \in Numbers
  PROVE  /\ v \o q \o (<<r>> \o <<>>) = v \o Append(q, r) \o (<<>> \o <<>>)
         /\ v \o q \o (<<>> \o <<r>>) = v \o Append(q, r) \o (<<>> \o <<>>)
<1>1. v \o q \o <<r>> = v \o Append(q, r)
  OBVIOUS
<1>2. v \o Append(q, r) \o <<>> = v \o Append(q, r)
  BY Appended
<1>3. <<>> \o <<r>> = <<r>> /\ <<r>> \o <<>> = <<r>> /\ <<>> \o <<>> = <<>>
  BY Appended
<1> QED  BY <1>1, <1>2, <1>3, Zenon

\* One more report, at the end or before those on their way.
LEMMA OneMoreReport ==
  ASSUME NEW n \in Nat, NEW v \in Seq(Nat), NEW p \in Seq(Nat)
  PROVE  /\ EachOnce(v \o p, n) => EachOnce(Append(v, n + 1) \o p, n + 1)
         /\ InOrder(v, n) => InOrder(Append(v, n + 1), n + 1)
<1>1. ASSUME EachOnce(v \o p, n) PROVE EachOnce(Append(v, n + 1) \o p, n + 1)
  <2> DEFINE a == v \o p
             b == Append(v, n + 1) \o p
             l == Len(v)
  <2>1. /\ a \in Seq(Nat) /\ b \in Seq(Nat) /\ l \in Nat /\ Len(b) = Len(a) + 1 /\ l <= Len(a)
        /\ \A i \in 1..l : b[i] = a[i]
        /\ b[l + 1] = n + 1
        /\ \A i \in l + 2..Len(b) : b[i] = a[i - 1]
    OBVIOUS
  <2>2. Len(a) = n /\ {a[i] : i \in 1..Len(a)} = 1..n
    <3>1. DOMAIN a = 1..Len(a)
      BY <2>1
    <3> HIDE DEF a
    <3> QED  BY <1>1, <3>1, Zenon DEF EachOnce, Py!ToSet, a
  <2> HIDE DEF a, b, l
  <2>3. DOMAIN b = 1..n + 1 /\ Len(b) = n + 1
    BY <2>1, <2>2
  <2>4. /\ l \in Nat /\ l <= n /\ b[l + 1] = n + 1
        /\ \A i \in 1..n : a[i] \in 1..n
        /\ \A x \in 1..n : \E i \in 1..n : a[i] = x
        /\ \A i \in 1..n + 1 : (i <= l => b[i] = a[i]) /\ (i > l + 1 => b[i] = a[i - 1])
    <3>1. /\ l \in Nat /\ l <= n /\ b[l + 1] = n + 1
          /\ \A i \in 1..l : b[i] = a[i]
          /\ \A i \in l + 2..n + 1 : b[i] = a[i - 1]
      BY <2>1, <2>2, <2>3
    <3>2. (\A i \in 1..n : a[i] \in 1..n) /\ (\A x \in 1..n : \E i \in 1..n : a[i] = x)
      BY <2>2
    <3>3. \A i \in 1..n + 1 : (i <= l => i \in 1..l) /\ (i > l + 1 => i \in l + 2..n + 1)
      BY <3>1
    <3> QED  BY <3>1, <3>2, <3>3
  <2>7. ASSUME NEW i \in 1..n + 1 PROVE b[i] \in 1..n + 1
    <3>1. CASE i <= l
      <4>1. i \in 1..n /\ b[i] = a[i]
        BY <2>4, <3>1
      <4>2. b[i] \in 1..n
        BY <2>4, <4>1
      <4> QED  BY <4>2
    <3>2. CASE i = l + 1
      BY <2>4, <3>2
    <3>3. CASE i > l + 1
      <4>1. i - 1 \in 1..n /\ b[i] = a[i - 1]
        BY <2>4, <3>3
      <4>2. b[i] \in 1..n
        BY <2>4, <4>1
      <4> QED  BY <4>2
    <3> QED  BY <2>4, <3>1, <3>2, <3>3
  <2>5. ASSUME NEW x \in 1..n + 1 PROVE \E i \in 1..n + 1 : b[i] = x
    <3>1. CASE x = n + 1
      <4>1. l + 1 \in 1..n + 1
        BY <2>4
      <4>2. b[l + 1] = x
        BY <2>4, <3>1
      <4> QED  BY <4>1, <4>2
    <3>2. CASE x # n + 1
      <4>1. PICK i \in 1..n : a[i] = x
        <5>1. x \in 1..n
          BY <2>5, <3>2
        <5> QED  BY <2>4, <5>1
      <4>2. CASE i <= l
        <5>1. i \in 1..n + 1
          OBVIOUS
        <5> QED  BY <2>4, <4>1, <4>2, <5>1
      <4>3. CASE i > l
        <5>1. i + 1 > l + 1 /\ (i + 1) - 1 = i /\ i + 1 \in 1..n + 1
          BY <2>4, <4>3
        <5>2. b[i + 1] = a[i]
          BY <2>4, <5>1
        <5> QED  BY <4>1, <5>1, <5>2
      <4> QED  BY <2>4, <4>2, <4>3
    <3> QED  BY <3>1, <3>2
  <2>6. Py!ToSet(b) = 1..n + 1
    BY <2>3, <2>5, <2>7 DEF Py!ToSet
  <2> QED  BY <2>3, <2>6 DEF EachOnce, b
<1>2. ASSUME InOrder(v, n) PROVE InOrder(Append(v, n + 1), n + 1)
  <2>1. Len(v) = n /\ \A i \in 1..n : v[i] = i
    BY <1>2 DEF InOrder
  <2>2. Append(v, n + 1) = [i \in 1..n + 1 |-> i]
    BY <2>1
  <2> QED  BY <2>2, Zenon DEF InOrder
<1> QED  BY <1>1, <1>2

LEMMA PyInit == Py!Init => PyInv
<1> SUFFICES ASSUME Py!Init PROVE PyInv
  OBVIOUS
<1>1. /\ stack = <<>> /\ ~attached /\ reporter = [at |-> "idle", report |-> 0] /\ poll_queue = <<>> /\ reported = 0
      /\ visited = <<>> /\ lives = "new" /\ wrapper.direct \in BOOLEAN /\ wrapper.threaded \in BOOLEAN
  BY DEF Py!Init, Py!Idle
<1>2. PyTypes
  BY <1>1 DEF PyTypes
<1>3. PyStack /\ NothingQueued /\ Py!Top = "python"
  BY <1>1 DEF PyStack, NothingQueued, Py!Top
<1> QED  BY <1>1, <1>2, <1>3 DEF PyInv, PyNew, PyDirect, PyReports, Py!Idle, Py!Both

\* A call begins, or one ends.
LEMMA PyPush ==
  ASSUME PyTypes, PyStack, Py!Top # "enqueue", NEW c \in PyCalls, NEW r \in Nat,
         stack' = Append(stack, [call |-> c, report |-> r])
  PROVE  /\ stack' \in Seq([call : PyCalls, report : Nat]) /\ PyStack' /\ stack' # <<>>
         /\ Py!Top' = c /\ OnStack' = (IF c = "enqueue" THEN <<r>> ELSE <<>>)
         /\ NothingQueued /\ c # "enqueue" => NothingQueued'
<1> DEFINE fs == [call : PyCalls, report : Nat]
           f == [call |-> c, report |-> r]
<1>1. stack \in Seq(fs) /\ f \in fs /\ f.call = c /\ f.report = r
  BY DEF PyTypes
<1>2. \A i \in 1..Len(stack) : stack[i].call # "enqueue"
  <2>1. CASE stack = <<>>
    BY <2>1
  <2>2. CASE stack # <<>>
    <3>1. Py!Top = stack[Len(stack)].call
      BY <2>2 DEF Py!Top, Py!Last
    <3> QED  BY <3>1 DEF PyStack
  <2> QED  BY <2>1, <2>2
<1> HIDE DEF fs, f
<1>3. /\ stack' \in Seq(fs) /\ stack' # <<>> /\ Len(stack') = Len(stack) + 1 /\ Len(stack) \in Nat
      /\ stack'[Len(stack')] = f /\ \A i \in 1..Len(stack) : stack'[i] = stack[i]
  BY <1>1 DEF f
<1>4. PyStack'
  BY <1>2, <1>3 DEF PyStack
<1>5. Py!Top' = c /\ OnStack' = (IF c = "enqueue" THEN <<r>> ELSE <<>>)
  BY <1>1, <1>3 DEF Py!Top, Py!Last, OnStack
<1>6. c # "enqueue" => NothingQueued'
  <2> SUFFICES ASSUME c # "enqueue", NEW i \in 1..Len(stack') PROVE stack'[i].call # "enqueue"
    BY DEF NothingQueued
  <2>1. i \in 1..Len(stack) \/ i = Len(stack')
    BY <1>3
  <2> QED  BY <1>1, <1>2, <1>3, <2>1
<1> QED  BY <1>3, <1>4, <1>5, <1>6 DEF fs

LEMMA PyPop ==
  ASSUME PyTypes, PyStack, Py!Top # "python", stack' = Py!Front(stack)
  PROVE  /\ stack # <<>> /\ stack' \in Seq([call : PyCalls, report : Nat]) /\ PyStack'
         /\ Py!Top' # "enqueue" /\ OnStack' = <<>> /\ NothingQueued'
<1> DEFINE fs == [call : PyCalls, report : Nat]
<1>1. stack \in Seq(fs) /\ stack # <<>>
  BY DEF PyTypes, Py!Top
<1>2. stack' = SubSeq(stack, 1, Len(stack) - 1)
  BY DEF Py!Front
<1> HIDE DEF fs
<1>3. /\ stack' \in Seq(fs) /\ Len(stack') = Len(stack) - 1 /\ Len(stack) \in Nat \ {0}
      /\ \A i \in 1..Len(stack') : i \in 1..Len(stack) /\ i # Len(stack) /\ stack'[i] = stack[i]
  <2> DEFINE n == Len(stack) - 1
             t == SubSeq(stack, 1, n)
  <2>1. Len(stack) \in Nat \ {0} /\ n \in 0..Len(stack) /\ Len(stack) = n + 1
    BY <1>1
  <2> HIDE DEF n
  <2>2. t \in Seq(fs) /\ Len(t) = n /\ \A i \in 1..n : t[i] = stack[i]
    BY <1>1, <2>1
  <2>3. \A i \in 1..n : i \in 1..Len(stack) /\ i # Len(stack)
    BY <2>1
  <2>4. stack' = t
    BY <1>2 DEF n
  <2> HIDE DEF t
  <2> QED  BY <2>1, <2>2, <2>3, <2>4
<1>4. NothingQueued'
  BY <1>3 DEF NothingQueued, PyStack
<1>5. PyStack'
  BY <1>4 DEF PyStack, NothingQueued
<1>6. Py!Top' # "enqueue"
  <2>1. CASE stack' = <<>>
    BY <2>1 DEF Py!Top
  <2>2. CASE stack' # <<>>
    <3>1. Py!Top' = stack'[Len(stack')].call /\ Len(stack') \in 1..Len(stack')
      BY <1>3, <2>2 DEF Py!Top, Py!Last
    <3> QED  BY <1>4, <3>1 DEF NothingQueued
  <2> QED  BY <2>1, <2>2
<1> QED  BY <1>1, <1>3, <1>4, <1>5, <1>6 DEF fs, OnStack

\* A step that neither reports nor lets Python hear of anything.
LEMMA PyAsBefore ==
  ASSUME PyInv, PyTypes', PyStack', PyDirect', lives # "new", lives' # "new",
         UNCHANGED <<wrapper, raced, reported>>, lives' = "lives" => lives = "lives" /\ (~raced => PyKnown' = PyKnown)
  PROVE  PyInv'
<1>1. PyReports'
  BY DEF PyInv, PyReports
<1> QED  BY <1>1 DEF PyInv, PyNew

LEMMA PyEnters ==
  ASSUME PyInv, Py!Top \in {"python", "callback"}, NEW c \in Py!Calls \cup {"poll"}, Py!Enter(c),
         lives' = "lives", lives = "lives" \/ lives = "new"
  PROVE  PyInv'
<1>1. /\ stack' = Append(stack, [call |-> c, report |-> 0])
      /\ UNCHANGED <<wrapper, reporter, poll_queue, reported, visited, raced>>
  BY DEF Py!Enter, Py!Frame
<1>2. c \in PyCalls /\ c # "enqueue" /\ 0 \in Nat
  BY DEF PyCalls, Py!Calls
<1>3. /\ stack' \in Seq([call : PyCalls, report : Nat]) /\ PyStack' /\ Py!Top' = c /\ OnStack' = <<>>
      /\ NothingQueued => NothingQueued'
  BY <1>1, <1>2, PyPush, Zenon DEF PyInv
<1>4. PyTypes'
  BY <1>1, <1>3 DEF PyInv, PyTypes
<1>5. PyDirect'
  BY <1>1, <1>2, <1>3 DEF PyInv, PyDirect, Py!Both
<1>6. PyKnown' = PyKnown
  BY <1>1, <1>3, Zenon DEF PyKnown, OnStack, OnThread
<1>7. CASE lives = "lives"
  BY <1>1, <1>3, <1>4, <1>5, <1>6, <1>7, PyAsBefore
<1>8. CASE lives = "new"
  <2>1. visited' = <<>> /\ poll_queue' = <<>> /\ OnStack' = <<>> /\ OnThread' = <<>> /\ reported' = 0
    BY <1>1, <1>3, <1>8 DEF PyInv, PyNew, OnThread, Py!Idle
  <2>2. PyKnown' = <<>>
    BY <2>1 DEF PyKnown
  <2>3. EachOnce(<<>>, 0) /\ InOrder(<<>>, 0)
    <3>1. DOMAIN <<>> = {} /\ 1..0 = {} /\ Len(<<>>) = 0
      OBVIOUS
    <3>2. Py!ToSet(<<>>) = {}
      BY <3>1 DEF Py!ToSet
    <3>3. <<>> = [i \in 1..0 |-> i]
      OBVIOUS
    <3> QED  BY <3>1, <3>2, <3>3 DEF EachOnce, InOrder
  <2>4. PyReports'
    BY <2>1, <2>2, <2>3 DEF PyReports
  <2> QED  BY <1>3, <1>4, <1>5, <2>4 DEF PyInv, PyNew
<1> QED  BY <1>7, <1>8

LEMMA PyLeaves ==
  ASSUME PyInv, Py!Top \notin {"python", "enqueue"}, stack' = Py!Front(stack),
         UNCHANGED <<wrapper, reporter, reported, visited, raced>>,
         (lives' = lives /\ poll_queue' = poll_queue) \/ (lives' = "gone" /\ poll_queue' = <<>>)
  PROVE  PyInv'
<1>1. /\ stack # <<>> /\ stack' \in Seq([call : PyCalls, report : Nat]) /\ PyStack'
      /\ Py!Top' # "enqueue" /\ OnStack' = <<>> /\ NothingQueued'
  BY PyPop DEF PyInv
<1>2. lives # "new" /\ lives' # "new"
  BY <1>1 DEF PyInv, PyNew
<1>3. PyTypes'
  <2>1. poll_queue' \in Seq(Nat)
    <3>1. <<>> \in Seq(Nat) /\ poll_queue \in Seq(Nat)
      BY DEF PyInv, PyTypes
    <3> QED  BY <3>1, Zenon
  <2> QED  BY <1>1, <2>1 DEF PyInv, PyTypes
<1>4. PyDirect'
  BY <1>1 DEF PyInv, PyDirect, Py!Both
<1>5. lives' = "lives" => lives = "lives" /\ PyKnown' = PyKnown
  BY <1>1 DEF PyKnown, OnStack, OnThread
<1> QED  BY <1>1, <1>2, <1>3, <1>4, <1>5, PyAsBefore

\* Who enqueues alone, enqueues what he has.
LEMMA PyEnqueuesHere ==
  ASSUME PyInv, Py!EnqueueHere
  PROVE  PyInv'
<1> DEFINE r == Py!Last(stack).report
<1>1. /\ Py!Top = "enqueue" /\ stack' = Py!Front(stack) /\ Py!Enqueued(r)
      /\ UNCHANGED <<wrapper, reporter, reported, visited, raced, lives>>
  BY DEF Py!EnqueueHere
<1>2. /\ stack # <<>> /\ stack' \in Seq([call : PyCalls, report : Nat]) /\ PyStack'
      /\ Py!Top' # "enqueue" /\ OnStack' = <<>> /\ NothingQueued'
  BY <1>1, PyPop DEF PyInv
<1>3. r \in Nat
  <2>1. stack \in Seq([call : PyCalls, report : Nat]) /\ stack # <<>>
    BY <1>2 DEF PyInv, PyTypes
  <2> DEFINE fs == [call : PyCalls, report : Nat]
  <2> HIDE DEF fs
  <2>2. stack \in Seq(fs) /\ Len(stack) \in 1..Len(stack)
    BY <2>1 DEF fs
  <2>3. stack[Len(stack)] \in fs
    BY <2>2
  <2> QED  BY <2>3 DEF fs, Py!Last
<1>4. OnStack = <<r>>
  BY <1>1 DEF OnStack
<1> HIDE DEF r
<1>5. ~wrapper.direct
  <2>1. Len(stack) \in 1..Len(stack) /\ stack[Len(stack)].call = "enqueue"
    BY <1>1, <1>2 DEF PyInv, PyTypes, Py!Top, Py!Last
  <2> QED  BY <2>1 DEF PyInv, PyDirect, NothingQueued
<1>6. poll_queue' = Append(poll_queue, r) \/ (poll_queue' = poll_queue /\ Py!Both)
  BY <1>1 DEF Py!Enqueued
<1>7. poll_queue \in Seq(Nat) /\ Append(poll_queue, r) \in Seq(Nat) /\ visited \in Seq(Nat)
  BY <1>3 DEF PyInv, PyTypes
<1>8. PyTypes'
  <2>1. poll_queue' \in Seq(Nat)
    BY <1>6, <1>7, Zenon
  <2> QED  BY <1>1, <1>2, <2>1 DEF PyInv, PyTypes
<1>9. PyDirect' /\ lives # "new"
  BY <1>1, <1>2, <1>5 DEF PyInv, PyDirect, PyNew, Py!Both
<1>10. ~raced => PyKnown' = PyKnown
  <2>1. ASSUME ~raced PROVE poll_queue' = Append(poll_queue, r) /\ OnThread = <<>> /\ OnThread' = <<>>
    BY <1>1, <1>5, <1>6, <2>1 DEF PyInv, PyDirect, Py!Both, OnThread
  <2>2. visited \o poll_queue \o (<<r>> \o <<>>) = visited \o Append(poll_queue, r) \o (<<>> \o <<>>)
    <3>1. visited \in Seq(Numbers) /\ poll_queue \in Seq(Numbers) /\ r \in Numbers
      BY <1>3, <1>7 DEF Numbers
    <3> QED  BY <3>1, EnqueuedLast, Zenon
  <2> QED  BY <1>1, <1>2, <1>4, <2>1, <2>2, Zenon DEF PyKnown
<1> QED  BY <1>1, <1>2, <1>8, <1>9, <1>10, PyAsBefore

LEMMA PyEnqueuesThere ==
  ASSUME PyInv, Py!EnqueueThere
  PROVE  PyInv'
<1> DEFINE r == reporter.report
<1>1. /\ reporter.at = "enqueue" /\ reporter' = [at |-> "idle", report |-> 0] /\ Py!Enqueued(r)
      /\ UNCHANGED <<wrapper, stack, reported, visited, raced, lives>>
  BY DEF Py!EnqueueThere, Py!Idle
<1>2. r \in Nat /\ OnThread = <<r>> /\ OnThread' = <<>>
  BY <1>1 DEF PyInv, PyTypes, OnThread
<1> HIDE DEF r
<1>3. ~wrapper.direct /\ lives # "new"
  BY <1>1 DEF PyInv, PyDirect, PyNew, Py!Idle
<1>4. poll_queue' = Append(poll_queue, r) \/ (poll_queue' = poll_queue /\ Py!Both)
  BY <1>1 DEF Py!Enqueued
<1>5. poll_queue \in Seq(Nat) /\ Append(poll_queue, r) \in Seq(Nat) /\ visited \in Seq(Nat)
  BY <1>2 DEF PyInv, PyTypes
<1>6. PyTypes' /\ PyStack'
  <2>1. poll_queue' \in Seq(Nat)
    BY <1>4, <1>5, Zenon
  <2>2. PyTypes'
    BY <1>1, <2>1 DEF PyInv, PyTypes
  <2>3. PyStack'
    BY <1>1 DEF PyInv, PyStack
  <2> QED  BY <2>2, <2>3
<1>7. PyDirect'
  BY <1>1, <1>3 DEF PyInv, PyDirect, Py!Both
<1>8. ~raced => PyKnown' = PyKnown
  <2>1. ASSUME ~raced PROVE poll_queue' = Append(poll_queue, r) /\ OnStack = <<>> /\ OnStack' = <<>>
    <3>1. Py!Top # "enqueue" /\ Py!Top' = Py!Top
      BY <1>1, <1>3, <2>1 DEF PyInv, PyDirect, Py!Both, Py!Top
    <3> QED  BY <1>4, <3>1 DEF OnStack, Py!Both
  <2>2. visited \o poll_queue \o (<<>> \o <<r>>) = visited \o Append(poll_queue, r) \o (<<>> \o <<>>)
    <3>1. visited \in Seq(Numbers) /\ poll_queue \in Seq(Numbers) /\ r \in Numbers
      BY <1>2, <1>5 DEF Numbers
    <3> QED  BY <3>1, EnqueuedLast, Zenon
  <2> QED  BY <1>1, <1>2, <2>1, <2>2, Zenon DEF PyKnown
<1> QED  BY <1>1, <1>3, <1>6, <1>7, <1>8, PyAsBefore

LEMMA PyDequeues ==
  ASSUME PyInv, Py!Dequeue
  PROVE  PyInv'
<1> DEFINE r == Head(poll_queue)
<1>1. /\ Py!Top = "poll" /\ poll_queue # <<>> /\ visited' = Append(visited, r) /\ poll_queue' = Tail(poll_queue)
      /\ stack' = Append(stack, [call |-> "callback", report |-> r])
      /\ UNCHANGED <<wrapper, reporter, reported, raced, lives>>
  BY DEF Py!Dequeue
<1>2. poll_queue \in Seq(Nat) /\ r \in Nat /\ Tail(poll_queue) \in Seq(Nat) /\ visited \in Seq(Nat)
  BY <1>1 DEF PyInv, PyTypes
<1>3. "callback" \in PyCalls
  BY DEF PyCalls
<1>4. /\ stack' \in Seq([call : PyCalls, report : Nat]) /\ PyStack' /\ OnStack' = <<>> /\ Py!Top' = "callback"
  BY <1>1, <1>2, <1>3, PyPush, Zenon DEF PyInv
<1>5. ~wrapper.direct /\ lives # "new"
  BY <1>1 DEF PyInv, PyDirect, PyNew
<1>6. PyTypes'
  <2>1. visited' \in Seq(Nat)
    BY <1>1, <1>2
  <2> QED  BY <1>1, <1>2, <1>4, <2>1 DEF PyInv, PyTypes
<1>7. PyDirect'
  BY <1>1, <1>4, <1>5 DEF PyInv, PyDirect, Py!Both
<1>8. PyKnown' = PyKnown
  <2>1. Append(visited, r) \o Tail(poll_queue) = visited \o poll_queue
    <3>1. visited \in Seq(Numbers) /\ poll_queue \in Seq(Numbers) /\ r \in Numbers
      BY <1>2 DEF Numbers
    <3> DEFINE v == visited
               q == poll_queue
    <3>2. v \in Seq(Numbers) /\ q \in Seq(Numbers) /\ r \in Numbers /\ q # <<>>
      BY <1>1, <3>1
    <3> HIDE DEF v, q
    <3>3. Append(v, Head(q)) \o Tail(q) = v \o q
      BY <3>2, Appended
    <3> QED  BY <3>3, Zenon DEF v, q
  <2>2. OnStack = <<>> /\ OnThread' = OnThread
    BY <1>1 DEF OnStack, OnThread
  <2> QED  BY <1>1, <1>4, <2>1, <2>2, Zenon DEF PyKnown
<1> QED  BY <1>1, <1>4, <1>5, <1>6, <1>7, <1>8, PyAsBefore

\* A report within a call. Nobody else enqueues, or it is a race.
LEMMA PyReportsHere ==
  ASSUME PyInv, Py!ReportHere
  PROVE  PyInv'
<1> DEFINE r == reported + 1
<1>1. /\ Py!Top \in Py!Calls \cup {"python", "callback"} /\ lives = "lives" /\ reported' = r
      /\ stack' = Append(stack, [call |-> IF wrapper.direct THEN "callback" ELSE "enqueue", report |-> r])
      /\ visited' = IF wrapper.direct THEN Append(visited, r) ELSE visited
      /\ raced' = (raced \/ (~wrapper.direct /\ reporter.at = "enqueue"))
      /\ UNCHANGED <<wrapper, reporter, poll_queue, lives>>
  BY DEF Py!ReportHere, Py!Runs
<1>2. reported \in Nat /\ r \in Nat /\ visited \in Seq(Nat) /\ poll_queue \in Seq(Nat) /\ wrapper.direct \in BOOLEAN
      /\ Py!Top # "enqueue" /\ {"callback", "enqueue"} \subseteq PyCalls
  BY <1>1 DEF PyInv, PyTypes, PyCalls, Py!Calls
<1>3. OnStack = <<>> /\ OnThread' = OnThread
  BY <1>1, <1>2 DEF OnStack, OnThread
<1>4. CASE wrapper.direct
  <2>1. stack' = Append(stack, [call |-> "callback", report |-> r]) /\ visited' = Append(visited, r) /\ (raced => raced')
    BY <1>1, <1>4, Zenon
  <2>2. /\ stack' \in Seq([call : PyCalls, report : Nat]) /\ PyStack' /\ OnStack' = <<>> /\ Py!Top' = "callback"
        /\ NothingQueued => NothingQueued'
    BY <1>2, <2>1, PyPush, Zenon DEF PyInv
  <2>3. PyTypes'
    <3>1. visited' \in Seq(Nat)
      BY <1>2, <2>1
    <3> QED  BY <1>1, <1>2, <2>2, <3>1 DEF PyInv, PyTypes
  <2>4. PyDirect'
    BY <1>1, <1>4, <2>2 DEF PyInv, PyDirect
  <2>5. PyReports'
    <3>1. poll_queue = <<>> /\ OnThread \in Seq(Nat)
      BY <1>4 DEF PyInv, PyDirect, PyTypes, OnThread
    <3>2. /\ visited \o <<>> = visited /\ Append(visited, r) \o <<>> = Append(visited, r) /\ <<>> \o OnThread = OnThread
      BY <1>2, <3>1
    <3>3. PyKnown = visited \o OnThread /\ PyKnown' = Append(visited, r) \o OnThread
      BY <1>1, <1>3, <2>1, <2>2, <3>1, <3>2, Zenon DEF PyKnown
    <3>4. EachOnce(visited \o OnThread, reported) => EachOnce(Append(visited, r) \o OnThread, r)
      BY <1>2, <3>1, OneMoreReport
    <3> QED  BY <1>1, <1>4, <2>1, <3>3, <3>4 DEF PyInv, PyReports
  <2> QED  BY <1>1, <2>2, <2>3, <2>4, <2>5 DEF PyInv, PyNew
<1>5. CASE ~wrapper.direct
  <2>1. stack' = Append(stack, [call |-> "enqueue", report |-> r]) /\ visited' = visited
        /\ raced' = (raced \/ reporter.at = "enqueue")
    BY <1>1, <1>5
  <2>2. stack' \in Seq([call : PyCalls, report : Nat]) /\ PyStack' /\ OnStack' = <<r>>
    BY <1>2, <2>1, PyPush, Zenon DEF PyInv
  <2>3. PyTypes'
    BY <1>1, <1>2, <2>1, <2>2 DEF PyInv, PyTypes
  <2>4. PyDirect'
    BY <1>1, <1>5, <2>1, Zenon DEF PyInv, PyDirect, Py!Both
  <2>5. PyReports'
    <3>1. SUFFICES ASSUME ~raced' PROVE InOrder(PyKnown', r)
      BY <1>1, <1>5 DEF PyReports
    <3>2. ~raced /\ OnThread = <<>>
      BY <1>5, <2>1, <3>1, Zenon DEF PyInv, PyDirect, OnThread
    <3>3. InOrder(PyKnown, reported)
      BY <1>1, <1>5, <3>2 DEF PyInv, PyReports
    <3> DEFINE k == visited \o poll_queue
    <3>4. k \in Seq(Nat) /\ k \o <<>> = k /\ k \o <<r>> = Append(k, r) /\ <<r>> \o <<>> = <<r>> /\ <<>> \o <<>> = <<>>
      <4>1. k \in Seq(Nat)
        BY <1>2
      <4> HIDE DEF k
      <4> QED  BY <1>2, <4>1, Appended
    <3>5. PyKnown = k /\ PyKnown' = Append(k, r)
      BY <1>1, <1>3, <2>1, <2>2, <3>2, <3>4, Zenon DEF PyKnown
    <3> HIDE DEF k
    <3> QED  BY <1>2, <3>3, <3>4, <3>5, OneMoreReport
  <2> QED  BY <1>1, <2>2, <2>3, <2>4, <2>5 DEF PyInv, PyNew
<1> QED  BY <1>2, <1>4, <1>5

LEMMA PyReportsThere ==
  ASSUME PyInv, Py!ReportThere
  PROVE  PyInv'
<1> DEFINE r == reported + 1
<1>1. /\ reporter.at = "idle" /\ lives = "lives" /\ reported' = r
      /\ reporter' = [at |-> IF wrapper.direct THEN "waits" ELSE "enqueue", report |-> r]
      /\ raced' = (raced \/ (~wrapper.direct /\ Py!Top = "enqueue"))
      /\ UNCHANGED <<wrapper, stack, poll_queue, visited, lives>>
  BY DEF Py!ReportThere, Py!Idle
<1>2. reported \in Nat /\ r \in Nat /\ visited \in Seq(Nat) /\ poll_queue \in Seq(Nat) /\ wrapper.direct \in BOOLEAN
  BY <1>1 DEF PyInv, PyTypes
<1>3. OnThread = <<>> /\ OnThread' = <<r>> /\ Py!Top' = Py!Top /\ OnStack' = OnStack
  BY <1>1 DEF OnStack, OnThread, Py!Top
<1>4. PyTypes' /\ PyStack'
  BY <1>1, <1>2 DEF PyInv, PyTypes, PyStack
<1>5. CASE wrapper.direct
  <2>1. reporter'.at = "waits" /\ (raced => raced')
    BY <1>1, <1>5, Zenon
  <2>2. PyDirect'
    BY <1>1, <1>5, <2>1 DEF PyInv, PyDirect, NothingQueued
  <2>3. Py!Top # "enqueue"
    <3>1. CASE stack = <<>>
      BY <3>1 DEF Py!Top
    <3>2. CASE stack # <<>>
      <4>1. Len(stack) \in 1..Len(stack)
        BY <3>2 DEF PyInv, PyTypes
      <4> QED  BY <1>5, <3>2, <4>1 DEF PyInv, PyDirect, NothingQueued, Py!Top, Py!Last
    <3> QED  BY <3>1, <3>2
  <2>4. PyReports'
    <3>1. poll_queue = <<>> /\ OnStack = <<>>
      BY <1>5, <2>3 DEF PyInv, PyDirect, OnStack
    <3>2. /\ visited \o <<>> = visited /\ <<>> \o <<>> = <<>> /\ <<>> \o <<r>> = <<r>> /\ visited \o <<r>> = Append(visited, r)
          /\ Append(visited, r) \o <<>> = Append(visited, r)
      BY <1>2
    <3>3. PyKnown = visited \o <<>> /\ PyKnown' = Append(visited, r) \o <<>>
      BY <1>1, <1>3, <3>1, <3>2 DEF PyKnown
    <3>4. EachOnce(visited \o <<>>, reported) => EachOnce(Append(visited, r) \o <<>>, r)
      <4>1. <<>> \in Seq(Nat)
        OBVIOUS
      <4> QED  BY <1>2, <4>1, OneMoreReport, Zenon
    <3> QED  BY <1>1, <1>5, <2>1, <3>3, <3>4 DEF PyInv, PyReports
  <2> QED  BY <1>1, <1>4, <2>2, <2>4 DEF PyInv, PyNew
<1>6. CASE ~wrapper.direct
  <2>1. reporter'.at = "enqueue" /\ raced' = (raced \/ Py!Top = "enqueue")
    BY <1>1, <1>6
  <2>2. PyDirect'
    BY <1>1, <1>3, <1>6, <2>1, Zenon DEF PyInv, PyDirect, Py!Both
  <2>3. PyReports'
    <3>1. SUFFICES ASSUME ~raced' PROVE InOrder(PyKnown', r)
      BY <1>1, <1>6 DEF PyReports
    <3>2. ~raced /\ OnStack = <<>>
      BY <2>1, <3>1, Zenon DEF OnStack
    <3>3. InOrder(PyKnown, reported)
      BY <1>1, <1>6, <3>2 DEF PyInv, PyReports
    <3> DEFINE k == visited \o poll_queue
    <3>4. k \in Seq(Nat) /\ k \o <<>> = k /\ k \o <<r>> = Append(k, r) /\ <<>> \o <<r>> = <<r>> /\ <<>> \o <<>> = <<>>
      <4>1. k \in Seq(Nat)
        BY <1>2
      <4> HIDE DEF k
      <4> QED  BY <1>2, <4>1, Appended
    <3>5. PyKnown = k /\ PyKnown' = Append(k, r)
      BY <1>1, <1>3, <3>2, <3>4 DEF PyKnown
    <3> HIDE DEF k
    <3> QED  BY <1>2, <3>3, <3>4, <3>5, OneMoreReport
  <2> QED  BY <1>1, <1>4, <2>2, <2>3 DEF PyInv, PyNew
<1> QED  BY <1>2, <1>5, <1>6

\* The reports of a direct object, which Python is called with when its thread
\* has the lock.
LEMMA PyCallsThere ==
  ASSUME PyInv, Py!CallThere
  PROVE  PyInv'
<1> DEFINE r == reporter.report
<1>1. /\ reporter.at = "waits" /\ reporter' = [reporter EXCEPT !.at = "calls"] /\ visited' = Append(visited, r)
      /\ UNCHANGED <<wrapper, stack, poll_queue, reported, raced, lives>>
  BY DEF Py!CallThere
<1>2. /\ r \in Nat /\ reporter' \in [at : {"idle", "enqueue", "waits", "calls"}, report : Nat] /\ reporter'.at = "calls"
      /\ OnThread = <<r>> /\ OnThread' = <<>>
  BY <1>1, Zenon DEF PyInv, PyTypes, OnThread
<1> HIDE DEF r
<1>3. wrapper.direct /\ lives # "new" /\ poll_queue = <<>> /\ visited \in Seq(Nat)
  BY <1>1 DEF PyInv, PyDirect, PyNew, PyTypes, Py!Idle
<1>4. PyTypes' /\ PyStack'
  <2>1. visited' \in Seq(Nat)
    BY <1>1, <1>2, <1>3
  <2> QED  BY <1>1, <1>2, <2>1 DEF PyInv, PyTypes, PyStack
<1>5. PyDirect'
  BY <1>1, <1>2, <1>3 DEF PyInv, PyDirect, NothingQueued
<1>6. OnStack = <<>> /\ OnStack' = <<>>
  <2>1. Py!Top # "enqueue"
    <3>1. CASE stack = <<>>
      BY <3>1 DEF Py!Top
    <3>2. CASE stack # <<>>
      <4>1. Len(stack) \in 1..Len(stack)
        BY <3>2 DEF PyInv, PyTypes
      <4> QED  BY <1>3, <3>2, <4>1 DEF PyInv, PyDirect, NothingQueued, Py!Top, Py!Last
    <3> QED  BY <3>1, <3>2
  <2>2. Py!Top' = Py!Top
    BY <1>1 DEF Py!Top
  <2> QED  BY <2>1, <2>2 DEF OnStack
<1>7. PyKnown' = PyKnown
  <2>1. /\ visited \o <<>> = visited /\ <<>> \o <<>> = <<>> /\ <<>> \o <<r>> = <<r>> /\ visited \o <<r>> = Append(visited, r)
        /\ Append(visited, r) \o <<>> = Append(visited, r)
    BY <1>2, <1>3
  <2> QED  BY <1>1, <1>2, <1>3, <1>6, <2>1 DEF PyKnown
<1> QED  BY <1>1, <1>3, <1>4, <1>5, <1>7, PyAsBefore

LEMMA PyReturnsThere ==
  ASSUME PyInv, Py!ReturnThere
  PROVE  PyInv'
<1>1. /\ reporter.at = "calls" /\ reporter' = [at |-> "idle", report |-> 0]
      /\ UNCHANGED <<wrapper, stack, poll_queue, reported, visited, raced, lives>>
  BY DEF Py!ReturnThere, Py!Idle
<1>2. wrapper.direct /\ lives # "new"
  BY <1>1 DEF PyInv, PyDirect, PyNew, Py!Idle
<1>3. PyTypes' /\ PyStack' /\ PyDirect'
  BY <1>1, <1>2 DEF PyInv, PyTypes, PyStack, PyDirect, NothingQueued
<1>4. PyKnown' = PyKnown
  <2>1. OnThread' = OnThread
    BY <1>1 DEF OnThread
  <2>2. OnStack' = OnStack
    BY <1>1 DEF OnStack, Py!Top
  <2> QED  BY <1>1, <2>1, <2>2 DEF PyKnown
<1> QED  BY <1>1, <1>2, <1>3, <1>4, PyAsBefore

LEMMA PyStep ==
  ASSUME PyInv, [Py!Next]_pyvars
  PROVE  PyInv'
<1>1. CASE Py!GiveLock \/ Py!TakeLock \/ UNCHANGED pyvars
  <2>1. UNCHANGED <<wrapper, stack, attached, reporter, poll_queue, reported, visited, raced, lives>>
    BY <1>1 DEF Py!GiveLock, Py!TakeLock, pyvars
  <2>2. Py!Top' = Py!Top /\ OnStack' = OnStack /\ OnThread' = OnThread
    BY <2>1 DEF Py!Top, OnStack, OnThread
  <2>3. PyReports'
    BY <2>1, <2>2 DEF PyInv, PyReports, PyKnown
  <2>4. PyTypes' /\ PyStack' /\ PyNew'
    BY <2>1 DEF PyInv, PyTypes, PyStack, PyNew
  <2>5. PyDirect'
    BY <2>1, <2>2 DEF PyInv, PyDirect, NothingQueued, Py!Both
  <2> QED  BY <2>3, <2>4, <2>5 DEF PyInv
<1>2. CASE Py!Construct \/ Py!OpenPort \/ Py!UseObject \/ Py!ClosePort \/ Py!Destroy \/ Py!Poll
  <2>1. PICK c \in Py!Calls \cup {"poll"} : Py!Enter(c)
    BY <1>2 DEF Py!Construct, Py!OpenPort, Py!UseObject, Py!ClosePort, Py!Destroy, Py!Poll, Py!Calls
  <2>2. lives' = "lives" /\ (lives = "lives" \/ lives = "new")
    BY <1>2 DEF Py!Construct, Py!OpenPort, Py!UseObject, Py!ClosePort, Py!Destroy, Py!Poll
  <2>3. Py!Top \in {"python", "callback"}
    BY <2>1 DEF Py!Enter, Py!Runs
  <2> QED  BY <2>1, <2>2, <2>3, PyEnters
<1>3. CASE Py!Join
  BY <1>3, PyLeaves DEF Py!Join
<1>4. CASE Py!Return
  BY <1>4, PyLeaves DEF Py!Return
<1>5. CASE Py!PollReturns
  BY <1>5, PyLeaves DEF Py!PollReturns
<1>6. CASE Py!CallbackReturns
  BY <1>6, PyLeaves DEF Py!CallbackReturns
<1>7. CASE Py!Raises
  <2>1. UNCHANGED <<wrapper, stack, attached, reporter, poll_queue, reported, visited, raced>> /\ lives' = "terminated"
    BY <1>7 DEF Py!Raises
  <2>2. PyReports' /\ PyNew'
    BY <2>1 DEF PyReports, PyNew
  <2>3. PyTypes' /\ PyStack'
    BY <2>1 DEF PyInv, PyTypes, PyStack
  <2>4. PyDirect'
    BY <2>1 DEF PyInv, PyDirect, NothingQueued, Py!Both, Py!Top
  <2> QED  BY <2>2, <2>3, <2>4 DEF PyInv
<1> QED  BY <1>1, <1>2, <1>3, <1>4, <1>5, <1>6, <1>7, PyEnqueuesHere, PyEnqueuesThere, PyDequeues, PyReportsHere, PyReportsThere,
           PyCallsThere, PyReturnsThere DEF Py!Next, Py!Program, Py!Here, Py!There
-----------------------------------------------------------------------------
(* All ports.                                                                *)

PortsInv ==
  /\ AlsaInv /\ Net!GoneIsQuiet /\ NetHears /\ InInv /\ InTells /\ OutInv /\ SendInv /\ PyInv /\ CInv
  /\ ~AutoRepeat => Keyboard!NothingHangs

LEMMA PortsInit == MCInit => PortsInv
  BY AlsaInit, NetInit, NetHearsInit, KeysInit, InInit, TellsInit, OutInit, SendInit, PyInit, CInit DEF MCInit, PortsInv

LEMMA PortsStep ==
  PortsInv /\ [MCNext]_<<used, vars, netvars, kbdvars, outvars, invars, pyvars, cvars>> => PortsInv'
  <1> SUFFICES ASSUME PortsInv, [MCNext]_<<used, vars, netvars, kbdvars, outvars, invars, pyvars, cvars>> PROVE PortsInv'
    OBVIOUS
  <1>1. /\ [Next]_vars /\ [Net!Next]_netvars /\ [Keyboard!Next]_kbdvars /\ [In!Next]_invars /\ [Out!Next]_outvars
        /\ [Py!Next]_pyvars /\ [C!Next]_cvars
    BY DEF MCNext
  <1>2. Net!GoneIsQuiet' /\ NetHears'
    BY <1>1, NetStep, NetHearsStep DEF PortsInv
  <1>3. ~AutoRepeat => Keyboard!NothingHangs'
    BY <1>1, KeysStep DEF PortsInv
  <1>4. InInv' /\ InTells'
    BY <1>1, InStep, TellsStep DEF PortsInv
  <1>5. PyInv'
    BY <1>1, PyStep DEF PortsInv
  <1>6. AlsaInv' /\ OutInv' /\ SendInv' /\ CInv'
    BY <1>1, AlsaStep, OutStep, SendStep, CStep DEF PortsInv
  <1>7. QED
    BY <1>2, <1>3, <1>4, <1>5, <1>6 DEF PortsInv

\* What holds of the ports at any time.
LEMMA PortsAlways == MCSpec => []PortsInv
  <1>1. QED
    BY PortsInit, PortsStep, PTL DEF MCSpec

\* A port that was closed or destroyed leaves no thread, no callback that runs,
\* no connection and no port of its own, and nothing is released that is not
\* there: for any number of openings, whatever the services, ALSA and the
\* application do in between.
THEOREM ClosedIsQuietTheorem == MCSpec => []ClosedIsQuiet
  <1>1. PortsInv => ClosedIsQuiet
    BY AlsaQuiet, InQuiet, OutQuiet DEF PortsInv, ClosedIsQuiet
  <1>2. QED
    BY <1>1, PortsAlways, PTL

\* A port that says it is open is served, and a handle of C that was given with
\* 0 is of an object that lives, of the API that was asked for: for any lists of
\* APIs, of which any may come and go or throw.
THEOREM OpenIsServedTheorem == MCSpec => []OpenIsServed
  <1>1. PortsInv => OpenIsServed
    BY AlsaQuiet, InQuiet, OutQuiet, CServes DEF PortsInv, OpenIsServed
  <1>2. QED
    BY <1>1, PortsAlways, PTL

\* What an output says of a send is so: "ok", that a connected service has all
\* of the message, in order; anything else, that it has a beginning of it at
\* most. Nothing reaches a port that the output was not open for, and a chunk
\* after the first has room: for any messages, sizes of buffers, chunks and
\* packets, whatever the services refuse.
THEOREM SendsWhatItSaysTheorem == MCSpec => []SendsWhatItSays
  <1>1. PortsInv => SendsWhatItSays
    BY SendSays DEF PortsInv
  <1>2. QED
    BY <1>1, PortsAlways, PTL
\* An input hears what was done, whatever the others do: of the network what
\* was sent under its name, whole and in order; of keys that do not repeat, no
\* note that is not held; of a service what is for its port, on its first
\* opening of those that keep something of it. Python hears what was reported,
\* once and in order, and who asks for packets or messages hears those: for any
\* datagrams, keys, ports, reports and APIs.
THEOREM HearsWhatWasDoneTheorem == ASSUME ~AutoRepeat PROVE MCSpec => []HearsWhatWasDone
  <1>1. PortsInv => HearsWhatWasDone
    BY TellsItsPort, PyVisits, CServes DEF PortsInv, NetHears, HearsWhatWasDone
  <1>2. QED
    BY <1>1, PortsAlways, PTL
=============================================================================
