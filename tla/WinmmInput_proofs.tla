-------------------------- MODULE WinmmInput_proofs --------------------------
(* Proofs about WinmmInput, for any number of buffers and of openings: what  *)
(* do_close() deletes is used neither by the callback nor by the driver.     *)
(*                                                                          *)
(* The argument is Dekker's: a callback counts itself and then looks at      *)
(* `closing`, a close sets `closing` and then looks at the count. A close    *)
(* that found nobody has excluded the callback from the buffers for as long  *)
(* as it lasts, and one on the driver's own thread knows where the callback  *)
(* is.                                                                      *)
EXTENDS WinmmInput, TLAPS

CountedStages == {"counted", "designate", "user", "requeue", "add", "leave"}
UsingStages == {"designate", "user", "requeue", "add"}
OpeningCalls == {"buffers", "ready", "start"}
LockedCalls == {"stop", "wait", "unprepare", "close", "free"}

\* The atomics say where the callback is.
Registered ==
  /\ in_callback = IF callback.at \in CountedStages THEN 1 ELSE 0
  /\ callback_thread = IF callback.at \in {"none", "entered"} THEN NoThread ELSE Driver

\* The driver's thread is in a call of the library as long as the user's
\* callback is, and it closes.
DriverCloses ==
  call[Driver].at # "none" =>
    callback.at = "user" /\ callback.closed /\ call[Driver].at \in LockedCalls \cup {"enter"}

\* A device calls nobody before midiInStart().
OpensAlone ==
  call[App].at \in OpeningCalls =>
    callback.at = "none" /\ inHandle # 0 /\ ~device.started /\ device.done = {}

\* A close has the mutex and the handle, and keeps callbacks out.
ClosesAlone ==
  \A t \in Threads :
    call[t].at \in LockedCalls =>
      mutex = t /\ closing /\ (IF call[t].at = "free" THEN inHandle = 0 ELSE call[t].handle = inHandle)

\* A close that waited successfully has no callback beside it.
Quiesced ==
  call[App].at \in {"unprepare", "close", "free"} =>
    /\ call[App].at = "free" => call[App].quiesced
    /\ call[App].quiesced => callback.at \notin UsingStages

\* The driver has nothing of ours without a device, and nothing that is freed.
DriverHas ==
  /\ device.open = inHandle
  /\ inHandle = 0 => device.queued = {} /\ device.done = {}
  /\ (device.queued \cup device.done) \cap freed = {}

\* A callback with a deleted buffer is kept from it by the flag.
CallbackHas ==
  callback.at # "none" /\ callback.buffer \in freed =>
    closing /\ (callback.at \in UsingStages => callback.at \in {"user", "requeue"} /\ callback.closed)

\* Every device has buffers of its own.
Numbered ==
  \A b \in freed \cup sysexBuffer : b[1] <= opens /\ (call[App].at = "buffers" => b[1] < opens)

Core ==
  /\ DriverCloses /\ OpensAlone /\ ClosesAlone /\ Quiesced
  /\ DriverHas /\ CallbackHas /\ Numbered

IInv == TypeOK /\ Registered /\ (~overlapped => Core)

(* What QuietAfterClose needs besides.                                      *)

\* The driver's thread opens no port: only an open can fail.
DriverNeverFails == ~call[Driver].fails

\* An open, and the close of one that failed, find the flag cleared.
OpensFromClosed == call[App].fails \/ call[App].at \in OpeningCalls => ~port_open

\* The flag outlives the device only while a close deletes the buffers.
FlagOutlivesDevice == port_open /\ inHandle = 0 => \E t \in Threads : call[t].at = "free"

\* Nothing runs and the driver has nothing to call back with.
Silent == callback.at = "none" /\ ~device.started /\ device.done = {}

\* After a successful close, and while the close of a failed open goes on, no
\* callback is in or on its way to the user's code, and closing keeps the next
\* ones out, or the driver has no reason for one.
Hushed == call[App].fails \/ (result = "ok" /\ ~port_open)
KeptOut ==
  Hushed => /\ callback.at \in {"designate", "user"} => callback.closed
            /\ closing \/ Silent

Calm == DriverNeverFails /\ OpensFromClosed /\ FlagOutlivesDevice /\ KeptOut

CalmInv == IInv /\ (~overlapped => Calm)
-----------------------------------------------------------------------------
(* Types.                                                                   *)

USE ThreadsAssumption, BoundsAssumption

CallRecords == [at : Calls, handle : Devices, quiesced : BOOLEAN, fails : BOOLEAN]
CallbackRecords == [at : Stages, buffer : Buffers \cup {NoBuffer}, filled : BOOLEAN, closed : BOOLEAN]

LEMMA CallTypes ==
  ASSUME call \in [Threads -> CallRecords], NEW t \in Threads
  PROVE  /\ NoCall \in CallRecords
         /\ \A rec \in CallRecords : [call EXCEPT ![t] = rec] \in [Threads -> CallRecords]
         /\ \A from, to \in Calls : At(t, from, to) => call' \in [Threads -> CallRecords]
         /\ Fail(t) => call' \in [Threads -> CallRecords]
<1>1. NoCall \in CallRecords /\ [NoCall EXCEPT !.at = "enter", !.fails = TRUE] \in CallRecords
  <2>1. 0 \in Devices
    BY DEF Devices
  <2> QED  BY <2>1 DEF CallRecords, NoCall, Calls
<1>2. \A rec \in CallRecords : [call EXCEPT ![t] = rec] \in [Threads -> CallRecords]
  OBVIOUS
<1>3. \A to \in Calls : [call[t] EXCEPT !.at = to] \in CallRecords
  BY DEF CallRecords
<1>4. ASSUME NEW from \in Calls, NEW to \in Calls, At(t, from, to) PROVE call' \in [Threads -> CallRecords]
  <2>1. call' = [call EXCEPT ![t] = [call[t] EXCEPT !.at = to]]
    BY <1>4 DEF At
  <2> QED  BY <1>2, <1>3, <2>1
<1>5. Fail(t) => call' \in [Threads -> CallRecords]
  BY <1>1, <1>2 DEF Fail
<1> QED  BY <1>1, <1>2, <1>4, <1>5

LEMMA CallbackTypes ==
  ASSUME callback \in CallbackRecords
  PROVE  /\ NoCallback \in CallbackRecords
         /\ \A from, to \in Stages : Goto(from, to) => callback' \in CallbackRecords
BY DEF CallbackRecords, NoCallback, Stages, Goto

LEMMA InitIInv == Init => IInv
<1> SUFFICES ASSUME Init PROVE IInv
  OBVIOUS
<1>1. TypeOK
  <2>1. 0 \in Devices
    BY DEF Devices
  <2>2. call \in [Threads -> CallRecords] /\ callback \in CallbackRecords
    BY <2>1 DEF Init, CallRecords, NoCall, Calls, CallbackRecords, NoCallback, Stages
  <2> QED  BY <2>1, <2>2 DEF Init, TypeOK, CallRecords, CallbackRecords
<1>2. Registered
  BY DEF Init, Registered, NoCallback, CountedStages
<1>3. Core
  BY DEF Init, Core, DriverCloses, OpensAlone, ClosesAlone, Quiesced, DriverHas, CallbackHas, Numbered,
         NoCall, NoCallback, Threads, OpeningCalls, LockedCalls
<1> QED  BY <1>1, <1>2, <1>3 DEF IInv

\* What is not a sequence of records.
Others ==
  /\ port_open \in BOOLEAN /\ destroyed \in BOOLEAN /\ opens \in Devices /\ inHandle \in Devices
  /\ closing \in BOOLEAN /\ mutex \in Threads \cup {NoThread}
  /\ sysexBuffer \subseteq Buffers /\ freed \subseteq Buffers
  /\ result \in {"none", "ok", "timed out", "failed"} /\ overlapped \in BOOLEAN

DeviceRecords ==
  [open : Devices, started : BOOLEAN,
   prepared : SUBSET Buffers, queued : SUBSET Buffers, done : SUBSET Buffers]

Parts ==
  /\ Others /\ device \in DeviceRecords
  /\ call \in [Threads -> CallRecords] /\ callback \in CallbackRecords

LEMMA TypesInParts ==
  /\ TypeOK <=> Parts /\ in_callback \in {0, 1} /\ callback_thread \in {NoThread, Driver}
  /\ TypeOK' <=> Parts' /\ in_callback' \in {0, 1} /\ callback_thread' \in {NoThread, Driver}
BY DEF TypeOK, Parts, Others, DeviceRecords, CallRecords, CallbackRecords

\* The count is a count: the driver makes one call at a time.
LEMMA RegisteredTypes ==
  ASSUME Registered' PROVE in_callback' \in {0, 1} /\ callback_thread' \in {NoThread, Driver}
BY DEF Registered

LEMMA OpeningParts ==
  ASSUME Parts, NEW t \in Threads, Open(t) \/ Opening(t) PROVE Parts'
<1>0. Others /\ device \in DeviceRecords /\ call \in [Threads -> CallRecords] /\ callback \in CallbackRecords
  BY DEF Parts
<1>1. CASE Open(t)
  <2>1. opens < MaxOpens
    BY <1>1 DEF Open
  <2>2. opens \in 0..MaxOpens
    BY <1>0 DEF Others, Devices
  <2>3. opens + 1 \in Devices
    BY <2>1, <2>2 DEF Devices
  <2>4. call' \in [Threads -> CallRecords]
    <3>1. "none" \in Calls /\ "buffers" \in Calls
      BY DEF Calls
    <3>2. At(t, "none", "buffers") \/ call' = call
      BY <1>1 DEF Open
    <3> QED  BY <1>0, <3>1, <3>2, CallTypes
  <2>5. device' \in DeviceRecords
    <3>1. \/ device' = [open |-> opens + 1, started |-> FALSE, prepared |-> {}, queued |-> {}, done |-> {}]
          \/ device' = device
      BY <1>1 DEF Open
    <3>2. [open |-> opens + 1, started |-> FALSE, prepared |-> {}, queued |-> {}, done |-> {}] \in DeviceRecords
      <4> HIDE DEF Devices, Buffers
      <4> QED  BY <2>3, SMT DEF DeviceRecords
    <3> QED  BY <1>0, <3>1, <3>2
  <2>6. /\ closing' = TRUE /\ opens' \in {opens, opens + 1} /\ inHandle' \in {inHandle, opens + 1}
        /\ overlapped' \in BOOLEAN
        /\ UNCHANGED <<port_open, destroyed, result, mutex, sysexBuffer, freed, callback>>
    BY <1>0, <1>1 DEF Open, Others, object_vars, buffer_vars
  <2> QED
    BY <1>0, <2>3, <2>4, <2>5, <2>6 DEF Parts, Others
<1>2. CASE AddBuffers(t)
  <2>1. PICK n \in 0..Count :
          LET upTo(i) == {b \in Allocated(opens) : b[2] <= i}
          IN /\ \E i \in {n, n + 1} : device' = [device EXCEPT !.prepared = upTo(i), !.queued = upTo(n)]
             /\ sysexBuffer' = upTo(n + 1)
             /\ IF n = Count THEN At(t, "buffers", "ready") ELSE Fail(t)
    BY <1>2 DEF AddBuffers
  <2>2. Allocated(opens) \subseteq Buffers
    BY <1>0 DEF Others, Allocated, Buffers
  <2>3. device' \in DeviceRecords /\ sysexBuffer' \subseteq Buffers
    BY <1>0, <2>1, <2>2 DEF DeviceRecords
  <2>4. call' \in [Threads -> CallRecords]
    <3>1. "buffers" \in Calls /\ "ready" \in Calls
      BY DEF Calls
    <3> QED  BY <1>0, <2>1, <3>1, CallTypes
  <2>5. UNCHANGED <<object_vars, opens, inHandle, closing, mutex, freed, callback, overlapped>>
    BY <1>2 DEF AddBuffers, atomics
  <2> QED
    BY <1>0, <2>3, <2>4, <2>5 DEF Parts, Others, object_vars
<1>3. CASE Ready(t)
  <2>1. "ready" \in Calls /\ "start" \in Calls
    BY DEF Calls
  <2> QED
    BY <1>3, <2>1, CallTypes DEF Ready, Parts, Others, object_vars, buffer_vars
<1>4. CASE Start(t)
  <2>1. call' \in [Threads -> CallRecords]
    BY <1>4, CallTypes DEF Start, Parts
  <2> QED
    BY <1>4, <2>1 DEF Start, Parts, Others, DeviceRecords, buffer_vars, atomics
<1> QED  BY <1>1, <1>2, <1>3, <1>4 DEF Opening

LEMMA ClosingParts ==
  ASSUME Parts, NEW t \in Threads, ClosePort(t) \/ Destroy \/ Closing(t) PROVE Parts'
<1>0. Others /\ device \in DeviceRecords /\ call \in [Threads -> CallRecords] /\ callback \in CallbackRecords
  BY DEF Parts
<1>0a. {"none", "enter", "stop", "wait", "unprepare", "close", "free"} \subseteq Calls /\ App \in Threads
  BY DEF Calls, Threads
<1>1. CASE ClosePort(t)
  <2>1. call' \in [Threads -> CallRecords]
    <3>1. At(t, "none", "enter") \/ call' = call
      BY <1>1 DEF ClosePort
    <3> QED  BY <1>0, <1>0a, <3>1, CallTypes
  <2>2. callback' \in CallbackRecords
    BY <1>0, <1>1 DEF ClosePort, CallbackRecords
  <2>3. port_open' \in {port_open, FALSE} /\ result' \in {result, "ok"}
    BY <1>1 DEF ClosePort
  <2>4. UNCHANGED <<destroyed, opens, inHandle, closing, mutex, buffer_vars, device, overlapped>>
    BY <1>1 DEF ClosePort, atomics
  <2> QED  BY <1>0, <2>1, <2>2, <2>3, <2>4 DEF Parts, Others, buffer_vars
<1>2. CASE Destroy
  <2>1. call' \in [Threads -> CallRecords]
    <3>1. At(App, "none", "enter") \/ call' = call
      BY <1>2 DEF Destroy
    <3> QED  BY <1>0, <1>0a, <3>1, CallTypes
  <2>2. destroyed' = TRUE
        /\ UNCHANGED <<port_open, result, opens, inHandle, closing, mutex, buffer_vars, device, callback, overlapped>>
    BY <1>2 DEF Destroy, atomics
  <2> QED  BY <1>0, <2>1, <2>2 DEF Parts, Others, buffer_vars
<1>3. CASE Enter(t)
  <2>1. call' = [call EXCEPT ![t] = [call[t] EXCEPT !.at = "stop", !.handle = inHandle]]
    BY <1>3 DEF Enter
  <2>2. [call[t] EXCEPT !.at = "stop", !.handle = inHandle] \in CallRecords
    BY <1>0, <1>0a DEF Others, CallRecords
  <2>3. closing' = TRUE /\ mutex' = t
        /\ UNCHANGED <<object_vars, opens, inHandle, buffer_vars, device, callback, overlapped>>
    BY <1>3 DEF Enter
  <2> QED  BY <1>0, <2>1, <2>2, <2>3, CallTypes DEF Parts, Others, object_vars, buffer_vars
<1>4. CASE Stop(t)
  <2>1. call' \in [Threads -> CallRecords]
    <3>1. At(t, "stop", "unprepare") \/ At(t, "stop", "wait")
      BY <1>4 DEF Stop
    <3> QED  BY <1>0, <1>0a, <3>1, CallTypes
  <2>2. device' \in DeviceRecords
    BY <1>0, <1>4 DEF Stop, DeviceRecords
  <2>3. UNCHANGED <<object_vars, opens, inHandle, closing, mutex, buffer_vars, callback, overlapped>>
    BY <1>4 DEF Stop, atomics
  <2> QED  BY <1>0, <2>1, <2>2, <2>3 DEF Parts, Others, object_vars, buffer_vars
<1>5. CASE Wait(t)
  <2>1. call' = [call EXCEPT ![t] = [call[t] EXCEPT !.at = "unprepare", !.quiesced = (in_callback = 0)]]
    BY <1>5 DEF Wait
  <2>2. [call[t] EXCEPT !.at = "unprepare", !.quiesced = (in_callback = 0)] \in CallRecords
    BY <1>0, <1>0a DEF CallRecords
  <2>3. UNCHANGED <<object_vars, opens, inHandle, closing, mutex, buffer_vars, device, callback, overlapped>>
    BY <1>5 DEF Wait, atomics
  <2> QED  BY <1>0, <2>1, <2>2, <2>3, CallTypes DEF Parts, Others, object_vars, buffer_vars
<1>6. CASE Unprepare(t)
  <2>1. call' \in [Threads -> CallRecords]
    BY <1>0, <1>0a, <1>6, CallTypes DEF Unprepare
  <2>2. device' \in DeviceRecords
    BY <1>0, <1>6 DEF Unprepare, DeviceRecords
  <2>3. UNCHANGED <<object_vars, opens, inHandle, closing, mutex, buffer_vars, callback, overlapped>>
    BY <1>6 DEF Unprepare, atomics
  <2> QED  BY <1>0, <2>1, <2>2, <2>3 DEF Parts, Others, object_vars, buffer_vars
<1>7. CASE CloseDevice(t)
  <2>1. call' \in [Threads -> CallRecords]
    <3>1. At(t, "close", "free") \/ call' = [call EXCEPT ![t] = NoCall]
      BY <1>7 DEF CloseDevice, Return
    <3> QED  BY <1>0, <1>0a, <3>1, CallTypes
  <2>2. device' \in DeviceRecords
    <3>1. device' = device \/ device' = [device EXCEPT !.open = 0, !.done = {}]
      BY <1>7 DEF CloseDevice
    <3>2. 0 \in Devices
      BY DEF Devices
    <3> QED  BY <1>0, <3>1, <3>2 DEF DeviceRecords
  <2>3. /\ inHandle' \in {inHandle, 0} /\ port_open' \in {port_open, FALSE}
        /\ result' \in {result, "timed out", "failed"} /\ mutex' \in {mutex, NoThread}
    BY <1>7 DEF CloseDevice, Return
  <2>4. UNCHANGED <<destroyed, opens, closing, buffer_vars, callback, overlapped>>
    BY <1>7 DEF CloseDevice, atomics
  <2>5. 0 \in Devices
    BY DEF Devices
  <2> QED  BY <1>0, <2>1, <2>2, <2>3, <2>4, <2>5 DEF Parts, Others, buffer_vars
<1>8. CASE Free(t)
  <2>1. call' \in [Threads -> CallRecords]
    BY <1>0, <1>8, CallTypes DEF Free, Return
  <2>2. /\ freed' = freed \cup sysexBuffer /\ sysexBuffer' = {}
        /\ port_open' \in {port_open, FALSE} /\ result' \in {result, "ok"} /\ mutex' = NoThread
    BY <1>8 DEF Free, Return
  <2>3. UNCHANGED <<destroyed, opens, inHandle, closing, device, callback, overlapped>>
    BY <1>8 DEF Free, atomics
  <2> QED  BY <1>0, <2>1, <2>2, <2>3 DEF Parts, Others
<1> QED  BY <1>1, <1>2, <1>3, <1>4, <1>5, <1>6, <1>7, <1>8 DEF Closing

LEMMA CallbackParts ==
  ASSUME Parts, Deliver \/ UserReturns \/ Guarded PROVE Parts'
<1>0. Others /\ device \in DeviceRecords /\ call \in [Threads -> CallRecords] /\ callback \in CallbackRecords
  BY DEF Parts
<1>1. UNCHANGED <<object_vars, opens, inHandle, closing, mutex, buffer_vars, call, overlapped>>
  BY DEF Deliver, UserReturns, Guarded, Name, Register, CheckClosing, Designate, Requeue, AddBuffer, Unregister,
         Forget, rest, atomics
<1>2. device' \in DeviceRecords /\ callback' \in CallbackRecords
  <2>1. CASE Deliver
    <3>1. \A b \in Buffers \cup {NoBuffer}, f \in BOOLEAN : Entered(b, f) \in CallbackRecords
      BY DEF Entered, CallbackRecords, Stages
    <3>2. \/ device' = device
          \/ \E b \in device.queued : device' = [device EXCEPT !.queued = @ \ {b}]
          \/ \E b \in device.done : device' = [device EXCEPT !.done = @ \ {b}]
      BY <2>1 DEF Deliver
    <3>3. \E b \in device.queued \cup device.done \cup {NoBuffer}, f \in BOOLEAN : callback' = Entered(b, f)
      BY <2>1 DEF Deliver
    <3>3a. device.queued \cup device.done \subseteq Buffers
      BY <1>0 DEF DeviceRecords
    <3>4. device' \in DeviceRecords
      BY <1>0, <3>2 DEF DeviceRecords
    <3> QED  BY <3>1, <3>3, <3>3a, <3>4
  <2>2. CASE AddBuffer
    <3>1. callback' \in CallbackRecords
      <4>1. "add" \in Stages /\ "leave" \in Stages
        BY DEF Stages
      <4> QED  BY <1>0, <2>2, <4>1, CallbackTypes DEF AddBuffer
    <3>2. device' = device \/ (callback.buffer \in device.prepared
                              /\ device' = [device EXCEPT !.queued = @ \cup {callback.buffer}])
      BY <2>2 DEF AddBuffer
    <3> QED  BY <1>0, <3>1, <3>2 DEF DeviceRecords
  <2>3. CASE Forget
    BY <1>0, <2>3, CallbackTypes DEF Forget
  <2>4. CASE UserReturns \/ Name \/ Register \/ CheckClosing \/ Designate \/ Requeue \/ Unregister
    <3>1. \E from, to \in Stages : Goto(from, to)
      BY <2>4 DEF UserReturns, Name, Register, CheckClosing, Designate, Requeue, Unregister, Stages
    <3>2. device' = device
      BY <2>4 DEF UserReturns, Name, Register, CheckClosing, Designate, Requeue, Unregister
    <3> QED  BY <1>0, <3>1, <3>2, CallbackTypes
  <2> QED  BY <2>1, <2>2, <2>3, <2>4 DEF Guarded
<1> QED  BY <1>0, <1>1, <1>2 DEF Parts, Others, object_vars, buffer_vars

LEMMA RegisteredStep ==
  ASSUME TypeOK, Registered, [Next]_vars PROVE Registered'
<1>0. callback \in CallbackRecords
  BY TypesInParts DEF Parts
<1>1. CASE \/ \E t \in Threads : Open(t) \/ Opening(t) \/ ClosePort(t) \/ Closing(t)
           \/ Destroy \/ UNCHANGED vars
  <2>1. UNCHANGED <<in_callback, callback_thread>>
    BY <1>1 DEF Open, Opening, AddBuffers, Ready, Start, ClosePort, Closing, Enter, Stop, Wait, Unprepare, CloseDevice,
                Free, Destroy, vars, atomics
  <2>2. callback' = callback \/ callback' = [callback EXCEPT !.closed = TRUE]
    BY <1>1 DEF Open, Opening, AddBuffers, Ready, Start, ClosePort, Closing, Enter, Stop, Wait, Unprepare, CloseDevice,
                Free, Destroy, vars, atomics
  <2>3. callback'.at = callback.at
    BY <1>0, <2>2 DEF CallbackRecords
  <2> QED  BY <2>1, <2>3 DEF Registered
<1>2. CASE Deliver
  <2>1. callback.at = "none" /\ callback'.at = "entered" /\ UNCHANGED <<in_callback, callback_thread>>
    BY <1>2 DEF Deliver, Entered, atomics
  <2> QED  BY <2>1 DEF Registered, CountedStages
<1>3. CASE UserReturns \/ CheckClosing \/ Designate \/ Requeue \/ AddBuffer
  <2>1. /\ callback.at \in CountedStages /\ callback'.at \in CountedStages
        /\ UNCHANGED <<in_callback, callback_thread>>
    BY <1>0, <1>3 DEF UserReturns, CheckClosing, Designate, Requeue, AddBuffer, Goto, CountedStages, CallbackRecords, atomics
  <2> QED  BY <2>1 DEF Registered, CountedStages
<1>4. CASE Name
  <2>1. /\ callback.at = "entered" /\ callback'.at = "named"
        /\ in_callback' = in_callback /\ callback_thread' = Driver
    BY <1>0, <1>4 DEF Name, Goto, CallbackRecords
  <2> QED  BY <2>1 DEF Registered, CountedStages
<1>5. CASE Register
  <2>1. /\ callback.at = "named" /\ callback'.at = "counted"
        /\ in_callback' = in_callback + 1 /\ callback_thread' = callback_thread
    BY <1>0, <1>5 DEF Register, Goto, CallbackRecords
  <2> QED  BY <2>1 DEF Registered, CountedStages
<1>6. CASE Unregister
  <2>1. /\ callback.at = "leave" /\ callback'.at = "left"
        /\ in_callback' = in_callback - 1 /\ callback_thread' = callback_thread
    BY <1>0, <1>6 DEF Unregister, Goto, CallbackRecords
  <2> QED  BY <2>1 DEF Registered, CountedStages
<1>7. CASE Forget
  <2>1. /\ callback.at = "left" /\ callback'.at = "none"
        /\ in_callback' = in_callback /\ callback_thread' = NoThread
    BY <1>7 DEF Forget, NoCallback
  <2> QED  BY <2>1 DEF Registered, CountedStages
<1> QED  BY <1>1, <1>2, <1>3, <1>4, <1>5, <1>6, <1>7 DEF Next, Guarded

LEMMA TypeStep ==
  ASSUME TypeOK, Registered, [Next]_vars PROVE TypeOK'
<1>1. Parts'
  <2>1. Parts
    BY TypesInParts
  <2>2. CASE UNCHANGED vars
    BY <2>1, <2>2 DEF vars, object_vars, atomics, buffer_vars, Parts, Others
  <2>3. CASE Destroy
    <3>1. App \in Threads
      BY DEF Threads
    <3> QED  BY <2>1, <2>3, <3>1, ClosingParts
  <2>4. ASSUME NEW t \in Threads, Open(t) \/ Opening(t) \/ ClosePort(t) \/ Closing(t) PROVE Parts'
    BY <2>1, <2>4, OpeningParts, ClosingParts
  <2>5. CASE Deliver \/ UserReturns \/ Guarded
    BY <2>1, <2>5, CallbackParts
  <2> QED  BY <2>2, <2>3, <2>4, <2>5 DEF Next
<1> QED  BY <1>1, RegisteredStep, RegisteredTypes, TypesInParts

-----------------------------------------------------------------------------
(* The steps of the application and of a close.                             *)

LEMMA Facts ==
  ASSUME IInv
  PROVE  /\ Parts /\ TypeOK /\ Registered
         /\ call \in [Threads -> CallRecords] /\ callback \in CallbackRecords /\ device \in DeviceRecords
         /\ opens \in Nat /\ freed \cup sysexBuffer \subseteq Buffers
<1>1. Parts /\ TypeOK /\ Registered
  BY TypesInParts DEF IInv
<1>2. Others
  BY <1>1 DEF Parts
<1>3. opens \in Nat /\ freed \cup sysexBuffer \subseteq Buffers
  <2>1. opens \in Devices /\ freed \subseteq Buffers /\ sysexBuffer \subseteq Buffers
    BY <1>2 DEF Others
  <2>2. Devices \subseteq Nat
    BY DEF Devices
  <2> QED  BY <2>1, <2>2
<1> QED  BY <1>1, <1>3 DEF Parts

\* A thread goes from one place to the next.
LEMMA Goes ==
  ASSUME call \in [Threads -> CallRecords], NEW t \in Threads, NEW from, NEW to, At(t, from, to)
  PROVE  /\ call[t].at = from /\ call'[t].at = to
         /\ call'[t].handle = call[t].handle /\ call'[t].quiesced = call[t].quiesced
         /\ call'[t].fails = call[t].fails
         /\ \A u \in Threads \ {t} : call'[u] = call[u]
<1>1. call' = [call EXCEPT ![t] = [call[t] EXCEPT !.at = to]] /\ call[t].at = from
  BY DEF At
<1>2. call[t] \in CallRecords
  OBVIOUS
<1> QED  BY <1>1, <1>2 DEF CallRecords

LEMMA Before == ASSUME IInv, [Next]_vars, ~overlapped' PROVE ~overlapped /\ Core
<1>1. overlapped' \in {overlapped, TRUE}
  <2>1. ASSUME NEW t \in Threads, Open(t) PROVE overlapped' \in {overlapped, TRUE}
    BY <2>1 DEF Open
  <2>2. ASSUME NEW t \in Threads, Opening(t) \/ ClosePort(t) \/ Closing(t) PROVE overlapped' = overlapped
    BY <2>2 DEF Opening, AddBuffers, Ready, Start, ClosePort, Closing, Enter, Stop, Wait, Unprepare, CloseDevice, Free
  <2>3. CASE Destroy \/ Deliver \/ UserReturns \/ Guarded \/ UNCHANGED vars
    BY <2>3 DEF Destroy, Deliver, UserReturns, Guarded, Name, Register, CheckClosing, Designate, Requeue, AddBuffer,
                Unregister, Forget, rest, vars
  <2> QED  BY <2>1, <2>2, <2>3 DEF Next
<1>2. overlapped' # TRUE
  OBVIOUS
<1>3. overlapped' = overlapped
  BY <1>1, <1>2
<1>4. ~overlapped
  BY <1>3, Zenon
<1> QED  BY <1>4 DEF IInv

LEMMA OpenStep ==
  ASSUME IInv, Core, ~overlapped', NEW t \in Threads, Open(t) PROVE Core'
<1>1. /\ closing' = TRUE
      /\ UNCHANGED <<in_callback, callback_thread, mutex, sysexBuffer, freed, callback>>
  BY DEF Open, buffer_vars
<1>2. CASE UNCHANGED <<call, opens, inHandle, device>>
  BY <1>1, <1>2 DEF Core, DriverCloses, OpensAlone, ClosesAlone, Quiesced, DriverHas, CallbackHas, Numbered
<1>3. CASE ~UNCHANGED <<call, opens, inHandle, device>>
  <2>1. /\ At(t, "none", "buffers")
        /\ opens' = opens + 1 /\ inHandle' = opens + 1
        /\ device' = [open |-> opens + 1, started |-> FALSE, prepared |-> {}, queued |-> {}, done |-> {}]
        /\ callback.at = "none"
    BY <1>3 DEF Open
  <2>2. \A b \in freed \cup sysexBuffer : b[1] <= opens /\ b[1] \in Nat /\ opens \in Nat
    BY Facts DEF Core, Numbered, Buffers, Devices
  <2>3. call[Driver].at = "none" /\ t = App
    <3>1. call[Driver].at = "none"
      BY <2>1 DEF Core, DriverCloses
    <3>2. t = Driver => callback.at = "user"
      BY DEF Open, MayCall
    <3> QED  BY <2>1, <3>1, <3>2 DEF Threads
  <2>4. call'[App].at = "buffers" /\ call'[Driver].at = "none"
    BY <2>1, <2>3, Facts, Goes DEF Threads
  <2>5. \A u \in Threads : call'[u].at \notin LockedCalls
    BY <2>4 DEF Threads, LockedCalls
  <2>6. DriverCloses' /\ OpensAlone' /\ ClosesAlone' /\ Quiesced'
    BY <1>1, <2>1, <2>2, <2>4, <2>5, Facts DEF DriverCloses, OpensAlone, ClosesAlone, Quiesced, LockedCalls
  <2>7. DriverHas' /\ CallbackHas'
    BY <1>1, <2>1 DEF DriverHas, CallbackHas
  <2>8. Numbered'
    BY <1>1, <2>1, <2>2 DEF Numbered
  <2> QED  BY <2>6, <2>7, <2>8 DEF Core
<1> QED  BY <1>2, <1>3

\* It is the application that opens, with the driver's thread elsewhere.
LEMMA Opener ==
  ASSUME IInv, Core, NEW t \in Threads, call[t].at \in OpeningCalls
  PROVE  t = App /\ callback.at = "none" /\ inHandle # 0 /\ call[Driver].at = "none"
<1>1. t = App
  BY DEF Core, DriverCloses, Threads, OpeningCalls, LockedCalls
<1> QED  BY <1>1 DEF Core, OpensAlone, DriverCloses

LEMMA AddBuffersStep ==
  ASSUME IInv, Core, NEW t \in Threads, AddBuffers(t) PROVE Core'
<1>1. t = App /\ call[App].at = "buffers" /\ callback.at = "none" /\ inHandle # 0 /\ call[Driver].at = "none"
  BY Opener DEF AddBuffers, OpeningCalls
<1>2. UNCHANGED <<opens, inHandle, closing, mutex, freed, callback>>
  BY DEF AddBuffers, atomics
<1>3. /\ sysexBuffer' \subseteq Allocated(opens)
      /\ device'.queued \subseteq Allocated(opens)
      /\ device'.open = device.open /\ device'.started = device.started /\ device'.done = device.done
  BY Facts DEF AddBuffers, DeviceRecords
<1>4. call'[Driver].at = "none" /\ call'[App].at \in {"none", "enter", "ready"}
  <2>1. CASE At(App, "buffers", "ready")
    BY <1>1, <2>1, Facts, Goes DEF Threads
  <2>2. CASE Fail(App)
    BY <1>1, <2>2, Facts DEF Fail, NoCall, CallRecords, Threads
  <2> QED  BY <1>1, <2>1, <2>2 DEF AddBuffers
<1>5. \A b \in Allocated(opens) : b[1] = opens
  BY DEF Allocated
<1>6. DriverCloses' /\ OpensAlone' /\ ClosesAlone' /\ Quiesced' /\ CallbackHas'
  BY <1>1, <1>2, <1>3, <1>4 DEF Core, OpensAlone, DriverCloses, ClosesAlone, Quiesced, CallbackHas, OpeningCalls, LockedCalls,
                                Threads
<1>7. DriverHas'
  <2>1. Allocated(opens) \cap freed = {}
    BY <1>1, <1>5, Facts DEF Core, Numbered
  <2> QED  BY <1>1, <1>2, <1>3, <2>1 DEF Core, DriverHas
<1>8. Numbered'
  BY <1>1, <1>2, <1>3, <1>4, <1>5, Facts DEF Core, Numbered
<1> QED  BY <1>6, <1>7, <1>8 DEF Core

LEMMA ReadyStartStep ==
  ASSUME IInv, Core, NEW t \in Threads, Ready(t) \/ Start(t) PROVE Core'
<1>1. t = App /\ call[App].at \in {"ready", "start"} /\ callback.at = "none" /\ inHandle # 0 /\ call[Driver].at = "none"
  BY Opener DEF Ready, Start, At, OpeningCalls
<1>2. UNCHANGED <<opens, inHandle, mutex, sysexBuffer, freed, callback>>
  BY DEF Ready, Start, buffer_vars
<1>3. /\ device'.open = device.open /\ device'.queued = device.queued /\ device'.done = device.done
      /\ Ready(t) => device' = device
  BY Facts DEF Ready, Start, DeviceRecords
<1>4. /\ call'[Driver].at = "none"
      /\ Ready(t) => call'[App].at = "start"
      /\ Start(t) => call'[App].at \in {"none", "enter"}
  <2>1. CASE Ready(App)
    <3>1. At(App, "ready", "start") /\ ~Start(App)
      BY <2>1 DEF Ready, Start, At
    <3> QED  BY <1>1, <3>1, Facts, Goes DEF Threads
  <2>2. CASE Start(App)
    <3>1. ~Ready(App) /\ (call' = [call EXCEPT ![App] = NoCall] \/ Fail(App))
      BY <1>1, <2>2 DEF Ready, Start, At
    <3>2. CASE call' = [call EXCEPT ![App] = NoCall]
      BY <1>1, <3>1, <3>2, Facts DEF NoCall, Threads
    <3>3. CASE Fail(App)
      BY <1>1, <3>1, <3>3, Facts DEF Fail, NoCall, CallRecords, Threads
    <3> QED  BY <1>1, <2>2, <3>1, <3>2, <3>3
  <2> QED  BY <1>1, <2>1, <2>2
<1>5. DriverCloses' /\ OpensAlone' /\ ClosesAlone' /\ Quiesced' /\ CallbackHas'
  BY <1>1, <1>2, <1>3, <1>4 DEF Core, OpensAlone, DriverCloses, ClosesAlone, Quiesced, CallbackHas, OpeningCalls, LockedCalls,
                                Threads
<1>6. DriverHas' /\ Numbered'
  BY <1>1, <1>2, <1>3, <1>4 DEF Core, DriverHas, Numbered
<1> QED  BY <1>5, <1>6 DEF Core

LEMMA BeginCloseStep ==
  ASSUME IInv, Core, NEW t \in Threads, ClosePort(t) \/ (t = App /\ Destroy) PROVE Core'
<1>1. UNCHANGED <<opens, inHandle, closing, mutex, sysexBuffer, freed, device>>
  BY DEF ClosePort, Destroy, atomics, buffer_vars
<1>2. /\ call[t].at = "none" /\ call'[t].at \in {"none", "enter"}
      /\ \A u \in Threads \ {t} : call'[u] = call[u]
  <2>1. call[t].at = "none" /\ (At(t, "none", "enter") \/ call' = call)
    BY DEF ClosePort, Destroy, MayCall
  <2> QED  BY <2>1, Facts, Goes
<1>3. /\ callback'.at = callback.at /\ callback'.buffer = callback.buffer
      /\ callback.closed => callback'.closed
      /\ t = Driver => callback.at = "user" /\ callback'.closed
  BY Facts DEF ClosePort, Destroy, MayCall, CallbackRecords
<1>4. DriverCloses'
  BY <1>2, <1>3 DEF Core, DriverCloses, Threads
<1>5. OpensAlone' /\ ClosesAlone' /\ Quiesced' /\ Numbered'
  <2>1. \A u \in Threads : call'[u] = call[u] \/ call'[u].at \in {"none", "enter"}
    BY <1>2
  <2> QED  BY <1>1, <1>3, <2>1 DEF Core, OpensAlone, ClosesAlone, Quiesced, Numbered, OpeningCalls, LockedCalls, Threads
<1>6. DriverHas' /\ CallbackHas'
  BY <1>1, <1>3 DEF Core, DriverHas, CallbackHas
<1> QED  BY <1>4, <1>5, <1>6 DEF Core
LEMMA EnterStep ==
  ASSUME IInv, Core, NEW t \in Threads, Enter(t) PROVE Core'
<1>1. /\ mutex = NoThread /\ mutex' = t /\ closing' = TRUE
      /\ UNCHANGED <<opens, inHandle, sysexBuffer, freed, device, callback>>
  BY DEF Enter, buffer_vars
<1>2. /\ call[t].at = "enter" /\ call'[t].at = "stop" /\ call'[t].handle = inHandle
      /\ \A u \in Threads \ {t} : call'[u] = call[u]
  <2>1. call[t].at = "enter" /\ call' = [call EXCEPT ![t] = [call[t] EXCEPT !.at = "stop", !.handle = inHandle]]
    BY DEF Enter
  <2> QED  BY <2>1, Facts DEF CallRecords
<1>3. \A u \in Threads \ {t} : call[u].at \notin LockedCalls
  BY <1>1, ThreadsAssumption DEF Core, ClosesAlone, Threads
<1>4. DriverCloses'
  BY <1>1, <1>2 DEF Core, DriverCloses, Threads, LockedCalls
<1>5. OpensAlone' /\ ClosesAlone' /\ Quiesced' /\ Numbered'
  BY <1>1, <1>2, <1>3 DEF Core, OpensAlone, ClosesAlone, Quiesced, Numbered, OpeningCalls, LockedCalls, Threads
<1>6. DriverHas' /\ CallbackHas'
  BY <1>1 DEF Core, DriverHas, CallbackHas
<1> QED  BY <1>4, <1>5, <1>6 DEF Core

\* One step of a close that keeps the mutex and the handle.
LEMMA Closer ==
  ASSUME IInv, Core, NEW t \in Threads, call[t].at \in LockedCalls
  PROVE  /\ mutex = t /\ closing
         /\ \A u \in Threads \ {t} : call[u].at \notin LockedCalls
         /\ call[App].at \notin OpeningCalls
         /\ t = Driver => callback.at = "user" /\ callback.closed
<1>1. mutex = t /\ closing
  BY DEF Core, ClosesAlone
<1>2. \A u \in Threads \ {t} : call[u].at \notin LockedCalls
  BY <1>1 DEF Core, ClosesAlone
<1>3. t = Driver => callback.at = "user" /\ callback.closed
  BY DEF Core, DriverCloses, LockedCalls
<1>4. t = Driver => call[App].at \notin OpeningCalls
  BY <1>3 DEF Core, OpensAlone
<1>5. t = App => call[App].at \notin OpeningCalls
  BY DEF LockedCalls, OpeningCalls
<1> QED  BY <1>1, <1>2, <1>3, <1>4, <1>5 DEF Threads

LEMMA StopStep ==
  ASSUME IInv, Core, NEW t \in Threads, Stop(t) PROVE Core'
<1>1. UNCHANGED <<opens, inHandle, closing, mutex, sysexBuffer, freed, callback>>
  BY DEF Stop, atomics, buffer_vars
<1>2. /\ call[t].at = "stop" /\ call'[t].handle = call[t].handle
      /\ call'[t].at = IF callback_thread = t THEN "unprepare" ELSE "wait"
      /\ \A u \in Threads \ {t} : call'[u] = call[u]
  BY Facts, Goes DEF Stop
<1>3. /\ device'.open = device.open
      /\ device'.queued \cup device'.done \subseteq device.queued \cup device.done
  BY Facts DEF Stop, DeviceRecords
<1>4. t = App => call'[App].at = "wait"
  BY <1>2, Facts, ThreadsAssumption DEF Registered
<1>5. call[App].at \notin OpeningCalls
  BY <1>2, Closer DEF LockedCalls, OpeningCalls, Threads
<1>6. DriverCloses' /\ ClosesAlone'
  BY <1>1, <1>2 DEF Core, DriverCloses, ClosesAlone, LockedCalls, Threads
<1>7. OpensAlone' /\ Quiesced' /\ Numbered'
  <2>1. call'[App].at = "wait" \/ call'[App] = call[App]
    BY <1>2, <1>4 DEF Threads
  <2> QED  BY <1>1, <1>5, <2>1 DEF Core, OpensAlone, Quiesced, Numbered, OpeningCalls
<1>8. DriverHas' /\ CallbackHas'
  BY <1>1, <1>3 DEF Core, DriverHas, CallbackHas
<1> QED  BY <1>6, <1>7, <1>8 DEF Core

LEMMA WaitStep ==
  ASSUME IInv, Core, NEW t \in Threads, Wait(t) PROVE Core'
<1>1. UNCHANGED <<opens, inHandle, closing, mutex, sysexBuffer, freed, device, callback>>
  BY DEF Wait, atomics, buffer_vars
<1>2. /\ call[t].at = "wait" /\ call'[t].at = "unprepare" /\ call'[t].handle = call[t].handle
      /\ call'[t].quiesced = (in_callback = 0)
      /\ \A u \in Threads \ {t} : call'[u] = call[u]
  <2>1. call[t].at = "wait"
        /\ call' = [call EXCEPT ![t] = [call[t] EXCEPT !.at = "unprepare", !.quiesced = (in_callback = 0)]]
    BY DEF Wait
  <2> QED  BY <2>1, Facts DEF CallRecords
<1>3. in_callback = 0 => callback.at \notin UsingStages
  BY Facts DEF Registered, UsingStages, CountedStages
<1>4. call[App].at \notin OpeningCalls
  BY <1>2, Closer DEF LockedCalls, OpeningCalls, Threads
<1>5. DriverCloses' /\ ClosesAlone'
  BY <1>1, <1>2 DEF Core, DriverCloses, ClosesAlone, LockedCalls, Threads
<1>6. Quiesced'
  BY <1>1, <1>2, <1>3 DEF Core, Quiesced, Threads
<1>7. OpensAlone' /\ Numbered'
  <2>1. call'[App].at = "unprepare" \/ call'[App] = call[App]
    BY <1>2 DEF Threads
  <2> QED  BY <1>1, <1>4, <2>1 DEF Core, OpensAlone, Numbered, OpeningCalls
<1>8. DriverHas' /\ CallbackHas'
  BY <1>1 DEF Core, DriverHas, CallbackHas
<1> QED  BY <1>5, <1>6, <1>7, <1>8 DEF Core

LEMMA UnprepareStep ==
  ASSUME IInv, Core, NEW t \in Threads, Unprepare(t) PROVE Core'
<1>1. UNCHANGED <<opens, inHandle, closing, mutex, sysexBuffer, freed, callback>>
  BY DEF Unprepare, atomics, buffer_vars
<1>2. /\ call[t].at = "unprepare" /\ call'[t].at = "close" /\ call'[t].handle = call[t].handle
      /\ call'[t].quiesced = call[t].quiesced
      /\ \A u \in Threads \ {t} : call'[u] = call[u]
  BY Facts, Goes DEF Unprepare
<1>3. device'.open = device.open /\ device'.queued = device.queued /\ device'.done = device.done
  BY Facts DEF Unprepare, DeviceRecords
<1>4. call[App].at \notin OpeningCalls
  BY <1>2, Closer DEF LockedCalls, OpeningCalls, Threads
<1>5. DriverCloses' /\ ClosesAlone'
  BY <1>1, <1>2 DEF Core, DriverCloses, ClosesAlone, LockedCalls, Threads
<1>6. OpensAlone' /\ Quiesced' /\ Numbered'
  <2>1. \/ call'[App] = call[App]
        \/ call[App].at = "unprepare" /\ call'[App].at = "close" /\ call'[App].quiesced = call[App].quiesced
    BY <1>2 DEF Threads
  <2> QED  BY <1>1, <1>4, <2>1 DEF Core, OpensAlone, Quiesced, Numbered, OpeningCalls
<1>7. DriverHas' /\ CallbackHas'
  BY <1>1, <1>3 DEF Core, DriverHas, CallbackHas
<1> QED  BY <1>5, <1>6, <1>7 DEF Core
LEMMA CloseDeviceStep ==
  ASSUME IInv, Core, NEW t \in Threads, CloseDevice(t) PROVE Core'
<1>1. UNCHANGED <<opens, closing, sysexBuffer, freed, callback>>
  BY DEF CloseDevice, atomics, buffer_vars
<1>2. call[t].at = "close" /\ call[t].handle = inHandle /\ mutex = t /\ closing /\ device.open = inHandle
  BY DEF CloseDevice, Core, ClosesAlone, LockedCalls, DriverHas
<1>3. /\ inHandle' \in {0, inHandle} /\ device'.open = inHandle'
      /\ device'.queued = device.queued /\ device'.done \in {device.done, {}}
      /\ inHandle' = 0 => device'.queued = {} /\ device'.done = {}
  <2>1. CASE inHandle = 0
    <3>1. inHandle' = 0 /\ device' = device
      BY <1>2, <2>1 DEF CloseDevice, Closes
    <3> QED  BY <1>2, <2>1, <3>1 DEF Core, DriverHas
  <2>2. CASE inHandle # 0 /\ Closes(t)
    <3>1. inHandle' = 0 /\ device' = [device EXCEPT !.open = 0, !.done = {}] /\ device.queued = {}
      BY <1>2, <2>2 DEF CloseDevice, Closes
    <3> QED  BY <3>1, Facts DEF DeviceRecords
  <2>3. CASE inHandle # 0 /\ ~Closes(t)
    BY <1>2, <2>3 DEF CloseDevice
  <2> QED  BY <2>1, <2>2, <2>3
<1>4. /\ \/ call'[t].at = "none"
         \/ call'[t].at = "free" /\ call[t].quiesced /\ call'[t].quiesced = call[t].quiesced
            /\ mutex' = mutex /\ inHandle' = 0
      /\ \A u \in Threads \ {t} : call'[u] = call[u]
  <2>1. \/ call' = [call EXCEPT ![t] = NoCall]
        \/ At(t, "close", "free") /\ call[t].quiesced /\ mutex' = mutex /\ inHandle' = 0
    BY DEF CloseDevice, Return
  <2>2. CASE call' = [call EXCEPT ![t] = NoCall]
    BY <2>2, Facts DEF NoCall
  <2>3. CASE At(t, "close", "free") /\ call[t].quiesced /\ mutex' = mutex /\ inHandle' = 0
    BY <2>3, Facts, Goes
  <2> QED  BY <2>1, <2>2, <2>3
<1>5. /\ \A u \in Threads \ {t} : call[u].at \notin LockedCalls
      /\ call[App].at \notin OpeningCalls
  BY <1>2, Closer DEF LockedCalls
<1>6. DriverCloses'
  BY <1>1, <1>2, <1>4 DEF Core, DriverCloses, LockedCalls, Threads
<1>7. ClosesAlone'
  BY <1>1, <1>2, <1>4, <1>5 DEF ClosesAlone, Threads, LockedCalls
<1>8. OpensAlone' /\ Numbered'
  <2>1. call'[App].at \in {"none", "free"} \/ call'[App] = call[App]
    BY <1>4 DEF Threads
  <2> QED  BY <1>1, <1>5, <2>1 DEF Core, OpensAlone, Numbered, OpeningCalls
<1>9. Quiesced'
  <2>1. CASE t = App
    BY <1>1, <1>2, <1>4, <2>1 DEF Core, Quiesced
  <2>2. CASE t = Driver
    BY <1>1, <1>4, <2>2, ThreadsAssumption DEF Core, Quiesced, Threads
  <2> QED  BY <2>1, <2>2 DEF Threads
<1>10. DriverHas' /\ CallbackHas'
  BY <1>1, <1>3 DEF Core, DriverHas, CallbackHas
<1> QED  BY <1>6, <1>7, <1>8, <1>9, <1>10 DEF Core

LEMMA FreeStep ==
  ASSUME IInv, Core, NEW t \in Threads, Free(t) PROVE Core'
<1>1. /\ freed' = freed \cup sysexBuffer /\ sysexBuffer' = {} /\ mutex' = NoThread
      /\ UNCHANGED <<opens, inHandle, closing, device, callback>>
  BY DEF Free, Return, atomics
<1>2. call[t].at = "free" /\ inHandle = 0
  BY DEF Free, Core, ClosesAlone, LockedCalls
<1>3. call'[t].at = "none" /\ \A u \in Threads \ {t} : call'[u] = call[u]
  <2>1. call' = [call EXCEPT ![t] = NoCall]
    BY DEF Free, Return
  <2> QED  BY <2>1, Facts DEF NoCall
<1>4. /\ closing /\ call[App].at \notin OpeningCalls
      /\ \A u \in Threads \ {t} : call[u].at \notin LockedCalls
      /\ t = Driver => callback.at = "user" /\ callback.closed
  BY <1>2, Closer DEF LockedCalls
<1>5. t = App => callback.at \notin UsingStages
  BY <1>2 DEF Core, Quiesced
<1>6. DriverCloses' /\ ClosesAlone'
  BY <1>1, <1>3, <1>4 DEF Core, DriverCloses, ClosesAlone, LockedCalls, Threads
<1>7. OpensAlone' /\ Quiesced' /\ Numbered'
  <2>1. call'[App].at = "none" \/ call'[App] = call[App]
    BY <1>3 DEF Threads
  <2> QED  BY <1>1, <1>4, <2>1 DEF Core, OpensAlone, Quiesced, Numbered, OpeningCalls
<1>8. DriverHas'
  BY <1>1, <1>2 DEF Core, DriverHas
<1>9. CallbackHas'
  BY <1>1, <1>4, <1>5 DEF CallbackHas, Threads
<1> QED  BY <1>6, <1>7, <1>8, <1>9 DEF Core

-----------------------------------------------------------------------------
(* The steps of the callback.                                               *)

LEMMA DeliverStep ==
  ASSUME IInv, Core, Deliver PROVE Core'
<1>1. UNCHANGED <<opens, inHandle, closing, mutex, sysexBuffer, freed, call>>
  BY DEF Deliver, rest, atomics, buffer_vars
<1>2. callback.at = "none" /\ device.open # 0 /\ callback'.at = "entered"
  BY DEF Deliver, Entered
<1>3. device.started \/ device.done # {}
  BY DEF Deliver
<1>4. call[Driver].at = "none" /\ call[App].at \notin OpeningCalls
  BY <1>2, <1>3 DEF Core, DriverCloses, OpensAlone
<1>5. /\ device'.open = device.open
      /\ device'.queued \cup device'.done \subseteq device.queued \cup device.done
      /\ callback'.buffer \in device.queued \cup device.done \cup {NoBuffer}
  <2>1. \/ device' = device /\ callback' = Entered(NoBuffer, FALSE)
        \/ \E b \in device.queued : device' = [device EXCEPT !.queued = @ \ {b}] /\ callback' = Entered(b, TRUE)
        \/ \E b \in device.done : device' = [device EXCEPT !.done = @ \ {b}] /\ callback' = Entered(b, FALSE)
    BY DEF Deliver
  <2> QED  BY <2>1, Facts DEF DeviceRecords, Entered
<1>6. NoBuffer \notin freed
  <2>1. NoBuffer \notin Buffers
    BY DEF NoBuffer, Buffers
  <2> QED  BY <2>1, Facts
<1>7. DriverCloses' /\ OpensAlone' /\ ClosesAlone' /\ Quiesced' /\ Numbered'
  BY <1>1, <1>2, <1>4 DEF Core, DriverCloses, OpensAlone, ClosesAlone, Quiesced, Numbered, UsingStages
<1>8. DriverHas'
  BY <1>1, <1>2, <1>5 DEF Core, DriverHas
<1>9. CallbackHas'
  BY <1>1, <1>5, <1>6 DEF Core, DriverHas, CallbackHas
<1> QED  BY <1>7, <1>8, <1>9 DEF Core

LEMMA Moves ==
  ASSUME callback \in CallbackRecords, NEW from, NEW to, Goto(from, to)
  PROVE  /\ callback.at = from /\ callback'.at = to
         /\ callback'.buffer = callback.buffer /\ callback'.closed = callback.closed
BY DEF Goto, CallbackRecords

\* The callback goes on with its buffer, and stays out of the user's code when
\* the port is closing.
LEMMA CallbackMoves ==
  ASSUME IInv, UserReturns \/ Guarded
  PROVE  /\ callback.at # "none"
         /\ callback.at = "user" => call[Driver].at = "none"
         /\ callback'.at # "none" => callback'.buffer = callback.buffer /\ callback'.closed = callback.closed
         /\ closing /\ callback'.at \in UsingStages =>
              callback.at = "designate" \/ (callback.at = "user" /\ callback'.at = "requeue")
<1>1. /\ callback.at # "none"
      /\ callback.at = "user" => call[Driver].at = "none"
      /\ callback'.at # "none" => callback'.buffer = callback.buffer /\ callback'.closed = callback.closed
  <2>1. CASE Forget
    BY <2>1 DEF Forget, NoCallback
  <2>2. CASE ~Forget
    <3>1. \E from, to \in Stages :
            /\ Goto(from, to) /\ from # "none"
            /\ from = "user" => call[Driver].at = "none"
      BY <2>2 DEF UserReturns, Guarded, Name, Register, CheckClosing, Designate, Requeue, AddBuffer, Unregister, Stages
    <3> QED  BY <3>1, Moves, Facts
  <2> QED  BY <2>1, <2>2
<1>2. closing /\ callback'.at \in UsingStages =>
        callback.at = "designate" \/ (callback.at = "user" /\ callback'.at = "requeue")
  <2>1. CASE Forget
    BY <2>1 DEF Forget, NoCallback, UsingStages
  <2>2. CASE ~Forget
    <3>1. \E from, to \in Stages :
            /\ Goto(from, to)
            /\ closing /\ to \in UsingStages => from = "designate" \/ (from = "user" /\ to = "requeue")
      BY <2>2 DEF UserReturns, Guarded, Name, Register, CheckClosing, Designate, Requeue, AddBuffer, Unregister, Stages,
                  UsingStages
    <3> QED  BY <3>1, Moves, Facts
  <2> QED  BY <2>1, <2>2
<1> QED  BY <1>1, <1>2

LEMMA CallbackStep ==
  ASSUME IInv, Core, UserReturns \/ Guarded PROVE Core'
<1>1. UNCHANGED <<opens, inHandle, closing, mutex, sysexBuffer, freed, call>>
  BY DEF UserReturns, Guarded, Name, Register, CheckClosing, Designate, Requeue, AddBuffer, Unregister, Forget,
         rest, atomics, buffer_vars
<1>2. /\ callback.at # "none"
      /\ callback.at = "user" => call[Driver].at = "none"
      /\ callback'.at # "none" => callback'.buffer = callback.buffer /\ callback'.closed = callback.closed
  BY CallbackMoves
<1>3. closing /\ callback'.at \in UsingStages =>
        callback.at = "designate" \/ (callback.at = "user" /\ callback'.at = "requeue")
  BY CallbackMoves
<1>4. call[Driver].at = "none" /\ call[App].at \notin OpeningCalls
  BY <1>2 DEF Core, DriverCloses, OpensAlone
<1>5. /\ device'.open = device.open /\ device'.done = device.done
      /\ \/ device'.queued = device.queued
         \/ callback.at = "add" /\ inHandle # 0 /\ device'.queued = device.queued \cup {callback.buffer}
  <2>1. CASE AddBuffer
    BY <2>1, Facts DEF AddBuffer, Goto, DeviceRecords
  <2>2. CASE ~AddBuffer
    BY <2>2 DEF UserReturns, Guarded, Name, Register, CheckClosing, Designate, Requeue, Unregister, Forget
  <2> QED  BY <2>1, <2>2
<1>6. DriverCloses' /\ OpensAlone' /\ ClosesAlone' /\ Numbered'
  BY <1>1, <1>4 DEF Core, DriverCloses, OpensAlone, ClosesAlone, Numbered
<1>7. Quiesced'
  <2>1. call[App].at \in {"unprepare", "close", "free"} => closing
    BY DEF Core, ClosesAlone, LockedCalls, Threads
  <2> QED  BY <1>1, <1>3, <2>1 DEF Core, Quiesced, UsingStages
<1>8. DriverHas'
  <2>1. callback.at = "add" => callback.buffer \notin freed
    BY DEF Core, CallbackHas, UsingStages
  <2> QED  BY <1>1, <1>5, <2>1 DEF Core, DriverHas
<1>9. CallbackHas'
  BY <1>1, <1>2, <1>3 DEF Core, CallbackHas, UsingStages
<1> QED  BY <1>6, <1>7, <1>8, <1>9 DEF Core

-----------------------------------------------------------------------------

LEMMA CoreStep ==
  ASSUME IInv, [Next]_vars, ~overlapped' PROVE Core'
<1>1. ~overlapped /\ Core
  BY Before
<1>2. ASSUME NEW t \in Threads, Open(t) \/ Opening(t) PROVE Core'
  BY <1>1, <1>2, OpenStep, AddBuffersStep, ReadyStartStep DEF Opening
<1>3. ASSUME NEW t \in Threads, ClosePort(t) \/ Closing(t) PROVE Core'
  BY <1>1, <1>3, BeginCloseStep, EnterStep, StopStep, WaitStep, UnprepareStep, CloseDeviceStep, FreeStep DEF Closing
<1>4. CASE Destroy
  BY <1>1, <1>4, BeginCloseStep DEF Threads
<1>5. CASE Deliver \/ UserReturns \/ Guarded
  BY <1>1, <1>5, DeliverStep, CallbackStep
<1>6. CASE UNCHANGED vars
  BY <1>1, <1>6 DEF vars, atomics, buffer_vars, Core, DriverCloses, OpensAlone, ClosesAlone, Quiesced, DriverHas,
                    CallbackHas, Numbered
<1> QED  BY <1>2, <1>3, <1>4, <1>5, <1>6 DEF Next

LEMMA IInvStep == IInv /\ [Next]_vars => IInv'
<1> SUFFICES ASSUME IInv, [Next]_vars PROVE IInv'
  OBVIOUS
<1>1. TypeOK' /\ Registered'
  BY TypeStep, RegisteredStep DEF IInv
<1>2. ~overlapped' => Core'
  BY CoreStep
<1> QED  BY <1>1, <1>2 DEF IInv

LEMMA Invariance == Spec => []IInv
BY InitIInv, IInvStep, PTL DEF Spec

-----------------------------------------------------------------------------
(* Nobody is in the user's code after a close.                              *)

\* A step of a close in which the port's flag, the last result and the callback
\* stay, and closing is set.
LEMMA CalmKept ==
  ASSUME IInv, Calm, call \in [Threads -> CallRecords],
         NEW t \in Threads, NEW from, NEW to, At(t, from, to),
         from # "free", to \notin OpeningCalls, closing',
         UNCHANGED <<port_open, result, inHandle, callback>>
  PROVE  Calm'
<1>1. /\ call[t].at = from /\ call'[t].at = to /\ call'[t].fails = call[t].fails
      /\ \A u \in Threads \ {t} : call'[u] = call[u]
  BY Goes
<1>2. call'[App].fails = call[App].fails /\ call'[Driver].fails = call[Driver].fails
  BY <1>1 DEF Threads
<1>3. call'[App].at \in OpeningCalls => call[App].at \in OpeningCalls
  BY <1>1 DEF Threads
<1>4. DriverNeverFails' /\ OpensFromClosed'
  BY <1>2, <1>3 DEF Calm, DriverNeverFails, OpensFromClosed
<1>5. FlagOutlivesDevice'
  BY <1>1 DEF Calm, FlagOutlivesDevice
<1>6. KeptOut'
  BY <1>2 DEF Calm, KeptOut, Hushed
<1> QED  BY <1>4, <1>5, <1>6 DEF Calm

LEMMA CalmOpen ==
  ASSUME IInv, Core, Calm, ~overlapped', NEW t \in Threads, Open(t) PROVE Calm'
<1>1. closing' = TRUE /\ ~port_open /\ UNCHANGED <<port_open, result, callback>>
  BY DEF Open, object_vars
<1>2. CASE UNCHANGED <<call, opens, inHandle, device>>
  BY <1>1, <1>2 DEF Calm, DriverNeverFails, OpensFromClosed, FlagOutlivesDevice, KeptOut, Hushed
<1>3. CASE At(t, "none", "buffers")
  <2>1. /\ call'[App].fails = call[App].fails /\ call'[Driver].fails = call[Driver].fails
    BY <1>3, Facts, Goes DEF Threads
  <2> QED
    BY <1>1, <2>1 DEF Calm, DriverNeverFails, OpensFromClosed, FlagOutlivesDevice, KeptOut, Hushed
<1> QED  BY <1>2, <1>3 DEF Open

LEMMA CalmOpening ==
  ASSUME IInv, Core, Calm, NEW t \in Threads, Opening(t) PROVE Calm'
<1>1. /\ t = App /\ call[App].at \in OpeningCalls /\ callback.at = "none" /\ inHandle # 0
      /\ ~device.started /\ device.done = {} /\ ~port_open
  <2>1. call[t].at \in OpeningCalls
    BY DEF Opening, AddBuffers, Ready, Start, At, OpeningCalls
  <2> QED  BY <2>1, Opener DEF Core, OpensAlone, Calm, OpensFromClosed
<1>2. UNCHANGED <<inHandle, result, callback>>
  BY DEF Opening, AddBuffers, Ready, Start, object_vars
<1>3. call'[Driver].fails = call[Driver].fails
  <2>1. At(t, "buffers", "ready") \/ At(t, "ready", "start") \/ Fail(t) \/ call' = [call EXCEPT ![t] = NoCall]
    BY DEF Opening, AddBuffers, Ready, Start
  <2>2. CASE At(t, "buffers", "ready") \/ At(t, "ready", "start")
    BY <1>1, <2>2, Facts, Goes, ThreadsAssumption DEF Threads
  <2>3. CASE Fail(t) \/ call' = [call EXCEPT ![t] = NoCall]
    BY <1>1, <2>3, Facts, ThreadsAssumption DEF Fail, Threads
  <2> QED  BY <2>1, <2>2, <2>3
<1>4. CASE port_open' = port_open /\ device'.started = device.started /\ device'.done = device.done
  <2>1. OpensFromClosed' /\ FlagOutlivesDevice' /\ KeptOut'
    BY <1>1, <1>2, <1>4 DEF OpensFromClosed, FlagOutlivesDevice, KeptOut, Silent
  <2> QED  BY <1>3, <2>1 DEF Calm, DriverNeverFails
<1>5. CASE call' = [call EXCEPT ![t] = NoCall] /\ port_open' = TRUE
  <2>1. ~call'[App].fails /\ call'[App].at = "none"
    BY <1>1, <1>5, Facts DEF NoCall, Threads
  <2>2. OpensFromClosed' /\ FlagOutlivesDevice' /\ KeptOut'
    BY <1>1, <1>2, <1>5, <2>1 DEF OpensFromClosed, FlagOutlivesDevice, KeptOut, Hushed, OpeningCalls
  <2> QED  BY <1>3, <2>2 DEF Calm, DriverNeverFails
<1>6. \/ port_open' = port_open /\ device'.started = device.started /\ device'.done = device.done
      \/ call' = [call EXCEPT ![t] = NoCall] /\ port_open' = TRUE
  BY Facts DEF Opening, AddBuffers, Ready, Start, object_vars, DeviceRecords
<1> QED  BY <1>4, <1>5, <1>6

LEMMA CalmBeginClose ==
  ASSUME IInv, Core, Calm, NEW t \in Threads, ClosePort(t) \/ (t = App /\ Destroy) PROVE Calm'
<1>1. UNCHANGED <<inHandle, closing, device>> /\ call[t].at = "none" /\ MayCall(t)
  BY DEF ClosePort, Destroy, MayCall, atomics
<1>2. /\ call'[t].at \in {"none", "enter"} /\ call'[t].fails = call[t].fails
      /\ \A u \in Threads \ {t} : call'[u] = call[u]
  <2>1. At(t, "none", "enter") \/ call' = call
    BY DEF ClosePort, Destroy
  <2> QED  BY <1>1, <2>1, Facts, Goes
<1>3. /\ call'[App].fails = call[App].fails /\ call'[Driver].fails = call[Driver].fails
      /\ call'[App].at \in OpeningCalls => call[App].at \in OpeningCalls
  BY <1>2 DEF Threads, OpeningCalls
<1>4. callback'.at = callback.at /\ (callback.closed => callback'.closed)
  BY Facts DEF ClosePort, Destroy, CallbackRecords
<1>5. DriverNeverFails'
  BY <1>3 DEF Calm, DriverNeverFails
<1>6. CASE UNCHANGED <<port_open, result>>
  <2>1. OpensFromClosed'
    BY <1>3, <1>6 DEF Calm, OpensFromClosed
  <2>2. FlagOutlivesDevice'
    BY <1>1, <1>2, <1>6 DEF Calm, FlagOutlivesDevice
  <2>3. KeptOut'
    BY <1>1, <1>3, <1>4, <1>6 DEF Calm, KeptOut, Hushed, Silent
  <2> QED  BY <1>5, <2>1, <2>2, <2>3 DEF Calm
<1>7. CASE ClosePort(t) /\ port_open' = FALSE /\ inHandle = 0
  <2>1. PICK u \in Threads : call[u].at = "free"
    BY <1>7 DEF ClosePort, Calm, FlagOutlivesDevice
  <2>2. closing /\ (u = Driver => callback.closed)
    BY <2>1, Closer DEF LockedCalls
  <2>3. u = App => callback.at \notin UsingStages
    BY <2>1 DEF Core, Quiesced
  <2>4. callback'.at \in {"designate", "user"} => callback'.closed
    BY <1>4, <2>2, <2>3 DEF Threads, UsingStages
  <2>5. OpensFromClosed' /\ FlagOutlivesDevice' /\ KeptOut'
    BY <1>1, <1>7, <2>2, <2>4 DEF OpensFromClosed, FlagOutlivesDevice, KeptOut
  <2> QED  BY <1>5, <2>5 DEF Calm
<1> QED  BY <1>6, <1>7 DEF ClosePort, Destroy

LEMMA CalmClosing ==
  ASSUME IInv, Core, Calm, NEW t \in Threads, Enter(t) \/ Stop(t) \/ Wait(t) \/ Unprepare(t) PROVE Calm'
<1>1. UNCHANGED <<port_open, result, inHandle, callback>>
  BY DEF Enter, Stop, Wait, Unprepare, object_vars
<1>2. closing'
  <2>1. CASE Enter(t)
    BY <2>1 DEF Enter
  <2>2. CASE Stop(t) \/ Wait(t) \/ Unprepare(t)
    <3>1. call[t].at \in LockedCalls /\ closing' = closing
      BY <2>2 DEF Stop, Wait, Unprepare, At, LockedCalls, atomics
    <3> QED  BY <3>1, Closer
  <2> QED  BY <2>1, <2>2
<1>3. CASE Stop(t) \/ Unprepare(t)
  <2>1. \E from, to \in Calls \ ({"free"} \cup OpeningCalls) : At(t, from, to)
    BY <1>3 DEF Stop, Unprepare, Calls, OpeningCalls
  <2> QED  BY <1>1, <1>2, <2>1, Facts, CalmKept
<1>4. CASE Enter(t) \/ Wait(t)
  <2>1. /\ call[t].at \in {"enter", "wait"} /\ call'[t].at \in {"stop", "unprepare"}
        /\ call'[t].fails = call[t].fails
        /\ \A u \in Threads \ {t} : call'[u] = call[u]
    <3>1. \/ call' = [call EXCEPT ![t] = [call[t] EXCEPT !.at = "stop", !.handle = inHandle]]
          \/ call' = [call EXCEPT ![t] = [call[t] EXCEPT !.at = "unprepare", !.quiesced = (in_callback = 0)]]
      BY <1>4 DEF Enter, Wait
    <3> QED  BY <1>4, <3>1, Facts DEF CallRecords, Enter, Wait
  <2>2. /\ call'[App].fails = call[App].fails /\ call'[Driver].fails = call[Driver].fails
        /\ call'[App].at \in OpeningCalls => call[App].at \in OpeningCalls
    BY <2>1 DEF Threads, OpeningCalls
  <2>3. DriverNeverFails' /\ OpensFromClosed'
    BY <1>1, <2>2 DEF Calm, DriverNeverFails, OpensFromClosed
  <2>4. FlagOutlivesDevice'
    BY <1>1, <2>1 DEF Calm, FlagOutlivesDevice
  <2>5. KeptOut'
    BY <1>1, <1>2, <2>2 DEF Calm, KeptOut, Hushed
  <2> QED  BY <2>3, <2>4, <2>5 DEF Calm
<1> QED  BY <1>3, <1>4

\* The end of a close: a failed open leaves the flag and the result.
LEMMA Returns ==
  ASSUME IInv, Calm, NEW t \in Threads, NEW res, Return(t, res)
  PROVE  /\ ~port_open' /\ ~call'[Driver].fails
         /\ call'[App].at \in OpeningCalls => call[App].at \in OpeningCalls
         /\ call'[App].fails => call[App].fails
         /\ Hushed' => Hushed \/ res = "ok"
<1>1. /\ call'[t] = NoCall /\ ~call'[t].fails /\ call'[t].at = "none"
      /\ \A u \in Threads \ {t} : call'[u] = call[u]
  BY Facts DEF Return, NoCall
<1>2. call[t].fails => t = App /\ ~port_open
  BY DEF Calm, DriverNeverFails, OpensFromClosed, Threads
<1>3. ~port_open' /\ ((UNCHANGED <<port_open, result>> /\ t = App /\ call[App].fails) \/ result' = res)
  BY <1>2 DEF Return
<1>4. ~call'[Driver].fails /\ (call'[App].fails => call[App].fails)
  BY <1>1 DEF Calm, DriverNeverFails, Threads
<1>5. call'[App].at \in OpeningCalls => call[App].at \in OpeningCalls
  BY <1>1 DEF Threads, OpeningCalls
<1>6. Hushed' => Hushed \/ res = "ok"
  BY <1>3, <1>4 DEF Hushed
<1> QED  BY <1>3, <1>4, <1>5, <1>6

LEMMA CalmCloseDevice ==
  ASSUME IInv, Core, Calm, NEW t \in Threads, CloseDevice(t) PROVE Calm'
<1>1. call[t].at = "close" /\ closing' = closing /\ callback' = callback
  BY DEF CloseDevice, atomics
<1>2. closing
  BY <1>1, Closer DEF LockedCalls
<1>3. CASE At(t, "close", "free") /\ UNCHANGED <<port_open, result>>
  <2>1. /\ call'[t].at = "free" /\ call'[t].fails = call[t].fails
        /\ \A u \in Threads \ {t} : call'[u] = call[u]
    BY <1>3, Facts, Goes
  <2>2. /\ call'[App].fails = call[App].fails /\ call'[Driver].fails = call[Driver].fails
        /\ call'[App].at \in OpeningCalls => call[App].at \in OpeningCalls
    BY <2>1 DEF Threads, OpeningCalls
  <2>3. DriverNeverFails' /\ OpensFromClosed' /\ FlagOutlivesDevice'
    BY <1>3, <2>1, <2>2 DEF Calm, DriverNeverFails, OpensFromClosed, FlagOutlivesDevice
  <2>4. KeptOut'
    BY <1>1, <1>2, <1>3, <2>2 DEF Calm, KeptOut, Hushed
  <2> QED  BY <2>3, <2>4 DEF Calm
<1>4. CASE Return(t, "timed out") \/ Return(t, "failed")
  <2>1. /\ ~port_open' /\ ~call'[Driver].fails /\ (Hushed' => Hushed)
    <3>1. PICK res \in {"timed out", "failed"} : Return(t, res)
      BY <1>4
    <3>2. res # "ok"
      OBVIOUS
    <3>3. Hushed' => Hushed \/ res = "ok"
      BY <3>1, Returns
    <3> QED  BY <3>1, <3>2, <3>3, Returns
  <2>2. DriverNeverFails' /\ OpensFromClosed' /\ FlagOutlivesDevice'
    BY <2>1 DEF DriverNeverFails, OpensFromClosed, FlagOutlivesDevice
  <2>3. KeptOut'
    BY <1>1, <1>2, <2>1 DEF Calm, KeptOut
  <2> QED  BY <2>2, <2>3 DEF Calm
<1> QED  BY <1>3, <1>4 DEF CloseDevice

LEMMA CalmFree ==
  ASSUME IInv, Core, Calm, NEW t \in Threads, Free(t) PROVE Calm'
<1>1. call[t].at = "free" /\ Return(t, "ok") /\ closing' = closing /\ callback' = callback
  BY DEF Free, atomics
<1>2. closing /\ (t = Driver => callback.closed)
  BY <1>1, Closer DEF LockedCalls
<1>3. t = App => callback.at \notin UsingStages
  BY <1>1 DEF Core, Quiesced
<1>4. KeptOut'
  BY <1>1, <1>2, <1>3 DEF KeptOut, Threads, UsingStages
<1>5. ~port_open' /\ ~call'[Driver].fails
  BY <1>1, Returns
<1> QED  BY <1>4, <1>5 DEF Calm, DriverNeverFails, OpensFromClosed, FlagOutlivesDevice

LEMMA CalmCallback ==
  ASSUME IInv, Core, Calm, Deliver \/ UserReturns \/ Guarded PROVE Calm'
<1>1. UNCHANGED <<port_open, result, inHandle, closing, call>>
  BY DEF Deliver, UserReturns, Guarded, Name, Register, CheckClosing, Designate, Requeue, AddBuffer, Unregister, Forget,
         rest, atomics, object_vars
<1>2. DriverNeverFails' /\ OpensFromClosed' /\ FlagOutlivesDevice'
  BY <1>1 DEF Calm, DriverNeverFails, OpensFromClosed, FlagOutlivesDevice
<1>3. Hushed' => Hushed
  BY <1>1 DEF Hushed
<1>4. CASE Deliver
  <2>1. callback'.at = "entered" /\ ~Silent
    BY <1>4 DEF Deliver, Entered, Silent
  <2>2. KeptOut'
    BY <1>1, <1>3, <2>1 DEF Calm, KeptOut
  <2> QED  BY <1>2, <2>2 DEF Calm
<1>5. CASE UserReturns \/ Guarded
  <2>1. Hushed => closing
    BY <1>5, CallbackMoves DEF Calm, KeptOut, Silent
  <2>2. closing /\ callback'.at \in {"designate", "user"} => callback.at = "designate" /\ callback'.closed = callback.closed
    BY <1>5, CallbackMoves DEF UsingStages
  <2>3. KeptOut'
    BY <1>1, <1>3, <2>1, <2>2 DEF Calm, KeptOut
  <2> QED  BY <1>2, <2>3 DEF Calm
<1> QED  BY <1>4, <1>5

LEMMA CalmStep ==
  ASSUME CalmInv, [Next]_vars, ~overlapped' PROVE Calm'
<1>1. IInv /\ Core /\ Calm
  BY Before DEF CalmInv
<1>2. ASSUME NEW t \in Threads, Open(t) \/ Opening(t) PROVE Calm'
  BY <1>1, <1>2, CalmOpen, CalmOpening
<1>3. ASSUME NEW t \in Threads, ClosePort(t) \/ Closing(t) PROVE Calm'
  BY <1>1, <1>3, CalmBeginClose, CalmClosing, CalmCloseDevice, CalmFree DEF Closing
<1>4. CASE Destroy
  BY <1>1, <1>4, CalmBeginClose DEF Threads
<1>5. CASE Deliver \/ UserReturns \/ Guarded
  BY <1>1, <1>5, CalmCallback
<1>6. CASE UNCHANGED vars
  BY <1>1, <1>6 DEF vars, object_vars, atomics, Calm, DriverNeverFails, OpensFromClosed, FlagOutlivesDevice, KeptOut,
                    Hushed, Silent
<1> QED  BY <1>2, <1>3, <1>4, <1>5, <1>6 DEF Next

LEMMA CalmInvariance == Spec => []CalmInv
<1>1. Init => CalmInv
  <2>1. Init => Calm
    BY DEF Init, Calm, DriverNeverFails, OpensFromClosed, FlagOutlivesDevice, KeptOut, Hushed, Silent, NoCall, NoCallback,
           Threads, OpeningCalls
  <2> QED  BY <2>1, InitIInv DEF CalmInv
<1>2. CalmInv /\ [Next]_vars => CalmInv'
  BY CalmStep, IInvStep DEF CalmInv
<1> QED  BY <1>1, <1>2, PTL DEF Spec

-----------------------------------------------------------------------------

\* For any number of buffers and of openings the variables keep their types:
\* among others, the count of callbacks never leaves 0 and 1, although two
\* threads close and one of them may be inside the callback.
THEOREM TypeTheorem == Spec => []TypeOK
<1>1. IInv => TypeOK
  BY DEF IInv
<1> QED  BY <1>1, Invariance, PTL

\* For any number of buffers and of openings: as long as no port is opened
\* across a running callback, midiInputCallback() uses no buffer that
\* do_close() deleted, but for the user's code that closed the port itself.
THEOREM BuffersOutliveCallbacksTheorem == Spec => []BuffersOutliveCallbacks
<1>1. IInv => BuffersOutliveCallbacks
  <2> SUFFICES ASSUME IInv, ~overlapped, callback.buffer \in freed
               PROVE  callback.at \notin {"designate", "add"} /\ (callback.at = "user" => callback.closed)
    BY DEF BuffersOutliveCallbacks
  <2> QED  BY DEF IInv, Core, CallbackHas, UsingStages
<1> QED  BY <1>1, Invariance, PTL

\* For any number of buffers and of openings: under the same condition,
\* do_close() deletes no buffer that is queued with the driver.
THEOREM DriverOwnsNoFreedTheorem == Spec => []DriverOwnsNoFreed
<1>1. IInv => DriverOwnsNoFreed
  BY DEF IInv, Core, DriverHas, DriverOwnsNoFreed
<1> QED  BY <1>1, Invariance, PTL

\* For any number of buffers and of openings: after close_port() returned
\* success, no user code runs in a callback that did not close the port itself,
\* as long as no port is opened across a running callback.
THEOREM QuietAfterCloseTheorem == Spec => []QuietAfterClose
<1>1. CalmInv => QuietAfterClose
  BY DEF CalmInv, Calm, KeptOut, Hushed, QuietAfterClose
<1> QED  BY <1>1, CalmInvariance, PTL
=============================================================================
