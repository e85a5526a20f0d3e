----------------------------- MODULE WinmmInput -----------------------------
(***************************************************************************)
(* midi_in_winmm (backends/winmm/midi_in.hpp) behind midi_in (midi_in.cpp): *)
(* a port whose driver calls back on a thread of its own, with buffers that *)
(* the callback gives back to the driver, while a close on another thread,  *)
(* or inside the callback, takes the device and the buffers away.           *)
(*                                                                          *)
(* The driver is external: it calls back for data and for a buffer that it  *)
(* filled, one call at a time; midiInReset() hands its buffers back;        *)
(* midiInClose() fails while it has some and does not wait for a callback.  *)
(***************************************************************************)
EXTENDS Naturals, FiniteSets

CONSTANTS
  App, Driver,  \* the application's thread and the driver's
  NoThread,
  Count,        \* configuration.sysex_buffer_count
  MaxOpens      \* bound: devices opened

ASSUME ThreadsAssumption == App # Driver /\ NoThread \notin {App, Driver}
ASSUME BoundsAssumption == Count \in Nat \ {0} /\ MaxOpens \in Nat

VARIABLES
  port_open,        \* the flag of midi_in
  destroyed,        \* the destructor of midi_in has begun
  opens,            \* devices opened so far: the last one's number
  inHandle,         \* the device, 0 for nullptr
  closing, in_callback, callback_thread,  \* the atomics
  mutex,            \* owner of _mutex
  sysexBuffer,      \* the buffers in the vector
  freed,            \* the buffers that were deleted
  device,           \* the driver: the open device and what it has of ours
  call,             \* the call of midi_in each thread is in
  callback,         \* midiInputCallback() on the driver's thread
  result,           \* history: of the last close_port()
  overlapped        \* history: a port was opened inside or across a callback

object_vars == <<port_open, destroyed, result>>
atomics == <<closing, in_callback, callback_thread>>
buffer_vars == <<sysexBuffer, freed>>
vars == <<object_vars, opens, inHandle, atomics, mutex, buffer_vars, device, call, callback, overlapped>>

Threads == {App, Driver}
Devices == 0..MaxOpens
Buffers == Devices \X (1..Count)
NoBuffer == <<0, 0>>
Allocated(n) == {n} \X (1..Count)

Calls == {"none", "open", "buffers", "ready", "start",
          "enter", "stop", "wait", "unprepare", "close", "free"}
NoCall == [at |-> "none", handle |-> 0, quiesced |-> TRUE, fails |-> FALSE]
Stages == {"none", "entered", "named", "counted", "designate", "user", "requeue", "add", "leave", "left"}
NoCallback == [at |-> "none", buffer |-> NoBuffer, filled |-> FALSE, closed |-> FALSE]

TypeOK ==
  /\ port_open \in BOOLEAN /\ destroyed \in BOOLEAN /\ opens \in Devices /\ inHandle \in Devices
  /\ closing \in BOOLEAN /\ in_callback \in {0, 1} /\ callback_thread \in {NoThread, Driver}
  /\ mutex \in Threads \cup {NoThread} /\ sysexBuffer \subseteq Buffers /\ freed \subseteq Buffers
  /\ device \in [open : Devices, started : BOOLEAN,
                 prepared : SUBSET Buffers, queued : SUBSET Buffers, done : SUBSET Buffers]
  /\ call \in [Threads -> [at : Calls, handle : Devices, quiesced : BOOLEAN, fails : BOOLEAN]]
  /\ callback \in [at : Stages, buffer : Buffers \cup {NoBuffer}, filled : BOOLEAN, closed : BOOLEAN]
  /\ result \in {"none", "ok", "timed out", "failed"} /\ overlapped \in BOOLEAN

Init ==
  /\ port_open = FALSE /\ destroyed = FALSE /\ opens = 0 /\ inHandle = 0
  /\ closing = FALSE /\ in_callback = 0 /\ callback_thread = NoThread /\ mutex = NoThread
  /\ sysexBuffer = {} /\ freed = {}
  /\ device = [open |-> 0, started |-> FALSE, prepared |-> {}, queued |-> {}, done |-> {}]
  /\ call = [t \in Threads |-> NoCall] /\ callback = NoCallback
  /\ result = "none" /\ overlapped = FALSE

-----------------------------------------------------------------------------
(* Calls of midi_in, on the application's thread or in the user's callback. *)

MayCall(t) == call[t].at = "none" /\ ~destroyed /\ (t = Driver => callback.at = "user")

At(t, from, to) == call[t].at = from /\ call' = [call EXCEPT ![t].at = to]

\* midi_in::open_port() and the first part of do_open(), which refuses while
\* there is a device.
Open(t) ==
  /\ MayCall(t) /\ ~port_open /\ opens < MaxOpens
  /\ inHandle = 0
  /\ closing' = TRUE
  /\ \/ /\ At(t, "none", "buffers")
        /\ opens' = opens + 1 /\ inHandle' = opens + 1
        /\ device' = [open |-> opens + 1, started |-> FALSE, prepared |-> {}, queued |-> {}, done |-> {}]
        /\ overlapped' = IF callback.at = "none" THEN overlapped ELSE TRUE
     \/ UNCHANGED <<call, opens, inHandle, device, overlapped>>  \* midiInOpen() fails
  /\ UNCHANGED <<object_vars, in_callback, callback_thread, mutex, buffer_vars, callback>>

\* A call that fails ends in close_port(), which does nothing without a device.
Fail(t) ==
  /\ call' = [call EXCEPT ![t] = IF inHandle = 0 THEN NoCall ELSE [NoCall EXCEPT !.at = "enter", !.fails = TRUE]]

\* The buffers are prepared and queued one after the other, up to the one
\* that fails.
AddBuffers(t) ==
  /\ call[t].at = "buffers"
  /\ \E n \in 0..Count :
       LET upTo(i) == {b \in Allocated(opens) : b[2] <= i}
       IN /\ \E i \in {n, n + 1} : device' = [device EXCEPT !.prepared = upTo(i), !.queued = upTo(n)]
          /\ sysexBuffer' = upTo(n + 1)
          /\ IF n = Count THEN At(t, "buffers", "ready") ELSE Fail(t)
  /\ UNCHANGED <<object_vars, opens, inHandle, atomics, mutex, freed, callback, overlapped>>

Ready(t) ==
  /\ At(t, "ready", "start")
  /\ closing' = FALSE
  /\ UNCHANGED <<object_vars, opens, inHandle, in_callback, callback_thread, mutex, buffer_vars, device,
                 callback, overlapped>>

\* midiInStart(), and midi_in::open_port() takes note of the result.
Start(t) ==
  /\ call[t].at = "start"
  /\ \/ /\ device' = [device EXCEPT !.started = TRUE]
        /\ port_open' = TRUE
        /\ call' = [call EXCEPT ![t] = NoCall]
     \/ Fail(t) /\ UNCHANGED <<device, port_open>>
  /\ UNCHANGED <<destroyed, result, opens, inHandle, atomics, mutex, buffer_vars, callback, overlapped>>

\* midi_in::close_port(): without a device there is nothing to do.
ClosePort(t) ==
  /\ MayCall(t) /\ port_open
  /\ IF inHandle = 0
     THEN port_open' = FALSE /\ result' = "ok" /\ UNCHANGED call
     ELSE At(t, "none", "enter") /\ UNCHANGED <<port_open, result>>
  /\ callback' = IF t = Driver THEN [callback EXCEPT !.closed = TRUE] ELSE callback
  /\ UNCHANGED <<destroyed, opens, inHandle, atomics, mutex, buffer_vars, device, overlapped>>

\* ~midi_in(): calls close_port() of the backend whatever the flag says.
Destroy ==
  /\ MayCall(App) /\ call[Driver].at = "none"
  /\ destroyed' = TRUE
  /\ IF inHandle = 0 THEN UNCHANGED call ELSE At(App, "none", "enter")
  /\ UNCHANGED <<port_open, result, opens, inHandle, atomics, mutex, buffer_vars, device, callback, overlapped>>

-----------------------------------------------------------------------------
(* do_close().                                                             *)

Enter(t) ==
  /\ call[t].at = "enter" /\ mutex = NoThread
  /\ mutex' = t
  /\ closing' = TRUE
  /\ call' = [call EXCEPT ![t].at = "stop", ![t].handle = inHandle]
  /\ UNCHANGED <<object_vars, opens, inHandle, in_callback, callback_thread, buffer_vars, device, callback, overlapped>>

\* midiInStop(), midiInReset(): the buffers come back. Then it is time to wait
\* for the callbacks, except inside of one.
Stop(t) ==
  /\ At(t, "stop", IF callback_thread = t THEN "unprepare" ELSE "wait")
  /\ device' = IF call[t].handle = 0 THEN device
               ELSE [device EXCEPT !.started = FALSE, !.queued = {}, !.done = @ \cup device.queued]
  /\ UNCHANGED <<object_vars, opens, inHandle, atomics, mutex, buffer_vars, callback, overlapped>>

\* Mutated form of Wait: it is not noted that a callback is there.
WaitForgets(t) ==
  /\ At(t, "wait", "unprepare")
  /\ UNCHANGED <<object_vars, opens, inHandle, atomics, mutex, buffer_vars, device, callback, overlapped>>

\* Mutated form of Wait: no deadline.
WaitForever(t) ==
  /\ in_callback = 0
  /\ At(t, "wait", "unprepare")
  /\ UNCHANGED <<object_vars, opens, inHandle, atomics, mutex, buffer_vars, device, callback, overlapped>>

\* Until none is counted, or until the deadline.
Wait(t) ==
  /\ call[t].at = "wait"
  /\ call' = [call EXCEPT ![t].at = "unprepare", ![t].quiesced = (in_callback = 0)]
  /\ UNCHANGED <<object_vars, opens, inHandle, atomics, mutex, buffer_vars, device, callback, overlapped>>

\* A buffer that the driver has stays prepared.
Unprepare(t) ==
  /\ At(t, "unprepare", "close")
  /\ device' = IF call[t].handle = 0 THEN device
               ELSE [device EXCEPT !.prepared = (@ \ sysexBuffer) \cup (@ \cap device.queued)]
  /\ UNCHANGED <<object_vars, opens, inHandle, atomics, mutex, buffer_vars, callback, overlapped>>

\* The end of close_port() in midi_in::close_port(), do_open() or ~midi_in().
Return(t, res) ==
  /\ mutex' = NoThread
  /\ call' = [call EXCEPT ![t] = NoCall]
  /\ IF call[t].fails THEN UNCHANGED <<port_open, result>> ELSE port_open' = FALSE /\ result' = res

\* Mutated form of Closes: midiInClose() is not looked at.
ClosesAnyway(t) == TRUE

\* midiInClose() succeeds, as far as the driver has no buffer left.
Closes(t) == call[t].handle = 0 \/ device.queued = {}

CloseDevice(t) ==
  /\ call[t].at = "close"
  /\ IF Closes(t)
     THEN /\ inHandle' = 0
          /\ device' = IF call[t].handle = 0 THEN device ELSE [device EXCEPT !.open = 0, !.done = {}]
          /\ IF call[t].quiesced
             THEN At(t, "close", "free") /\ UNCHANGED <<port_open, result, mutex>>
             ELSE Return(t, "timed out")
     ELSE Return(t, "failed") /\ UNCHANGED <<inHandle, device>>
  /\ UNCHANGED <<destroyed, opens, atomics, buffer_vars, callback, overlapped>>

Free(t) ==
  /\ call[t].at = "free"
  /\ freed' = freed \cup sysexBuffer
  /\ sysexBuffer' = {}
  /\ Return(t, "ok")
  /\ UNCHANGED <<destroyed, opens, inHandle, atomics, device, callback, overlapped>>

-----------------------------------------------------------------------------
(* midiInputCallback().                                                    *)

Goto(from, to) == callback.at = from /\ callback' = [callback EXCEPT !.at = to]

rest == <<object_vars, opens, inHandle, mutex, buffer_vars, call, overlapped>>

Entered(b, f) == [at |-> "entered", buffer |-> b, filled |-> f, closed |-> FALSE]

\* The driver calls back for a short message, a full buffer, or an empty one
\* that midiInReset() gave back.
Deliver ==
  /\ callback.at = "none" /\ device.open # 0
  /\ \/ device.started /\ callback' = Entered(NoBuffer, FALSE) /\ UNCHANGED device
     \/ \E b \in device.queued :
          /\ device.started
          /\ device' = [device EXCEPT !.queued = @ \ {b}]
          /\ callback' = Entered(b, TRUE)
     \/ \E b \in device.done :
          /\ device' = [device EXCEPT !.done = @ \ {b}]
          /\ callback' = Entered(b, FALSE)
  /\ UNCHANGED <<rest, atomics>>

\* callback_guard.
Name ==
  /\ Goto("entered", "named")
  /\ callback_thread' = Driver
  /\ UNCHANGED <<rest, closing, in_callback, device>>

Register ==
  /\ Goto("named", "counted")
  /\ in_callback' = in_callback + 1
  /\ UNCHANGED <<rest, closing, callback_thread, device>>

\* Mutated form of CheckClosing: the flag is not looked at.
CheckNothing ==
  /\ Goto("counted", IF callback.buffer = NoBuffer THEN "user" ELSE "designate")
  /\ UNCHANGED <<rest, atomics, device>>

CheckClosing ==
  /\ Goto("counted", IF closing THEN "leave" ELSE IF callback.buffer = NoBuffer THEN "user" ELSE "designate")
  /\ UNCHANGED <<rest, atomics, device>>

\* The header must be one of ours; an empty one ends here. (An error resets
\* the decoder where data go to on_bytes(): user code that returns at once.)
Designate ==
  /\ Goto("designate", IF callback.buffer \in sysexBuffer /\ callback.filled THEN "user" ELSE "leave")
  /\ UNCHANGED <<rest, atomics, device>>

\* The user's callback ends.
UserReturns ==
  /\ Goto("user", IF callback.buffer = NoBuffer THEN "leave" ELSE "requeue")
  /\ call[Driver].at = "none"
  /\ UNCHANGED <<rest, atomics, device>>

\* Mutated form of Requeue: without the second look at the flag.
RequeueUnchecked ==
  /\ Goto("requeue", "add")
  /\ UNCHANGED <<rest, atomics, device>>

Requeue ==
  /\ Goto("requeue", IF closing THEN "leave" ELSE "add")
  /\ UNCHANGED <<rest, atomics, device>>

\* midiInAddBuffer().
AddBuffer ==
  /\ Goto("add", "leave")
  /\ device' = IF inHandle = device.open /\ inHandle # 0 /\ callback.buffer \in device.prepared
               THEN [device EXCEPT !.queued = @ \cup {callback.buffer}] ELSE device
  /\ UNCHANGED <<rest, atomics>>

Unregister ==
  /\ Goto("leave", "left")
  /\ in_callback' = in_callback - 1
  /\ UNCHANGED <<rest, closing, callback_thread, device>>

Forget ==
  /\ callback.at = "left" /\ callback' = NoCallback
  /\ callback_thread' = NoThread
  /\ UNCHANGED <<rest, closing, in_callback, device>>

-----------------------------------------------------------------------------

Opening(t) == AddBuffers(t) \/ Ready(t) \/ Start(t)
Closing(t) == Enter(t) \/ Stop(t) \/ Wait(t) \/ Unprepare(t) \/ CloseDevice(t) \/ Free(t)
Guarded == Name \/ Register \/ CheckClosing \/ Designate \/ Requeue \/ AddBuffer \/ Unregister \/ Forget

Next ==
  \/ \E t \in Threads : Open(t) \/ Opening(t) \/ ClosePort(t) \/ Closing(t)
  \/ Destroy \/ Deliver \/ UserReturns \/ Guarded

Spec == Init /\ [][Next]_vars

\* Threads run: a call goes on, and so does a callback, as far as it is not in
\* the user's code, which may take for ever.
Fairness == WF_vars(Guarded) /\ \A t \in Threads : WF_vars(Opening(t)) /\ WF_vars(Closing(t))

FairSpec == Spec /\ Fairness

-----------------------------------------------------------------------------
(* Properties. A port that was opened while a callback of the one before was *)
(* still running is beyond what the two flags can tell apart.               *)

\* midiInputCallback() never touches a buffer that do_close() deleted: not to
\* look it up, not while the decoder reads it, not when it is queued again;
\* the exception is the user's code that closed the port itself.
BuffersOutliveCallbacks ==
  ~overlapped /\ callback.buffer \in freed =>
    /\ callback.at \notin {"designate", "add"}
    /\ callback.at = "user" => callback.closed

\* do_close() deletes no buffer that the driver may still write to, whatever
\* the callback gave back after midiInReset().
DriverOwnsNoFreed == ~overlapped => device.queued \cap freed = {}

\* After close_port() returned success, no user code runs in a callback that
\* did not close the port itself.
QuietAfterClose ==
  (/\ result = "ok" /\ ~port_open /\ ~overlapped
   /\ \A t \in Threads : call[t].at = "none")
    => (callback.at = "user" => callback.closed)

\* close_port() returns: from inside the callback, when the user's callback
\* never does, and when both threads close the port.
CloseReturns == \A t \in Threads : call[t].at = "enter" ~> call[t].at = "none"
=============================================================================
