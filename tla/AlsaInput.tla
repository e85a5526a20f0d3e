----------------------------- MODULE AlsaInput ------------------------------
(***************************************************************************)
(* The inputs of ALSA that have a thread of their own, behind midi_in: the  *)
(* sequencer (midi_in_alsa_threaded), raw MIDI (midi_in_alsa_raw_threaded)  *)
(* and raw UMP (midi_in_impl_threaded). The thread polls the device and an  *)
(* eventfd, m_termination_event, which is a semaphore: a close adds a token,*)
(* joins the thread and takes the token back for the next thread.           *)
(*                                                                          *)
(* ALSA is external: a bounded queue of events. The port of the sequencer   *)
(* outlives a close, others may subscribe to it; a raw device may go away.  *)
(***************************************************************************)
EXTENDS Naturals

CONSTANTS
  Backends,    \* the inputs considered, of "seq", "raw" and "ump"
  QueueSize,   \* events that ALSA keeps for us
  MaxOpens,    \* bound: calls of open_port()
  MaxUnasked   \* bound: events of a sender that close_port() cannot stop

ASSUME BackendsAssumption == Backends \subseteq {"seq", "raw", "ump"}
ASSUME BoundsAssumption == QueueSize \in Nat \ {0} /\ MaxOpens \in Nat /\ MaxUnasked \in Nat

VARIABLES
  backend,
  port_open,    \* the flag of midi_in
  destroyed,    \* the destructor has begun
  opens,
  call,         \* the call of the application: where it is, and what for
  tokens,       \* the value of m_termination_event
  m_thread,     \* "none", "joinable"
  reader,       \* where the thread is; "ended" if it does not run
  vport,        \* seq: the port exists
  subscription, \* seq: the port is subscribed to the device we opened
  device,       \* raw, ump: what midiport_ is
  pending,      \* events that ALSA has for us
  unasked,      \* events so far from senders that close_port() cannot stop
  fault         \* history: a poll or the device failed since the last open

object_vars == <<port_open, destroyed, opens, call>>
thread_vars == <<tokens, m_thread>>
alsa_vars == <<vport, subscription, device, pending, unasked>>
vars == <<backend, object_vars, thread_vars, reader, alsa_vars, fault>>

Calls == {"none", "unsubscribe", "notify", "join", "consume", "open", "connect", "params", "start"}
Purposes == {"open", "close", "destroy"}
Places == {"ended", "look", "poll", "read", "user"}

TypeOK ==
  /\ backend \in Backends /\ port_open \in BOOLEAN /\ destroyed \in BOOLEAN /\ opens \in 0..MaxOpens
  /\ call \in [at : Calls, purpose : Purposes]
  /\ tokens \in {0, 1} /\ m_thread \in {"none", "joinable"} /\ reader \in Places
  /\ vport \in BOOLEAN /\ subscription \in BOOLEAN /\ device \in {"none", "open", "gone"}
  /\ pending \in 0..QueueSize /\ unasked \in 0..MaxUnasked /\ fault \in BOOLEAN

Init ==
  /\ backend \in Backends
  /\ port_open = FALSE /\ destroyed = FALSE /\ opens = 0
  /\ call = [at |-> "none", purpose |-> "close"]
  /\ tokens = 0 /\ m_thread = "none" /\ reader = "ended"
  /\ vport = FALSE /\ subscription = FALSE /\ device = "none" /\ pending = 0 /\ unasked = 0
  /\ fault = FALSE

-----------------------------------------------------------------------------
(* Calls of midi_in.                                                        *)

Go(from, to) == call.at = from /\ call' = [call EXCEPT !.at = to]

Begin(at, purpose) == call.at = "none" /\ ~destroyed /\ call' = [at |-> at, purpose |-> purpose]

\* midi_in::open_port(). The sequencer's input begins with close_port().
OpenPort ==
  /\ ~port_open /\ opens < MaxOpens
  /\ Begin(IF backend = "seq" THEN "unsubscribe" ELSE "open", "open")
  /\ opens' = opens + 1
  /\ UNCHANGED <<backend, port_open, destroyed, thread_vars, reader, alsa_vars, fault>>

\* midi_in::close_port(). A raw device is closed last.
ClosePort ==
  /\ port_open
  /\ Begin(IF backend = "seq" THEN "unsubscribe" ELSE "notify", "close")
  /\ UNCHANGED <<backend, port_open, destroyed, opens, thread_vars, reader, alsa_vars, fault>>

\* The destructor calls close_port() whatever the flag says.
Destroy ==
  /\ Begin(IF backend = "seq" THEN "unsubscribe" ELSE "notify", "destroy")
  /\ destroyed' = TRUE
  /\ UNCHANGED <<backend, port_open, opens, thread_vars, reader, alsa_vars, fault>>

Finish == call' = [call EXCEPT !.at = "none"]

-----------------------------------------------------------------------------
(* close_port() of the sequencer, and stop_thread() of all three.           *)

\* Mutated form of Unsubscribe: the thread is stopped first.
UnsubscribeNothing ==
  /\ Go("unsubscribe", "notify")
  /\ UNCHANGED <<backend, port_open, destroyed, opens, thread_vars, reader, alsa_vars, fault>>

Unsubscribe ==
  /\ Go("unsubscribe", "notify")
  /\ subscription' = FALSE
  /\ UNCHANGED <<backend, port_open, destroyed, opens, thread_vars, reader, vport, device, pending, unasked, fault>>

Notify ==
  /\ Go("notify", "join")
  /\ tokens' = tokens + 1
  /\ UNCHANGED <<backend, port_open, destroyed, opens, m_thread, reader, alsa_vars, fault>>

Join ==
  /\ m_thread = "joinable" => reader = "ended"
  /\ Go("join", "consume")
  /\ m_thread' = "none"
  /\ UNCHANGED <<backend, port_open, destroyed, opens, tokens, reader, alsa_vars, fault>>

\* The end of a close: for midi_in, for init_port() or for the destructor,
\* which deletes the port of the sequencer.
Closed ==
  /\ IF call.purpose = "open" THEN Go("consume", "open") ELSE Go("consume", "none")
  /\ port_open' = IF call.purpose = "close" THEN FALSE ELSE port_open
  /\ IF backend = "seq"
     THEN vport' = (vport /\ call.purpose # "destroy") /\ UNCHANGED <<device, pending>>
     ELSE device' = "none" /\ pending' = 0 /\ UNCHANGED vport

\* The eventfd does not block when it is empty.
Consume ==
  /\ Closed
  /\ tokens' = IF tokens > 0 THEN tokens - 1 ELSE 0
  /\ UNCHANGED <<backend, destroyed, opens, m_thread, reader, subscription, unasked, fault>>

-----------------------------------------------------------------------------
(* open_port() of the backend.                                              *)

\* init_port() of the sequencer: the port is created once and kept. The device
\* may not be found.
CreatePort ==
  /\ backend = "seq"
  /\ \/ Go("open", "connect") /\ vport' = TRUE
     \/ call.at = "open" /\ Finish /\ UNCHANGED vport
  /\ UNCHANGED <<backend, port_open, destroyed, opens, thread_vars, reader, subscription, device, pending, unasked, fault>>

\* A virtual port is not connected to anything.
Connect ==
  /\ \/ Go("connect", "start") /\ subscription' \in BOOLEAN
     \/ call.at = "connect" /\ Finish /\ UNCHANGED subscription
  /\ UNCHANGED <<backend, port_open, destroyed, opens, thread_vars, reader, vport, device, pending, unasked, fault>>

\* do_init_port(): what midiport_ was before is lost.
OpenDevice ==
  /\ backend # "seq"
  /\ \/ Go("open", "params") /\ device' = "open"
     \/ call.at = "open" /\ Finish /\ UNCHANGED device
  /\ UNCHANGED <<backend, port_open, destroyed, opens, thread_vars, reader, vport, subscription, pending, unasked, fault>>

\* A parameter that is refused ends the call and leaves the device open.
SetParams ==
  /\ \/ Go("params", "start")
     \/ call.at = "params" /\ Finish
  /\ UNCHANGED <<backend, port_open, destroyed, opens, thread_vars, reader, alsa_vars, fault>>

\* start_thread(), and midi_in::open_port() takes note of the result.
Start ==
  /\ call.at = "start" /\ Finish
  /\ \/ /\ m_thread' = "joinable"
        /\ reader' = IF backend = "seq" THEN "look" ELSE "poll"
        /\ port_open' = TRUE /\ fault' = (device = "gone")
        /\ UNCHANGED subscription
     \/ subscription' = FALSE /\ UNCHANGED <<m_thread, reader, port_open, fault>>
  /\ UNCHANGED <<backend, destroyed, opens, tokens, vport, device, pending, unasked>>

-----------------------------------------------------------------------------
(* thread_handler() and run_thread().                                       *)

Run(from, to) == reader = from /\ reader' = to

\* The sequencer looks at the eventfd only when there is nothing to read.
Look ==
  /\ Run("look", IF pending = 0 THEN "poll" ELSE "read")
  /\ UNCHANGED <<backend, object_vars, thread_vars, alsa_vars, fault>>

\* Mutated form of Poll: it is not looked at the termination event.
PollBlindly ==
  /\ Run("poll", IF backend = "seq" THEN "look" ELSE "read")
  /\ UNCHANGED <<backend, object_vars, thread_vars, alsa_vars, fault>>

\* poll() returns after poll_period at the latest.
Poll ==
  /\ Run("poll", IF tokens > 0 THEN "ended" ELSE IF backend = "seq" THEN "look" ELSE "read")
  /\ UNCHANGED <<backend, object_vars, thread_vars, alsa_vars, fault>>

\* A signal ends the poll: the raw inputs end too, the sequencer's goes on.
PollFails ==
  /\ Run("poll", IF backend = "seq" THEN "look" ELSE "ended")
  /\ fault' = (fault \/ backend # "seq")
  /\ UNCHANGED <<backend, object_vars, thread_vars, alsa_vars>>

\* One event, which may be filtered or not decoded.
ReadEvent ==
  /\ backend = "seq"
  /\ Run("read", "user") \/ Run("read", "look")
  /\ pending' = pending - 1
  /\ UNCHANGED <<backend, object_vars, thread_vars, vport, subscription, device, unasked, fault>>

\* read_input_buffer(): reads until there is nothing more. A device that is
\* gone is an error; one that was opened to block is waited for after the first read.
ReadBuffer ==
  /\ backend # "seq" /\ device # "gone"
  /\ IF pending > 0
     THEN Run("read", "user") /\ pending' = 0
     ELSE Run("read", "poll") /\ UNCHANGED pending
  /\ UNCHANGED <<backend, object_vars, thread_vars, vport, subscription, device, unasked, fault>>

ReadFails ==
  /\ device = "gone" /\ Run("read", "ended")
  /\ fault' = TRUE
  /\ UNCHANGED <<backend, object_vars, thread_vars, alsa_vars>>

\* The user's callback returns, and the buffer is read again: the UMP device
\* was opened without SND_RAWMIDI_NONBLOCK and blocks while it has nothing.
UserReturns ==
  /\ Run("user", IF backend = "seq" THEN "look" ELSE "read")
  /\ backend = "ump" => pending > 0 \/ device = "gone"
  /\ UNCHANGED <<backend, object_vars, thread_vars, alsa_vars, fault>>

-----------------------------------------------------------------------------
(* ALSA.                                                                    *)

\* The device that we subscribed to sends as it likes.
Send ==
  /\ subscription /\ pending < QueueSize
  /\ pending' = pending + 1
  /\ UNCHANGED <<backend, object_vars, thread_vars, reader, vport, subscription, device, unasked, fault>>

\* So does a raw device that is open, and any other client that is
\* subscribed to our port.
SendUnasked ==
  /\ vport \/ device = "open"
  /\ pending < QueueSize /\ unasked < MaxUnasked
  /\ pending' = pending + 1 /\ unasked' = unasked + 1
  /\ UNCHANGED <<backend, object_vars, thread_vars, reader, vport, subscription, device, fault>>

Unplug ==
  /\ device = "open" /\ port_open
  /\ device' = "gone" /\ fault' = TRUE
  /\ UNCHANGED <<backend, object_vars, thread_vars, reader, vport, subscription, pending, unasked>>

Closing == Unsubscribe \/ Notify \/ Join \/ Consume
Opening == CreatePort \/ Connect \/ OpenDevice \/ SetParams \/ Start
Reading == Look \/ Poll \/ ReadEvent \/ ReadBuffer \/ ReadFails

Next ==
  \/ OpenPort \/ ClosePort \/ Destroy \/ Closing \/ Opening
  \/ Reading \/ PollFails \/ UserReturns
  \/ Send \/ SendUnasked \/ Unplug

Spec == Init /\ [][Next]_vars

\* Both threads run, signals do not interrupt every poll(), and the user's
\* callback returns.
Fairness ==
  /\ WF_vars(Closing) /\ WF_vars(Opening) /\ WF_vars(Reading) /\ WF_vars(UserReturns)
  /\ SF_vars(Poll)

FairSpec == Spec /\ Fairness

-----------------------------------------------------------------------------

\* After close_port() or the destructor returned there is no thread left that
\* could call the user or use the object; and a thread that ended on its own
\* is joined before the next one takes its place, which std::thread demands.
QuietAfterClose ==
  /\ call.at = "none" /\ (port_open => destroyed) => reader = "ended" /\ m_thread = "none"
  /\ call.at = "start" => m_thread = "none"

\* An open port is listened to: no token of an earlier close, whether there
\* was a thread to take notice of it or not, ends the thread of this one.
ListensWhileOpen ==
  port_open /\ ~destroyed /\ call.at = "none" /\ ~fault => reader # "ended"

\* close_port() and the destructor return, as far as the senders that they cannot
\* stop do not go on for ever: the device is unsubscribed before the thread is joined.
\* It is not so for UMP: the thread sits in a read of a device that may be silent.
CloseWaits == call.at = "notify" /\ backend # "ump"
CloseReturned == call.at = "none"
CloseReturns == CloseWaits ~> CloseReturned
=============================================================================
