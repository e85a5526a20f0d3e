----------------------------- MODULE PyBindings ------------------------------
(***************************************************************************)
(* The objects that Python has (bindings/python): an observer, an input or   *)
(* an output of the library, with a queue from which poll() calls Python. A  *)
(* direct object has no use for the queue: whoever reports takes the lock of *)
(* the interpreter and calls Python at once. No call gives the lock away.    *)
(* A get_timestamp in Python, which takes the lock too, is not modelled.     *)
(*                                                                          *)
(* External: the interpreter, whose code gives the lock away between two     *)
(* calls; the object of the library, which reports on a thread of its own    *)
(* and on the thread that calls it, and whose close waits for a report.      *)
(***************************************************************************)
EXTENDS Integers, SequencesExt

CONSTANTS
  Wrappers,       \* what is used: see Init
  DirectReturns,  \* whether PyReturns is said of direct objects with a thread
  MaxReports, MaxPyCalls, MaxDepth   \* bounds

VARIABLES
  wrapper,     \* [is : the class, direct, threaded]
  stack,       \* calls that the thread of Python is in, the innermost last
  gil,         \* who has the lock of the interpreter
  attached,    \* the object is open, or observes: it may report
  reporter,    \* its thread: "idle", or what it does with its report
  poll_queue,
  reported,    \* history: how many reports there were
  visited,     \* history: those that Python was called with
  raced,       \* history: two threads were in enqueue() at once
  pycalls, lives

pyvars == <<wrapper, stack, gil, attached, reporter, poll_queue, reported, visited, raced, pycalls, lives>>

Idle == [at |-> "idle", report |-> 0]
Frame(call) == [call |-> call, report |-> 0]
Top == IF stack = <<>> THEN "python" ELSE Last(stack).call
Calls == {"construct", "open", "use", "close", "destroy"}

\* An observer is never direct, and an output has no thread.
Init ==
  /\ wrapper \in [is : Wrappers, direct : BOOLEAN, threaded : BOOLEAN]
  /\ wrapper.is = "observer" => ~wrapper.direct /\ wrapper.threaded
  /\ wrapper.is = "output" => ~wrapper.threaded
  /\ stack = <<>> /\ gil = "python" /\ attached = FALSE /\ reporter = Idle
  /\ poll_queue = <<>> /\ reported = 0 /\ visited = <<>> /\ raced = FALSE /\ pycalls = 0
  /\ lives = "new"

PyTypeOK ==
  /\ wrapper \in [is : Wrappers, direct : BOOLEAN, threaded : BOOLEAN]
  /\ stack \in Seq([call : Calls \cup {"poll", "callback", "enqueue"}, report : 0..MaxReports])
  /\ gil \in {"python", "thread", "nobody"} /\ attached \in BOOLEAN
  /\ reporter \in [at : {"idle", "enqueue", "waits", "calls"}, report : 0..MaxReports]
  /\ poll_queue \in Seq(1..MaxReports) /\ reported \in 0..MaxReports /\ visited \in Seq(1..MaxReports)
  /\ raced \in BOOLEAN /\ pycalls \in 0..MaxPyCalls /\ lives \in {"new", "lives", "gone", "terminated"}

-----------------------------------------------------------------------------
(* The program: it runs with the lock, and loses and takes it between calls. *)

Runs == Top \in {"python", "callback"} /\ lives # "terminated"

GiveLock == Runs /\ gil = "python" /\ gil' = "nobody" /\ UNCHANGED <<wrapper, stack, attached, reporter, poll_queue, reported, visited, raced, pycalls, lives>>
TakeLock == Runs /\ gil = "nobody" /\ gil' = "python" /\ UNCHANGED <<wrapper, stack, attached, reporter, poll_queue, reported, visited, raced, pycalls, lives>>

Enter(call) ==
  /\ Runs /\ gil = "python" /\ pycalls < MaxPyCalls /\ Len(stack) < MaxDepth
  /\ pycalls' = pycalls + 1
  /\ stack' = Append(stack, Frame(call))
  /\ UNCHANGED <<wrapper, gil, reporter, poll_queue, reported, visited, raced>>

\* The thread of an observer runs before its constructor lists the ports, and
\* that of an input before open_port() returns.
Construct ==
  /\ lives = "new" /\ Enter("construct")
  /\ lives' = "lives" /\ attached' = (wrapper.is = "observer")
OpenPort == lives = "lives" /\ wrapper.is # "observer" /\ ~attached /\ Enter("open") /\ attached' = TRUE /\ UNCHANGED lives
\* get_input_ports(), set_port_name(), send_message() ...
UseObject == lives = "lives" /\ Enter("use") /\ UNCHANGED <<attached, lives>>
ClosePort == lives = "lives" /\ wrapper.is # "observer" /\ attached /\ Enter("close") /\ UNCHANGED <<attached, lives>>
\* Who is called in an object keeps it.
Destroy == lives = "lives" /\ stack = <<>> /\ Enter("destroy") /\ UNCHANGED <<attached, lives>>
Poll == lives = "lives" /\ Enter("poll") /\ UNCHANGED <<attached, lives>>

\* close_port() and the destructors wait until the thread reports no more.
Join ==
  /\ Top \in {"close", "destroy"} /\ reporter = Idle
  /\ attached' = FALSE
  /\ stack' = Front(stack)
  /\ lives' = IF Top = "destroy" THEN "gone" ELSE lives
  /\ poll_queue' = IF Top = "destroy" THEN <<>> ELSE poll_queue
  /\ UNCHANGED <<wrapper, gil, reporter, reported, visited, raced, pycalls>>

Return ==
  /\ Top \in {"construct", "open", "use"}
  /\ stack' = Front(stack)
  /\ UNCHANGED <<wrapper, gil, attached, reporter, poll_queue, reported, visited, raced, pycalls, lives>>

-----------------------------------------------------------------------------
(* Reports: messages, errors and warnings, ports that came and went.         *)

\* The queue has one writer and one reader: of two writers one may be lost.
Both == Top = "enqueue" /\ reporter.at = "enqueue"
Enqueued(report) == poll_queue' \in {Append(poll_queue, report)} \cup (IF Both THEN {poll_queue} ELSE {})

\* An error within a call, the ports that an observer lists, or what the program
\* gives to the receive_callback of raw I/O.
ReportHere ==
  /\ lives = "lives" /\ reported < MaxReports
  /\ \/ Top \in Calls
     \/ wrapper.is = "input" /\ ~wrapper.threaded /\ attached /\ Runs /\ gil = "python" /\ Len(stack) < MaxDepth
  /\ reported' = reported + 1
  /\ stack' = Append(stack, [call |-> IF wrapper.direct THEN "callback" ELSE "enqueue", report |-> reported'])
  /\ visited' = IF wrapper.direct THEN Append(visited, reported') ELSE visited
  /\ raced' = (raced \/ (~wrapper.direct /\ reporter.at = "enqueue"))
  /\ UNCHANGED <<wrapper, gil, attached, reporter, poll_queue, pycalls, lives>>

EnqueueHere ==
  /\ Top = "enqueue"
  /\ Enqueued(Last(stack).report)
  /\ stack' = Front(stack)
  /\ UNCHANGED <<wrapper, gil, attached, reporter, reported, visited, raced, pycalls, lives>>

ReportThere ==
  /\ attached /\ wrapper.threaded /\ reporter = Idle /\ reported < MaxReports /\ lives = "lives"
  /\ reported' = reported + 1
  /\ reporter' = [at |-> IF wrapper.direct THEN "waits" ELSE "enqueue", report |-> reported']
  /\ raced' = (raced \/ (~wrapper.direct /\ Top = "enqueue"))
  /\ UNCHANGED <<wrapper, stack, gil, attached, poll_queue, visited, pycalls, lives>>

EnqueueThere ==
  /\ reporter.at = "enqueue"
  /\ Enqueued(reporter.report)
  /\ reporter' = Idle
  /\ UNCHANGED <<wrapper, stack, gil, attached, reported, visited, raced, pycalls, lives>>

\* gil_scoped_acquire, for as long as Python is called.
CallThere ==
  /\ reporter.at = "waits" /\ gil = "nobody"
  /\ gil' = "thread" /\ reporter' = [reporter EXCEPT !.at = "calls"]
  /\ visited' = Append(visited, reporter.report)
  /\ UNCHANGED <<wrapper, stack, attached, poll_queue, reported, raced, pycalls, lives>>

ReturnThere ==
  /\ reporter.at = "calls"
  /\ reporter' = Idle /\ gil' = "nobody"
  /\ UNCHANGED <<wrapper, stack, attached, poll_queue, reported, visited, raced, pycalls, lives>>

\* poll(), in a loop; Python may call it again.
Dequeue ==
  /\ Top = "poll" /\ poll_queue # <<>>
  /\ visited' = Append(visited, Head(poll_queue))
  /\ poll_queue' = Tail(poll_queue)
  /\ stack' = Append(stack, [call |-> "callback", report |-> Head(poll_queue)])
  /\ UNCHANGED <<wrapper, gil, attached, reporter, reported, raced, pycalls, lives>>

PollReturns ==
  /\ Top = "poll" /\ poll_queue = <<>>
  /\ stack' = Front(stack)
  /\ UNCHANGED <<wrapper, gil, attached, reporter, poll_queue, reported, visited, raced, pycalls, lives>>

CallbackReturns ==
  /\ Top = "callback" /\ gil = "python"
  /\ stack' = Front(stack)
  /\ UNCHANGED <<wrapper, gil, attached, reporter, poll_queue, reported, visited, raced, pycalls, lives>>

\* Every visit is noexcept.
Raises ==
  /\ lives # "terminated"
  /\ (Top = "callback" /\ gil = "python") \/ reporter.at = "calls"
  /\ lives' = "terminated"
  /\ UNCHANGED <<wrapper, stack, gil, attached, reporter, poll_queue, reported, visited, raced, pycalls>>

-----------------------------------------------------------------------------

Program == Construct \/ OpenPort \/ UseObject \/ ClosePort \/ Destroy \/ Poll \/ GiveLock \/ Raises
Here == lives # "terminated" /\ (Join \/ Return \/ EnqueueHere \/ Dequeue \/ PollReturns \/ CallbackReturns)
There == lives # "terminated" /\ (EnqueueThere \/ CallThere \/ ReturnThere)

Next == Program \/ TakeLock \/ Here \/ There \/ ReportHere \/ ReportThere
Spec == Init /\ [][Next]_pyvars

\* The calls go on, and a callback returns; a thread gets the lock if it is free
\* again and again, and the program too.
Fairness == WF_pyvars(Here) /\ WF_pyvars(There) /\ SF_pyvars(There /\ CallThere) /\ SF_pyvars(TakeLock)

-----------------------------------------------------------------------------

\* What was reported, Python is called with, once and in order, from the queue;
\* a direct object loses and repeats nothing. If two threads reported at once,
\* the queue promises nothing.
Pending == (IF Top = "enqueue" THEN <<Last(stack).report>> ELSE <<>>) \o (IF reporter.at \in {"enqueue", "waits"} THEN <<reporter.report>> ELSE <<>>)
VisitsReports ==
  LET known == visited \o poll_queue \o Pending
  IN  ~raced /\ lives = "lives" =>
        IF wrapper.direct THEN Len(known) = reported /\ ToSet(known) = 1..reported ELSE known = [i \in 1..reported |-> i]

\* Every call returns, of the objects that do not wait for the lock (DirectReturns).
PyWaits == Top \notin {"python", "callback"} /\ (wrapper.direct /\ wrapper.threaded => DirectReturns)
PyReturned == Top \in {"python", "callback"} \/ lives = "terminated"
PyReturns == PyWaits ~> PyReturned

\* What Python raises is Python's.
PythonGoesOn == lives # "terminated"
=============================================================================
