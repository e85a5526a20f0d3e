------------------------------ MODULE NetPorts -------------------------------
(***************************************************************************)
(* MIDI over OSC and UDP: net::midi_out and net::midi_in, and their forms   *)
(* for UMP. An output sends each call in a datagram; an input keeps one     *)
(* asynchronous receive on its socket, whose handler parses the datagram    *)
(* and asks for the next. The handlers run on a thread of the input that    *)
(* owns its io_context, or wherever the application runs the one it gave.   *)
(*                                                                          *)
(* External: the network, which loses, repeats and reorders, and carries    *)
(* datagrams of other programs, and boost::asio, as its documentation has   *)
(* it: close() completes what waits on a socket with operation_aborted, a   *)
(* receive on a closed socket completes at once with bad_descriptor, and    *)
(* run() ends, and stops the context, when no operation or handler is left. *)
(***************************************************************************)
EXTENDS Naturals, SequencesExt

CONSTANTS
  Protocols,   \* a subset of {"midi1", "ump"}
  Names,       \* the names that ports are opened with
  Sends,       \* by protocol: what one call of an output may be given
  Foreign,     \* by protocol: datagrams of other programs
  MaxNetOpens,    \* bound: openings of the input
  MaxArrivals  \* bound: datagrams that reach the socket of the input

VARIABLES
  setup,       \* the protocol, and whether the input owns its io_context
  out,         \* the output: its flag, its socket, the name in its packet
  inbox,       \* datagrams that wait at the socket of the input
  arrivals,
  opened,   \* the flag of midi_in
  m_portname,
  m_socket,
  openings,
  app,         \* where the thread of the application is
  stopped,     \* the io_context is
  receives,     \* receives that wait on the socket
  queue,       \* handlers that the context has to run
  threads,     \* those that are inside run()
  last         \* history: what was made of the last datagram

out_vars == <<setup, out>>
socket_vars == <<inbox, arrivals>>
object_vars == <<opened, m_portname, m_socket, openings, app>>
context_vars == <<stopped, receives, queue>>
netvars == <<out_vars, socket_vars, object_vars, context_vars, threads, last>>

Threads == 1..MaxNetOpens
None == [ec |-> "none"]
Heard(d, name, messages) == [d |-> d, name |-> name, heard |-> messages]

Init ==
  /\ setup \in [protocol : Protocols, owned : BOOLEAN]
  /\ out = [open |-> FALSE, name |-> "", socket |-> "open"]
  /\ inbox = <<>> /\ arrivals = 0
  /\ opened = FALSE /\ m_portname = "" /\ m_socket = "open" /\ openings = 0 /\ app = "idle"
  /\ stopped = FALSE /\ receives = 0 /\ queue = <<>>
  /\ threads = [t \in Threads |-> [at |-> IF ~setup.owned /\ t = 1 THEN "run" ELSE "none", handler |-> None]]
  /\ last = Heard(None, "", <<>>)

-----------------------------------------------------------------------------
(* The output, behind midi_out.                                             *)

Words(p) == [i \in 1..p.words |-> [packet |-> p, part |-> i]]

\* init_packet(), set_packet_content(): one type tag, whatever is sent.
Packet(name, messages) ==
  [form |-> "message", name |-> name, tags |-> <<setup.protocol>>, sent |-> messages,
   data |-> IF setup.protocol = "midi1" THEN messages ELSE FlattenSeq([i \in DOMAIN messages |-> Words(messages[i])])]

\* Three bytes of MIDI 1, or up to four words.
Accepts(messages) ==
  IF setup.protocol = "midi1" THEN messages[1].bytes = 3 ELSE Len(Packet("", messages).data) <= 4

OutOpen(name) ==
  /\ ~out.open
  /\ out' = [out EXCEPT !.open = TRUE, !.name = name]
  /\ UNCHANGED <<setup, socket_vars, object_vars, context_vars, threads, last>>

\* A datagram is at the socket of the input. One that is lost never is, one
\* that is repeated is there twice, one that is late passes those before it.
Arrive(d) ==
  /\ m_socket = "open" /\ arrivals < MaxArrivals
  /\ arrivals' = arrivals + 1
  /\ IF receives > 0
     THEN receives' = receives - 1 /\ queue' = Append(queue, [ec |-> "ok", d |-> d]) /\ UNCHANGED inbox
     ELSE inbox' \in {Append(inbox, d), <<d>> \o inbox} /\ UNCHANGED <<receives, queue>>
  /\ UNCHANGED <<out_vars, object_vars, stopped, threads, last>>

\* send_to() on a closed socket fails, which nobody looks at.
Send(messages) ==
  /\ out.open /\ Accepts(messages)
  /\ out.socket = "open" /\ Arrive(Packet(out.name, messages))

OutClose ==
  /\ out.open
  /\ out' = [out EXCEPT !.open = FALSE, !.name = "", !.socket = "closed"]
  /\ UNCHANGED <<setup, socket_vars, object_vars, context_vars, threads, last>>

-----------------------------------------------------------------------------
(* The input, behind midi_in: the thread of the application.                *)

\* receive()
AsyncReceive ==
  IF m_socket = "closed"
  THEN queue' = Append(queue, [ec |-> "bad_descriptor"]) /\ UNCHANGED <<receives, inbox>>
  ELSE IF inbox = <<>>
  THEN receives' = receives + 1 /\ UNCHANGED <<queue, inbox>>
  ELSE queue' = Append(queue, [ec |-> "ok", d |-> Head(inbox)]) /\ inbox' = Tail(inbox) /\ UNCHANGED receives

\* A jthread is started and then assigned over the one of the last opening.
OpenPort(name) ==
  /\ app = "idle" /\ ~opened /\ openings < MaxNetOpens
  /\ openings' = openings + 1 /\ m_portname' = name
  /\ AsyncReceive
  /\ IF setup.owned
     THEN threads' = [threads EXCEPT ![openings + 1].at = "run"] /\ app' = "assign" /\ UNCHANGED opened
     ELSE opened' = TRUE /\ UNCHANGED <<threads, app>>
  /\ UNCHANGED <<out_vars, arrivals, m_socket, stopped, last>>

\* The assignment joins the thread that m_thread had.
Assign ==
  /\ app = "assign" /\ \A t \in 1..openings - 1 : threads[t].at = "ended"
  /\ app' = "idle" /\ opened' = TRUE
  /\ UNCHANGED <<out_vars, socket_vars, m_portname, m_socket, openings, context_vars, threads, last>>

ClosePort ==
  /\ app = "idle" /\ opened
  /\ app' = "close"
  /\ UNCHANGED <<out_vars, socket_vars, opened, m_portname, m_socket, openings, context_vars, threads, last>>

Destroy ==
  /\ app = "idle"
  /\ app' = "destroy"
  /\ UNCHANGED <<out_vars, socket_vars, opened, m_portname, m_socket, openings, context_vars, threads, last>>

\* close_port(), in its form for UMP, stops the context that it owns.
Stop ==
  /\ app \in {"close", "destroy"}
  /\ app' = IF app = "close" THEN "close socket" ELSE "destroy socket"
  /\ stopped' = (stopped \/ (setup.protocol = "ump" /\ setup.owned))
  /\ UNCHANGED <<out_vars, socket_vars, opened, m_portname, m_socket, openings, receives, queue, threads, last>>

CloseSocket ==
  /\ app \in {"close socket", "destroy socket"}
  /\ app' = IF app = "close socket" THEN "idle" ELSE "join"
  /\ opened' = FALSE /\ m_socket' = "closed"
  /\ inbox' = <<>> /\ receives' = 0
  /\ queue' = queue \o [i \in 1..receives |-> [ec |-> "aborted"]]
  /\ UNCHANGED <<out_vars, arrivals, m_portname, openings, stopped, threads, last>>

\* The members go, the thread first; an io_context of ours destroys the
\* handlers it has, another one keeps them.
Join ==
  /\ app = "join"
  /\ setup.owned => \A t \in Threads : threads[t].at \in {"none", "ended"}
  /\ app' = "gone"
  /\ queue' = IF setup.owned THEN <<>> ELSE queue
  /\ UNCHANGED <<out_vars, socket_vars, opened, m_portname, m_socket, openings, stopped, receives, threads, last>>

-----------------------------------------------------------------------------
(* The handlers.                                                            *)

At(t, place) == threads[t].at = place

Goto(t, place) == threads' = [threads EXCEPT ![t].at = place]

\* Nobody is left to run, or to wait for.
NoWork(others) == receives = 0 /\ queue = <<>> /\ \A t \in others : threads[t].at \in {"none", "run", "ended"}

\* run() takes a handler, or ends.
Run(t) ==
  /\ At(t, "run")
  /\ IF stopped
     THEN Goto(t, "ended") /\ UNCHANGED queue
     ELSE /\ queue # <<>>
          /\ threads' = [threads EXCEPT ![t] = [at |-> "handler", handler |-> Head(queue)]]
          /\ queue' = Tail(queue)
  /\ UNCHANGED <<out_vars, socket_vars, object_vars, stopped, receives, last>>

\* An aborted handler does nothing, and was the last work of the context.
Aborted(t) ==
  /\ At(t, "handler") /\ threads[t].handler.ec = "aborted"
  /\ threads' = [threads EXCEPT ![t] = [at |-> "run", handler |-> None]]
  /\ stopped' = (stopped \/ (setup.owned /\ NoWork(Threads \ {t})))
  /\ UNCHANGED <<out_vars, socket_vars, object_vars, receives, queue, last>>

\* What the parser has: the packets so far, and where the next one begins; 0
\* if it gave up.
AddPacket(r, d, whole) ==
  IF r.at = 0 \/ r.at > Len(d.data) THEN r
  ELSE LET p == d.data[r.at].packet
       IN IF p.size = 0 \/ (whole /\ r.at + p.size - 1 > Len(d.data)) THEN [r EXCEPT !.at = 0]
          ELSE [heard |-> Append(r.heard, p), at |-> r.at + p.size]

\* Mutated form of ProcessUmp: a packet of words need not be whole.
ProcessUmpCut(d) ==
  LET parsed[i \in 0..Len(d.tags)] ==
        IF i = 0 THEN [heard |-> <<>>, at |-> 1] ELSE AddPacket(parsed[i - 1], d, FALSE)
  IN parsed[Len(d.tags)].heard

\* osc_parser_midi2: as many packets as there are type tags, as long as
\* their size is known and they are whole.
ProcessUmp(d) ==
  LET parsed[i \in 0..Len(d.tags)] ==
        IF i = 0 THEN [heard |-> <<>>, at |-> 1] ELSE AddPacket(parsed[i - 1], d, TRUE)
  IN parsed[Len(d.tags)].heard

\* osc_parser_midi1: four bytes for each type tag, or nothing.
ProcessMidi1(d) == IF Len(d.data) = Len(d.tags) THEN d.data ELSE <<>>

\* osc_parser::parse_packet(): a message to the name, of our type tags only.
Parse(d, name) ==
  IF d.form # "message" \/ d.name # name \/ \E i \in DOMAIN d.tags : d.tags[i] # setup.protocol
  THEN <<>>
  ELSE IF setup.protocol = "midi1" THEN ProcessMidi1(d) ELSE ProcessUmp(d)

\* The destructor destroys m_portname and then joins: what a handler reads of
\* it in between may be what was there, or anything.
NameRead == IF app = "join" THEN {m_portname, "destroyed"} ELSE {m_portname}

\* What a handler does with an input that is gone is undefined; no step here.
OnBytes(t) ==
  /\ At(t, "handler") /\ threads[t].handler.ec = "ok" /\ app # "gone"
  /\ \E name \in NameRead :
       LET d == threads[t].handler.d
           heard == Parse(d, name)
       IN last' = Heard(d, name, heard) /\ Goto(t, IF heard = <<>> THEN "again" ELSE "user")
  /\ UNCHANGED <<out_vars, socket_vars, object_vars, context_vars>>

UserReturns(t) ==
  /\ At(t, "user")
  /\ Goto(t, "again")
  /\ UNCHANGED <<out_vars, socket_vars, object_vars, context_vars, last>>

\* Any other error, and any datagram, are followed by the next receive.
Again(t) ==
  /\ app # "gone"
  /\ At(t, "again") \/ (At(t, "handler") /\ threads[t].handler.ec = "bad_descriptor")
  /\ AsyncReceive
  /\ threads' = [threads EXCEPT ![t] = [at |-> "run", handler |-> None]] /\ last' = Heard(None, "", <<>>)
  /\ UNCHANGED <<out_vars, arrivals, object_vars, stopped>>

-----------------------------------------------------------------------------

Output == (\E n \in Names : OutOpen(n)) \/ (\E ms \in Sends[setup.protocol] : Send(ms)) \/ OutClose
Network == \E d \in Foreign[setup.protocol] : Arrive(d)
Application == (\E n \in Names : OpenPort(n)) \/ Assign \/ ClosePort \/ Destroy \/ Stop \/ CloseSocket \/ Join
Context == \E t \in Threads : Run(t) \/ Aborted(t) \/ OnBytes(t) \/ UserReturns(t) \/ Again(t)

Next == Output \/ Network \/ Application \/ Context

Spec == Init /\ [][Next]_netvars

\* A call that was begun goes on, and so do the handlers on a thread of ours;
\* the user's callback returns.
Fairness ==
  /\ WF_netvars(Assign) /\ WF_netvars(Stop) /\ WF_netvars(CloseSocket) /\ WF_netvars(Join)
  /\ \A t \in Threads :
       WF_netvars(setup.owned /\ (Run(t) \/ Aborted(t) \/ OnBytes(t) \/ UserReturns(t) \/ Again(t)))

FairSpec == Spec /\ Fairness

-----------------------------------------------------------------------------
(* Properties.                                                              *)

\* What an input makes of a datagram is what was sent under its name, whole
\* and in order, whatever other programs send to its socket. A call of an
\* output has one type tag: what it sends after its first packet is not heard.
HearsWhatWasSent ==
  LET d == last.d
  IN d # None =>
       /\ IsPrefix(last.heard, d.sent)
       /\ d.name # last.name => last.heard = <<>>
       /\ d.name = last.name /\ Len(d.tags) = Len(d.sent) /\ (\A i \in DOMAIN d.sent : d.sent[i].size # 0)
            => last.heard = d.sent

\* A datagram that reached an open port is looked at, whatever came before
\* it, until the port is closed: there is always a receive on the socket. (On the
\* first opening: the socket is never opened again.)
Listens == setup.owned /\ opened /\ openings = 1 /\ inbox # <<>> ~> inbox = <<>>

\* The handler is being run for a socket that is closed.
Revived == \/ \E i \in DOMAIN queue : queue[i].ec = "bad_descriptor"
           \/ \E t \in Threads : threads[t].handler.ec = "bad_descriptor"

\* The destructor of an input that owns its context leaves no thread.
GoneIsQuiet == setup.owned /\ app = "gone" => \A t \in Threads : threads[t].at \in {"none", "ended"}

\* ... and it returns. For MIDI 1 it does not stop the context: a datagram that
\* was received when the socket is closed revives the chain, which never ends.
DestroyWaits == setup.owned /\ app = "destroy"
DestroyReturned == app = "gone" \/ (setup.protocol = "midi1" /\ Revived)
DestroyReturns == DestroyWaits ~> DestroyReturned
=============================================================================
