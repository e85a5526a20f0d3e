----------------------------- MODULE MidiStream -----------------------------
(***************************************************************************)
(* midi1::input_state_machine (detail/midi_stream_decoder.hpp): the bytes   *)
(* that a back-end receives become messages for the application, with the   *)
(* kinds that the configuration ignores left out.                           *)
(*                                                                          *)
(* A back-end calls on_bytes() with one message or one part of a sysex      *)
(* (JACK, PipeWire, WinMM, ...), or on_bytes_multi() with a packet of whole *)
(* messages or one part of a sysex (CoreMIDI, Android). What the device     *)
(* sends while the port is closed is lost, and the machine keeps its state. *)
(***************************************************************************)
EXTENDS Naturals, Sequences

CONSTANTS
  PacketSize,  \* bound: messages in a packet
  MaxMessages, \* bound: messages that the device sends
  MaxSpans     \* bound: spans that it sends them in

ASSUME BoundsAssumption == PacketSize \in Nat \ {0} /\ MaxMessages \in Nat /\ MaxSpans \in Nat

Kinds == {"voice", "quarter", "clock", "sensing", "sysex"}
RealTime == {"clock", "sensing"}  \* may come between the parts of a sysex
Ignorable == {"sysex", "timing", "sensing"}
Pieces == [msg : 1..MaxMessages, kind : Kinds, first : BOOLEAN, last : BOOLEAN]

VARIABLES
  ignored,       \* configuration.ignore_sysex, ignore_timing, ignore_sensing
  multi,         \* the back-end calls on_bytes_multi()
  m_state,
  message,       \* the pieces in message.bytes, with message.timestamp
  last_time_ns, first_message,
  delivered,     \* the messages given to on_message()
  device,        \* the source: messages begun, the sysex it is inside of, time
  span,          \* history: the last one that was received
  expected,      \* history: received pieces of kinds that are not ignored
  within,        \* history: messages received while a sysex was under way
  damaged,       \* history: messages that were not received as they were sent
  timeless,      \* history: a span was not one message for the application
  started        \* history: the time of the first span that was received

machine == <<m_state, message, last_time_ns, first_message>>
history == <<span, expected, within, damaged, timeless, started>>
vars == <<ignored, multi, machine, delivered, device, history>>

Empty == [bytes |-> <<>>, timestamp |-> 0]

TypeOK ==
  /\ ignored \subseteq Ignorable /\ multi \in BOOLEAN
  /\ m_state \in {"main", "in_sysex"} /\ (m_state = "main" => message.bytes = <<>>)
  /\ message \in [bytes : Seq(Pieces), timestamp : 0..MaxSpans]
  /\ last_time_ns \in 0..MaxSpans /\ first_message \in BOOLEAN
  /\ delivered \in Seq([bytes : Seq(Pieces) \ {<<>>}, timestamp : 0..MaxSpans])
  /\ device \in [begun : 0..MaxMessages, inside : 0..MaxMessages, now : 0..MaxSpans]
  /\ span \in Seq(Pieces) /\ expected \in Seq(Pieces)
  /\ within \subseteq 1..MaxMessages /\ damaged \subseteq 1..MaxMessages /\ timeless \in BOOLEAN /\ started \in 0..MaxSpans

Init ==
  /\ ignored \in SUBSET Ignorable /\ multi \in BOOLEAN
  /\ m_state = "main" /\ message = Empty /\ last_time_ns = 0 /\ first_message = TRUE
  /\ delivered = <<>>
  /\ device = [begun |-> 0, inside |-> 0, now |-> 0]
  /\ span = <<>> /\ expected = <<>> /\ within = {} /\ damaged = {} /\ timeless = FALSE /\ started = 0

-----------------------------------------------------------------------------
(* What the device sends next.                                              *)

BeginsSysex(p) == p.kind = "sysex" /\ p.first
EndsSysex(p) == p.kind = "sysex" /\ p.last
Last(s) == s[Len(s)]

Whole(n, kind) == [msg |-> n, kind |-> kind, first |-> TRUE, last |-> TRUE]
Part(n, f, l) == [msg |-> n, kind |-> "sysex", first |-> f, last |-> l]

\* Whole messages: one at a time, or as many as a packet takes.
Messages(kinds) ==
  LET n == device.begun + 1
  IN {<<Whole(n, k)>> : k \in kinds}
       \cup (IF multi THEN {[i \in 1..l |-> Whole(n + i - 1, ks[i])] :
                              l \in 2..PacketSize, ks \in [1..PacketSize -> kinds]} ELSE {})

\* Inside of a sysex, its parts and real-time messages; outside, any message,
\* a sysex in one span or its first part.
NextSpans ==
  IF device.inside # 0
  THEN Messages(RealTime) \cup {<<Part(device.inside, FALSE, l)>> : l \in BOOLEAN}
  ELSE Messages(Kinds \ {"sysex"}) \cup {<<Part(device.begun + 1, TRUE, l)>> : l \in BOOLEAN}

Sends(s) ==
  /\ device.now < MaxSpans /\ Last(s).msg <= MaxMessages
  /\ device' = [now |-> device.now + 1,
                begun |-> IF Last(s).msg > device.begun THEN Last(s).msg ELSE device.begun,
                inside |-> IF BeginsSysex(Last(s)) /\ ~EndsSysex(Last(s)) THEN Last(s).msg
                           ELSE IF EndsSysex(Last(s)) THEN 0 ELSE device.inside]

-----------------------------------------------------------------------------
(* The state machine.                                                       *)

Ignored(p) ==
  \/ p.kind \in {"quarter", "clock"} /\ "timing" \in ignored
  \/ p.kind = "sensing" /\ "sensing" \in ignored
  \/ p.kind = "sysex" /\ "sysex" \in ignored

Wanted == {p \in Pieces : ~Ignored(p)}

\* The pieces of s that are in P, in their order.
Kept(s, P) ==
  LET f[i \in 0..Len(s)] ==
        IF i = 0 THEN <<>> ELSE IF s[i] \in P THEN Append(f[i - 1], s[i]) ELSE f[i - 1]
  IN f[Len(s)]

\* Mutated form of HasFinishedSysex: the state is not looked at.
FinishedInOne(s) == BeginsSysex(s[1]) /\ EndsSysex(Last(s))

HasFinishedSysex(s) == (BeginsSysex(s[1]) \/ m_state = "in_sysex") /\ EndsSysex(Last(s))

\* timestamp(), in the mode timestamp_mode::Relative.
Delta == IF first_message THEN 0 ELSE device.now + 1 - last_time_ns

\* Mutated form of Timestamp: the time is kept for the first message only.
TimestampOnce == first_message' = FALSE /\ last_time_ns' = IF first_message THEN device.now + 1 ELSE last_time_ns

Timestamp == first_message' = FALSE /\ last_time_ns' = device.now + 1

Deliver(m) == delivered' = Append(delivered, m) /\ message' = Empty

\* Mutated form of ContinueSysex: the part replaces what came before.
ContinueAssigns(s) ==
  /\ m_state' = IF HasFinishedSysex(s) THEN "main" ELSE m_state
  /\ LET m == [message EXCEPT !.bytes = s]
     IN IF "sysex" \in ignored THEN UNCHANGED <<message, delivered>>
        ELSE IF HasFinishedSysex(s) THEN Deliver(m)
        ELSE message' = m /\ UNCHANGED delivered

\* on_continue_sysex(): in a sysex, everything is a part of it, and is kept or
\* dropped as the sysex is, whatever the kinds that are ignored.
ContinueSysex(s) ==
  /\ m_state' = IF HasFinishedSysex(s) THEN "main" ELSE m_state
  /\ LET m == [message EXCEPT !.bytes = @ \o s]
     IN IF "sysex" \in ignored THEN UNCHANGED <<message, delivered>>
        ELSE IF HasFinishedSysex(s) THEN Deliver(m)
        ELSE message' = m /\ UNCHANGED delivered

\* The first part of a sysex. on_bytes_multi() clears the message when it is
\* ignored, which it is anyhow.
StartSysex(s) ==
  /\ BeginsSysex(s[1]) /\ ~HasFinishedSysex(s)
  /\ m_state' = "in_sysex"
  /\ message' = IF Ignored(s[1]) THEN message ELSE [bytes |-> s, timestamp |-> Delta]
  /\ UNCHANGED delivered

\* on_main(): the span is the message.
OnMain(s) ==
  \/ StartSysex(s)
  \/ /\ ~BeginsSysex(s[1]) \/ HasFinishedSysex(s)
     /\ IF Ignored(s[1]) /\ s[1].first THEN UNCHANGED <<message, delivered>>
        ELSE Deliver([bytes |-> s, timestamp |-> Delta])
     /\ UNCHANGED m_state

\* The state main of on_bytes_multi_segmented(): one message after the other,
\* up to what is not the beginning of one.
OnPacket(s) ==
  \/ StartSysex(s)
  \/ /\ ~BeginsSysex(s[1]) \/ HasFinishedSysex(s)
     /\ LET wanted == Kept(s, {p \in Wanted : p.first})
        IN delivered' = delivered \o [i \in 1..Len(wanted) |-> [bytes |-> <<wanted[i]>>, timestamp |-> Delta]]
     /\ message' = Empty
     /\ UNCHANGED m_state

-----------------------------------------------------------------------------
(* Steps.                                                                   *)

OutOfStep == (m_state = "in_sysex") # (device.inside # 0)
MessagesOf(s) == {s[i].msg : i \in 1..Len(s)}

\* A span reaches on_bytes() or on_bytes_multi().
Receive(s) ==
  /\ Sends(s)
  /\ IF m_state = "in_sysex" THEN ContinueSysex(s) ELSE IF multi THEN OnPacket(s) ELSE OnMain(s)
  /\ Timestamp
  /\ span' = s
  /\ expected' = expected \o Kept(s, Wanted)
  /\ within' = IF device.inside = 0 THEN within ELSE within \cup MessagesOf(s)
  /\ damaged' = IF OutOfStep THEN damaged \cup MessagesOf(s) ELSE damaged
  /\ timeless' = (timeless \/ OutOfStep \/ device.inside # 0 \/ Len(s) > 1 \/ ~s[1].last \/ Ignored(s[1]))
  /\ started' = IF first_message THEN device.now + 1 ELSE started
  /\ UNCHANGED <<ignored, multi>>

\* What was not received, and the sysex it was a part of.
Damages(s) == damaged' = damaged \cup MessagesOf(s) \cup ({device.inside} \ {0})

\* The span comes between close_port() and open_port().
Lose(s) ==
  /\ Sends(s)
  /\ Damages(s)
  /\ span' = <<>>
  /\ UNCHANGED <<ignored, multi, machine, delivered, expected, within, timeless, started>>

\* WinMM reports an error in place of a part of a sysex: reset(), and what the
\* sysex took in is gone with it.
Reset(s) ==
  /\ Sends(s)
  /\ ~multi /\ s[1].kind = "sysex"
  /\ m_state' = "main" /\ message' = Empty
  /\ Damages(s \o message.bytes)
  /\ span' = <<>>
  /\ UNCHANGED <<ignored, multi, last_time_ns, first_message, delivered, expected, within, timeless, started>>

Next == \E s \in NextSpans : Receive(s) \/ Lose(s) \/ Reset(s)

Spec == Init /\ [][Next]_vars

-----------------------------------------------------------------------------
(* Properties.                                                              *)

Flatten(ms) ==
  LET f[i \in 0..Len(ms)] == IF i = 0 THEN <<>> ELSE f[i - 1] \o ms[i].bytes IN f[Len(ms)]
Sum(ms) ==
  LET f[i \in 0..Len(ms)] == IF i = 0 THEN 0 ELSE f[i - 1] + ms[i].timestamp IN f[Len(ms)]

Sound == {p \in Pieces : p.msg \notin damaged}

\* Every message that on_message() gets is one message that was sent, from its
\* first piece to its last, around real-time messages at most; or it has a part
\* of one that was damaged.
Framed ==
  \A i \in 1..Len(delivered) :
    LET m == delivered[i].bytes
    IN \/ \E j \in 1..Len(m) : m[j] \notin Sound
       \/ /\ m[1].first /\ Last(m).last /\ m[1].msg = Last(m).msg
          /\ \A j \in 2..(Len(m) - 1) : m[j].msg = m[1].msg \/ m[j].kind \in RealTime

\* "MIDI timing and active sensing messages are ignored during message input",
\* each kind as its flag says (input_configuration.hpp:72): what is delivered,
\* or is in the message that is not complete, is what was received and is of no
\* ignored kind, up to what a gap damaged.
FilterApplies == Kept(Flatten(delivered) \o message.bytes, Sound) = Kept(expected, Sound)

\* What that leaves to the code: the messages outside of a sysex, the parts of a
\* sysex, and inside of one the messages of which both flags say the same.
Decided == {p \in Sound : p.msg \in within => (Ignored(p) <=> "sysex" \in ignored)}

\* Nothing is lost, repeated or reordered on the way from the back-end to
\* on_message(), nothing ignored gets there, and each message is whole, however
\* it was cut into parts, packets and gaps: of what a gap did not damage and, of
\* the real-time messages inside of a sysex, of those for which the flags agree.
Transparent ==
  /\ Kept(Flatten(delivered) \o message.bytes, Decided) = Kept(expected, Decided)
  /\ Framed

\* However long the port was closed, the end of a sysex that is received brings
\* the machine back in step with the device.
Recovers == [][span' # <<>> /\ span' # span /\ EndsSysex(Last(span')) => ~OutOfStep']_vars

\* The relative times of the messages add up to the time of the last one, as
\* long as every span was a message and none was ignored.
TimesAddUp == ~timeless => started + Sum(delivered) = last_time_ns
=============================================================================
