---------------------------- MODULE PacketLayouts ----------------------------
(* What the headers offer to build a message, and to read one: the packets   *)
(* of UMP (cmidi2.hpp, ump_events.hpp, ump.hpp), the messages of MIDI 1 and   *)
(* the meta events of a file (message.hpp), and the numbers of seven bits a   *)
(* byte (cmidi2.hpp). A request names a function and its arguments; a packet  *)
(* is its bytes, the first of each word the highest. An argument of 32 bits   *)
(* is four bytes. A packet is a sum of shifted terms: what is not masked      *)
(* carries into the field above.                                             *)
EXTENDS Integers, SequencesExt

CONSTANT Requests  \* [does |-> a function, a |-> its arguments]

VARIABLE made      \* the last request and what it gave, or none yet

None == [does |-> "none", a |-> <<>>]
Pow(n) == 2 ^ n

\* A word of 32 bits is the sum of terms <<value, shift>>.
Word(terms) == <<terms>>
Empty == Word(<<>>)
Whole(bytes) == Word([i \in 1..4 |-> <<bytes[i], 32 - 8 * i>>])
BytesOf(terms) ==
  LET Column(c) == MapThenSumSet(LAMBDA i : terms[i][1] * Pow(terms[i][2] % 8), {i \in DOMAIN terms : terms[i][2] \div 8 = c})
      first == Column(0)
      second == Column(1) + first \div 256
      third == Column(2) + second \div 256
  IN <<(Column(3) + third \div 256) % 256, third % 256, second % 256, first % 256>>
Packed(words) == FlattenSeq([i \in DOMAIN words |-> BytesOf(words[i])])

-----------------------------------------------------------------------------
(* The generators, of each kind of packets. *)

StreamMessage(status, terms) == Word(<<<<15, 28>>, <<status, 16>>>> \o terms)
Name(status, n) ==
  StreamMessage(status, <<<<n[1], 8>>, <<n[2], 0>>>>)
    \o [w \in 1..3 |-> [i \in 1..4 |-> <<n[4 * w + i - 2], 8 * (4 - i)>>]]
Flag(b, v) == IF b THEN v ELSE 0
Streams(does, a) ==
  CASE does = "endpoint_discovery" -> StreamMessage(0, <<<<a[1], 8>>, <<a[2], 0>>>>) \o Word(<<<<a[3] % 32, 0>>>>) \o Empty \o Empty
    [] does = "endpoint_info" ->
         StreamMessage(1, <<<<a[1], 8>>, <<a[2], 0>>>>)
           \o Word(<<<<Flag(a[3], 128), 24>>, <<a[4], 24>>, <<Flag(a[5], 16), 8>>, <<Flag(a[6], 1), 8>>, <<Flag(a[7], 2), 0>>, <<Flag(a[8], 1), 0>>>>)
           \o Empty \o Empty
    [] does = "device_identity" ->
         StreamMessage(2, <<>>) \o Whole(a[1]) \o Word(<<<<a[2], 24>>, <<a[3], 16>>, <<a[4], 8>>, <<a[3], 0>>>>) \o Whole(a[6])
    [] does = "endpoint_name" -> Name(3, a)
    [] does = "product_instance_id" -> Name(4, a)
    [] does \in {"stream_configuration_request", "stream_configuration_notification"} ->
         StreamMessage(IF does = "stream_configuration_request" THEN 5 ELSE 6, <<<<a[1], 8>>, <<Flag(a[2], 2), 0>>, <<Flag(a[3], 1), 0>>>>)
           \o Empty \o Empty \o Empty
    [] does = "function_block_discovery" -> StreamMessage(16, <<<<a[1], 8>>, <<a[2], 0>>>>) \o Empty \o Empty \o Empty
    [] does = "function_block_info" ->
         StreamMessage(17, <<<<Flag(a[1], 128), 8>>, <<a[2], 8>>, <<a[3], 4>>, <<a[4], 2>>, <<a[5], 0>>>>)
           \o Word(<<<<a[6], 24>>, <<a[7], 16>>, <<a[8], 8>>, <<a[9], 0>>>>) \o Empty \o Empty
    [] does = "function_block_name" -> Name(18, a)
    [] does = "start_of_clip" -> StreamMessage(32, <<>>) \o Empty \o Empty \o Empty
    [] does = "end_of_clip" -> StreamMessage(33, <<>>) \o Empty \o Empty \o Empty

UtilityMessage(status, terms) == Word(<<<<status, 16>>>> \o terms)
Utility(does, a) ==
  CASE does = "noop" -> Empty
    [] does = "jr_clock" -> UtilityMessage(16, <<<<a[1], 0>>>>)
    [] does = "jr_timestamp" -> UtilityMessage(32, <<<<a[1], 0>>>>)
    [] does = "dctpq" -> UtilityMessage(48, <<<<a[1], 0>>>>)
    [] does = "dcs" -> UtilityMessage(64, <<<<a[1] % Pow(20), 0>>>>)

Addressed(type, group, status) == <<<<type, 28>>, <<group % 16, 24>>, <<status, 16>>>>
SystemMessage(does, a) == Word(Addressed(1, a[1], a[2]) \o <<<<a[3] % 128, 8>>, <<a[4] % 128, 0>>>>)

Voice1(group, code, channel, x, y) ==
  Word(Addressed(2, group, code - (code % 16) + (channel % 16)) \o <<<<x % 128, 8>>, <<y % 128, 0>>>>)
Voices1(does, a) ==
  LET V(code, x, y) == Voice1(a[1], code, a[2], x, y)
      Bend(v) == V(224, v % 128, (v \div 128) % 128)
  IN CASE does = "midi1_note_off" -> V(128, a[3] % 128, a[4] % 128)
       [] does = "midi1_note_on" -> V(144, a[3] % 128, a[4] % 128)
       [] does = "midi1_paf" -> V(160, a[3] % 128, a[4] % 128)
       [] does = "midi1_cc" -> V(176, a[3] % 128, a[4] % 128)
       [] does = "midi1_program" -> V(192, a[3] % 128, 0)
       [] does = "midi1_caf" -> V(208, a[3] % 128, 0)
       [] does = "midi1_pitch_bend_direct" -> Bend(a[3])
       [] does = "midi1_pitch_bend_split" -> V(224, a[3] % 128, a[4] % 128)
       [] does = "midi1_pitch_bend" -> Bend(a[3] + 8192)

\* cmidi2_ump_midi2_channel_message_8_8_16_16(), _8_8_32()
Voice2(group, code, channel, x, y, rest) ==
  Word(Addressed(4, group, code - (code % 16) + (channel % 16)) \o <<<<x, 8>>, <<y, 0>>>>) \o rest
Shorts(x, y) == Word(<<<<x, 16>>, <<y, 0>>>>)
Centred(d) == Word(<<<<32768, 16>>, <<d, 0>>>>)
Voices2(does, a) ==
  LET V(code, x, y, rest) == Voice2(a[1], code, a[2], x, y, rest)
  IN CASE does = "note_off" -> V(128, a[3] % 128, a[4], Shorts(a[5], a[6]))
       [] does = "note_on" -> V(144, a[3] % 128, a[4], Shorts(a[5], a[6]))
       [] does = "paf" -> V(160, a[3] % 128, 0, Whole(a[4]))
       [] does = "per_note_rcc" -> V(0, a[3] % 128, a[4], Whole(a[5]))
       [] does = "per_note_acc" -> V(16, a[3] % 128, a[4], Whole(a[5]))
       [] does = "per_note_management" -> V(240, a[3] % 128, a[4] % 4, Empty)
       [] does = "cc" -> V(176, a[3] % 128, 0, Whole(a[4]))
       [] does = "rpn" -> V(32, a[3] % 128, a[4] % 128, Whole(a[5]))
       [] does = "nrpn" -> V(48, a[3] % 128, a[4] % 128, Whole(a[5]))
       [] does = "relative_rpn" -> V(64, a[3] % 128, a[4] % 128, Whole(a[5]))
       [] does = "relative_nrpn" -> V(80, a[3] % 128, a[4] % 128, Whole(a[5]))
       [] does = "program" -> V(192, 0, a[3] % 2, Word(<<<<a[4] % 128, 24>>, <<a[5], 8>>, <<a[6], 0>>>>))
       [] does = "caf" -> V(208, 0, 0, Whole(a[3]))
       [] does = "pitch_bend_direct" -> V(224, 0, 0, Whole(a[3]))
       [] does = "pitch_bend" -> V(224, 0, 0, Centred(a[3]))
       [] does = "per_note_pitch_bend_direct" -> V(96, a[3] % 128, 0, Whole(a[4]))
       [] does = "per_note_pitch_bend" -> V(96, a[3] % 128, 0, Centred(a[4]))

\* cmidi2_ump_flex_data_complete_packet(): one packet, to a channel or a group.
Complete(group, addressing, channel, status, data) ==
  Whole(<<208 + (group % 16), 64 + 16 * (addressing % 4) + (channel % 16), 0, status>>) \o data
FlexData(does, a) ==
  CASE does = "set_tempo" -> Complete(a[1], 1, a[2], 0, Whole(a[3]) \o Empty \o Empty)
    [] does = "set_time_signature" -> Complete(a[1], 1, a[2], 1, Word(<<<<a[3], 24>>, <<a[4], 16>>, <<a[5], 8>>>>) \o Empty \o Empty)
    [] does = "set_metronome" ->
         Complete(a[1], 1, a[2], 2, Word(<<<<a[3], 24>>, <<a[4], 16>>, <<a[5], 8>>, <<a[6], 0>>>>) \o Word(<<<<a[7], 24>>, <<a[8], 16>>>>) \o Empty)
    [] does = "set_key_signature" -> Complete(a[1], a[3], a[2], 5, Word(<<<<a[4], 24>>, <<a[5], 16>>>>) \o Empty \o Empty)
    [] does = "set_chord_name" ->
         Complete(a[1], a[3], a[2], 6,
           Word(<<<<a[4], 28>>, <<a[5], 24>>, <<a[6], 16>>, <<a[7], 12>>, <<a[8], 8>>, <<a[9], 4>>, <<a[10], 0>>>>)
             \o Word(<<<<a[11], 28>>, <<a[12], 24>>, <<a[13], 20>>, <<a[14], 16>>>>)
             \o Word(<<<<a[15], 28>>, <<a[16], 24>>, <<a[17], 16>>, <<a[18], 12>>, <<a[19], 8>>, <<a[20], 4>>, <<a[21], 0>>>>))

\* cmidi2_ump_sysex7_direct(), and the header of a data set, whose numbers the
\* processor writes with their low byte first.
LowFirst(v, shift) == <<<<v % 256, shift + 8>>, <<v \div 256, shift>>>>
Exclusive(does, a) ==
  CASE does = "sysex7_direct" ->
         Word(Addressed(3, a[1], a[2] + a[3]) \o <<<<a[4], 8>>, <<a[5], 0>>>>) \o Word(<<<<a[6], 24>>, <<a[7], 16>>, <<a[8], 8>>, <<a[9], 0>>>>)
    [] does = "mds_header" -> Word(<<<<80 + (a[1] % 16), 24>>, <<128 + a[2], 16>>>> \o LowFirst(a[3], 0))
           \o [w \in 1..3 |-> LowFirst(a[2 * w + 2], 16) \o LowFirst(a[2 * w + 3], 0)]

-----------------------------------------------------------------------------
(* ump_events.hpp: the packets from values of MIDI 1, or of 0 to 1 (quarters). *)

U16(v) == (2 * v * 65535 + 127) \div 254
U32(v) == BytesOf(<<<<(v * 65536) \div 127, 16>>, <<(2 * (((v * 65536) % 127) * 65536 - v) + 127) \div 254, 0>>>>)
Scaled(v) == BytesOf(<<<<v, 16>>, <<v, 0>>>>)
FromMidi1(does, a) ==
  CASE does = "from_midi1_note_on" -> Voices2("note_on", <<0, a[1], a[2], 0, U16(a[3]), 0>>)
    [] does = "from_midi1_note_off" -> Voices2("note_off", <<0, a[1], a[2], 0, U16(a[3]), 0>>)
    [] does = "from_midi1_poly_pressure" -> Voices2("paf", <<0, a[1], a[2], U32(a[3])>>)
    [] does = "from_midi1_control_change" -> Voices2("cc", <<0, a[1], a[2], U32(a[3])>>)
    [] does = "from_midi1_program_change" -> Voices2("program", <<0, a[1], 0, a[2], 0, 0>>)
    [] does = "from_midi1_aftertouch" -> Voices2("caf", <<0, a[1], U32(a[2])>>)
    [] does = "from_midi1_pitch_bend" -> Voices2("pitch_bend_direct", <<0, a[1], Scaled(a[2])>>)

Quarters(n) == IF n < 0 THEN 0 ELSE IF n > 4 THEN 4 ELSE n
Quarter16(n) == (Quarters(n) * 65535) \div 4
Quarter32(n) == IF Quarters(n) = 0 THEN <<0, 0, 0, 0>> ELSE <<64 * Quarters(n) - 1, 255, 255, 255>>
From01(does, a) ==
  CASE does = "from_01_note_on" -> Voices2("note_on", <<0, a[1], a[2], 0, Quarter16(a[3]), 0>>)
    [] does = "from_01_note_off" -> Voices2("note_off", <<0, a[1], a[2], 0, Quarter16(a[3]), 0>>)
    [] does = "from_01_poly_pressure" -> Voices2("paf", <<0, a[1], a[2], Quarter32(a[3])>>)
    [] does = "from_01_control_change" -> Voices2("cc", <<0, a[1], a[2], Quarter32(a[3])>>)
    [] does = "from_01_aftertouch" -> Voices2("caf", <<0, a[1], Quarter32(a[2])>>)
    [] does = "from_01_pitch_bend" -> Voices2("pitch_bend_direct", <<0, a[1], Quarter32(a[2])>>)

\* note_on() ... pitch_bend() of ump_events: no attribute, no bank.
Event(does, a) ==
  CASE does = "event_note_on" -> Voices2("note_on", <<a[1], a[2], a[3], 0, a[4] % 65536, 0>>)
    [] does = "event_note_off" -> Voices2("note_off", <<a[1], a[2], a[3], 0, a[4] % 65536, 0>>)
    [] does = "event_program_change" -> Voices2("program", <<a[1], a[2], 0, a[3], 0, 0>>)

-----------------------------------------------------------------------------
(* message.hpp: the messages of MIDI 1, of channels 1 to 16, and meta events. *)

ClampChannel(c) == IF c - 1 < 0 THEN 0 ELSE IF c - 1 > 15 THEN 15 ELSE c - 1
MakeCommand(type, c) == type + ClampChannel(c)
ChannelEvent(does, a) ==
  CASE does = "channel_note_on" -> <<MakeCommand(144, a[1]), a[2], a[3]>>
    [] does = "channel_note_off" -> <<MakeCommand(128, a[1]), a[2], a[3]>>
    [] does = "channel_control_change" -> <<MakeCommand(176, a[1]), a[2], a[3]>>
    [] does = "channel_program_change" -> <<MakeCommand(192, a[1]), a[2]>>
    [] does = "channel_pitch_bend" -> <<MakeCommand(224, a[1]), a[2] % 128, (a[2] \div 128) % 128>>
    [] does = "channel_poly_pressure" -> <<MakeCommand(160, a[1]), a[2], a[3]>>
    [] does = "channel_aftertouch" -> <<MakeCommand(208, a[1]), a[2]>>

\* The least power of two that is not less than the denominator.
PowerOfTwo(denominator) == IF denominator <= 1 THEN 0 ELSE Min({n \in 0..7 : Pow(n) >= denominator})
\* The channel of meta_events::channel() is clamped between bounds that are
\* exchanged: only for channel 256 the call is defined.
MetaEvent(does, a) ==
  CASE does = "meta_end_of_track" -> <<255, 47, 0>>
    [] does = "meta_channel" -> <<255, 32, 1, 255>>
    [] does = "meta_tempo" -> <<255, 81, 3, (a[1] \div 65536) % 256, (a[1] \div 256) % 256, a[1] % 256>>
    [] does = "meta_time_signature" -> <<255, 88, 4, a[1] % 256, PowerOfTwo(a[2]), a[3] % 256, a[4] % 256>>
    [] does = "meta_key_signature" ->
         IF a[1] < -7 \/ a[1] > 7 THEN <<>> ELSE <<255, 89, 2, a[1] % 256, IF a[2] THEN 1 ELSE 0>>
    [] does = "song_position" -> <<242, a[1] % 128, (a[1] \div 128) % 128>>

\* cmidi2_midi1_write_7bit_encoded_int(), the low bits first.
RECURSIVE Write7(_)
Write7(v) == IF v < 128 THEN <<v>> ELSE <<128 + (v % 128)>> \o Write7(v \div 128)
\* cmidi2_midi1_get_7bit_encoded_int()
RECURSIVE Read7(_)
Read7(bytes) ==
  CASE bytes = <<>> -> 0
    [] bytes # <<>> /\ bytes[1] < 128 -> bytes[1]
    [] OTHER -> (bytes[1] % 128) + 128 * Read7(Tail(bytes))

-----------------------------------------------------------------------------
StreamKinds == {"endpoint_discovery", "endpoint_info", "device_identity", "endpoint_name", "product_instance_id",
  "stream_configuration_request", "stream_configuration_notification", "function_block_discovery", "function_block_info",
  "function_block_name", "start_of_clip", "end_of_clip"}
UtilityKinds == {"noop", "jr_clock", "jr_timestamp", "dctpq", "dcs"}
Voice1Kinds == {"midi1_note_off", "midi1_note_on", "midi1_paf", "midi1_cc", "midi1_program", "midi1_caf",
  "midi1_pitch_bend_direct", "midi1_pitch_bend_split", "midi1_pitch_bend"}
Voice2Kinds == {"note_off", "note_on", "paf", "per_note_rcc", "per_note_acc", "per_note_management", "cc", "rpn", "nrpn",
  "relative_rpn", "relative_nrpn", "program", "caf", "pitch_bend_direct", "pitch_bend", "per_note_pitch_bend_direct",
  "per_note_pitch_bend"}
FlexKinds == {"set_tempo", "set_time_signature", "set_metronome", "set_key_signature", "set_chord_name"}
ExclusiveKinds == {"sysex7_direct", "mds_header"}
FromMidi1Kinds == {"from_midi1_note_on", "from_midi1_note_off", "from_midi1_poly_pressure", "from_midi1_control_change",
  "from_midi1_program_change", "from_midi1_aftertouch", "from_midi1_pitch_bend"}
From01Kinds == {"from_01_note_on", "from_01_note_off", "from_01_poly_pressure", "from_01_control_change",
  "from_01_aftertouch", "from_01_pitch_bend"}
EventKinds == {"event_note_on", "event_note_off", "event_program_change"}
ChannelKinds == {"channel_note_on", "channel_note_off", "channel_control_change", "channel_program_change",
  "channel_pitch_bend", "channel_poly_pressure", "channel_aftertouch"}
MetaKinds == {"meta_end_of_track", "meta_channel", "meta_tempo", "meta_time_signature", "meta_key_signature", "song_position"}

PacketOf(q) ==
  CASE q.does \in StreamKinds -> Streams(q.does, q.a)
    [] q.does \in UtilityKinds -> Utility(q.does, q.a)
    [] q.does = "system" -> SystemMessage(q.does, q.a)
    [] q.does \in Voice1Kinds -> Voices1(q.does, q.a)
    [] q.does \in Voice2Kinds -> Voices2(q.does, q.a)
    [] q.does \in FlexKinds -> FlexData(q.does, q.a)
    [] q.does \in ExclusiveKinds -> Exclusive(q.does, q.a)
    [] q.does \in FromMidi1Kinds -> FromMidi1(q.does, q.a)
    [] q.does \in From01Kinds -> From01(q.does, q.a)
    [] q.does \in EventKinds -> Event(q.does, q.a)
Built(q) ==
  CASE q.does \in ChannelKinds -> ChannelEvent(q.does, q.a)
    [] q.does \in MetaKinds -> MetaEvent(q.does, q.a)
    [] q.does = "write_7bit" -> Write7(q.a[1])
    [] q.does = "none" -> <<>>
    [] OTHER -> Packed(PacketOf(q))

Init == made = [request |-> None, bytes |-> <<>>]

\* The application builds a message: no call depends on an earlier one.
Make(q) ==
  /\ made.request = None
  /\ made' = [request |-> q, bytes |-> Built(q)]
Next == \E q \in Requests : Make(q)
Spec == Init /\ [][Next]_made

-----------------------------------------------------------------------------
(* The getters, which read bytes wherever a generator put them. *)

\* cmidi2_ump_get_byte_at()
Byte(p, at) == p[at + 1]
Short(p, at) == 256 * Byte(p, at) + Byte(p, at + 1)
At == [b1 |-> 1, b2 |-> 2, b3 |-> 3, b4 |-> 4, b5 |-> 5, b6 |-> 6, b7 |-> 7]
Read(p, getter) ==
  CASE getter = "group" -> Byte(p, 0) % 16
    [] getter = "status" -> Byte(p, 1)
    [] getter = "code" -> Byte(p, 1) - (Byte(p, 1) % 16)
    [] getter = "channel" -> Byte(p, 1) % 16
    [] getter \in DOMAIN At -> Byte(p, At[getter])
    [] getter = "rest" -> SubSeq(p, 5, 8)
    [] getter = "bend" -> Byte(p, 2) + Byte(p, 3) * 128
    [] getter = "short2" -> Short(p, 2)
    [] getter = "short4" -> Short(p, 4)
    [] getter = "short6" -> Short(p, 6)
    [] getter = "short8" -> Short(p, 8)
    [] getter = "short10" -> Short(p, 10)
    [] getter = "short12" -> Short(p, 12)
    [] getter = "short14" -> Short(p, 14)

\* cmidi2_ump_get_dcs(), whose result has 16 bits.
ReadDcs(p) == ((Byte(p, 1) % 16) * 65536 + Short(p, 2)) % 65536

\* as_midi1: the high seven bits, or fourteen; as_01: the nearest quarter.
AsMidi1(p, getter) ==
  CASE getter = "seven" -> Byte(p, 4) \div 2
    [] getter = "fourteen" -> Byte(p, 4) * 64 + Byte(p, 5) \div 4
As01(p) == (Byte(p, 4) + 1) \div 64

\* message: get_channel(), uses_channel(), get_message_type(), is_note_on_or_off()
HasChannel(m) == m[1] < 240
GetChannel(m) == IF HasChannel(m) THEN (m[1] % 16) + 1 ELSE 0
UsesChannel(m, c) == m[1] % 16 = c - 1 /\ HasChannel(m)
GetMessageType(m) == IF m[1] >= 240 THEN m[1] ELSE m[1] - (m[1] % 16)
IsNoteOnOrOff(m) == GetMessageType(m) \in {128, 144}
GetMetaEventType(m) == IF m[1] = 255 THEN m[2] ELSE 255

\* What a program that reads the file makes of a meta event.
Meta(m, getter) ==
  CASE getter = "tempo" -> m[4] * 65536 + m[5] * 256 + m[6]
    [] getter = "denominator" -> Pow(m[5])
    [] getter = "key" -> IF m[4] >= 128 THEN m[4] - 256 ELSE m[4]
    [] getter = "minor" -> m[5] = 1

\* ump::get_type(), and what the converter's cmidi2_ump_get_message_type() reads.
TypeOf(p) == p[1] \div 16
\* ump::size(): what the first words of a packet say, none for types 13 and 15.
UmpSize(p) ==
  CASE TypeOf(p) \in {0, 1, 2} -> 1
    [] TypeOf(p) \in {3, 4} -> 2
    [] TypeOf(p) = 5 -> 4
    [] OTHER -> 0

\* The getters of each argument of a kind of packets, where there is one.
Readers1(does) ==
  CASE does \in {"jr_clock", "jr_timestamp", "dctpq"} -> <<"short2">>
    [] does = "dcs" -> <<"dcs">>
    [] does = "system" -> <<"group", "status", "b2", "b3">>
    [] does \in {"midi1_program", "midi1_caf"} -> <<"group", "channel", "b2">>
    [] does = "midi1_pitch_bend_direct" -> <<"group", "channel", "bend">>
    [] does = "midi1_pitch_bend" -> <<"group", "channel">>
    [] does \in Voice1Kinds -> <<"group", "channel", "b2", "b3">>
Readers2(does) ==
  CASE does \in {"note_off", "note_on"} -> <<"group", "channel", "b2", "b3", "short4", "short6">>
    [] does \in {"paf", "cc", "per_note_pitch_bend_direct"} -> <<"group", "channel", "b2", "rest">>
    [] does \in {"per_note_rcc", "per_note_acc", "rpn", "nrpn", "relative_rpn", "relative_nrpn"} -> <<"group", "channel", "b2", "b3", "rest">>
    [] does = "per_note_management" -> <<"group", "channel", "b2", "b3">>
    [] does = "program" -> <<"group", "channel", "b3", "b4", "b6", "b7">>
    [] does \in {"caf", "pitch_bend_direct"} -> <<"group", "channel", "rest">>
    [] does = "pitch_bend" -> <<"group", "channel">>
    [] does = "per_note_pitch_bend" -> <<"group", "channel", "b2">>
    [] does = "event_program_change" -> <<"group", "channel", "b4">>
    [] does \in EventKinds -> <<"group", "channel", "b2", "short4">>
ReadersExclusive(does) ==
  CASE does = "sysex7_direct" -> <<"group", "code", "channel", "b2", "b3", "b4", "b5", "b6", "b7">>
    [] does = "mds_header" -> <<"group", "channel", "short2", "short4", "short6", "short8", "short10", "short12", "short14">>
ReadersMidi1(does) ==
  CASE does = "from_midi1_program_change" -> <<"channel", "b4">>
    [] does = "from_midi1_aftertouch" -> <<"channel", "seven">>
    [] does = "from_midi1_pitch_bend" -> <<"channel", "fourteen">>
    [] does \in FromMidi1Kinds -> <<"channel", "b2", "seven">>
Readers01(does) ==
  IF does \in {"from_01_aftertouch", "from_01_pitch_bend"} THEN <<"channel", "quarter">> ELSE <<"channel", "b2", "quarter">>
ReadersOfMessages(does) ==
  CASE does \in {"channel_program_change", "channel_aftertouch"} -> <<"of channel", "b1">>
    [] does = "channel_pitch_bend" -> <<"of channel", "position">>
    [] does \in ChannelKinds -> <<"of channel", "b1", "b2">>
    [] does = "song_position" -> <<"position">>
    [] does = "meta_channel" -> <<"b3">>
    [] does = "meta_tempo" -> <<"tempo">>
    [] does = "meta_time_signature" -> <<"b3", "denominator", "b5", "b6">>
    [] does = "meta_key_signature" -> <<"key", "minor">>
    [] does = "meta_end_of_track" -> <<>>

Readers(does) ==
  CASE does \in (UtilityKinds \ {"noop"}) \cup {"system"} \cup Voice1Kinds -> Readers1(does)
    [] does \in Voice2Kinds \cup EventKinds -> Readers2(does)
    [] does \in ExclusiveKinds -> ReadersExclusive(does)
    [] does \in FromMidi1Kinds -> ReadersMidi1(does)
    [] does \in From01Kinds -> Readers01(does)
    [] does \in ChannelKinds \cup MetaKinds -> ReadersOfMessages(does)
    [] does \in FlexKinds -> <<"group", "channel">>
    [] does = "write_7bit" -> <<"number">>
    [] OTHER -> <<>>

Value(p, getter) ==
  CASE getter = "dcs" -> ReadDcs(p)
    [] getter \in {"seven", "fourteen"} -> AsMidi1(p, getter)
    [] getter = "quarter" -> As01(p)
    [] getter = "of channel" -> GetChannel(p) - 1
    [] getter = "position" -> p[2] + 128 * p[3]
    [] getter \in {"tempo", "denominator", "key", "minor"} -> Meta(p, getter)
    [] getter = "number" -> Read7(p)
    [] OTHER -> Read(p, getter)

-----------------------------------------------------------------------------
\* The arguments as they are meant: each within the width of its field.
Widths(does) ==
  CASE does = "endpoint_discovery" -> <<8, 8, 5>>
    [] does = "dcs" -> <<20>>
    [] does = "system" -> <<4, 8, 7, 7>>
    [] does \in {"midi1_pitch_bend_direct", "midi1_pitch_bend"} -> <<4, 4, 14>>
    [] does \in Voice1Kinds -> <<4, 4, 7, 7>>
    [] does \in {"rpn", "nrpn", "relative_rpn", "relative_nrpn"} -> <<4, 4, 7, 7>>
    [] does = "per_note_management" -> <<4, 4, 7, 2>>
    [] does \in {"program"} -> <<4, 4, 1, 7>>
    [] does \in {"caf", "pitch_bend_direct", "pitch_bend"} -> <<4, 4>>
    [] does \in Voice2Kinds -> <<4, 4, 7>>
    [] does \in EventKinds -> <<4, 4, 7, 16>>
    [] does \in {"set_tempo", "set_time_signature", "set_metronome"} -> <<4, 4>>
    [] does \in FlexKinds -> <<4, 4, 2>>
    [] does \in ExclusiveKinds -> <<4>>
    [] does \in FromMidi1Kinds -> <<4, 7>>
    [] does \in From01Kinds -> <<4>>
    [] does = "channel_pitch_bend" -> <<4, 14>>
    [] does = "meta_tempo" -> <<24>>
    [] OTHER -> <<>>
Meant(q) ==
  LET Field(i) == CASE q.does \in ChannelKinds /\ i = 1 -> ClampChannel(q.a[1])
                    [] q.does \in From01Kinds /\ i = Len(q.a) -> Quarters(q.a[i])
                    [] q.does = "meta_channel" -> q.a[i] - 1
                    [] i \in DOMAIN Widths(q.does) -> q.a[i] % Pow(Widths(q.does)[i])
                    [] OTHER -> q.a[i]
  IN [i \in DOMAIN q.a |-> Field(i)]

\* Other names of the same packets.
Alias(does) ==
  CASE does \in {"midi1_pitch_bend_split", "midi1_pitch_bend"} -> "midi1_pitch_bend_direct"
    [] does \in {"pitch_bend", "from_midi1_pitch_bend", "from_01_pitch_bend"} -> "pitch_bend_direct"
    [] does = "per_note_pitch_bend" -> "per_note_pitch_bend_direct"
    [] does \in {"from_midi1_note_on", "from_01_note_on", "event_note_on"} -> "note_on"
    [] does \in {"from_midi1_note_off", "from_01_note_off", "event_note_off"} -> "note_off"
    [] does \in {"from_midi1_poly_pressure", "from_01_poly_pressure"} -> "paf"
    [] does \in {"from_midi1_control_change", "from_01_control_change"} -> "cc"
    [] does \in {"from_midi1_program_change", "event_program_change"} -> "program"
    [] does \in {"from_midi1_aftertouch", "from_01_aftertouch"} -> "caf"
    [] OTHER -> does
Family(does) == IF does \in ChannelKinds \cup MetaKinds THEN "message" ELSE IF does = "write_7bit" THEN "number" ELSE "packet"

Thrown == made.request.does = "meta_key_signature" /\ made.bytes = <<>>

\* What a generator wrote, the getter of it reads: nothing of a field runs into
\* the one above, and both put it at the same place (cmidi2.hpp, ump_events.hpp).
ReadsBack ==
  LET q == made.request
  IN ~Thrown => \A i \in DOMAIN Readers(q.does) : Value(made.bytes, Readers(q.does)[i]) = Meant(q)[i]

\* Two calls give the same packet exactly when they mean the same: every
\* argument has bits of its own, and those of no packet are those of another kind.
Distinct ==
  LET q == made.request
  IN q # None => \A r \in Requests :
       Family(q.does) = Family(r.does) =>
         /\ Built(r) = made.bytes => Alias(r.does) = Alias(q.does)
         /\ r.does = q.does /\ ~Thrown => (Built(r) = made.bytes <=> Meant(r) = Meant(q))

\* A packet has as many words as those that read it expect of its type, and a
\* message of MIDI 1 its own channel only; a meta event is as long as it says.
WellFormed ==
  LET q == made.request p == made.bytes
  IN CASE q = None \/ q.does = "write_7bit" \/ Thrown -> TRUE
       [] q.does \in ChannelKinds -> /\ \A c \in 1..16 : UsesChannel(p, c) <=> c = GetChannel(p)
                                     /\ IsNoteOnOrOff(p) <=> q.does \in {"channel_note_on", "channel_note_off"}
       [] q.does = "song_position" -> GetChannel(p) = 0 /\ Len(p) = 3 /\ \A i \in 2..3 : p[i] < 128
       [] q.does \in MetaKinds -> GetMetaEventType(p) < 128 /\ p[3] = Len(p) - 3 /\ GetChannel(p) = 0
       [] OTHER -> Len(p) = 4 * (IF q.does \in FlexKinds \cup StreamKinds THEN 4 ELSE UmpSize(p))
=============================================================================
