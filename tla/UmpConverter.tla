---------------------------- MODULE UmpConverter ----------------------------
(***************************************************************************)
(* MIDI 1 to MIDI 2 and back: the converters of detail/conversion.hpp, with *)
(* the functions of cmidi2.hpp that they call, behind the outputs           *)
(* (detail/midi_out.hpp) and the inputs (midi_in.cpp) of the other protocol,*)
(* and the MIDI 2 input state machine (detail/midi_stream_decoder.hpp).     *)
(*                                                                          *)
(* An output is given messages of MIDI 1 and sends packets; its converter   *)
(* keeps the controllers that select a parameter or a bank over its calls.  *)
(* An input is given packets, filters them, and hands each one over as a    *)
(* message of MIDI 1. A packet is a record with the fields that its type    *)
(* has; of the value of a voice packet, d, only the top bits, in halves of  *)
(* seven: the ones that the shifts of the code fill, and that it reads.     *)
(***************************************************************************)
EXTENDS Naturals, Sequences

LOCAL INSTANCE SequencesExt
LOCAL INSTANCE FiniteSetsExt

CONSTANTS
  IndexSize, \* 256: what an index of type uint8_t wraps at
  Messages,  \* the messages that an application sends, as bytes
  MaxBatch,  \* bound: messages in one call
  Packets    \* the packets that a device sends

ASSUME BoundsAssumption == IndexSize \in Nat \ {0} /\ MaxBatch \in Nat \ {0}

VARIABLES
  context,   \* context_rpn, _nrpn, _dte, _bank: pairs of MSB and LSB
  given,     \* the messages of the last call
  said,      \* its result, the words that were sent, whether no selection was kept
  received,  \* the packets that came, as words, and what the input ignores
  heard      \* the messages of MIDI 1 that the application was handed

vars == <<context, given, said, received, heard>>

-----------------------------------------------------------------------------
(* Words of a UMP stream.                                                   *)

System == 1
Midi1Voice == 2
Sysex7 == 3
Midi2Voice == 4
NumWords(p) == IF p.type \in {Sysex7, Midi2Voice} THEN 2 ELSE 1

WordsOf(p) == [i \in 1..NumWords(p) |-> [packet |-> p, part |-> i]]
Stream(ps) == FlattenSeq([i \in DOMAIN ps |-> WordsOf(ps[i])])
Noop == [packet |-> [type |-> 0, status |-> 0], part |-> 1]

\* The walk over a stream of whole packets; a zero word is padding.
Walk(ws) == LET firsts == SelectSeq(ws, LAMBDA w : w.part = 1 /\ w # Noop)
            IN [i \in DOMAIN firsts |-> firsts[i].packet]

\* What an array of words holds before it is written.
Stale == [packet |-> [type |-> 15, status |-> 0], part |-> 1]

Put(ws, at, new) ==
  LET size == IF at + Len(new) > Len(ws) THEN at + Len(new) ELSE Len(ws)
  IN [k \in 1..size |-> IF k > at /\ k <= at + Len(new) THEN new[k - at]
                        ELSE IF k <= Len(ws) THEN ws[k] ELSE Stale]

-----------------------------------------------------------------------------
(* MIDI 1 to MIDI 2. The state of a call: the two indices, of which the low *)
(* byte counts, the words that were written, and the error.                 *)

None == 128
Unset == <<None, None>>
AtRest(c) == c.rpn = Unset /\ c.nrpn = Unset /\ c.dte = Unset
Valid(pair) == pair[1] # None /\ pair[2] # None

LowByte(n) == n % IndexSize
AddLow(n, k) == (n - LowByte(n)) + LowByte(n + k)

MessageSize(status) ==
  IF status \in {241, 243} THEN 2
  ELSE IF status \in {246, 248, 250, 251, 252, 254, 255} THEN 1
  ELSE IF status \div 16 \in {12, 13} THEN 2 ELSE 3

\* Mutated form of PacketOf: the last packet is taken to be full.
PacketOfFull(data, k, n) ==
  [type |-> Sysex7, status |-> IF n = 1 THEN 0 ELSE IF k = 1 THEN 16 ELSE IF k = n THEN 48 ELSE 32,
   data |-> SubSeq(data \o <<0, 0, 0, 0, 0, 0>>, 6 * k - 5, 6 * k)]

\* The k-th of n packets, of six bytes; its status: alone, first, last or between.
PacketOf(data, k, n) ==
  [type |-> Sysex7, status |-> IF n = 1 THEN 0 ELSE IF k = 1 THEN 16 ELSE IF k = n THEN 48 ELSE 32,
   data |-> SubSeq(data, 6 * k - 5, IF k = n THEN Len(data) ELSE 6 * k)]

NumPackets(size) == IF size <= 6 THEN 1 ELSE (size + 5) \div 6

\* The packets go to the word whose number is the index, which counts bytes.
Sysex(st, bytes) ==
  LET ends == {i \in st.at + 1..Len(bytes) : bytes[i] = 247}
      data == SubSeq(bytes, st.at + 2, Min(ends) - 1)
      n == NumPackets(Len(data))
  IN IF ends = {} THEN [st EXCEPT !.err = "INVALID_SYSEX"]
     ELSE [st EXCEPT !.at = AddLow(@, Len(data) + 2), !.done = @ + 8 * n,
                     !.words = Put(@, LowByte(st.done), Stream([k \in 1..n |-> PacketOf(data, k, n)]))]

Emit(st, p) ==
  [st EXCEPT !.words = Put(@, LowByte(st.done) \div 4, WordsOf(p)),
             !.done = AddLow(@, 4 * NumWords(p))]

Voice(status, x, y, d) ==
  [type |-> Midi2Voice, status |-> status - (status % 16), channel |-> status % 16,
   x |-> x, y |-> y, d |-> d]

\* Mutated form of Parameter: a selection of an NRPN stays.
ParameterKeepsNrpn(st, channel) ==
  LET c == st.context
      rpn == Valid(c.rpn)
      at == IF rpn THEN c.rpn ELSE c.nrpn
  IN Emit([st EXCEPT !.context.rpn = Unset, !.context.dte = Unset],
          Voice((IF rpn THEN 32 ELSE 48) + channel, at[1], at[2], c.dte))

\* cmidi2_internal_convert_midi1_dte_to_ump()
Parameter(st, channel) ==
  LET c == st.context
      rpn == Valid(c.rpn)
      at == IF rpn THEN c.rpn ELSE c.nrpn
  IN Emit([st EXCEPT !.context = [c EXCEPT !.rpn = Unset, !.nrpn = Unset, !.dte = Unset]],
          Voice((IF rpn THEN 32 ELSE 48) + channel, at[1], at[2], c.dte))

\* What a controller selects: a pair of the context and one of its bytes.
Selects == [n \in {101, 100, 99, 98, 6, 38, 0, 32} |->
  CASE n = 101 -> <<"rpn", 1>> [] n = 100 -> <<"rpn", 2>> [] n = 99 -> <<"nrpn", 1>>
    [] n = 98 -> <<"nrpn", 2>> [] n = 6 -> <<"dte", 1>> [] n = 38 -> <<"dte", 2>>
    [] n = 0 -> <<"bank", 1>> [] n = 32 -> <<"bank", 2>>]

Controller(st, status, n, value) ==
  LET sel == Selects[n]
      set == [st EXCEPT !.context[sel[1]][sel[2]] = value]
      c == set.context
  IN IF n \notin DOMAIN Selects THEN Emit(st, Voice(status, n, 0, <<value, 0>>))
     ELSE IF n # 38 THEN set
     ELSE IF c.dte[1] = None \/ ~(Valid(c.rpn) \/ Valid(c.nrpn))
          THEN [set EXCEPT !.err = "INVALID_DTE_SEQUENCE"]
     ELSE Parameter(set, status % 16)

\* A bank counts when one of its bytes was selected, and for one program.
Program(st, status, program) ==
  LET bank == st.context.bank
  IN Emit([st EXCEPT !.context.bank = Unset],
          Voice(status, 0, IF bank = Unset THEN 0 ELSE 1,
                <<program, bank[1] % None, bank[2] % None>>))

Voices(st, status, b2, b3) ==
  CASE status \div 16 \in {8, 9, 10} -> Emit(st, Voice(status, b2, 0, <<b3, 0>>))
    [] status \div 16 = 11 -> Controller(st, status, b2, b3)
    [] status \div 16 = 12 -> Program(st, status, b2)
    [] status \div 16 = 13 -> Emit(st, Voice(status, 0, 0, <<b2, 0>>))
    [] status \div 16 = 14 -> Emit(st, Voice(status, 0, 0, <<b3, b2>>))

Fixed(st, bytes) ==
  LET status == bytes[st.at + 1]
      size == MessageSize(status)
      Byte(k) == IF k <= size THEN bytes[st.at + k] ELSE 0
      new == IF status \in 128..239 THEN Voices(st, status, Byte(2), Byte(3))
             ELSE IF status < 128 \/ status \in {244, 245, 247, 249, 253}
                  THEN [st EXCEPT !.err = "INVALID_STATUS"]
             ELSE Emit(st, [type |-> System, status |-> status, x |-> Byte(2), y |-> Byte(3)])
  IN IF st.at + size > Len(bytes) THEN [st EXCEPT !.err = "INVALID_INPUT"]
     ELSE IF new.err # "OK" THEN new ELSE [new EXCEPT !.at = AddLow(@, size)]

\* cmidi2_convert_midi1_to_ump(); rounds bounds a loop whose index came round.
RECURSIVE Loop(_, _, _)
Loop(st, bytes, rounds) ==
  IF st.err # "OK" THEN st
  ELSE IF st.at >= Len(bytes)
  THEN IF AtRest(st.context) THEN st ELSE [st EXCEPT !.err = "INVALID_DTE_SEQUENCE"]
  ELSE IF rounds = 0 THEN [st EXCEPT !.err = "never returns"]
  ELSE Loop(IF bytes[st.at + 1] = 240 THEN Sysex(st, bytes) ELSE Fixed(st, bytes), bytes, rounds - 1)

\* midi1_to_midi2::convert(): the words of a call that ends well are handed over.
ToMidi2(c, bytes) ==
  LET st == Loop([at |-> 0, done |-> 0, words |-> <<>>, context |-> c, err |-> "OK"],
                 bytes, Len(bytes))
  IN [context |-> st.context,
      err |-> IF st.err = "OK" /\ st.done = 0 THEN "no_message" ELSE st.err,
      words |-> IF st.err # "OK" THEN <<>>
                ELSE [k \in 1..st.done \div 4 |-> IF k <= Len(st.words) THEN st.words[k] ELSE Stale]]

-----------------------------------------------------------------------------
(* MIDI 2 to MIDI 1.                                                        *)

\* cmidi2_convert_single_ump_to_timed_midi1(), for what is not a sysex.
FromVoice(p) ==
  LET s == p.status + p.channel
      cc == 176 + p.channel
      select == IF p.status = 32 THEN <<101, 100>> ELSE <<99, 98>>
  IN CASE p.status \in {32, 48} -> <<cc, select[1], p.x, cc, select[2], p.y, cc, 6, p.d[1], cc, 38, p.d[2]>>
       [] p.status \in {128, 144, 160, 176} -> <<s, p.x, p.d[1]>>
       [] p.status = 192 -> IF p.y = 1 THEN <<cc, 0, p.d[2], cc, 32, p.d[3], s, p.d[1]>> ELSE <<s, p.d[1]>>
       [] p.status = 208 -> <<s, p.d[1]>>
       [] p.status = 224 -> <<s, p.d[2], p.d[1]>>
       [] OTHER -> <<>>

FromMidi1Voice(p) ==
  LET s == p.status + p.channel
  IN IF p.status \in {192, 208} THEN <<s, p.x>> ELSE <<s, p.x, p.y>>

FromSystem(p) ==
  SubSeq(<<p.status, p.x, p.y>>, 1,
         IF p.status = 242 THEN 3 ELSE IF p.status \in {241, 243} THEN 2 ELSE 1)

FromSysex(st, p) ==
  LET sysex == st.sysex \o p.data
  IN IF p.status \in {0, 48} THEN [bytes |-> st.bytes \o <<240>> \o sysex \o <<247>>, sysex |-> <<>>]
     ELSE [st EXCEPT !.sysex = sysex]

FromPacket(st, p) ==
  CASE p.type = System -> [st EXCEPT !.bytes = @ \o FromSystem(p)]
    [] p.type = Midi1Voice -> [st EXCEPT !.bytes = @ \o FromMidi1Voice(p)]
    [] p.type = Midi2Voice -> [st EXCEPT !.bytes = @ \o FromVoice(p)]
    [] p.type = Sysex7 -> FromSysex(st, p)
    [] OTHER -> st

\* midi2_to_midi1::convert(): a sysex must end in the call that it begins in.
ToMidi1(ps) ==
  LET st == FoldLeft(FromPacket, [bytes |-> <<>>, sysex |-> <<>>], ps)
  IN IF st.sysex # <<>> THEN [err |-> "INCOMPLETE_SYSEX7", bytes |-> <<>>]
     ELSE [err |-> IF st.bytes = <<>> THEN "no_message" ELSE "OK", bytes |-> st.bytes]

-----------------------------------------------------------------------------
(* The MIDI 2 input state machine, and the inputs of the other protocol.    *)

\* u7_to_u16(), u7_to_u32() and u16_to_u32(): the top fourteen bits.
U16(v) == (2 * v * 65535 + 127) \div 1016
U32(v) == IF v = 127 THEN 16383 ELSE (v * 16384) \div 127
Bend32(v) == (v * 65537) \div 262144
Halves(v) == <<v \div 128, v % 128>>

\* Mutated form of Upgrade: a controller is scaled like a velocity, and shifted out.
UpgradeNarrow(p) ==
  LET Value(d) == Voice(p.status + p.channel, p.x, 0, d)
  IN CASE p.status \in {128, 144} -> Value(Halves(U16(p.y)))
       [] p.status \in {160, 176} -> Value(Halves(U16(p.y) \div 2))
       [] p.status = 192 -> Voice(p.status + p.channel, 0, 0, <<p.x, 0, 0>>)
       [] p.status = 208 -> Voice(p.status + p.channel, 0, 0, Halves(U32(p.x)))
       [] p.status = 224 -> Voice(p.status + p.channel, 0, 0, Halves(Bend32(p.x + 128 * p.y)))

\* cmidi2_ump_upgrade_midi1_channel_voice_to_midi2()
Upgrade(p) ==
  LET Value(d) == Voice(p.status + p.channel, p.x, 0, d)
  IN CASE p.status \in {128, 144} -> Value(Halves(U16(p.y)))
       [] p.status \in {160, 176} -> Value(Halves(U32(p.y)))
       [] p.status = 192 -> Voice(p.status + p.channel, 0, 0, <<p.x, 0, 0>>)
       [] p.status = 208 -> Voice(p.status + p.channel, 0, 0, Halves(U32(p.x)))
       [] p.status = 224 -> Voice(p.status + p.channel, 0, 0, Halves(Bend32(p.x + 128 * p.y)))

Ignores(options, p) ==
  \/ p.type = 0 /\ "timing" \in options
  \/ p.type = System /\ p.status \in {241, 242, 248} /\ "timing" \in options
  \/ p.type = System /\ p.status = 254 /\ "sensing" \in options
  \/ p.type = Sysex7 /\ "sysex" \in options

\* midi2::input_state_machine::on_bytes_multi()
Decode(options, ws) ==
  LET kept == SelectSeq(Walk(ws), LAMBDA p : ~Ignores(options, p))
  IN [i \in DOMAIN kept |-> IF kept[i].type = Midi1Voice /\ "upgrade" \in options
                            THEN Upgrade(kept[i]) ELSE kept[i]]

\* convert_midi1_to_midi2_input_configuration(): one packet at a time.
AsMessages(ps) ==
  LET each == [i \in DOMAIN ps |-> ToMidi1(<<ps[i]>>).bytes]
  IN SelectSeq(each, LAMBDA b : b # <<>>)

\* convert_midi2_to_midi1_input_configuration(): a packet has four words.
AsPacket(ws) == SubSeq(ws, 1, IF Len(ws) < 4 THEN Len(ws) ELSE 4)

-----------------------------------------------------------------------------
Blank == [rpn |-> Unset, nrpn |-> Unset, dte |-> Unset, bank |-> Unset]
Nothing == [err |-> "OK", words |-> <<>>, fresh |-> TRUE]
Silence == [words |-> <<>>, options |-> {}]

Init ==
  /\ context = Blank
  /\ given = <<>> /\ said = Nothing /\ received = Silence /\ heard = <<>>

Idle == given = <<>> /\ received = Silence
Clear == given' = <<>> /\ said' = Nothing /\ received' = Silence /\ heard' = <<>>

\* midi2::out_api::send_message()
SendMessage(batch) ==
  LET r == ToMidi2(context, FlattenSeq(batch))
  IN /\ given' = batch /\ context' = r.context
     /\ said' = [err |-> r.err, words |-> r.words, fresh |-> context = Blank]
     /\ UNCHANGED <<received, heard>>

\* Packets come, with padding or without; an input keeps nothing of them, and
\* shares nothing with the converter of an output.
ReceiveUmp(ps, padded, options) ==
  LET ws == (IF padded THEN <<Noop>> ELSE <<>>) \o WordsOf(ps[1])
              \o (IF padded THEN <<Noop, Noop>> ELSE <<>>) \o Stream(Tail(ps))
  IN /\ received' = [words |-> ws, options |-> options]
     /\ heard' = AsMessages(Decode(options, ws))
     /\ UNCHANGED <<given, said, context>>

\* The application has seen the result.
Return == ~Idle /\ Clear /\ UNCHANGED context

Options == {"timing", "sensing", "sysex", "upgrade"}

Next ==
  \/ Idle /\ \E n \in 1..MaxBatch : \E batch \in [1..n -> Messages] : SendMessage(batch)
  \/ Idle /\ context = Blank /\ \E p, q \in Packets, padded \in BOOLEAN, options \in SUBSET Options :
       ReceiveUmp(<<p, q>>, padded, options)
  \/ Return

Spec == Init /\ [][Next]_vars

-----------------------------------------------------------------------------
(* Properties.                                                              *)

IsSysex(m) == m[1] = 240
Selection(m) == m[1] \div 16 = 11 /\ m[2] \in DOMAIN Selects
Bytes == FlattenSeq(given)
Back(ws) == ToMidi1(Walk(ws)).bytes

\* Messages that need no context: what is sent converts back to what was
\* given, also where only the words of one packet are handed over and the
\* message fits it. The converter must have no selection open, a sysex must
\* be alone in its call, and neither the bytes that are read nor those that
\* are written may reach what an index counts; it fails without any of these.
RoundTrip ==
  (/\ given # <<>> /\ said.fresh
   /\ \A i \in DOMAIN given : ~Selection(given[i]) /\ (IsSysex(given[i]) => Len(given) = 1)
   /\ Len(Bytes) < IndexSize /\ 8 * Len(given) < IndexSize)
  => /\ said.err = "OK" /\ Back(said.words) = Bytes
     /\ (Len(given) = 1 /\ Len(Bytes) <= 8) => Back(AsPacket(said.words)) = Bytes

\* Whatever was selected before, also in the wrong order, the four
\* controllers that set a parameter give one packet with their value, and
\* leave the converter at rest: no history silences it for good.
Recovers ==
  LET set == <<176, 101, 1, 176, 100, 2, 176, 6, 3, 176, 38, 4>>
      r == ToMidi2(context, set)
  IN /\ r.err = "OK" /\ AtRest(r.context)
     /\ Back(r.words) = set

\* What a MIDI 1 input ignores (MidiStream, on_main()).
IgnoredByMidi1(options, m) ==
  \/ m[1] \in {241, 248} /\ "timing" \in options
  \/ m[1] = 254 /\ "sensing" \in options
  \/ IsSysex(m) /\ "sysex" \in options

\* A message of MIDI 1 is heard through an input of MIDI 2 as through one of
\* MIDI 1: the same kinds are ignored, padding has no effect, and scaling the
\* values up and down again gives the values back. It fails for a song
\* position, which one input ignores with the timing and the other does not,
\* for a pitch bend that is upgraded, and for a sysex of several packets.
InputsAgree ==
  LET ps == Walk(received.words)
      sent == AsMessages(ps)
      Differs(p) == \/ p.type = System /\ p.status = 242
                    \/ p.type = Midi1Voice /\ p.status = 224 /\ "upgrade" \in received.options
                    \/ p.type = Sysex7 /\ p.status # 0
  IN (\A i \in DOMAIN ps : ~Differs(ps[i]))
     => heard = SelectSeq(sent, LAMBDA m : ~IgnoredByMidi1(received.options, m))
=============================================================================
