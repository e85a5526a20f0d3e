---------------------------- MODULE PacketStreams ----------------------------
(* Buffers of packets (cmidi2.hpp): the forge that packets are added to, the  *)
(* walk over them, the system exclusives of eight bits that several streams  *)
(* put between each other and a reader sorts out, and the merger of two      *)
(* sequences with their timestamps. A packet is its words, a word the tuple  *)
(* of its bytes; the bytes of a system exclusive are of its stream only.     *)
EXTENDS Integers, SequencesExt, FiniteSetsExt

CONSTANTS
  Payloads,     \* [stream -> its bytes]
  Fillers,      \* other packets of the application
  Singles,      \* ... that it adds without their size
  Messages7,    \* system exclusives of seven bits, from F0 to F7 or without F0
  Writings,     \* texts
  DataSets,     \* the bytes of mixed data sets
  ChunkSize,    \* payloads of a chunk (65535)
  Room,         \* words of the forge
  MaxOthers,    \* bound: packets added that are of no stream before the last such call
  StreamRoom,   \* bytes of the buffer of a stream
  Listened,     \* the streams that the selector knows
  Firsts,       \* what is merged
  Seconds,      \* ... with one of these
  MergeRoom,    \* bytes of the destination
  Stray         \* what memory after a sequence may hold: a timestamp, or not (0)

VARIABLES
  forge,        \* words
  added,        \* the packets, as the application gave them
  spoken,       \* the messages that were sent whole, [type, bytes]
  progress,     \* [stream -> packets of it that were added]
  at,           \* words that were read
  buffers,      \* [stream -> bytes read, not taken yet]
  taken,        \* [stream -> bytes that the application took]
  merged        \* the last merge: both sequences and the result

reading == <<at, buffers, taken>>
vars == <<forge, added, spoken, progress, reading, merged>>

TypeOf(word) == word[1] \div 16
\* cmidi2_ump_get_num_bytes(): how the walk goes on.
Words(word) ==
  CASE TypeOf(word) \in {0, 1, 2} -> 1
    [] TypeOf(word) \in {3, 4} -> 2
    [] TypeOf(word) \in {5, 13, 15} -> 4
\* cmidi2_ump_get_message_size_bytes(): not the newer types.
KnownWords(word) == IF TypeOf(word) \in {13, 15} THEN 0 ELSE Words(word)

-----------------------------------------------------------------------------
(* The packets of a long message, each with radix bytes of it. *)

\* Mutated form of NumPackets: what is left over gets no packet.
NumPacketsFull(n, radix) == IF n <= radix THEN 1 ELSE n \div radix

NumPackets(n, radix) == IF n <= radix THEN 1 ELSE n \div radix + (IF n % radix # 0 THEN 1 ELSE 0)
\* The part of packet index: its status and the bytes.
Part(data, index, radix) ==
  LET n == Len(data)
      last == index = NumPackets(n, radix) - 1
      size == IF last /\ n % radix # 0 THEN n % radix ELSE IF n = 0 THEN 0 ELSE radix
  IN [status |-> CASE n <= radix -> 0 [] n > radix /\ index = 0 -> 1 [] index > 0 /\ last -> 3 [] OTHER -> 2,
      bytes |-> SubSeq(data, index * radix + 1, index * radix + size)]
InWords(bytes, words) ==
  [w \in 1..words |-> [i \in 1..4 |-> IF 4 * (w - 1) + i <= Len(bytes) THEN bytes[4 * (w - 1) + i] ELSE 0]]
\* cmidi2_ump_sysex7_get_sysex_length(), and the offset of the packets: what is
\* between F0, which may be left out, and F7.
Inside(m) ==
  LET end == Min({i \in DOMAIN m : m[i] = 247}) IN SubSeq(m, IF m[1] = 240 THEN 2 ELSE 1, end - 1)
Sysex7Packet(data, index) ==
  LET part == Part(data, index, 6) IN InWords(<<48, 16 * part.status + Len(part.bytes)>> \o part.bytes, 2)
Sysex8Packet(stream, data, index) ==
  LET part == Part(data, index, 13) IN InWords(<<80, 16 * part.status + Len(part.bytes) + 1, stream>> \o part.bytes, 4)

\* cmidi2_ump_flex_data_get_packet_of(): each packet begins at the first byte.
FlexPacket(data, index) ==
  LET part == Part(data, index, 12)
  IN InWords(<<208, 64 * part.status, 1, 1>> \o SubSeq(data, 1, Len(part.bytes)), 4)

\* cmidi2_ump_mds_get_payload_of(): told the size of the chunk, it copies
\* fourteen bytes also where fewer are left.
Payload(data, offset, size) ==
  LET n == IF size < 14 THEN size ELSE 14
  IN InWords(<<80, 144>> \o [i \in 1..n |-> IF offset + i <= Len(data) THEN data[offset + i] ELSE 0], 4)
\* cmidi2_ump_mds_process(): chunks are counted by one radix and cut by another.
MdsPackets(data) ==
  LET n == Len(data)
      radix == 14 * (ChunkSize + 1)
      chunks == n \div radix + (IF n % radix # 0 THEN 1 ELSE 0)
      Chunk(c) == LET size == IF c + 1 = chunks THEN n % (14 * ChunkSize) ELSE 14 * ChunkSize
                  IN [p \in 1..((size + 13) \div 14) |-> Payload(data, 14 * ((ChunkSize + 1) * c + p - 1), size)]
  IN FlattenSeq([c \in 1..chunks |-> Chunk(c - 1)])

-----------------------------------------------------------------------------
(* The forge, and the walk of CMIDI2_UMP_SEQUENCE_FOREACH(). *)

Fits(words) == Len(forge) + words <= Room
Bounded == Len(added) - MapThenSumSet(LAMBDA s : progress[s], DOMAIN progress) < MaxOthers
Add(packet) ==
  /\ Fits(Len(packet))
  /\ forge' = forge \o packet
  /\ added' = Append(added, packet)

\* cmidi2_ump_forge_add_packet_32(), _64(), _128(): the caller says the size.
AddFiller(packet) ==
  /\ Bounded
  /\ Add(packet)
  /\ UNCHANGED <<spoken, progress, reading, merged>>

\* cmidi2_ump_sysex8_get_packet_of(): the application sends its streams in turns.
AddExclusive(s) ==
  /\ progress[s] < NumPackets(Len(Payloads[s]), 13)
  /\ Add(Sysex8Packet(s, Payloads[s], progress[s]))
  /\ progress' = [progress EXCEPT ![s] = @ + 1]
  /\ UNCHANGED <<spoken, reading, merged>>

\* cmidi2_ump_forge_add_single_packet(): the packet says its own size, which is
\* none for texts and the messages of an endpoint.
AddSingle(packet) ==
  LET size == KnownWords(packet[1])
  IN /\ Bounded
     /\ Fits(size)
     /\ forge' = forge \o SubSeq(packet, 1, size)
     /\ added' = Append(added, packet)
     /\ UNCHANGED <<spoken, progress, reading, merged>>

\* The process() functions: packet after packet to a handler, until it fails.
Process(type, bytes, packets) ==
  LET fitting == {n \in 0..Len(packets) : Fits(Len(FlattenSeq(SubSeq(packets, 1, n))))}
      sent == SubSeq(packets, 1, Max(fitting))
  IN /\ Bounded
     /\ forge' = forge \o FlattenSeq(sent)
     /\ added' = added \o sent
     /\ spoken' = IF sent = packets THEN Append(spoken, [type |-> type, bytes |-> bytes]) ELSE spoken
     /\ UNCHANGED <<progress, reading, merged>>
Count(n, radix) == n \div radix + (IF n % radix # 0 THEN 1 ELSE 0)
SendSysex7(m) ==
  LET data == Inside(m) IN Process(3, data, [i \in 1..NumPackets(Len(data), 6) |-> Sysex7Packet(data, i - 1)])
SendText(text) == Process(13, text, [i \in 1..Count(Len(text), 12) |-> FlexPacket(text, i - 1)])
SendDataSet(data) == Process(5, data, MdsPackets(data))

RECURSIVE Walk(_)
Walk(words) ==
  IF words = <<>> THEN <<>>
  ELSE LET n == Words(words[1]) IN <<SubSeq(words, 1, n)>> \o Walk(SubSeq(words, n + 1, Len(words)))

-----------------------------------------------------------------------------
(* cmidi2_ump_get_sysex8_data(), over a forge in the byte order of the host. *)

\* cmidi2_internal_sysex8_copy_data_byte_swapping(): whole words, then single
\* bytes of words further on, each its lowest.
Unknown == -1
CopyData(position, size) ==
  LET whole == 4 * ((size - 1) \div 4)
      Lowest(w) == IF w <= Len(forge) THEN forge[w][4] ELSE Unknown
      Copied(i) == CASE i = 0 -> forge[position][4]
                     [] i > 0 /\ i <= whole -> forge[position + 1 + (i - 1) \div 4][((i - 1) % 4) + 1]
                     [] OTHER -> Lowest(position + 1 + whole \div 4 + whole + 3)
  IN [i \in 1..size |-> Copied(i - 1)]

\* A call: what it stores, and where it stops. It goes on after a stream that is
\* complete unless it is told to continue on completion, and for ever at a
\* packet of the newer types.
RECURSIVE ReadFrom(_, _, _)
ReadFrom(position, stored, continueOnCompletion) ==
  IF position > Len(forge) \/ KnownWords(forge[position]) = 0 THEN [at |-> position - 1, buffers |-> stored]
  ELSE
    LET word == forge[position]
        next == position + KnownWords(word)
        stream == word[3]
        size == (word[2] % 16) - 1
        kept == [stored EXCEPT ![stream] = @ \o CopyData(position, size)]
    IN CASE TypeOf(word) # 5 \/ word[2] \div 16 > 3 \/ stream \notin Listened -> ReadFrom(next, stored, continueOnCompletion)
         [] TypeOf(word) = 5 /\ word[2] \div 16 <= 3 /\ stream \in Listened ->
              IF Len(stored[stream]) + size >= StreamRoom THEN [at |-> position - 1, buffers |-> stored]
              ELSE IF word[2] \div 16 \in {0, 3} /\ continueOnCompletion THEN [at |-> next - 1, buffers |-> kept]
              ELSE ReadFrom(next, kept, continueOnCompletion)

ReadData(continueOnCompletion) ==
  LET result == ReadFrom(at + 1, buffers, continueOnCompletion)
  IN /\ result.at # at \/ result.buffers # buffers
     /\ at' = result.at
     /\ buffers' = result.buffers
     /\ UNCHANGED <<forge, added, spoken, progress, taken, merged>>

\* The application takes what is there and resets the state of the stream, when
\* a call has no room for more.
TakeData(s) ==
  /\ buffers[s] # <<>>
  /\ at < Len(forge) /\ ReadFrom(at + 1, buffers, FALSE).at = at
  /\ taken' = [taken EXCEPT ![s] = @ \o buffers[s]]
  /\ buffers' = [buffers EXCEPT ![s] = <<>>]
  /\ UNCHANGED <<forge, added, spoken, progress, at, merged>>

-----------------------------------------------------------------------------
(* cmidi2_ump_merge_sequences(): an item is a timestamp or an event. *)

Stamp(t) == [time |-> t, event |-> "none", size |-> 4]
IsStamp(item) == item.event = "none"
SizeOf(items) == FoldSeq(LAMBDA x, y : x.size + y, 0, items)

\* cmidi2_internal_ump_merge_sequence_write_delta_time(); each timestamp of a
\* long wait says the whole of it.
Stamps(delta) ==
  [i \in 1..(IF delta > 0 THEN (delta + 65535) \div 65536 ELSE 0) |-> Stamp(IF delta > 65535 THEN 65535 ELSE delta)]
Earlier(t1, t2) == IF t1 <= t2 THEN t1 ELSE t2

\* The timestamps at the head of a sequence are added up. After the last item
\* the memory that follows is looked at, and may look like one.
RECURSIVE SumStamps(_, _)
SumStamps(items, time) ==
  IF items # <<>> /\ IsStamp(Head(items)) THEN
    LET rest == Tail(items) later == time + Head(items).time
    IN IF rest = <<>> THEN [items |-> rest, time |-> later] ELSE SumStamps(rest, later)
  ELSE [items |-> items, time |-> time]
LookAhead(items, time, stray) ==
  IF items = <<>> THEN [items |-> items, time |-> time + stray] ELSE SumStamps(items, time)

Ending(one, two, last, out) ==
  LET delta == Earlier(one.time, two.time) - last
      stamped == out \o Stamps(delta)
      With(items, dst) == IF items # <<>> /\ SizeOf(dst) + SizeOf(items) < MergeRoom THEN dst \o items ELSE dst
  IN IF SizeOf(stamped) > MergeRoom THEN out ELSE With(two.items, With(one.items, stamped))

RECURSIVE Merging(_, _, _, _, _)
Merging(first, second, last, out, stray) ==
  LET one == LookAhead(first.items, first.time, stray)
      two == LookAhead(second.items, second.time, stray)
      now == Earlier(one.time, two.time)
      stamped == out \o Stamps(now - last)
      Rest(s) == [s EXCEPT !.items = Tail(@)]
  IN CASE one.items = <<>> \/ two.items = <<>> -> Ending(one, two, last, out)
       [] one.items # <<>> /\ two.items # <<>> ->
            IF SizeOf(stamped) > MergeRoom THEN Ending(one, two, last, out)
            ELSE IF one.time <= two.time THEN Merging(Rest(one), two, now, Append(stamped, one.items[1]), stray)
            ELSE Merging(one, Rest(two), now, Append(stamped, two.items[1]), stray)

Merge(one, two, stray) ==
  /\ forge = <<>>
  /\ merged.out = <<>>
  /\ LET From(items) == [items |-> items, time |-> 0]
     IN merged' = [one |-> one, two |-> two, out |-> Merging(From(one), From(two), 0, <<>>, stray)]
  /\ UNCHANGED <<forge, added, spoken, progress, reading>>

-----------------------------------------------------------------------------
Init ==
  /\ forge = <<>>
  /\ added = <<>>
  /\ spoken = <<>>
  /\ progress = [s \in DOMAIN Payloads |-> 0]
  /\ at = 0
  /\ buffers = [s \in Listened |-> <<>>]
  /\ taken = [s \in Listened |-> <<>>]
  /\ merged = [one |-> <<>>, two |-> <<>>, out |-> <<>>]

Next ==
  \/ \E p \in Fillers : AddFiller(p)
  \/ \E p \in Singles : AddSingle(p)
  \/ \E m \in Messages7 : SendSysex7(m)
  \/ \E t \in Writings : SendText(t)
  \/ \E d \in DataSets : SendDataSet(d)
  \/ \E s \in DOMAIN Payloads : AddExclusive(s)
  \/ \E b \in BOOLEAN : ReadData(b)
  \/ \E s \in Listened : TakeData(s)
  \/ \E one \in Firsts, two \in Seconds, stray \in Stray : Merge(one, two, stray)
Spec == Init /\ [][Next]_vars

-----------------------------------------------------------------------------
\* Whoever walks over the forge sees the packets that were added, each whole
\* (cmidi2_ump_sequence_next(), cmidi2_ump_forge_add_packet_32() and the others).
WalkSees == Walk(forge) = added

\* However the packets of the streams are put between each other and between
\* others, and wherever a call stops, the reader has the bytes of each stream
\* that came so far, in their order, and no others (cmidi2_ump_get_sysex8_data()).
StreamsApart ==
  LET Packet8(p, s) == TypeOf(p[1]) = 5 /\ p[1][2] \div 16 <= 3 /\ p[1][3] = s
      Read(s) == Len(SelectSeq(Walk(SubSeq(forge, 1, at)), LAMBDA p : Packet8(p, s)))
      Bytes(s) == FlattenSeq([i \in 1..Read(s) |-> Part(Payloads[s], i - 1, 13).bytes])
  IN \A s \in Listened : taken[s] \o buffers[s] = Bytes(s)

\* What a message of several packets says is put together again from the forge:
\* of each kind, the messages that were sent whole, in their order
\* (cmidi2_ump_sysex7_process(), cmidi2_ump_flex_data_process(),
\* cmidi2_ump_mds_process()).
OfKind(type) == SelectSeq(spoken, LAMBDA m : m.type = type)
Contents(p) ==
  LET bytes == FlattenSeq(p)
  IN CASE TypeOf(p[1]) = 3 -> SubSeq(bytes, 3, 2 + (p[1][2] % 16))
       [] TypeOf(p[1]) = 13 -> SubSeq(bytes, 5, 16)
       [] TypeOf(p[1]) = 5 -> SubSeq(bytes, 3, 16)
Status(p) == IF TypeOf(p[1]) = 13 THEN p[1][2] \div 64 ELSE p[1][2] \div 16
Put(state, p) ==
  LET text == (IF Status(p) \in {0, 1} THEN <<>> ELSE state.open) \o Contents(p)
  IN IF Status(p) \in {0, 3} THEN [open |-> <<>>, whole |-> Append(state.whole, text)]
     ELSE [state EXCEPT !.open = text]
Whole(type) ==
  FoldLeft(Put, [open |-> <<>>, whole |-> <<>>], SelectSeq(Walk(forge), LAMBDA p : TypeOf(p[1]) = type)).whole
Padded(bytes) == bytes \o [i \in 1..((12 - (Len(bytes) % 12)) % 12) |-> 0]
MessagesWhole ==
  /\ Whole(3) = [i \in DOMAIN OfKind(3) |-> OfKind(3)[i].bytes]
  /\ Whole(13) = [i \in DOMAIN OfKind(13) |-> Padded(OfKind(13)[i].bytes)]
  /\ \A i \in DOMAIN OfKind(5) :
       LET data == OfKind(5)[i].bytes
           payloads == SelectSeq(Walk(forge), LAMBDA p : TypeOf(p[1]) = 5 /\ Status(p) = 9)
       IN IsPrefix(data, FlattenSeq([k \in DOMAIN payloads |-> Contents(payloads[k])])) \/ Len(OfKind(5)) > 1

\* A merge keeps the order of each sequence and every event of it, delays none,
\* and is exact until one of them ends (cmidi2_ump_merge_sequences()).
Timed(items) ==
  LET Elapsed(i) == MapThenSumSet(LAMBDA k : IF IsStamp(items[k]) THEN items[k].time ELSE 0, 1..i)
      Dated == [i \in DOMAIN items |-> [event |-> items[i].event, at |-> Elapsed(i)]]
  IN SelectSeq(Dated, LAMBDA x : x.event # "none")
Names(items) == [i \in DOMAIN Timed(items) |-> Timed(items)[i].event]
EndOf(items) == IF Timed(items) = <<>> THEN 0 ELSE Last(Timed(items)).at
MergeKeeps ==
  LET Sent(items) == ToSet(Timed(items))
      Heard(items) == SelectSeq(Timed(merged.out), LAMBDA x : x.event \in ToSet(Names(items)))
      Right(items) ==
        /\ [i \in DOMAIN Heard(items) |-> Heard(items)[i].event] = Names(items)
        /\ \A i \in DOMAIN Heard(items) :
             LET meant == Timed(items)[i].at
             IN /\ Heard(items)[i].at <= meant
                /\ meant <= Earlier(EndOf(merged.one), EndOf(merged.two)) => Heard(items)[i].at = meant
  IN merged.out # <<>> => Right(merged.one) /\ Right(merged.two)
=============================================================================
