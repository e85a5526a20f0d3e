------------------------------ MODULE MidiFile ------------------------------
(***************************************************************************)
(* Standard MIDI files: writer (writer.cpp) and reader (reader.cpp). An     *)
(* application fills the tracks of a writer and writes them; or another     *)
(* program writes the same tracks with running status, which the writer     *)
(* never uses. Then the file is cut or one of its bytes changes, and the    *)
(* reader must make the best of it.                                         *)
(***************************************************************************)
EXTENDS Naturals, Sequences

LOCAL INSTANCE SequencesExt
LOCAL INSTANCE FiniteSetsExt

CONSTANTS
  LastTrack, \* 65535: the last track of a writer, and what the header counts to
  Events,    \* events that an application adds: a tick and the bytes of a message
  MaxEvents, \* bound: events in the tracks
  Noise      \* the values that a byte of the file may take by accident

VARIABLES
  tracks,    \* writer::tracks
  written,   \* the file as it was written, <<>> before
  file,      \* the file as it is read
  fault      \* what happened to it: "none", "cut", or the position that changed

vars == <<tracks, written, file, fault>>

-----------------------------------------------------------------------------
(* The writer.                                                              *)

HighDigits[n \in Nat] ==
  IF n = 0 THEN <<>> ELSE HighDigits[n \div 128] \o <<128 + (n % 128)>>

\* util::write_variable_length()
WriteVariableLength(n) == HighDigits[n \div 128] \o <<n % 128>>

Kept(e) == e.m # <<>> /\ ~(e.m[1] = 255 /\ e.m[2] = 47)
Escaped(m) == m[1] \in {240, 247}

\* A message as bytes of a track; the status of a channel message may be left out.
Encode(m, running) ==
  IF Escaped(m) THEN <<m[1]>> \o WriteVariableLength(Len(m) - 1) \o Tail(m)
  ELSE IF m[1] = running THEN Tail(m) ELSE m

\* Another program leaves the status out where the last event had the same.
TrackData(track, squeezed) ==
  LET kept == SelectSeq(track, Kept)
      Running(i) == IF squeezed /\ i > 1 /\ kept[i - 1].m[1] < 240 THEN kept[i - 1].m[1] ELSE 0
  IN FlattenSeq([i \in DOMAIN kept |->
       WriteVariableLength(kept[i].tick) \o Encode(kept[i].m, Running(i))])

LooksEnded(data) ==
  Len(data) >= 3 /\ SubSeq(data, Len(data) - 2, Len(data) - 1) = <<255, 47>>

MThd == <<77, 84, 104, 100>>
MTrk == <<77, 84, 114, 107>>
Uint16(n) == <<n \div 256, n % 256>>
Uint32(n) == <<0, 0>> \o Uint16(n)

Chunk(track, squeezed) ==
  LET data == TrackData(track, squeezed)
      all == data \o (IF LooksEnded(data) THEN <<>> ELSE <<0, 255, 47, 0>>)
  IN MTrk \o Uint32(Len(all)) \o all

\* writer::write(); the count of the tracks has 16 bits.
Written(squeezed) ==
  MThd \o Uint32(6) \o Uint16(IF Len(tracks) = 1 THEN 0 ELSE 1)
       \o Uint16(Len(tracks) % (LastTrack + 1)) \o Uint16(120)
       \o FlattenSeq([i \in DOMAIN tracks |-> Chunk(tracks[i], squeezed)])

-----------------------------------------------------------------------------
(* The reader. A position of 0 says that the bytes ended or were wrong; the *)
(* bytes that may be read are those of s.                                   *)

Thrown == [at |-> 0, m |-> <<>>]

\* read_checked::read_variable_length()
ReadVariableLength(s, i) ==
  LET ends == {k \in i..Len(s) : s[k] < 128}
      value[k \in Nat] == IF k < i THEN 0 ELSE 128 * value[k - 1] + (s[k] % 128)
  IN IF ends = {} THEN [at |-> 0, value |-> 0] ELSE [at |-> Min(ends) + 1, value |-> value[Min(ends)]]

ReadBytes(s, i, n, before) ==
  IF i = 0 \/ i + n > Len(s) + 1 THEN Thrown
  ELSE [at |-> i + n, m |-> before \o SubSeq(s, i, i + n - 1)]

LengthAllowed(subtype, n) ==
  CASE subtype = 0 -> n \in {0, 2} [] subtype = 47 -> n = 0 [] subtype = 81 -> n = 3
    [] subtype = 84 -> n = 5 [] subtype = 88 -> n = 4 [] subtype = 89 -> n = 2
    [] subtype \in {32, 33} -> n = 1 [] OTHER -> TRUE

ValuesAllowed(m) ==
  CASE m[2] = 84 -> /\ m[4] % 32 < 24 /\ m[5] < 60 /\ m[6] < 60 /\ m[8] < 100
                    /\ m[7] < (<<24, 25, 29, 30>>)[((m[4] \div 32) % 4) + 1]
    [] m[2] = 89 -> m[4] \in 0..7 \cup 249..255 /\ m[5] <= 1
    [] OTHER -> TRUE

\* parse_event(), a meta event whose subtype is at i
ParseMeta(s, i) ==
  LET length == ReadVariableLength(s, i + 1)
      read == ReadBytes(s, length.at, length.value, SubSeq(s, i - 1, length.at - 1))
  IN IF i > Len(s) \/ length.at = 0 \/ ~LengthAllowed(s[i], length.value) THEN Thrown
     ELSE IF read.at = 0 \/ ~ValuesAllowed(read.m) THEN Thrown ELSE read

ParseSysex(s, i) ==
  LET length == ReadVariableLength(s, i + 1)
  IN ReadBytes(s, length.at, length.value, IF s[i] = 240 THEN <<240>> ELSE <<>>)

\* A channel message at i; running is the status of the last event, 0 at first.
ParseChannel(s, i, running) ==
  LET status == IF s[i] < 128 THEN running ELSE s[i]
      size == IF status \div 16 \in {12, 13} THEN 1 ELSE 2
      read == ReadBytes(s, IF s[i] < 128 THEN i ELSE i + 1, size, <<status>>)
  IN IF status \notin 128..239 \/ \E k \in 2..Len(read.m) : read.m[k] >= 128 THEN Thrown ELSE read

ParseEvent(s, i, running) ==
  IF i > Len(s) THEN Thrown
  ELSE IF s[i] = 255 THEN ParseMeta(s, i + 1)
  ELSE IF Escaped(<<s[i]>>) THEN ParseSysex(s, i)
  ELSE IF s[i] > 240 THEN Thrown ELSE ParseChannel(s, i, running)

\* Anything but a meta event sets the running status, the payload of an escape too.
NextRunning(m, running) == IF m[1] = 255 THEN running ELSE m[1]

\* The rest of a track is dropped with an event that cannot be read, or is
\* empty; where a tick is cut, the exception leaves parse() itself.
RECURSIVE ParseTrack(_, _, _, _)
ParseTrack(s, i, running, events) ==
  LET tick == ReadVariableLength(s, i)
      read == ParseEvent(s, tick.at, running)
  IN IF i > Len(s) THEN [events |-> events, end |-> "validated"]
     ELSE IF tick.at = 0 THEN [events |-> <<>>, end |-> "invalid"]
     ELSE IF read.m = <<>> THEN [events |-> events, end |-> "incomplete"]
     ELSE ParseTrack(s, read.at, NextRunning(read.m, running),
                     Append(events, [tick |-> tick.value, m |-> read.m]))

Eot == <<255, 47, 0>>

\* validator::validate_track()
Validated(events) ==
  /\ events # <<>> /\ Last(events).m = Eot
  /\ \A i \in 1..Len(events) - 1 : events[i].m # Eot

\* More than 16 bits are more than any file here has.
ReadUint32(s, i) == IF s[i] + s[i + 1] > 0 THEN 65536 ELSE 256 * s[i + 2] + s[i + 3]

\* Mutated form of Within: a track is only bounded by the file.
WithinFile(f, last) == f

Within(f, last) == SubSeq(f, 1, last)

RECURSIVE ParseTracks(_, _, _, _)
ParseTracks(f, i, count, found) ==
  LET last == i + 7 + ReadUint32(f, i + 4)
      track == ParseTrack(Within(f, last), i + 8, 0, <<>>)
      end == IF track.end # "validated" THEN track.end
             ELSE IF found.end = "validated" /\ ~Validated(track.events) THEN "complete"
             ELSE found.end
  IN IF count = 0
     THEN IF found.end = "validated" /\ i <= Len(f) THEN [found EXCEPT !.end = "complete"] ELSE found
     ELSE IF i + 7 > Len(f) THEN [found EXCEPT !.end = "invalid"]
     ELSE IF SubSeq(f, i, i + 3) # MTrk \/ last > Len(f) THEN [found EXCEPT !.end = "incomplete"]
     ELSE IF track.end = "invalid" THEN [found EXCEPT !.end = "invalid"]
     ELSE ParseTracks(f, last + 1, count - 1,
                      [tracks |-> Append(found.tracks, track.events), end |-> end])

HeaderAllowed(f) ==
  /\ Len(f) >= 14 /\ SubSeq(f, 1, 8) = MThd \o Uint32(6)
  /\ f[9] = 0 /\ f[10] <= 2 /\ f[13] < 128

\* reader::parse(), with the ticks as they are in the file
Parse(f) ==
  IF HeaderAllowed(f)
  THEN ParseTracks(f, 15, 256 * f[11] + f[12], [tracks |-> <<>>, end |-> "validated"])
  ELSE [tracks |-> <<>>, end |-> "invalid"]

-----------------------------------------------------------------------------
Init == tracks = <<>> /\ written = <<>> /\ file = <<>> /\ fault = "none"

NumEvents == FoldLeft(LAMBDA sum, t : sum + Len(t), 0, tracks)

\* util::add_event_track_count_check()
WithTrack(n) == tracks \o [i \in 1..(IF n < Len(tracks) THEN 0 ELSE n + 1 - Len(tracks)) |-> <<>>]

AddEvent(n, e) ==
  /\ written = <<>> /\ NumEvents < MaxEvents
  /\ tracks' = [WithTrack(n) EXCEPT ![n + 1] = Append(@, e)]
  /\ UNCHANGED <<written, file, fault>>

\* writer::add_track() asks for the track after the next one.
AddTrack ==
  /\ written = <<>> /\ Len(tracks) + 1 <= LastTrack
  /\ tracks' = WithTrack(Len(tracks) + 1)
  /\ UNCHANGED <<written, file, fault>>

Write(squeezed) ==
  /\ written = <<>>
  /\ written' = Written(squeezed) /\ file' = written'
  /\ UNCHANGED <<tracks, fault>>

\* The chunks of a file that was written: where their data begin and end.
RECURSIVE Chunks(_, _)
Chunks(f, i) ==
  IF i > Len(f) THEN <<>>
  ELSE LET last == i + 7 + ReadUint32(f, i + 4) IN <<(i + 8)..last>> \o Chunks(f, last + 1)

Damage(i, b) ==
  /\ fault = "none" /\ b # file[i]
  /\ file' = [file EXCEPT ![i] = b] /\ fault' = "changed"
  /\ UNCHANGED <<tracks, written>>

Cut(n) ==
  /\ fault = "none"
  /\ file' = SubSeq(file, 1, n) /\ fault' = "cut"
  /\ UNCHANGED <<tracks, written>>

Next ==
  \/ \E n \in 0..LastTrack, e \in Events : AddEvent(n, e)
  \/ AddTrack
  \/ \E squeezed \in BOOLEAN : Write(squeezed)
  \/ \E i \in UNION ToSet(Chunks(written, 15)), b \in Noise : Damage(i, b)
  \/ \E n \in 1..Len(written) - 1 : Cut(n)

Spec == Init /\ [][Next]_vars

-----------------------------------------------------------------------------
(* Properties.                                                              *)

\* What the reader should find of a track.
Promised(track) == Append(SelectSeq(track, Kept), [tick |-> 0, m |-> Eot])

\* No escape, of which the reader drops the status, and no text at the end of
\* a track that ends as an end of track does (writer.cpp:190).
Plain(track) == LET kept == SelectSeq(track, Kept)
                IN /\ \A i \in DOMAIN kept : kept[i].m[1] # 247
                   /\ ~LooksEnded(TrackData(track, FALSE))

\* The reader gives back the tracks of the writer, each with its end, and
\* finds them valid, and does so for the running status of another program;
\* it fails for one track more than the header can count.
RoundTrip ==
  (/\ written # <<>> /\ fault = "none" /\ Len(tracks) <= LastTrack
   /\ \A i \in DOMAIN tracks : Plain(tracks[i]))
  => LET read == Parse(file)
     IN /\ read.end = "validated"
        /\ read.tracks = [i \in DOMAIN tracks |-> Promised(tracks[i])]

\* A byte that changes in a track has no effect on the tracks before it, and
\* none on those after it unless the reader gives up there. A file that was
\* cut is never taken for a whole one, and the tracks that it still has are
\* those that were written.
DamageContained ==
  LET was == Parse(written).tracks
      read == Parse(file)
      chunks == Chunks(written, 15)
      Hit(k) == \E i \in chunks[k] : file[i] # written[i]
  IN /\ fault = "cut" /\ Len(tracks) <= LastTrack =>
          read.end \in {"invalid", "incomplete"} /\ IsPrefix(read.tracks, was)
     /\ fault = "changed" => \A k \in DOMAIN was : Hit(k) =>
          /\ Len(read.tracks) = Len(was) \/ (read.end = "invalid" /\ Len(read.tracks) = k - 1)
          /\ \A j \in DOMAIN read.tracks : j # k => read.tracks[j] = was[j]
=============================================================================
