---------------------------- MODULE ShowProtocols -----------------------------
(***************************************************************************)
(* Machine control, show control and visual control (mmc, msc and mvc_       *)
(* processor) on one cable: what one station sends goes to all of them, and  *)
(* each takes what is meant for it. The processors keep no state, so that    *)
(* one message at a time shows all they do.                                  *)
(*                                                                          *)
(* A command is its number: that the names of the enumerations and those of  *)
(* the reported types are the same is left out. Text is the codes of its     *)
(* characters. Stations of other makes send as the recommendations allow.    *)
(***************************************************************************)
EXTENDS Integers, SequencesExt

CONSTANTS
  Stations,  \* the processors: a name to [protocol, device_id, format]
  Calls,     \* what an application asks a processor to send
  Others     \* what other makes send: [bytes, protocol, means]

VARIABLES sender, call, told
showvars == <<sender, call, told>>

AllCall == 127
Locate == 68
TimedGo == 4
Nobody == "nobody"
Nothing == [protocol |-> "none"]

-----------------------------------------------------------------------------
(* make_command() and its like.                                             *)

\* The list and the path go with a separator in front, if there is any.
CueBytes(cues) ==
  cues[1] \o (IF cues[2] = <<>> THEN <<>> ELSE <<0>> \o cues[2]) \o (IF cues[3] = <<>> THEN <<>> ELSE <<0>> \o cues[3])

make_mmc(s, c) ==
  <<240, 127, s.device_id, 6, c.command>> \o (IF c.command = Locate THEN <<6, 1>> \o c.time ELSE <<>>) \o <<247>>

make_msc(s, c) ==
  <<240, 127, s.device_id, 2, s.format, c.command>> \o c.time \o CueBytes(c.cues) \o <<247>>

compute_checksum(data) == (128 - (FoldLeft(LAMBDA sum, b : (sum + b) % 256, 0, data) % 128)) % 128

make_data_set(s, address, value) ==
  <<240, 126, s.device_id, 12, 1>> \o address \o <<value, compute_checksum(address \o <<value>>), 247>>

clamp_channel(c) == IF c < 1 THEN 0 ELSE IF c > 16 THEN 15 ELSE c - 1

make_mvc(s, c) ==
  LET status(type) == type + clamp_channel(c.channel)
  IN CASE c.does = "enable" -> make_data_set(s, <<16, 0, 0>>, 1)
       [] c.does = "disable" -> make_data_set(s, <<16, 0, 0>>, 0)
       [] c.does = "trigger_clip" -> <<status(144), c.x, c.y>>
       [] c.does = "stop_clip" -> <<status(128), c.x, 0>>
       [] c.does = "set_control" -> <<status(176), c.x, c.y>>
       [] c.does = "select_clip" -> <<status(192), c.x>>
       [] c.does = "set_playback_speed" -> <<status(224), c.x % 128, (c.x \div 128) % 128>>

Encode(s, c) == CASE c.protocol = "mmc" -> make_mmc(s, c) [] c.protocol = "msc" -> make_msc(s, c) [] c.protocol = "mvc" -> make_mvc(s, c)

-----------------------------------------------------------------------------
(* on_midi(): what is reported of a message, nothing or one thing.          *)

Event(protocol, what, target, data) == <<[protocol |-> protocol, what |-> what, target |-> target, data |-> data]>>

For(s, m, id, sub) == m[1] = 240 /\ m[2] = id /\ m[3] \in {s.device_id, AllCall} /\ m[4] = sub

on_midi_mmc(s, m) ==
  IF Len(m) < 6 \/ ~For(s, m, 127, 6) THEN <<>>
  ELSE IF m[5] \in 1..13 THEN Event("mmc", m[5], m[3], <<>>)
  ELSE IF m[5] = Locate /\ Len(m) >= 13 /\ m[6] = 6 /\ m[7] = 1 THEN Event("mmc", Locate, m[3], SubSeq(m, 8, 12))
  ELSE <<>>

\* Three texts with separators between them; what follows the third is skipped.
parse_cue(data) ==
  FoldLeft(LAMBDA acc, b : IF b = 0 THEN [acc EXCEPT !.field = @ + 1]
                           ELSE IF acc.field > 3 THEN acc
                           ELSE [acc EXCEPT !.cues[acc.field] = Append(@, b)],
           [field |-> 1, cues |-> <<<<>>, <<>>, <<>>>>], data).cues

on_midi_msc(s, m) ==
  LET cues(n) == parse_cue(SubSeq(m, n + 1, Len(m) - 1))
  IN IF Len(m) < 7 \/ ~For(s, m, 127, 2) THEN <<>>
     ELSE IF m[6] = TimedGo
          THEN IF Len(m) >= 12 THEN Event("msc", TimedGo, m[3], <<m[5], SubSeq(m, 7, 11), cues(11)>>) ELSE <<>>
     ELSE IF m[6] \in (1..11) \cup (16..30) THEN Event("msc", m[6], m[3], <<m[5], <<>>, cues(6)>>)
     ELSE <<>>

\* Some makes leave the checksum out.
Checked(m) == Len(m) >= 11 => compute_checksum(SubSeq(m, 6, Len(m) - 2)) = m[Len(m) - 1]

on_midi_mvc(s, m) ==
  LET channel == (m[1] % 16) + 1
      type == 16 * (m[1] \div 16)
  IN IF m[1] = 240
     THEN IF Len(m) >= 10 /\ For(s, m, 126, 12) /\ m[5] = 1 /\ Checked(m) /\ SubSeq(m, 6, 8) = <<16, 0, 0>> /\ m[9] \in {0, 1}
          THEN Event("mvc", IF m[9] = 1 THEN "enable" ELSE "disable", m[3], <<>>) ELSE <<>>
     ELSE CASE type = 144 -> Event("mvc", "clip", channel, <<m[2], m[3] > 0>>)
            [] type = 128 -> Event("mvc", "clip", channel, <<m[2], FALSE>>)
            [] type = 176 -> Event("mvc", "control", channel, <<m[2], m[3]>>)
            [] type = 192 -> Event("mvc", "program", channel, <<m[2]>>)
            [] type = 224 -> Event("mvc", "speed", channel, <<m[3] * 128 + m[2]>>)
            [] OTHER -> <<>>

on_midi(s, m) ==
  CASE s.protocol = "mmc" -> on_midi_mmc(s, m) [] s.protocol = "msc" -> on_midi_msc(s, m) [] s.protocol = "mvc" -> on_midi_mvc(s, m)

-----------------------------------------------------------------------------

Init == sender = Nobody /\ call = Nothing /\ told = [n \in DOMAIN Stations |-> <<>>]

Hear(m) == told' = [n \in DOMAIN Stations |-> on_midi(Stations[n], m)]

Send(n, c) ==
  /\ sender = Nobody /\ Stations[n].protocol = c.protocol
  /\ sender' = n /\ call' = c
  /\ Hear(Encode(Stations[n], c))

SendOther(o) ==
  /\ sender = Nobody
  /\ sender' = "other" /\ call' = o
  /\ Hear(o.bytes)

Next == (\E n \in DOMAIN Stations, c \in Calls : Send(n, c)) \/ \E o \in Others : SendOther(o)

Spec == Init /\ [][Next]_showvars

-----------------------------------------------------------------------------
(* Properties.                                                              *)

\* What a station is to report of a call, said without the bytes.
Meant(from, c) ==
  CASE c.protocol = "mmc" -> Event("mmc", c.command, from.device_id, c.time)
    [] c.protocol = "msc" -> Event("msc", c.command, from.device_id, <<from.format, c.time, c.cues>>)
    [] c.does \in {"enable", "disable"} -> Event("mvc", c.does, from.device_id, <<>>)
    [] c.does = "trigger_clip" -> Event("mvc", "clip", c.channel, <<c.x, c.y > 0>>)
    [] c.does = "stop_clip" -> Event("mvc", "clip", c.channel, <<c.x, FALSE>>)
    [] c.does = "set_control" -> Event("mvc", "control", c.channel, <<c.x, c.y>>)
    [] c.does = "select_clip" -> Event("mvc", "program", c.channel, <<c.x>>)
    [] c.does = "set_playback_speed" -> Event("mvc", "speed", c.channel, <<c.x>>)

OnChannel(c) == c.protocol = "mvc" /\ c.does \notin {"enable", "disable"}

Addressed(from, to, c) == to.protocol = c.protocol /\ (OnChannel(c) \/ from.device_id \in {to.device_id, AllCall})

\* A path without a list.
Ambiguous(c) == c.protocol = "msc" /\ c.cues[2] = <<>> /\ c.cues[3] # <<>>

Heard(n, allowed) ==
  sender \in DOMAIN Stations /\ allowed =>
    told[n] = IF Addressed(Stations[sender], Stations[n], call) THEN Meant(Stations[sender], call) ELSE <<>>

\* On a cable with all three protocols, a station reports what was sent to its
\* identifier or to all of them, as it was sent, and nothing of what is meant
\* for others; of other makes' messages, what they mean to its protocol. But
\* for the path of a cue without a list.
Understood ==
  \A n \in DOMAIN Stations :
    /\ Heard(n, ~Ambiguous(call))
    /\ sender = "other" => told[n] = IF Stations[n].protocol = call.protocol THEN call.means ELSE <<>>

\* "F0 7F <device_id> 02 <format> <command> [Q_number [00 Q_list [00 Q_path]]] F7"
\* (protocols/msc.hpp:230): each text comes back in its own field (not so: a path
\* without a list comes back as the list).
CuesKept == \A n \in DOMAIN Stations : Heard(n, TRUE)
=============================================================================
