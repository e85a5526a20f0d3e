---------------------------- MODULE RemoteControl -----------------------------
(***************************************************************************)
(* remote_control_processor: the handshake with a control surface, its       *)
(* display, time code and faders, and what its user does with it.            *)
(*                                                                          *)
(* External: the surface, which asks for an answer to a challenge when it is *)
(* switched on and when it is queried, takes sysex for its own type only,    *)
(* and forgets everything when it is unplugged; the cable keeps the order.   *)
(* What response_to_challenge() computes is not modelled, only for what.     *)
(* A character is its code; the display has two rows of 55 characters.       *)
(***************************************************************************)
EXTENDS Integers, SequencesExt

CONSTANTS
  Columns,        \* characters of a row, 55 in the code
  Texts, Positions,
  Times,          \* what update_timecode() may be given, <<h, m, s, f>>
  Levels,         \* ... and fader()
  Type,           \* type of the surface that is there
  MaxChallenges,  \* bound: the surface is switched on when it had fewer
  MaxCalls        \* bound: calls of the application and moves of its user

VARIABLES
  current_state, type,
  to_device, from_device,
  device,
  challenges, calls,
  meant,          \* history: what the surface is to show
  reports         \* history: what the user did last, and what was reported

hostvars == <<current_state, type>>
wires == <<to_device, from_device>>
rcpvars == <<hostvars, wires, device, challenges, calls, meant, reports>>

\* The end of each row takes a cell.
Cells == 0..(2 * Columns + 1)
RowEnds == {Columns, 2 * Columns + 1}
Blank == [lcd |-> [i \in Cells |-> 0], digits |-> [i \in 0..9 |-> 0], faders |-> [i \in 0..8 |-> 0], lit |-> {}]
Off == [at |-> "off", challenge |-> 0, view |-> Blank]

Init ==
  /\ current_state = "waiting_for_query" /\ type = "mackie_control"
  /\ to_device = <<>> /\ from_device = <<>>
  /\ device = Off /\ meant = Blank
  /\ challenges = 0 /\ calls = 0
  /\ reports = [did |-> <<>>, reported |-> <<>>]

-----------------------------------------------------------------------------
(* Messages.                                                                *)

Sysex(command, data) == [kind |-> "sysex", type |-> type, command |-> command, data |-> data]
note_on(c, v) == [kind |-> "note_on", channel |-> 0, data |-> <<c, v>>]
note_off(c, v) == [kind |-> "note_off", channel |-> 0, data |-> <<c, v>>]
control_change(c, v) == [kind |-> "control_change", channel |-> 0, data |-> <<c, v>>]

clamp_channel(c) == IF c < 1 THEN 0 ELSE IF c > 16 THEN 15 ELSE c - 1
get_channel(m) == m.channel + 1
pitch_bend(channel, v) ==
  [kind |-> "pitch_bend", channel |-> clamp_channel(channel), data |-> <<v % 128, (v \div 128) % 128>>]

\* Letters and most signs keep their code on the display.
charmap_lcd(c) == IF c = 126 THEN 92 ELSE IF c = 14 THEN 126 ELSE IF c = 15 THEN 127 ELSE c

\* ... and digits on the time code.
charmap_7segment(digit) == 48 + digit

\* std::to_string() with zeros in front, and its first n characters.
Decimal(v, n) ==
  LET length == CHOOSE k \in n..(n + 4) : v < 10 ^ k /\ \A j \in n..(k - 1) : v >= 10 ^ j
  IN [i \in 1..n |-> (v \div 10 ^ (length - i)) % 10]

timecode(t) ==
  LET digits == Decimal(t[1], 3) \o Decimal(t[2], 2) \o Decimal(t[3], 2) \o Decimal(t[4], 3)
  IN [i \in 1..10 |-> control_change(74 - i, charmap_7segment(digits[i]))]

update_lcd(txt, pos) ==
  LET shown == Min({Len(txt), (2 * Columns + 2) - pos})
      cells == [i \in 1..shown |-> IF pos + i - 1 \in RowEnds THEN 10 ELSE charmap_lcd(txt[i])]
  IN IF pos \in Cells THEN <<Sysex("update_lcd", <<pos>> \o cells)>> ELSE <<>>

\* update_lcd() without a position writes all of the display.
update_lcd_all(txt) ==
  LET cells == [i \in 1..(2 * Columns + 2) |->
                  IF i - 1 \in RowEnds THEN 10 ELSE IF i <= Len(txt) THEN charmap_lcd(txt[i]) ELSE 0]
  IN <<Sysex("update_lcd", <<0>> \o cells)>>

-----------------------------------------------------------------------------
(* The application.                                                         *)

SendToDevice(ms) == to_device' = IF device.at = "off" THEN to_device ELSE to_device \o ms

Start ==
  /\ calls < MaxCalls /\ calls' = calls + 1
  /\ current_state' = "waiting_for_query"
  /\ SendToDevice(<<Sysex("device_query", <<>>)>>)
  /\ UNCHANGED <<type, from_device, device, challenges, meant, reports>>

\* The application waits for on_connected() before it shows anything.
Call(ms, view) ==
  /\ current_state = "connected" /\ calls < MaxCalls /\ calls' = calls + 1
  /\ SendToDevice(ms)
  /\ meant' = IF device.at = "off" THEN meant ELSE view
  /\ UNCHANGED <<hostvars, from_device, device, challenges, reports>>

\* The text from a cell on; what is beyond the display is cut, and the character
\* at the end of a row is lost.
Written(txt, pos) ==
  [i \in Cells |-> IF i \in RowEnds /\ i >= pos /\ i < pos + Len(txt) THEN 10
                   ELSE IF i >= pos /\ i < pos + Len(txt) THEN charmap_lcd(txt[i - pos + 1]) ELSE meant.lcd[i]]
Filled(txt) ==
  [i \in Cells |-> IF i \in RowEnds THEN 10 ELSE IF i < Len(txt) THEN charmap_lcd(txt[i + 1]) ELSE 0]

UpdateLcd(txt, pos) ==
  Call(update_lcd(txt, pos), IF pos \in Cells THEN [meant EXCEPT !.lcd = Written(txt, pos)] ELSE meant)

UpdateLcdAll(txt) == Call(update_lcd_all(txt), [meant EXCEPT !.lcd = Filled(txt)])

UpdateTimecode(t) ==
  LET number(v, w) == [i \in 0..(w - 1) |-> charmap_7segment((v \div 10 ^ i) % 10)]
      shown == [i \in 0..9 |-> IF i <= 2 THEN number(t[4], 3)[i] ELSE IF i <= 4 THEN number(t[3], 2)[i - 3]
                               ELSE IF i <= 6 THEN number(t[2], 2)[i - 5] ELSE number(t[1], 3)[i - 7]]
  IN Call(timecode(t), [meant EXCEPT !.digits = shown])

Fader(i, v) == Call(<<pitch_bend(i + 1, v)>>, [meant EXCEPT !.faders[i] = v])

Command(c, press) ==
  LET v == IF press THEN 127 ELSE 0
  IN Call(<<note_on(c, v), note_off(c, v)>>,
          [meant EXCEPT !.lit = IF press THEN @ \cup {c} ELSE @ \ {c}])

-----------------------------------------------------------------------------
(* on_midi(), with on_rcp_command().                                        *)

Reported(m) ==
  IF m.kind = "note_on" THEN <<"command", m.data[1], m.data[2] > 0>>
  ELSE IF m.kind = "control_change" THEN <<"control", m.data[1], m.data[2]>>
  ELSE <<"fader", get_channel(m) - 1, m.data[2] * 128 + m.data[1]>>

\* Mutated form of OnConfirmation: it counts only as the answer to our own.
OnConfirmationInTurn(m) ==
  /\ m.command = "host_connection_confirmation"
  /\ current_state' = IF current_state = "got_query" THEN "connected" ELSE current_state
  /\ UNCHANGED to_device

OnConfirmation(m) ==
  /\ m.command = "host_connection_confirmation"
  /\ current_state' = "connected"
  /\ UNCHANGED to_device

OnQuery(m) ==
  /\ m.command = "host_connection_query"
  /\ current_state' = "got_query"
  /\ SendToDevice(<<[Sysex("host_connection_reply", m.data) EXCEPT !.type = m.type]>>)

OnError(m) ==
  /\ m.command = "host_connection_error"
  /\ current_state' = "errored"
  /\ UNCHANGED to_device

OnSysex ==
  /\ from_device # <<>> /\ Head(from_device).kind = "sysex"
  /\ type' = Head(from_device).type
  /\ OnQuery(Head(from_device)) \/ OnConfirmation(Head(from_device)) \/ OnError(Head(from_device))
  /\ from_device' = Tail(from_device)
  /\ UNCHANGED <<device, challenges, calls, meant, reports>>

OnControls ==
  /\ from_device # <<>> /\ Head(from_device).kind # "sysex"
  /\ reports' = [reports EXCEPT !.reported = Append(@, Reported(Head(from_device)))]
  /\ from_device' = Tail(from_device)
  /\ UNCHANGED <<hostvars, to_device, device, challenges, calls, meant>>

-----------------------------------------------------------------------------
(* The surface.                                                             *)

FromDevice(command, data) == [kind |-> "sysex", type |-> Type, command |-> command, data |-> data]

Asked(d) == [d EXCEPT !.at = "asked", !.challenge = challenges + 1]
Ask == from_device' = Append(from_device, FromDevice("host_connection_query", <<challenges + 1>>))

SwitchOn ==
  /\ device.at = "off" /\ challenges < MaxChallenges
  /\ challenges' = challenges + 1 /\ device' = Asked(device) /\ Ask
  /\ UNCHANGED <<hostvars, to_device, calls, meant, reports>>

Unplug ==
  /\ device.at # "off"
  /\ device' = Off /\ to_device' = <<>> /\ from_device' = <<>> /\ meant' = Blank
  /\ reports' = [did |-> <<>>, reported |-> <<>>]
  /\ UNCHANGED <<hostvars, challenges, calls>>

\* What a message makes of what the surface shows.
Show(view, m) ==
  CASE m.kind = "sysex" /\ m.command = "update_lcd" /\ m.type = Type ->
         LET cells == Tail(m.data)
             n == Head(m.data)
         IN [view EXCEPT !.lcd = [i \in Cells |-> IF i - n + 1 \in DOMAIN cells THEN cells[i - n + 1] ELSE @[i]]]
    [] m.kind = "control_change" -> [view EXCEPT !.digits[m.data[1] - 64] = m.data[2]]
    [] m.kind = "pitch_bend" -> [view EXCEPT !.faders[m.channel] = m.data[2] * 128 + m.data[1]]
    [] m.kind = "note_on" /\ m.data[2] > 0 -> [view EXCEPT !.lit = @ \cup {m.data[1]}]
    [] m.kind \in {"note_on", "note_off"} -> [view EXCEPT !.lit = @ \ {m.data[1]}]
    [] OTHER -> view

IsFor(m, command) == m.kind = "sysex" /\ m.command = command

DeviceReceives ==
  /\ device.at # "off" /\ to_device # <<>>
  /\ to_device' = Tail(to_device)
  /\ LET m == Head(to_device)
     IN IF IsFor(m, "device_query")
        THEN device' = Asked(device) /\ challenges' = challenges + 1 /\ Ask
        ELSE /\ UNCHANGED challenges
             /\ IF IsFor(m, "host_connection_reply") /\ m.type = Type
                THEN LET right == m.data = <<device.challenge>>
                     IN /\ device' = [device EXCEPT !.at = IF right THEN "online" ELSE "refused"]
                        /\ from_device' = Append(from_device,
                             FromDevice(IF right THEN "host_connection_confirmation" ELSE "host_connection_error", <<>>))
                ELSE device' = [device EXCEPT !.view = Show(@, m)] /\ UNCHANGED from_device
  /\ UNCHANGED <<hostvars, calls, meant, reports>>

\* The user presses, turns or moves something: what the surface sends for it.
Touch(did, m) ==
  /\ device.at = "online" /\ calls < MaxCalls /\ calls' = calls + 1
  /\ from_device' = Append(from_device, m)
  /\ reports' = [reports EXCEPT !.did = Append(@, did)]
  /\ UNCHANGED <<hostvars, to_device, device, challenges, meant>>

-----------------------------------------------------------------------------

Application ==
  \/ Start
  \/ \E txt \in Texts : (\E pos \in Positions : UpdateLcd(txt, pos)) \/ UpdateLcdAll(txt)
  \/ \E t \in Times : UpdateTimecode(t)
  \/ \E v \in Levels, i \in {0, 8} : Fader(i, v)
  \/ \E press \in BOOLEAN : Command(94, press)

User ==
  \/ \E press \in BOOLEAN : Touch(<<"command", 94, press>>, note_on(94, IF press THEN 127 ELSE 0))
  \/ Touch(<<"control", 60, 65>>, control_change(60, 65))
  \/ \E v \in Levels, i \in {0, 8} : Touch(<<"fader", i, v>>, pitch_bend(i + 1, v))

Next == Application \/ OnSysex \/ OnControls \/ SwitchOn \/ Unplug \/ DeviceReceives \/ User

Spec == Init /\ [][Next]_rcpvars

-----------------------------------------------------------------------------
(* Properties.                                                              *)

\* When nothing is on its way, the processor and a surface that is there agree
\* on whether they are connected, whoever began, however often, and however
\* many challenges crossed answers to earlier ones.
Agree ==
  to_device = <<>> /\ from_device = <<>> /\ device.at # "off"
    => ((current_state = "connected") = (device.at = "online"))

\* The surface shows, or is about to show, what the calls since it was switched
\* on have put there, one over the other, and what its user did is reported as
\* it was done.
Follows ==
  /\ LET view == FoldLeft(Show, device.view, to_device)
     IN device.at # "off" =>
          view.lcd = meant.lcd /\ view.digits = meant.digits /\ view.faders = meant.faders
  /\ IsPrefix(reports.reported, reports.did)

\* command() lights what is pressed (not so: it sends the release at once,
\* protocols/remote_control.hpp:828).
LightsFollow == device.at # "off" => FoldLeft(Show, device.view, to_device).lit = meant.lit
=============================================================================
