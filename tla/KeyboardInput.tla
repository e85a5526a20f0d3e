---------------------------- MODULE KeyboardInput -----------------------------
(* midi_in_kbd: notes from the keys of a computer. The same key gives other  *)
(* notes as the octave and the velocity change, while others are held.       *)
(*                                                                           *)
(* External: the keyboard, whose keys go down and up, some systems repeating *)
(* the first while a key is held; and what sounds of the messages.           *)
EXTENDS Integers

CONSTANTS
  ScancodeMap,  \* scancode_map: a key to [is, value], a note, velocity, octave, or a step of one
  AutoRepeat,   \* a key that is held is reported again
  MaxPresses    \* bound: presses reported

VARIABLES
  m_current_octave, m_current_velocity,
  m_current_notes_scancodes,  \* a function on the keys it has an entry for
  held,      \* keys that are down
  presses,
  sounding   \* notes that sound
kbdvars == <<m_current_octave, m_current_velocity, m_current_notes_scancodes, held, presses, sounding>>

clamp(v, lo, hi) == IF v < lo THEN lo ELSE IF v > hi THEN hi ELSE v

Init ==
  /\ m_current_octave = 3 /\ m_current_velocity = 80 /\ m_current_notes_scancodes = <<>>
  /\ held = {} /\ presses = 0 /\ sounding = {}

\* A note on with a velocity of 0 is a note off.
note_on(note, velocity) ==
  sounding' = IF velocity > 0 THEN sounding \cup {note} ELSE sounding \ {note}

note_off(note) == sounding' = sounding \ {note}

Press(k) ==
  /\ AutoRepeat \/ k \notin held
  /\ presses < MaxPresses /\ presses' = presses + 1
  /\ held' = held \cup {k}

\* The note is a byte.
PressNote(k) ==
  LET note == (ScancodeMap[k].value + 12 * m_current_octave) % 256
  IN /\ ScancodeMap[k].is = "note" /\ Press(k)
     /\ note_on(note, m_current_velocity)
     /\ m_current_notes_scancodes' =
          [j \in DOMAIN m_current_notes_scancodes \cup {k} |-> IF j = k THEN note ELSE m_current_notes_scancodes[j]]
     /\ UNCHANGED <<m_current_octave, m_current_velocity>>

PressVelocity(k) ==
  /\ Press(k)
  /\ \/ ScancodeMap[k].is = "velocity" /\ m_current_velocity' = ScancodeMap[k].value
     \/ ScancodeMap[k].is = "velocity_step" /\ m_current_velocity' = clamp(m_current_velocity + ScancodeMap[k].value, 0, 127)
  /\ UNCHANGED <<m_current_octave, m_current_notes_scancodes, sounding>>

PressOctave(k) ==
  /\ Press(k)
  /\ \/ ScancodeMap[k].is = "octave" /\ m_current_octave' = ScancodeMap[k].value
     \/ ScancodeMap[k].is = "octave_step" /\ m_current_octave' = clamp(m_current_octave + ScancodeMap[k].value, 0, 127)
  /\ UNCHANGED <<m_current_velocity, m_current_notes_scancodes, sounding>>

Release(k) == k \in held /\ held' = held \ {k}

\* The note that the key gave when it was pressed.
ReleaseNote(k) ==
  /\ ScancodeMap[k].is = "note" /\ Release(k)
  /\ IF k \in DOMAIN m_current_notes_scancodes
     THEN /\ note_off(m_current_notes_scancodes[k])
          /\ m_current_notes_scancodes' = [j \in DOMAIN m_current_notes_scancodes \ {k} |-> m_current_notes_scancodes[j]]
     ELSE UNCHANGED <<m_current_notes_scancodes, sounding>>
  /\ UNCHANGED <<m_current_octave, m_current_velocity, presses>>

ReleaseOther(k) ==
  /\ ScancodeMap[k].is # "note" /\ Release(k)
  /\ UNCHANGED <<m_current_octave, m_current_velocity, m_current_notes_scancodes, presses, sounding>>

Next == \E k \in DOMAIN ScancodeMap : PressNote(k) \/ PressVelocity(k) \/ PressOctave(k) \/ ReleaseNote(k) \/ ReleaseOther(k)

Spec == Init /\ [][Next]_kbdvars

-----------------------------------------------------------------------------
(* Properties.                                                              *)

Notes == {k \in DOMAIN ScancodeMap : ScancodeMap[k].is = "note"}

\* When no key of a note is down nothing sounds, whatever octave and velocity
\* the keys were pressed and released in; and what sounds was given by a key
\* that is down. With a key that repeats it is not so: its second note on, of
\* another octave, takes the place of the first.
NothingHangs ==
  \A n \in sounding : \E k \in Notes \cap held : k \in DOMAIN m_current_notes_scancodes /\ m_current_notes_scancodes[k] = n

\* What sounds is a note (not so: the octave goes to 127, of which ten have notes).
IsNote == sounding \subseteq 0..127
=============================================================================
