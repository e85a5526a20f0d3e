----------------------------- MODULE CInterface ------------------------------
(***************************************************************************)
(* The C interface (libremidi-c.cpp): what its functions leave in the handle  *)
(* of the application and what they answer, with callbacks while they run;    *)
(* and the constructors of C++ that they call, which a program in C++ calls   *)
(* itself. BackendChoice says what a constructor makes. A message or a port   *)
(* is not modelled, nor are the functions that only pass a call on.           *)
(*                                                                          *)
(* External: the system, where APIs come and go; the back-end, which throws   *)
(* in its constructor or not, opens a port or not, and calls back.            *)
(***************************************************************************)
EXTENDS BackendChoice, Integers

CONSTANTS
  Asked,          \* APIs that are asked for
  Ports,          \* APIs of ports that may be given, or "virtual", or "none"
  ComeAndGo, MayThrow,        \* APIs of which the system has no say, or which may throw
  Silent,         \* APIs that are of nothing in the system, as C uses them
  Refuses,        \* those of which no port opens that C may name
  MaxObjects, MaxNews   \* bounds

VARIABLES
  available,   \* APIs that the system has
  calling,     \* the running call: where it is, its configuration, its object, what was chosen
  handed,      \* *out: the object, or 0, which is NULL
  objects,     \* those that are allocated
  known,       \* those that a call gave to the application, which it has not freed
  answer,      \* of the last call of a ..._new()
  inside,      \* the object that a callback of the application is called from, or 0
  news, terminated

cvars == <<available, calling, handed, objects, known, answer, inside, news, terminated>>

Kinds == {"in", "out", "observer"}
Versions == {"MIDI1", "MIDI1_RAW", "MIDI2", "MIDI2_RAW", "unknown"}
Midi(version) == IF version \in {"MIDI2", "MIDI2_RAW"} THEN 2 ELSE 1
IsRaw(version) == version \in {"MIDI1_RAW", "MIDI2_RAW"}

\* What the calls look at: callback says whether the one for the version is set.
Configurations ==
  {c \in [kind : Kinds, version : Versions, callback : BOOLEAN, port : Ports, api : Asked] :
     /\ c.kind # "in" => c.version = "MIDI1" /\ c.callback
     /\ c.kind = "observer" => c.port = "none"}
Nothing == [is |-> "null", converts |-> FALSE, told |-> FALSE, had |-> {}]
Idle == [at |-> "idle", by |-> "c", config |-> [kind |-> "out", version |-> "MIDI1", callback |-> TRUE, port |-> "none", api |-> "UNSPECIFIED"],
         object |-> 0, chosen |-> Nothing]

Alive == {i \in DOMAIN objects : objects[i].kind # "none"}
Free == [kind |-> "none", reacts |-> "never", open |-> FALSE]

\* What comes of a message, or of a change that an observer sees: it is passed
\* on, or never comes, or an empty function is called.
Reacts(c, chosen) ==
  IF chosen.is \in Silent THEN "never"
  ELSE IF c.kind = "in" /\ IsRaw(c.version) /\ chosen.converts THEN "throws" ELSE "calls"

Init ==
  /\ available = (ToSet(Build1) \cup ToSet(Build2)) \ ComeAndGo
  /\ calling = Idle /\ handed = 0 /\ objects = [i \in 1..MaxObjects |-> Free] /\ known = {}
  /\ answer = "none" /\ inside = 0 /\ news = 0 /\ terminated = FALSE

-----------------------------------------------------------------------------

SystemChanges(api) ==
  /\ available' = IF api \in available THEN available \ {api} ELSE available \cup {api}
  /\ UNCHANGED <<calling, handed, objects, known, answer, inside, news, terminated>>

\* The program calls from its own thread, one call at a time.
Calls == calling = Idle /\ news < MaxNews /\ ~terminated /\ news' = news + 1

Answers(what) == calling' = Idle /\ answer' = what

\* Arguments are looked at before *out is written, the rest after that. An
\* observer has no port, and its *out is written last.
Refused(c) ==
  /\ Calls /\ c.kind # "observer" /\ c.port = "none"
  /\ Answers("EINVAL")
  /\ UNCHANGED <<available, handed, objects, known, inside, terminated>>

New(c) ==
  /\ Calls /\ (c.kind = "observer" \/ c.port # "none")
  /\ handed' = IF c.kind = "observer" THEN handed ELSE 0
  /\ IF c.kind = "in" /\ (c.version = "unknown" \/ ~c.callback) THEN Answers("EINVAL")
     ELSE calling' = [Idle EXCEPT !.at = "construct", !.config = c] /\ answer' = "none"
  /\ UNCHANGED <<available, objects, known, inside, terminated>>

\* A program in C++ makes an object, and frees it before it goes on.
NewInCpp(c, how) ==
  /\ Calls /\ c.port = "none" /\ ~IsRaw(c.version) /\ c.version # "unknown"
  /\ calling' = [Idle EXCEPT !.at = "construct", !.by = how, !.config = c]
  /\ answer' = "none"
  /\ UNCHANGED <<available, handed, objects, known, inside, terminated>>

\* The object is there and *out names it before its port is open; of an
\* observer, callbacks come before the constructor returns.
Construct ==
  /\ calling.at = "construct"
  /\ Alive # 1..MaxObjects
  /\ \E throwing \in SUBSET MayThrow :
       LET i == Min(1..MaxObjects \ Alive)
           c == calling.config
           chosen == Chosen(c.kind, Midi(c.version), calling.by, c.api, available, throwing)
       IN  IF chosen.is = "throws"
           THEN Answers("EINVAL") /\ UNCHANGED <<handed, objects>>
           ELSE /\ calling' = [calling EXCEPT !.chosen = [f \in DOMAIN chosen \cup {"had"} |-> IF f = "had" THEN available ELSE chosen[f]], !.object = i,
                                 !.at = IF calling.by # "c" THEN "made" ELSE IF c.kind = "observer" THEN "observes" ELSE "open"]
                /\ objects' = [objects EXCEPT ![i] = [kind |-> c.kind, reacts |-> Reacts(c, chosen), open |-> FALSE]]
                /\ handed' = IF calling.by = "c" /\ c.kind # "observer" THEN i ELSE handed
                /\ UNCHANGED answer
  /\ UNCHANGED <<available, known, inside, news, terminated>>

Constructed ==
  /\ calling.at = "observes"
  /\ handed' = calling.object /\ known' = known \cup {calling.object}
  /\ Answers("ok")
  /\ UNCHANGED <<available, objects, inside, news, terminated>>

\* open_port() refuses a port of another API.
OpenSucceeds ==
  /\ calling.at = "open"
  /\ calling.config.port \in {"virtual", calling.chosen.is} /\ calling.chosen.is \notin Refuses
  /\ objects' = [objects EXCEPT ![calling.object].open = TRUE]
  /\ known' = known \cup {calling.object}
  /\ Answers("ok")
  /\ UNCHANGED <<available, handed, inside, news, terminated>>

\* The destructor waits for a callback.
Deleted(i) == inside # i /\ objects' = [objects EXCEPT ![i] = Free]

OpenFails ==
  /\ calling.at = "open"
  /\ calling.chosen.is \in Silent \ Refuses => calling.config.port \notin {"virtual", calling.chosen.is}
  /\ handed' = 0
  /\ Deleted(calling.object)
  /\ Answers("EIO")
  /\ UNCHANGED <<available, known, inside, news, terminated>>

FreedInCpp ==
  /\ calling.at = "made"
  /\ Deleted(calling.object)
  /\ Answers("none")
  /\ UNCHANGED <<available, handed, known, inside, news, terminated>>

\* The application forgets what it frees; it may free NULL.
FreeObject(i) ==
  /\ calling = Idle /\ ~terminated /\ i \in known
  /\ Deleted(i)
  /\ known' = known \ {i} /\ handed' = (IF handed = i THEN 0 ELSE handed) /\ answer' = "none"
  /\ UNCHANGED <<available, calling, inside, news, terminated>>

-----------------------------------------------------------------------------
(* Callbacks of an input that is open or being opened, and of an observer from *)
(* its constructor on.                                                        *)

CallsBack(i) ==
  /\ inside = 0 /\ ~terminated /\ objects[i].reacts # "never"
  /\ objects[i].kind = "observer" \/ (objects[i].kind = "in" /\ (objects[i].open \/ (calling.at = "open" /\ calling.object = i)))
  /\ IF objects[i].reacts = "throws" THEN terminated' = TRUE /\ UNCHANGED inside ELSE inside' = i /\ UNCHANGED terminated
  /\ UNCHANGED <<available, calling, handed, objects, known, answer, news>>

Leaves == inside # 0 /\ inside' = 0 /\ UNCHANGED <<available, calling, handed, objects, known, answer, news, terminated>>

Next ==
  \/ \E api \in ComeAndGo : SystemChanges(api)
  \/ calling = Idle /\ \E c \in Configurations : Refused(c) \/ New(c) \/ \E how \in {"api", "configuration"} : NewInCpp(c, how)
  \/ Construct \/ Constructed \/ OpenSucceeds \/ OpenFails \/ FreedInCpp
  \/ \E i \in 1..MaxObjects : FreeObject(i) \/ CallsBack(i)
  \/ Leaves
Spec == Init /\ [][Next]_cvars

-----------------------------------------------------------------------------

CTypeOK ==
  /\ available \subseteq ToSet(Build1) \cup ToSet(Build2)
  /\ calling.at \in {"idle", "construct", "observes", "open", "made"} /\ calling.object \in 0..MaxObjects
  /\ handed \in 0..MaxObjects /\ known \subseteq 1..MaxObjects /\ inside \in 0..MaxObjects
  /\ objects \in [1..MaxObjects -> [kind : Kinds \cup {"none"}, reacts : {"never", "calls", "throws"}, open : BOOLEAN]]
  /\ answer \in {"none", "ok", "EINVAL", "EIO"} /\ news \in 0..MaxNews /\ terminated \in BOOLEAN

\* Between calls the application knows every object there is, and its handle
\* never names one that is gone; a call that answers 0 has left an object in it
\* that observes, or whose port is open.
HandlesAreTrue ==
  /\ calling = Idle => Alive = known
  /\ handed # 0 => handed \in Alive
  /\ answer = "ok" => handed \in known /\ (objects[handed].kind = "observer" \/ objects[handed].open)
  /\ answer = "EIO" => handed = 0

\* An input that calls back before its ..._new() has returned is in the handle.
InputFindsItself == inside # 0 /\ calling.object = inside /\ calling.config.kind = "in" => handed = inside

\* Who asks for an API gets it, or is told that the object is a dummy. It is
\* searched for instead if C asks for one of MIDI 1 that is not there, or if an
\* output is given the configuration of one of MIDI 2: then the first that is
\* there and does not throw is taken, as when nothing was asked. Only who names
\* an API of MIDI 2 in C++ may get one that is not there.
GetsWhatWasAsked ==
  LET c == calling.config
      by == calling.by
      chosen == calling.chosen
      there == c.api \in chosen.had
      searched ==
        \/ c.api = "UNSPECIFIED"
        \/ by = "c" /\ ~there /\ ~Contains(Build2, c.api)
        \/ by # "api" /\ ~there /\ c.kind = "out"
  IN  calling.object # 0 =>
        IF searched THEN chosen.is \in chosen.had /\ ~chosen.told
        ELSE /\ chosen.is = Type(c.api, c.kind) \/ (chosen.is = "DUMMY" /\ chosen.told /\ ~there)
             /\ chosen.is \notin chosen.had => by = "api" /\ c.api \in Apis2

\* Packets are for who asked for packets, and messages for who asked for messages.
SpeaksTheProtocol ==
  LET midi == Midi(calling.config.version)
      chosen == calling.chosen
  IN  calling.object # 0 /\ calling.config.kind = "in" /\ chosen.is # "DUMMY" =>
        chosen.is \in Family(IF chosen.converts THEN Other(midi) ELSE midi)

\* No exception gets out of the thread of a back-end.
NothingEscapes == ~terminated

\* "Search for a working compiled API" (api-c.h:14): what is found if nothing is
\* asked is of the system, if an API of the system is there and none throws.
SearchFindsWhatWorks ==
  calling.object # 0 /\ calling.config.api = "UNSPECIFIED" /\ MayThrow = {} /\ calling.chosen.had \ Silent # {}
    => calling.chosen.is \notin Silent
=============================================================================
