---------------------------- MODULE BackendChoice ----------------------------
(***************************************************************************)
(* Which back-end an input, an output or an observer has, for what the        *)
(* program asks: nothing, an API, or a configuration, which the C interface   *)
(* makes from an API. A back-end is named as its API; a class of the library  *)
(* as the back-end it is of, since the type of a configuration tells them     *)
(* apart. "null" is a pointer, "unspecified" a configuration.                *)
(***************************************************************************)
EXTENDS SequencesExt

CONSTANTS
  Build1, Build2,   \* APIs that are compiled, for MIDI 1 and 2, in the order of the lists
  Apis1, Apis2,     \* all there are, of either
  Without           \* of a kind of object: the APIs that have the dummy for it

Family(midi) == IF midi = 1 THEN Apis1 \cup {"DUMMY"} ELSE Apis2 \cup {"DUMMY"}
Build(midi) == IF midi = 1 THEN Build1 ELSE Build2
Other(midi) == 3 - midi
Type(api, kind) == IF api \in Without[kind] THEN "DUMMY" ELSE api

\* Only the list of MIDI 1 asks whether the back-end is available.
ConfigurationFor(api, kind, available) ==
  IF Contains(Build2, api) \/ (Contains(Build1, api) /\ api \in available) THEN Type(api, kind) ELSE "unspecified"
midi_api(conf, available) ==
  IF conf \in (ToSet(Build1) \cup ToSet(Build2)) \cap available THEN conf ELSE "UNSPECIFIED"

\* The first back-end of a list whose configuration it is, available or not.
Made(conf, midi, kind) == IF \E api \in ToSet(Build(midi)) : Type(api, kind) = conf THEN conf ELSE "null"
MadeOfEither(conf, kind) == IF Made(conf, 1, kind) # "null" THEN Made(conf, 1, kind) ELSE Made(conf, 2, kind)

Object(class, converts) == [is |-> class, converts |-> converts]
Null == Object("null", FALSE)

-----------------------------------------------------------------------------
(* Nothing is asked: what is available is tried in order; a constructor that  *)
(* throws is passed over, one whose client could not be opened is not.        *)

Tried(kind, midi, tries, available) ==
  LET Class(api) ==
        LET conf == ConfigurationFor(api, kind, available)
        IN  IF api \notin available THEN "null"
            ELSE IF kind = "in" THEN Made(conf, tries, kind) ELSE MadeOfEither(conf, kind)
  IN  [i \in DOMAIN Build(tries) |-> Object(Class(Build(tries)[i]), kind = "in" /\ midi # tries)]

\* Outputs and observers, which have no protocol, try MIDI 1 first.
FoundBySearch(kind, midi, available, throwing) ==
  LET first == IF kind = "in" THEN midi ELSE 1
      tries == Tried(kind, midi, first, available) \o Tried(kind, midi, Other(first), available)
      works == {i \in DOMAIN tries : tries[i].is \notin throwing \cup {"null"}}
  IN  IF works = {} THEN Object("DUMMY", FALSE) ELSE tries[Min(works)]

\* An API or a configuration is asked. The input of the other protocol converts.
InputOf(conf, api, midi) ==
  CASE api \in Family(midi) -> Object(Made(conf, midi, "in"), FALSE)
    [] api \in Family(Other(midi)) \ Family(midi) -> Object(Made(conf, Other(midi), "in"), TRUE)
    [] OTHER -> Null

ForApi(kind, midi, api, available) ==
  LET conf == ConfigurationFor(api, kind, available)
  IN  IF kind = "in" THEN InputOf(conf, api, midi) ELSE Object(MadeOfEither(conf, kind), FALSE)

\* A configuration of what is not available: an output is searched for.
ForConfiguration(kind, midi, conf, available, throwing) ==
  LET api == midi_api(conf, available)
  IN  IF api = "UNSPECIFIED" THEN IF kind = "out" THEN FoundBySearch(kind, midi, available, throwing) ELSE Null
      ELSE IF kind = "in" THEN InputOf(conf, api, midi) ELSE Object(MadeOfEither(conf, kind), FALSE)

\* What the constructor leaves, and whether it said in on_error that it is a
\* dummy. A back-end that was asked for may throw. how: the program gives the
\* API, or a configuration of it, or C does.
Chosen(kind, midi, how, what, available, throwing) ==
  LET conf == CASE how = "c" -> ConfigurationFor(what, kind, available)
                [] how = "configuration" /\ what # "UNSPECIFIED" -> Type(what, kind)
                [] OTHER -> what
      searches == conf \in {"unspecified", "UNSPECIFIED"}
      object ==
        IF searches THEN FoundBySearch(kind, midi, available, throwing)
        ELSE IF how = "api" THEN ForApi(kind, midi, what, available)
        ELSE ForConfiguration(kind, midi, conf, available, throwing)
  IN  [is |-> CASE object.is = "null" -> "DUMMY"
                [] ~searches /\ object.is \in throwing -> "throws"
                [] OTHER -> object.is,
       converts |-> object.converts /\ object.is # "null", told |-> object.is = "null"]
=============================================================================
