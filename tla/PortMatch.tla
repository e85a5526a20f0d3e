------------------------------ MODULE PortMatch -------------------------------
(***************************************************************************)
(* port_comparison.hpp: what port_information an application saved, or made  *)
(* up, is looked for among the ports that there are.                         *)
(*                                                                          *)
(* A string is a sequence of letters, where 10 + c is the capital of c;      *)
(* 0 is a container or device that is not known, and NoHandle a port that is *)
(* not. Similarities are kept as fractions: the rounding of a double is left *)
(* out, its truncation to an int is not.                                     *)
(***************************************************************************)
EXTENDS Integers, SequencesExt

CONSTANTS
  Saved,      \* what may be looked for
  Known,      \* ports that may be there
  MaxPorts    \* bound: how many at a time

VARIABLES target, ports, closest, found
matchvars == <<target, ports, closest, found>>

NoHandle == -1
Unspecified == "unspecified"

-----------------------------------------------------------------------------
(* Strings.                                                                 *)

SameLetter(c, d) == c % 10 = d % 10

Cost(c, d) == IF SameLetter(c, d) THEN 0 ELSE 1

\* Mutated form of NextColumn: the diagonal is read after it was overwritten.
NextColumnLate(col, s, c) ==
  FoldLeft(LAMBDA next, i : Append(next, Min({col[i + 1] + 1, next[i] + 1, next[i] + Cost(s[i], c)})),
           <<col[1] + 1>>, [i \in DOMAIN s |-> i])

\* col[i + 1] is the distance of the first i letters of s to what t had so far.
NextColumn(col, s, c) ==
  FoldLeft(LAMBDA next, i : Append(next, Min({col[i + 1] + 1, next[i] + 1, col[i] + Cost(s[i], c)})),
           <<col[1] + 1>>, [i \in DOMAIN s |-> i])

Distance(s, t) ==
  Last(FoldLeft(LAMBDA col, c : NextColumn(col, s, c), [i \in 1..(Len(s) + 1) |-> i - 1], t))

\* fuzzy_match_name(), as a fraction.
fuzzy_match_name(s, t) ==
  LET length == Max({Len(s), Len(t)})
  IN IF length = 0 THEN [num |-> 1, den |-> 1]
     ELSE IF s = <<>> \/ t = <<>> THEN [num |-> 0, den |-> 1]
     ELSE [num |-> length - Distance(s, t), den |-> length]

AtLeast(f, percent) == 100 * f.num >= percent * f.den
MoreThan(f, percent) == 100 * f.num > percent * f.den

\* An int to which a fraction of n was added.
AddTo(score, n, f) ==
  LET sum == score * f.den + n * f.num
  IN IF sum >= 0 THEN sum \div f.den ELSE -((-sum) \div f.den)

-----------------------------------------------------------------------------
(* find_closest_port().                                                     *)

ScoreString(score, t, c, reward, penalty) ==
  LET res == fuzzy_match_name(c, t)
  IN IF t = <<>> THEN score
     ELSE IF AtLeast(res, 50) THEN AddTo(score, reward, res)
     ELSE IF c # <<>> THEN score + penalty ELSE score

ScoreDevice(t, c) ==
  IF t.api \notin {"coremidi", "winmm"} \/ t.device = 0 THEN 0
  ELSE IF t.device = c.device THEN 1000
  ELSE IF c.device # 0 THEN -2000 ELSE 0

Weights ==
  <<<<"manufacturer", 100, -2000>>, <<"product", 100, -2000>>, <<"serial", 800, -1000>>,
    <<"display_name", 400, -100>>, <<"port_name", 400, -100>>, <<"device_name", 400, -100>>>>

IsMatch(t, c) == t.api = Unspecified \/ t.api = c.api

calculate(t, c) ==
  FoldLeft(LAMBDA score, w : ScoreString(score, t[w[1]], c[w[1]], w[2], w[3]), ScoreDevice(t, c), Weights)
    + (IF t.port # NoHandle /\ t.port = c.port THEN 50 ELSE 0)

\* The first of those that score best, or 0.
find_closest_port(t, ps) ==
  LET score == [i \in DOMAIN ps |-> calculate(t, ps[i])]
      matches == {i \in DOMAIN ps : IsMatch(t, ps[i]) /\ score[i] > 0}
  IN IF matches = {} THEN 0
     ELSE CHOOSE i \in matches : \A j \in matches : score[j] < score[i] \/ (score[j] = score[i] /\ i <= j)

-----------------------------------------------------------------------------
(* optimistic_serialized_port_lookup(): a sequence of positions.            *)

Agrees(t, c, fields) == \A f \in fields : t[f] = c[f]
Those(ps, Test(_)) == SelectSeq([i \in DOMAIN ps |-> i], LAMBDA i : Test(ps[i]))

port_mostly_equal(t, c) ==
  Agrees(t, c, {"api", "container", "device", "port", "manufacturer", "product", "serial", "device_name", "port_name"})

\* 1. All fields but the one for display.
Exact(t, ps) ==
  LET equal == Those(ps, LAMBDA c : port_mostly_equal(t, c))
      displayed == SelectSeq(equal, LAMBDA i : ps[i].display_name = t.display_name)
  IN IF Len(equal) > 1 /\ displayed # <<>> THEN <<displayed[1]>> ELSE equal

\* 2. With a handle, the port that has it now, if it is called nearly the same;
\* without, all whose fields are those that are known.
Trusted(t, c) ==
  /\ t.api # Unspecified /\ t.api = c.api
  /\ IF t.port # NoHandle
     THEN /\ t.port = c.port
          /\ \/ Agrees(t, c, {"port_name", "device_name"})
             \/ AtLeast(fuzzy_match_name(t.port_name, c.port_name), 80)
                /\ AtLeast(fuzzy_match_name(t.device_name, c.device_name), 80)
     ELSE \A f \in {"manufacturer", "product", "serial", "device_name", "port_name"} : t[f] \in {c[f], <<>>}

\* Of several of them, the first that agrees on the most telling fields.
Preferences(t) ==
  LET display == {"display_name"} container == {"container"} device == {"device"}
  IN IF t.display_name = <<>> THEN <<>>
     ELSE IF t.container # 0 /\ t.device # 0
          THEN <<display \cup container \cup device, display, container \cup device, container, device>>
     ELSE IF t.container # 0 THEN <<display \cup container, display, container>>
     ELSE IF t.device # 0 THEN <<display \cup device, display, device>>
     ELSE <<>>

SameApi(t, ps) ==
  LET trusted == Those(ps, LAMBDA c : Trusted(t, c))
      telling == SelectSeq(Preferences(t), LAMBDA fields : \E i \in ToSet(trusted) : Agrees(t, ps[i], fields))
  IN IF Len(trusted) > 1 /\ telling # <<>>
     THEN <<SelectSeq(trusted, LAMBDA i : Agrees(t, ps[i], telling[1]))[1]>>
     ELSE trusted

\* 3. Anything that is called like it, whatever its API.
Pairs ==
  <<<<"port_name", "port_name", 1>>, <<"device_name", "device_name", 1>>, <<"display_name", "display_name", 1>>,
    <<"display_name", "port_name", 1>>, <<"port_name", "display_name", 1>>,
    <<"display_name", "device_name", 1>>, <<"device_name", "display_name", 1>>,
    <<"manufacturer", "manufacturer", 3>>, <<"product", "product", 5>>, <<"serial", "serial", 10>>>>

Likeness(t, c) ==
  FoldLeft(LAMBDA score, p :
             LET res == fuzzy_match_name(t[p[1]], c[p[2]])
             IN IF t[p[1]] # <<>> /\ c[p[2]] # <<>> /\ MoreThan(res, 70) THEN AddTo(score, p[3], res) ELSE score,
           0, Pairs)

\* A map from scores: of those with the same score the last one stays.
Ranked(t, ps) ==
  LET score == [i \in DOMAIN ps |-> Likeness(t, ps[i])]
      kept == {i \in DOMAIN ps : score[i] > 0 /\ \A j \in DOMAIN ps : j > i => score[j] # score[i]}
  IN SetToSortSeq(kept, LAMBDA i, j : score[i] > score[j])

lookup(t, ps) ==
  LET exact == Exact(t, ps)
      same == SameApi(t, ps)
  IN IF exact # <<>> THEN exact ELSE IF same # <<>> THEN same ELSE Ranked(t, ps)

-----------------------------------------------------------------------------

Init == target \in Saved /\ ports = <<>> /\ closest = 0 /\ found = <<>>

\* The application looks among one port more.
Appear(p) ==
  /\ Len(ports) < MaxPorts
  /\ \A i \in DOMAIN ports : ~Agrees(p, ports[i], {"api", "port"})
  /\ ports' = Append(ports, p)
  /\ closest' = find_closest_port(target, ports')
  /\ found' = lookup(target, ports')
  /\ UNCHANGED target

Next == \E p \in Known : Appear(p)

Spec == Init /\ [][Next]_matchvars

-----------------------------------------------------------------------------
(* Properties.                                                              *)

\* The distance by columns is the least cost of an alignment: letters that are
\* paired in order cost when they differ, and the others cost one each.
Alignment(s, t) ==
  LET ordered(S) == SetToSortSeq(S, LAMBDA i, j : i < j)
      cost(A, B) == Len(s) + Len(t) - 2 * Cardinality(A)
                      + Cardinality({i \in 1..Cardinality(A) : ~SameLetter(s[ordered(A)[i]], t[ordered(B)[i]])})
  IN Min(UNION {{cost(A, B) : A \in kSubset(k, DOMAIN s), B \in kSubset(k, DOMAIN t)} :
                  k \in 0..Min({Len(s), Len(t)})})

DistanceRight ==
  Len(ports) = 1 => \A i \in DOMAIN ports : Distance(target.port_name, ports[i].port_name) = Alignment(target.port_name, ports[i].port_name)

TextFields == {"manufacturer", "product", "serial", "display_name", "port_name", "device_name"}

\* A port that is still what it was is found, by both searches, whatever else is
\* there: the one by fields returns it alone, and the one by score a port that
\* has the same names, but for capitals.
StillThere ==
  \A i \in DOMAIN ports : ports[i] = target =>
    /\ found = <<i>>
    /\ closest # 0
    /\ \A f \in TextFields : target[f] # <<>> => Distance(target[f], ports[closest][f]) = 0

\* A port that only has another handle is found by the search by fields, and what
\* is called the same by the one by score, unless another port was given its
\* handle, or another one is called as much like it.
PluggedAgain ==
  \A i \in DOMAIN ports :
    LET others == DOMAIN ports \ {i}
    IN /\ [ports[i] EXCEPT !.port = target.port] = target
       /\ \A j \in others : ~Agrees(ports[j], target, {"api", "port"})
       /\ \A j \in others : Likeness(target, ports[j]) # Likeness(target, ports[i])
       /\ \E f \in TextFields : target[f] # <<>>
       => i \in ToSet(found)

\* "we only do a fuzzy match" (port_comparison.hpp:462): a port of another API
\* that is called nearly the same is found (not so: a fraction of 1 added to an
\* int is lost).
FuzzyCounts ==
  \A i \in DOMAIN ports :
    Len(ports) = 1 /\ target.port_name # <<>> /\ MoreThan(fuzzy_match_name(target.port_name, ports[i].port_name), 70)
      => found # <<>>
=============================================================================
