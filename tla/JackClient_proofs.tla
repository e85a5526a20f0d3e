------------------------- MODULE JackClient_proofs -------------------------
(* Proofs about JackClient, for any objects, clients, sizes and bounds: what  *)
(* the semaphores of do_close_port() guarantee, what the handler's queue of   *)
(* events does, and that the ring keeps messages whole and in order.         *)
(*                                                                          *)
(* None of the three is inductive. The handshake needs to know that a thread *)
(* only works on its own objects (Turns), so that no other callback leaves a  *)
(* token for them; the list, that the events of an object are in their order *)
(* (Once); the ring, that it is cut at a header only while one is written.   *)
EXTENDS JackClient, DataLemmas

\* The port of an object is there, and its callback may look at it.
OpenPhases == {"open", "waiting for space", "writing"}
Busy == {"load", "fetch", "process", "check"}

\* A thread works on objects of its own: those of its client. A client of its
\* own has one, the handler's has those that were put on it.
Turns ==
  /\ \A t \in Threads :
       /\ cycle[t].stage \in Busy => cycle[t].todo # <<>>
       /\ \A i \in DOMAIN cycle[t].todo : ThreadOf(cycle[t].todo[i]) = t
  /\ \A i \in DOMAIN callbacks : callbacks[i] \in shared
  /\ \A i \in DOMAIN events : events[i].obj \in shared
  /\ running \cap shared = {}

\* The callback is shown the port that is registered, from its opening to the
\* start of its close.
Ports == \A o \in Objs : port[o] = IF phase[o] \in OpenPhases THEN registered[o] ELSE 0

\* A callback works on a port that is open, or whose close found it at work and
\* has still to wait, as there is no token to take and only the callback's own
\* thread leaves one; or the close found it at work and went wrong.
Handed ==
  \A o \in Objs, t \in Threads :
    UsesPort(t, o) /\ cycle[t].held # 0 =>
      \/ cycle[t].held \in late[o] \cup primed[o] /\ t \in caught
      \/ cycle[t].held = registered[o] /\ phase[o] \in OpenPhases
      \/ /\ cycle[t].held = registered[o] /\ phase[o] \in {"closing", "waiting"}
         /\ t \in caught /\ cleanup[o] = 0

\* Where the handler knows an object from.
Listed(o) == \E i \in DOMAIN callbacks : callbacks[i] = o
Queued(k, o) == \E i \in DOMAIN events : events[i] = Event(k, o)

\* An object is in the handler's list, or on its way to it, at most once; it is
\* added before it is removed, and removed when it is gone.
Once ==
  /\ \A i, j \in DOMAIN callbacks : callbacks[i] = callbacks[j] => i = j
  /\ \A i, j \in DOMAIN events : events[i] = events[j] => i = j
  /\ \A o \in Objs :
       /\ Listed(o) => phase[o] # "none" /\ ~Queued("added", o)
       /\ Queued("added", o) => phase[o] # "none"
       /\ Queued("removed", o) => phase[o] = "gone"
  /\ \A i, j \in DOMAIN events :
       events[i].obj = events[j].obj /\ events[i].kind = "added" /\ events[j].kind = "removed" => i < j

\* GoneIsForgotten, of the objects still on their way to the list as well.
Remembered ==
  \A o \in Objs \ refused :
    phase[o] = "gone" /\ (Listed(o) \/ Queued("added", o)) => Queued("removed", o)

\* A send that is under way has a message.
Sender ==
  \A o \in Objs : phase[o] \in {"waiting for space", "writing"} => accepted[o] # <<>>

\* A ring ends with a header only while its message is being written; each
\* header before has its body behind it.
Cut(x) == x # <<>> /\ x[Len(x)].part = "header"
Front(x) == SubSeq(x, 1, Len(x) - 1)
Balanced(x) == LET w == IF Cut(x) THEN Front(x) ELSE x IN Those("header", w) = Those("body", w)

-----------------------------------------------------------------------------
(* What Those() computes, by induction over the ring. *)

\* One step of Those().
StepOf(p, r) == [i \in 1..Len(r) |-> [s \in Seq(Messages) |-> IF r[i].part = p THEN Append(s, r[i].msg) ELSE s]]

\* An element of a ring is a unit.
LEMMA UnitTypes ==
  ASSUME NEW r \in Seq(Units), NEW i \in 1..Len(r) PROVE r[i].msg \in Messages /\ r[i].part \in {"header", "body"}
<1>1. r[i] \in Units
  BY ElementOfSeq
<1> QED  BY <1>1 DEF Units

\* Those() is the last value of a recursive function, which there is: the one the
\* CHOOSE of its definition takes.
LEMMA ThoseFold ==
  ASSUME NEW p, NEW r \in Seq(Units)
  PROVE  \E f \in [0..Len(r) -> Seq(Messages)] :
           IsFold(f, Len(r), <<>>, StepOf(p, r)) /\ Those(p, r) = f[Len(r)]
<1> DEFINE Of(f) == [i \in 0..Len(r) |-> IF i = 0 THEN <<>>
                                         ELSE IF r[i].part = p THEN Append(f[i - 1], r[i].msg) ELSE f[i - 1]]
           of == CHOOSE f : f = Of(f)
           n == Len(r)
           M == Seq(Messages)
<1>1. \A i \in 1..n : r[i].msg \in Messages
  BY UnitTypes
<1>2. StepOf(p, r) \in [1..n -> [M -> M]]
  BY <1>1 DEF StepOf
<1>3. PICK f \in [0..n -> M] : IsFold(f, n, <<>>, StepOf(p, r))
  <2>1. n \in Nat /\ <<>> \in M
    OBVIOUS
  <2> HIDE DEF n, M
  <2> QED  BY <1>2, <2>1, FoldExists
<1>4. f = Of(f)
  <2>1. ASSUME NEW i \in 1..n PROVE StepOf(p, r)[i][f[i - 1]] = IF r[i].part = p THEN Append(f[i - 1], r[i].msg) ELSE f[i - 1]
    <3>1. f[i - 1] \in M
      OBVIOUS
    <3> HIDE DEF M
    <3> QED  BY <3>1 DEF StepOf, M
  <2>2. \A i \in 0..n : f[i] = IF i = 0 THEN <<>> ELSE StepOf(p, r)[i][f[i - 1]]
    BY <1>3 DEF IsFold
  <2>3. \A i \in 0..n : i # 0 => i \in 1..n
    OBVIOUS
  <2>4. \A i \in 0..n : f[i] = Of(f)[i]
    BY <2>1, <2>2, <2>3
  <2> QED  BY <2>4
<1>5. ASSUME NEW g, g = Of(g) PROVE g = f
  <2>0. n \in Nat /\ 0 \in 0..n
    OBVIOUS
  <2>1. \A i \in 0..n : g[i] = IF i = 0 THEN <<>>
                                ELSE IF r[i].part = p THEN Append(g[i - 1], r[i].msg) ELSE g[i - 1]
    <3> HIDE DEF n
    <3>1. \A i \in 0..n : Of(g)[i] = IF i = 0 THEN <<>>
                                      ELSE IF r[i].part = p THEN Append(g[i - 1], r[i].msg) ELSE g[i - 1]
      BY Zenon DEF n
    <3> HIDE DEF Of
    <3> QED  BY <1>5, <3>1
  <2>2. \A i \in 0..n : f[i] = IF i = 0 THEN <<>>
                                ELSE IF r[i].part = p THEN Append(f[i - 1], r[i].msg) ELSE f[i - 1]
    <3> HIDE DEF n
    <3> QED  BY <1>4, Zenon
  <2> DEFINE P == {i \in Nat : i <= n => g[i] = f[i]}
  <2>3. 0 \in P
    BY <2>0, <2>1, <2>2
  <2>4. ASSUME NEW i \in Nat, i \in P PROVE i + 1 \in P
    <3>1. i + 1 \in Nat /\ i + 1 # 0 /\ (i + 1) - 1 = i
      OBVIOUS
    <3>2. i + 1 <= n => i + 1 \in 0..n /\ g[i] = f[i]
      BY <2>4
    <3> HIDE DEF n
    <3> QED  BY <2>1, <2>2, <3>1, <3>2
  <2>5. Nat \subseteq P
    <3> HIDE DEF P
    <3> QED  BY <2>3, <2>4, Induction
  <2>6. \A i \in 0..n : g[i] = f[i]
    BY <2>5
  <2>7. g = [i \in 0..n |-> g[i]] /\ f = [i \in 0..n |-> f[i]]
    BY <1>5
  <2> QED  BY <2>6, <2>7
<1>6. Those(p, r) = of[Len(r)]
  BY DEF Those
<1>7. of = f
  BY <1>4, <1>5
<1> QED  BY <1>3, <1>6, <1>7

\* What Those() makes of no units, and of one more.
LEMMA ThoseLaws ==
  ASSUME NEW p
  PROVE  /\ Those(p, <<>>) = <<>>
         /\ \A r \in Seq(Units) : Those(p, r) \in Seq(Messages)
         /\ \A r \in Seq(Units), u \in Units :
              Those(p, Append(r, u)) = IF u.part = p THEN Append(Those(p, r), u.msg) ELSE Those(p, r)
<1>1. Those(p, <<>>) = <<>>
  <2>1. <<>> \in Seq(Units) /\ Len(<<>>) = 0
    OBVIOUS
  <2>2. PICK f \in [0..0 -> Seq(Messages)] : IsFold(f, 0, <<>>, StepOf(p, <<>>)) /\ Those(p, <<>>) = f[0]
    BY <2>1, ThoseFold
  <2> QED  BY <2>2 DEF IsFold
<1>2. ASSUME NEW r \in Seq(Units) PROVE Those(p, r) \in Seq(Messages)
  <2>1. PICK f \in [0..Len(r) -> Seq(Messages)] : Those(p, r) = f[Len(r)]
    BY ThoseFold
  <2>2. Len(r) \in 0..Len(r)
    OBVIOUS
  <2> QED  BY <2>1, <2>2
<1>3. ASSUME NEW r \in Seq(Units), NEW u \in Units
      PROVE  Those(p, Append(r, u)) = IF u.part = p THEN Append(Those(p, r), u.msg) ELSE Those(p, r)
  <2> DEFINE q == Append(r, u)
             n == Len(r)
             M == Seq(Messages)
  <2>1. q \in Seq(Units) /\ Len(q) = n + 1 /\ n \in Nat /\ q[n + 1] = u /\ \A i \in 1..n : q[i] = r[i]
    OBVIOUS
  <2> HIDE DEF q, n
  <2>2. PICK f \in [0..n -> M] : IsFold(f, n, <<>>, StepOf(p, r)) /\ Those(p, r) = f[n]
    BY ThoseFold DEF n
  <2>3. PICK g \in [0..(n + 1) -> M] : IsFold(g, n + 1, <<>>, StepOf(p, q)) /\ Those(p, q) = g[n + 1]
    BY <2>1, ThoseFold
  <2>4. \A i \in 1..n : StepOf(p, q)[i] = StepOf(p, r)[i]
    <3>1. ASSUME NEW i \in 1..n PROVE StepOf(p, q)[i] = StepOf(p, r)[i]
      <4>1. i \in 1..Len(q) /\ i \in 1..Len(r) /\ q[i] = r[i]
        BY <2>1 DEF n
      <4> QED  BY <4>1 DEF StepOf
    <3> QED  BY <3>1
  <2>5. g[n] = f[n]
    <3>1. n \in Nat /\ n + 1 \in Nat /\ n <= n /\ n <= n + 1
      BY <2>1
    <3> HIDE DEF M
    <3> QED  BY <2>2, <2>3, <2>4, <3>1, FoldsAgree
  <2>6. g[n + 1] = StepOf(p, q)[n + 1][g[n]]
    BY <2>1, <2>3 DEF IsFold
  <2>7. g[n] \in M /\ n + 1 \in 1..Len(q)
    BY <2>1
  <2>8. StepOf(p, q)[n + 1][g[n]] = IF u.part = p THEN Append(g[n], u.msg) ELSE g[n]
    BY <2>1, <2>7 DEF StepOf
  <2> QED  BY <2>2, <2>3, <2>5, <2>6, <2>8 DEF q
<1> QED  BY <1>1, <1>2, <1>3

\* What taking a callback off a list in which it is at most once leaves.
LEMMA EraseLaw ==
  ASSUME NEW S, NEW list \in Seq(S), NEW o,
         \A i, j \in DOMAIN list : list[i] = list[j] => i = j
  PROVE  /\ Erase(list, o) \in Seq(S)
         /\ \A i, j \in DOMAIN Erase(list, o) : Erase(list, o)[i] = Erase(list, o)[j] => i = j
         /\ \A i \in DOMAIN Erase(list, o) : Erase(list, o)[i] # o /\ \E j \in DOMAIN list : list[j] = Erase(list, o)[i]
         /\ \A j \in DOMAIN list : list[j] # o => \E i \in DOMAIN Erase(list, o) : Erase(list, o)[i] = list[j]
<1> DEFINE n == Len(list)
           at == {i \in DOMAIN list : list[i] = o}
<1>0. n \in Nat /\ DOMAIN list = 1..n /\ \A i \in 1..n : list[i] \in S
  OBVIOUS
<1>1. CASE at = {}
  <2>1. Erase(list, o) = list
    BY <1>1 DEF Erase
  <2> QED  BY <1>1, <2>1
<1>2. CASE at # {}
  <2>1. PICK k \in at : TRUE
    BY <1>2
  <2>2. k \in 1..n /\ list[k] = o /\ \A j \in at : j = k
    BY <1>0, <2>1
  <2>3. (CHOOSE i \in at : \A j \in at : i <= j) = k
    BY <2>1, <2>2
  <2> DEFINE a == SubSeq(list, 1, k - 1)
             b == SubSeq(list, k + 1, n)
             e == a \o b
  <2>4. Erase(list, o) = e
    BY <1>2, <2>3 DEF Erase
  <2>5. a \in Seq(S) /\ Len(a) = k - 1 /\ \A i \in 1..(k - 1) : a[i] = list[i]
    <3>1. k - 1 \in 0..n /\ \A i \in 1..(k - 1) : i \in 1..n
      BY <1>0, <2>2
    <3> QED  BY <1>0, <2>2, <3>1, SubSeqProperties
  <2>6. b \in Seq(S) /\ Len(b) = n - k /\ \A i \in 1..(n - k) : b[i] = list[i + k]
    <3>1. CASE k < n
      <4>1. k + 1 \in 1..n /\ n \in 1..n /\ n - (k + 1) + 1 = n - k /\ k + 1 \in Int /\ n \in Int
        BY <1>0, <2>2, <3>1
      <4>2. b \in Seq(S) /\ Len(b) = n - k
        BY <1>0, <3>1, <4>1, SubSeqProperties
      <4>3. ASSUME NEW i \in 1..(n - k) PROVE b[i] = list[i + k]
        <5>1. b[i] = list[(k + 1) + i - 1]
          BY <1>0, <2>2, <3>1, <4>1, SubSeqProperties
        <5> QED  BY <1>0, <2>2, <5>1
      <4> QED  BY <4>2, <4>3
    <3>2. CASE k = n
      BY <1>0, <2>2, <3>2
    <3> QED  BY <1>0, <2>2, <3>1, <3>2
  <2> HIDE DEF a, b
  <2>7. e \in Seq(S) /\ Len(e) = n - 1 /\ DOMAIN e = 1..(n - 1)
    <3>1. e \in Seq(S) /\ Len(e) = Len(a) + Len(b)
      BY <2>5, <2>6, ConcatProperties
    <3>2. (k - 1) + (n - k) = n - 1
      BY <1>0, <2>2
    <3>3. DOMAIN e = 1..Len(e)
      BY <3>1, LenProperties
    <3> HIDE DEF e, n
    <3> QED  BY <2>5, <2>6, <3>1, <3>2, <3>3
  <2>8. \A i \in 1..(n - 1) : e[i] = IF i < k THEN list[i] ELSE list[i + 1]
    <3>1. ASSUME NEW i \in 1..(n - 1) PROVE e[i] = IF i < k THEN list[i] ELSE list[i + 1]
      <4>1. e[i] = IF i <= Len(a) THEN a[i] ELSE b[i - Len(a)]
        <5>1. i \in 1..(Len(a) + Len(b))
          BY <1>0, <2>2, <2>5, <2>6
        <5> QED  BY <2>5, <2>6, <5>1, ConcatProperties
      <4>2. i < k => i \in 1..(k - 1)
        BY <1>0, <2>2
      <4>3. ~(i < k) => i - (k - 1) \in 1..(n - k) /\ (i - (k - 1)) + k = i + 1
        BY <1>0, <2>2
      <4>4. i < k <=> i <= Len(a)
        BY <1>0, <2>2, <2>5
      <4> HIDE DEF e
      <4>5. CASE i < k
        BY <2>5, <4>1, <4>2, <4>4, <4>5
      <4>6. CASE ~(i < k)
        <5>1. i - Len(a) = i - (k - 1)
          BY <2>5
        <5>2. e[i] = b[i - (k - 1)]
          BY <4>1, <4>4, <4>6, <5>1
        <5>3. b[i - (k - 1)] = list[(i - (k - 1)) + k]
          BY <2>6, <4>3, <4>6
        <5> QED  BY <4>3, <4>6, <5>2, <5>3
      <4> QED  BY <4>5, <4>6
    <3> QED  BY <3>1
  <2> HIDE DEF e, n, at
  <2>9. ASSUME NEW i \in 1..(n - 1), NEW j \in 1..(n - 1), e[i] = e[j] PROVE i = j
    <3>1. (IF i < k THEN i ELSE i + 1) \in 1..n /\ (IF j < k THEN j ELSE j + 1) \in 1..n
      BY <1>0, <2>2
    <3>2. e[i] = list[IF i < k THEN i ELSE i + 1] /\ e[j] = list[IF j < k THEN j ELSE j + 1]
      BY <2>8
    <3>3. (IF i < k THEN i ELSE i + 1) = (IF j < k THEN j ELSE j + 1)
      BY <1>0, <2>9, <3>1, <3>2
    <3> QED  BY <1>0, <2>2, <3>3
  <2>10. ASSUME NEW i \in 1..(n - 1) PROVE e[i] # o /\ \E j \in 1..n : list[j] = e[i]
    <3>1. PICK j \in 1..n : j = (IF i < k THEN i ELSE i + 1) /\ j # k
      BY <1>0, <2>2
    <3>2. e[i] = list[j]
      BY <2>8, <3>1
    <3>3. list[j] # o
      BY <1>0, <2>2, <3>1
    <3> QED  BY <3>2, <3>3
  <2>11. ASSUME NEW j \in 1..n, list[j] # o PROVE \E i \in 1..(n - 1) : e[i] = list[j]
    <3>1. j # k
      BY <2>2, <2>11
    <3>2. CASE j < k
      <4>1. j \in 1..(n - 1)
        BY <1>0, <2>2, <3>2
      <4> QED  BY <2>8, <3>2, <4>1
    <3>3. CASE j > k
      <4>1. j - 1 \in 1..(n - 1) /\ ~(j - 1 < k) /\ (j - 1) + 1 = j
        BY <1>0, <2>2, <3>3
      <4>2. e[j - 1] = list[j]
        BY <2>8, <4>1
      <4> QED  BY <4>1, <4>2
    <3> QED  BY <1>0, <2>2, <3>1, <3>2, <3>3
  <2> QED  BY <1>0, <2>4, <2>7, <2>9, <2>10, <2>11
<1> QED  BY <1>1, <1>2

USE SetupsAssumption, ThreadsAssumption, NumbersAssumption

-----------------------------------------------------------------------------
(* Types, one part for each group of variables. *)

CycleRecords == [stage : Stages, todo : Seq(Objs), held : Handles]
EventRecords == [kind : {"added", "removed"}, obj : Objs]

AppTypes == /\ shared \subseteq Objs /\ phase \in [Objs -> Phases] /\ dying \subseteq Objs /\ opens \in [Objs -> Handles]
            /\ port \in [Objs -> Handles] /\ registered \in [Objs -> Handles]
LockTypes == /\ needpost \in [Objs -> 0..MaxTokens] /\ cleanup \in [Objs -> 0..MaxTokens]
             /\ primed \in [Objs -> SUBSET Handles] /\ late \in [Objs -> SUBSET Handles] /\ caught \subseteq Threads
HandlerTypes == /\ events \in Seq(EventRecords) /\ Len(events) <= EventSlots
                /\ refused \subseteq Objs /\ callbacks \in Seq(Objs) /\ running \subseteq Threads
CycleTypes == cycle \in [Threads -> CycleRecords]
QueueTypes == /\ ring \in [Objs -> Seq(Units)]
              /\ accepted \in [Objs -> Seq(Messages)] /\ out \in [Objs -> Seq(Messages)]

\* TypeOK is its parts.
LEMMA TypeParts ==
  /\ TypeOK <=> AppTypes /\ LockTypes /\ HandlerTypes /\ CycleTypes /\ QueueTypes
  /\ TypeOK' <=> AppTypes' /\ LockTypes' /\ HandlerTypes' /\ CycleTypes' /\ QueueTypes'
BY DEF TypeOK, AppTypes, LockTypes, HandlerTypes, CycleTypes, QueueTypes, CycleRecords, EventRecords

\* A port's handle is a number.
LEMMA HandleTypes ==
  /\ Handles \subseteq Nat /\ 0 \in Handles
  /\ \A o \in Objs : 0..MaxOpens[o] \subseteq Handles
<1>1. \A o \in Objs : MaxOpens[o] \in Nat /\ 0..MaxOpens[o] \subseteq Nat
  OBVIOUS
<1>2. 0 \in Handles /\ \A o \in Objs : 0..MaxOpens[o] \subseteq Handles
  BY Zenon DEF Handles
<1>3. ASSUME NEW h \in Handles PROVE h \in Nat
  <2>1. h = 0 \/ \E o \in Objs : h \in 0..MaxOpens[o]
    BY Zenon DEF Handles
  <2> QED  BY <1>1, <2>1
<1> QED  BY <1>2, <1>3

\* Only the application's own threads change these.
LEMMA AppStep == ASSUME AppTypes, [Next]_vars PROVE AppTypes'
<1>1. CASE \/ StartProcessing \/ StopProcessing \/ Events \/ UNCHANGED vars
           \/ \E t \in Threads : BeginCycle(t) \/ Callback(t)
  <2>1. UNCHANGED <<app_vars, port_vars>>
    BY <1>1 DEF StartProcessing, StopProcessing, Events, PopEvent, CallCallbacks, BeginCycle, Callback, LoadPort, FetchPort,
                Process, CheckReleased, vars
  <2> QED  BY <2>1 DEF AppTypes, app_vars, port_vars
<1>2. ASSUME NEW o \in Objs, Application(o) PROVE AppTypes'
  <2> HIDE DEF Handles
  <2>1. shared' = shared /\ dying' \subseteq dying \cup {o}
    BY <1>2 DEF Application, Connect, OpenPort, ClosePort, AskRelease, TakeRelease, ReleaseTimesOut, Unregister, DestroyClosed,
                Disconnect, Send, WriteHeader, WriteBody
  <2>2. phase' \in [Objs -> Phases]
    <3>1. \E to \in Phases : phase' = [phase EXCEPT ![o] = to]
      BY <1>2 DEF Application, Connect, OpenPort, ClosePort, AskRelease, TakeRelease, ReleaseTimesOut, Unregister,
                  DestroyClosed, Disconnect, Send, WriteHeader, WriteBody, Goto, Phases
    <3> QED  BY <3>1 DEF AppTypes
  <2>3. CASE OpenPort(o)
    <3>1. opens[o] + 1 \in Handles
      <4>1. opens[o] \in Nat /\ MaxOpens[o] \in Nat /\ opens[o] < MaxOpens[o]
        BY <2>3, HandleTypes DEF AppTypes, OpenPort
      <4>2. opens[o] + 1 \in 0..MaxOpens[o]
        BY <4>1
      <4> QED  BY <4>2, HandleTypes
    <3>2. /\ opens' = [opens EXCEPT ![o] = opens[o] + 1]
          /\ registered' = [registered EXCEPT ![o] = opens'[o]]
          /\ port' = [port EXCEPT ![o] = opens'[o]]
      BY <2>3 DEF OpenPort
    <3>3. opens'[o] \in Handles /\ opens' \in [Objs -> Handles]
      BY <3>1, <3>2 DEF AppTypes
    <3> QED  BY <2>1, <2>2, <3>2, <3>3 DEF AppTypes
  <2>4. CASE ~OpenPort(o)
    <3>1. /\ opens' = opens /\ registered' \in {registered, [registered EXCEPT ![o] = 0]}
          /\ port' \in {port, [port EXCEPT ![o] = 0]}
      BY <1>2, <2>4 DEF Application, Connect, ClosePort, AskRelease, TakeRelease, ReleaseTimesOut, Unregister, DestroyClosed,
                Disconnect, Send, WriteHeader, WriteBody, port_vars
    <3> QED  BY <2>1, <2>2, <3>1, HandleTypes DEF AppTypes
  <2> QED  BY <2>3, <2>4
<1> QED  BY <1>1, <1>2 DEF Next

\* A release leaves a token, and no more than the bound.
LEMMA Released == ASSUME NEW n \in 0..MaxTokens PROVE Release(n) \subseteq 0..MaxTokens /\ \A x \in Release(n) : x > 0
BY DEF Release, Least

\* Tokens are added by a close and by a callback, and taken by the other.
LEMMA LockStep == ASSUME TypeOK, Turns, [Next]_vars PROVE LockTypes'
<1>0. LockTypes /\ CycleTypes /\ AppTypes
  BY TypeParts
<1>1. CASE \/ StartProcessing \/ StopProcessing \/ Events \/ UNCHANGED vars
           \/ \E t \in Threads : BeginCycle(t) \/ LoadPort(t) \/ FetchPort(t) \/ Process(t)
  <2>1. UNCHANGED lock_vars
    BY <1>1 DEF StartProcessing, StopProcessing, Events, PopEvent, CallCallbacks, BeginCycle, LoadPort, FetchPort, Process, vars
  <2> QED  BY <1>0, <2>1 DEF LockTypes, lock_vars
<1>2. ASSUME NEW o \in Objs, Application(o) PROVE LockTypes'
  <2>0. /\ primed' \in {primed, [primed EXCEPT ![o] = @ \cup {registered[o]}]}
        /\ late' \in {late, [late EXCEPT ![o] = @ \cup {registered[o]}]}
        /\ caught' \subseteq caught \cup Threads
    <3>1. CASE \E last \in BOOLEAN : ClosePort(o, last)
      BY <1>0, <3>1 DEF ClosePort, NoteClose, LockTypes
    <3>2. CASE ~\E last \in BOOLEAN : ClosePort(o, last)
      BY <1>2, <3>2 DEF Application, Connect, OpenPort, AskRelease, TakeRelease, ReleaseTimesOut, Unregister, DestroyClosed,
                Disconnect, Send, WriteHeader, WriteBody, lock_vars
    <3> QED  BY <3>1, <3>2
  <2>1. primed' \in [Objs -> SUBSET Handles] /\ late' \in [Objs -> SUBSET Handles] /\ caught' \subseteq Threads
    <3> HIDE DEF Handles
    <3>1. registered[o] \in Handles
      BY <1>0 DEF AppTypes
    <3> QED  BY <1>0, <2>0, <3>1 DEF LockTypes
  <2>2. \/ UNCHANGED <<needpost, cleanup>>
        \/ cleanup' = cleanup /\ \E n \in Release(needpost[o]) : needpost' = [needpost EXCEPT ![o] = n]
        \/ needpost' = needpost /\ cleanup[o] > 0 /\ cleanup' = [cleanup EXCEPT ![o] = cleanup[o] - 1]
    BY <1>2 DEF Application, Connect, OpenPort, ClosePort, AskRelease, TakeRelease, ReleaseTimesOut, Unregister, DestroyClosed,
                Disconnect, Send, WriteHeader, WriteBody, lock_vars
  <2>3. Release(needpost[o]) \subseteq 0..MaxTokens
    BY <1>0, Released DEF LockTypes
  <2>4. cleanup[o] > 0 => cleanup[o] - 1 \in 0..MaxTokens
    BY <1>0 DEF LockTypes
  <2> QED  BY <1>0, <2>1, <2>2, <2>3, <2>4 DEF LockTypes
<1>3. ASSUME NEW t \in Threads, CheckReleased(t) PROVE LockTypes'
  <2> DEFINE o == Head(cycle[t].todo)
  <2>1. o \in Objs
    BY <1>0, <1>3 DEF CheckReleased, Turns, Busy, CycleTypes, CycleRecords
  <2> HIDE DEF o
  <2>2. UNCHANGED <<primed, late>> /\ caught' \subseteq caught
        /\ \/ cleanup' = cleanup /\ needpost[o] > 0 /\ needpost' = [needpost EXCEPT ![o] = needpost[o] - 1]
           \/ needpost' = needpost /\ \E n \in Release(cleanup[o]) : cleanup' = [cleanup EXCEPT ![o] = n]
    BY <1>3 DEF CheckReleased, o
  <2>3. Release(cleanup[o]) \subseteq 0..MaxTokens
    BY <1>0, <2>1, Released DEF LockTypes
  <2>4. needpost[o] > 0 => needpost[o] - 1 \in 0..MaxTokens
    BY <1>0, <2>1 DEF LockTypes
  <2> QED  BY <1>0, <2>1, <2>2, <2>3, <2>4 DEF LockTypes
<1> QED  BY <1>1, <1>2, <1>3 DEF Next, Callback

\* The object a thread is at is one of its own.
LEMMA HeadObj ==
  ASSUME CycleTypes, Turns, NEW t \in Threads, cycle[t].stage \in Busy
  PROVE  /\ cycle[t].todo \in Seq(Objs) /\ cycle[t].todo # <<>> /\ Tail(cycle[t].todo) \in Seq(Objs)
         /\ Head(cycle[t].todo) \in Objs /\ ThreadOf(Head(cycle[t].todo)) = t
<1>1. cycle[t].todo \in Seq(Objs) /\ cycle[t].todo # <<>>
  BY DEF CycleTypes, CycleRecords, Turns
<1>2. /\ Head(cycle[t].todo) = cycle[t].todo[1] /\ 1 \in DOMAIN cycle[t].todo
      /\ Head(cycle[t].todo) \in Objs /\ Tail(cycle[t].todo) \in Seq(Objs)
  BY <1>1, TailLaw
<1> QED  BY <1>1, <1>2 DEF Turns

\* spsc_queue::push(): the event is the last one, or is refused.
LEMMA Pushed ==
  ASSUME HandlerTypes, NEW o \in Objs, NEW k \in {"added", "removed"}, Push(Event(k, o))
  PROVE  /\ Event(k, o) \in EventRecords
         /\ \/ events' = Append(events, Event(k, o)) /\ refused' = refused /\ Len(events') <= EventSlots
            \/ events' = events /\ refused' = refused \cup {o}
<1>1. Event(k, o) \in EventRecords /\ Event(k, o).obj = o
  BY DEF Event, EventRecords
<1>2. CASE Len(events) < EventSlots
  <2>1. events' = Append(events, Event(k, o)) /\ refused' = refused
    BY <1>2 DEF Push
  <2>2. Len(events') = Len(events) + 1 /\ Len(events) \in Nat
    BY <1>1, <2>1, AppendLaw DEF HandlerTypes
  <2> QED  BY <1>1, <1>2, <2>1, <2>2
<1>3. CASE ~(Len(events) < EventSlots)
  BY <1>1, <1>3 DEF Push
<1> QED  BY <1>2, <1>3

\* The queue stays within its slots, and the list a list of objects.
LEMMA HandlerStep == ASSUME TypeOK, Once, [Next]_vars PROVE HandlerTypes'
<1>0. HandlerTypes
  BY TypeParts
<1>1. CASE UNCHANGED handler_vars
  BY <1>0, <1>1 DEF HandlerTypes, handler_vars
<1>2. CASE StartProcessing \/ StopProcessing
  BY <1>0, <1>2 DEF StartProcessing, StopProcessing, HandlerTypes, Threads
<1>3. ASSUME NEW o \in Objs, NEW k \in {"added", "removed"}, Push(Event(k, o)), UNCHANGED <<callbacks, running>> PROVE HandlerTypes'
  <2>1. Append(events, Event(k, o)) \in Seq(EventRecords)
    BY <1>0, <1>3, Pushed, AppendLaw DEF HandlerTypes
  <2> QED  BY <1>0, <1>3, <2>1, Pushed DEF HandlerTypes
<1>4. ASSUME NEW o \in Objs, UNCHANGED <<events, refused, callbacks>>, running' \in {running \cup {o}, running \ {o}} PROVE HandlerTypes'
  BY <1>0, <1>4 DEF HandlerTypes, Threads
<1>5. CASE PopEvent
  <2> DEFINE e == Head(events)
  <2>1. /\ events # <<>> /\ events' = Tail(events) /\ UNCHANGED <<refused, running>>
        /\ callbacks' = IF e.kind = "added" THEN Append(callbacks, e.obj) ELSE Erase(callbacks, e.obj)
    BY <1>5 DEF PopEvent
  <2>2. Tail(events) \in Seq(EventRecords) /\ Len(Tail(events)) <= Len(events) /\ e \in EventRecords
    BY <1>0, <2>1, TailLaw DEF HandlerTypes
  <2>3. e.obj \in Objs
    BY <2>2 DEF EventRecords
  <2>4. Append(callbacks, e.obj) \in Seq(Objs)
    BY <1>0, <2>3, AppendLaw DEF HandlerTypes
  <2>5. Erase(callbacks, e.obj) \in Seq(Objs)
    BY <1>0, EraseLaw DEF HandlerTypes, Once
  <2>6. Len(Tail(events)) <= EventSlots
    <3>1. Len(Tail(events)) \in Nat /\ Len(events) \in Nat
      BY <1>0, <2>2 DEF HandlerTypes
    <3> QED  BY <1>0, <2>2, <3>1 DEF HandlerTypes
  <2> QED  BY <1>0, <2>1, <2>2, <2>4, <2>5, <2>6 DEF HandlerTypes
<1>6. ASSUME NEW o \in Objs, Application(o) PROVE HandlerTypes'
  <2>1. CASE Connect(o) \/ Disconnect(o)
    BY <1>3, <1>4, <2>1 DEF Connect, Disconnect
  <2>2. CASE ~(Connect(o) \/ Disconnect(o))
    BY <1>1, <1>6, <2>2 DEF Application, OpenPort, ClosePort, AskRelease, TakeRelease, ReleaseTimesOut, Unregister, DestroyClosed,
                Send, WriteHeader, WriteBody
  <2> QED  BY <2>1, <2>2
<1>7. CASE \/ CallCallbacks \/ UNCHANGED vars
           \/ \E t \in Threads : BeginCycle(t) \/ Callback(t)
  BY <1>1, <1>7 DEF CallCallbacks, BeginCycle, Callback, LoadPort, FetchPort, Process, CheckReleased, vars
<1> QED  BY <1>2, <1>5, <1>6, <1>7 DEF Next, Events

\* What a thread has to do next is a cycle.
LEMMA TurnTypes ==
  /\ Idle \in CycleRecords
  /\ \A todo \in Seq(Objs) : Turn(todo) \in CycleRecords
<1>1. <<>> \in Seq(Objs) /\ 0 \in Handles
  BY HandleTypes
<1> HIDE DEF Handles
<1> QED  BY <1>1 DEF Idle, Turn, CycleRecords, Stages

\* Each step of a callback leaves a cycle.
LEMMA CycleStep == ASSUME TypeOK, Turns, [Next]_vars PROVE CycleTypes'
<1>0. CycleTypes /\ AppTypes /\ HandlerTypes
  BY TypeParts
<1>1. CASE UNCHANGED cycle
  BY <1>0, <1>1 DEF CycleTypes
<1>2. ASSUME NEW t \in Threads, NEW c \in CycleRecords, cycle' = [cycle EXCEPT ![t] = c] PROVE CycleTypes'
  BY <1>0, <1>2 DEF CycleTypes
<1>3. ASSUME NEW t \in Threads, NEW stage \in Stages, NEW held \in Handles, Move(t, stage, held) PROVE CycleTypes'
  <2>1. [cycle[t] EXCEPT !.stage = stage, !.held = held] \in CycleRecords
    BY <1>0 DEF CycleTypes, CycleRecords
  <2>2. cycle' = [cycle EXCEPT ![t] = [cycle[t] EXCEPT !.stage = stage, !.held = held]]
    BY <1>0, <1>3 DEF Move, CycleTypes, CycleRecords
  <2> QED  BY <1>2, <2>1, <2>2
<1>4. ASSUME NEW t \in Threads, cycle[t].stage \in Busy, Rest(t) PROVE CycleTypes'
  <2>1. Turn(Tail(cycle[t].todo)) \in CycleRecords
    BY <1>0, <1>4, HeadObj, TurnTypes
  <2> QED  BY <1>2, <1>4, <2>1 DEF Rest
<1>5. ASSUME NEW t \in Threads, BeginCycle(t) PROVE CycleTypes'
  <2>1. [Idle EXCEPT !.stage = "events"] \in CycleRecords
    BY TurnTypes DEF CycleRecords, Stages
  <2>2. t # Handler => Turn(<<t>>) \in CycleRecords
    <3>1. t # Handler => <<t>> \in Seq(Objs)
      BY DEF Threads
    <3> QED  BY <3>1, TurnTypes
  <2> QED  BY <1>2, <1>5, <2>1, <2>2 DEF BeginCycle
<1>6. CASE CallCallbacks
  <2>1. Turn(callbacks) \in CycleRecords /\ Handler \in Threads
    BY <1>0, TurnTypes DEF HandlerTypes, Threads
  <2> QED  BY <1>2, <1>6, <2>1 DEF CallCallbacks
<1>7. ASSUME NEW t \in Threads, Callback(t) PROVE CycleTypes'
  <2>1. cycle[t].stage \in Busy
    BY <1>7 DEF Callback, LoadPort, FetchPort, Process, CheckReleased, Busy
  <2>2. Head(cycle[t].todo) \in Objs /\ cycle[t].held \in Handles
    BY <1>0, <2>1, HeadObj DEF CycleTypes, CycleRecords
  <2>3. port[Head(cycle[t].todo)] \in Handles /\ 0 \in Handles
    BY <1>0, <2>2, HandleTypes DEF AppTypes
  <2>4. \/ Rest(t) \/ Move(t, "check", cycle[t].held)
        \/ Move(t, "check", 0) \/ Move(t, "fetch", 0) \/ Move(t, "process", port[Head(cycle[t].todo)])
    BY <1>7 DEF Callback, LoadPort, FetchPort, Process, CheckReleased
  <2> QED  BY <1>3, <1>4, <2>1, <2>2, <2>3, <2>4 DEF Stages
<1>8. CASE UNCHANGED vars \/ StartProcessing \/ StopProcessing \/ PopEvent \/ \E o \in Objs : Application(o)
  BY <1>1, <1>8 DEF vars, StartProcessing, StopProcessing, PopEvent, Application, Connect, OpenPort, ClosePort, AskRelease,
        TakeRelease, ReleaseTimesOut, Unregister, DestroyClosed, Disconnect, Send, WriteHeader, WriteBody
<1> QED  BY <1>5, <1>6, <1>7, <1>8 DEF Next, Events

\* Whole() is a place in the ring.
LEMMA WholeTypes ==
  ASSUME NEW r \in Seq(Units)
  PROVE  /\ Whole(r) \in 0..Len(r)
         /\ SubSeq(r, 1, Whole(r)) \in Seq(Units) /\ SubSeq(r, Whole(r) + 1, Len(r)) \in Seq(Units)
<1>1. Len(r) \in Nat /\ (r # <<>> => Len(r) > 0)
  OBVIOUS
<1>2. Whole(r) \in 0..Len(r)
  BY <1>1 DEF Whole
<1> QED  BY <1>1, <1>2

\* The message that is being sent is one.
LEMMA SendingTypes ==
  ASSUME QueueTypes, Sender, NEW o \in Objs, phase[o] \in {"waiting for space", "writing"}
  PROVE  Sending(o) \in Messages
<1>1. accepted[o] \in Seq(Messages) /\ accepted[o] # <<>>
  BY DEF QueueTypes, Sender
<1>2. Len(accepted[o]) \in 1..Len(accepted[o])
  BY <1>1, TailLaw
<1> QED  BY <1>1, <1>2, ElementOfSeq DEF Sending

\* Rings hold units, and what leaves them are messages.
LEMMA QueueStep == ASSUME TypeOK, Turns, Sender, [Next]_vars PROVE QueueTypes'
<1>0. CycleTypes /\ AppTypes /\ QueueTypes
  BY TypeParts
<1>1. CASE UNCHANGED queue_vars
  BY <1>0, <1>1 DEF QueueTypes, queue_vars
<1>2. ASSUME NEW o \in Objs, Send(o) PROVE QueueTypes'
  <2> DEFINE m(s) == [n |-> Len(accepted[o]) + 1, size |-> s]
  <2>1. PICK s \in Sizes : accepted' = [accepted EXCEPT ![o] = Append(accepted[o], m(s))]
    BY <1>2 DEF Send
  <2>2. m(s) \in Messages
    <3>1. Len(accepted[o]) \in Nat
      BY <1>0 DEF QueueTypes
    <3>2. Len(accepted[o]) + 1 \in 1..MaxSends
      <4>1. Len(accepted[o]) < MaxSends /\ MaxSends \in Nat
        BY <1>2 DEF Send
      <4> QED  BY <3>1, <4>1
    <3> QED  BY <3>2 DEF Messages
  <2> HIDE DEF m
  <2>3. Append(accepted[o], m(s)) \in Seq(Messages)
    BY <1>0, <2>2, AppendLaw DEF QueueTypes
  <2>4. UNCHANGED <<ring, out>>
    BY <1>2 DEF Send
  <2> QED  BY <1>0, <2>1, <2>3, <2>4 DEF QueueTypes
<1>3. ASSUME NEW o \in Objs, NEW p \in {"header", "body"}, phase[o] \in {"waiting for space", "writing"},
             ring' = [ring EXCEPT ![o] = Append(ring[o], [part |-> p, msg |-> Sending(o)])], UNCHANGED <<accepted, out>>
      PROVE  QueueTypes'
  <2>1. [part |-> p, msg |-> Sending(o)] \in Units
    BY <1>0, <1>3, SendingTypes DEF Units
  <2>2. Append(ring[o], [part |-> p, msg |-> Sending(o)]) \in Seq(Units)
    BY <1>0, <2>1, AppendLaw DEF QueueTypes
  <2> QED  BY <1>0, <1>3, <2>2 DEF QueueTypes
<1>4. ASSUME NEW o \in Objs, Application(o) PROVE QueueTypes'
  <2>1. CASE Send(o)
    BY <1>2, <2>1
  <2>2. CASE WriteHeader(o) \/ WriteBody(o)
    BY <1>3, <2>2 DEF WriteHeader, WriteBody, Goto
  <2>3. CASE ~(Send(o) \/ WriteHeader(o) \/ WriteBody(o))
    BY <1>1, <1>4, <2>3 DEF Application, Connect, Disconnect, OpenPort, ClosePort, AskRelease, TakeRelease, ReleaseTimesOut,
                Unregister, DestroyClosed
  <2> QED  BY <2>1, <2>2, <2>3
<1>5. ASSUME NEW t \in Threads, Process(t) PROVE QueueTypes'
  <2> DEFINE o == Head(cycle[t].todo)
             w == SubSeq(ring[o], 1, Whole(ring[o]))
             d == SubSeq(ring[o], Whole(ring[o]) + 1, Len(ring[o]))
  <2>1. o \in Objs
    BY <1>0, <1>5, HeadObj DEF Process, Busy
  <2>2. ring' = [ring EXCEPT ![o] = d] /\ out' = [out EXCEPT ![o] = out[o] \o Those("body", w)] /\ accepted' = accepted
    BY <1>5 DEF Process
  <2>3. w \in Seq(Units) /\ d \in Seq(Units)
    BY <1>0, <2>1, WholeTypes DEF QueueTypes
  <2> HIDE DEF o, w, d
  <2>4. Those("body", w) \in Seq(Messages)
    BY <2>3, ThoseLaws
  <2>5. out[o] \o Those("body", w) \in Seq(Messages)
    BY <1>0, <2>1, <2>4, ConcatProperties DEF QueueTypes
  <2> QED  BY <1>0, <2>2, <2>3, <2>5 DEF QueueTypes
<1>6. CASE \/ StartProcessing \/ StopProcessing \/ Events \/ UNCHANGED vars
           \/ \E t \in Threads : BeginCycle(t) \/ LoadPort(t) \/ FetchPort(t) \/ CheckReleased(t)
  BY <1>1, <1>6 DEF StartProcessing, StopProcessing, Events, PopEvent, CallCallbacks, BeginCycle, LoadPort, FetchPort, CheckReleased, vars
<1> QED  BY <1>4, <1>5, <1>6 DEF Next, Callback

\* TypeOK, with what it needs of the other parts.
LEMMA TypeStep == ASSUME TypeOK, Turns, Once, Sender, [Next]_vars PROVE TypeOK'
BY TypeParts, AppStep, LockStep, HandlerStep, CycleStep, QueueStep

-----------------------------------------------------------------------------
(* Each part of the invariant, step by step. *)

\* What a thread still has to do is of its own objects too.
LEMMA Head1 ==
  ASSUME CycleTypes, Turns, NEW t \in Threads, cycle[t].stage \in Busy
  PROVE  \A i \in DOMAIN Tail(cycle[t].todo) : ThreadOf(Tail(cycle[t].todo)[i]) = t
<1> DEFINE s == cycle[t].todo
<1>1. s \in Seq(Objs) /\ s # <<>> /\ \A i \in DOMAIN s : ThreadOf(s[i]) = t
  BY HeadObj DEF Turns
<1> HIDE DEF s
<1>2. \A i \in DOMAIN Tail(s) : i + 1 \in DOMAIN s /\ Tail(s)[i] = s[i + 1]
  BY <1>1, TailLaw
<1> QED  BY <1>1, <1>2 DEF s

\* What a thread is left with when it goes on to another callback.
TurnOk(t, c) ==
  /\ c.stage \in Busy => c.todo # <<>>
  /\ \A i \in DOMAIN c.todo : ThreadOf(c.todo[i]) = t

\* A client's cycle starts with its own object, the handler's with its list.
LEMMA TurnsStep == ASSUME TypeOK, Turns, Once, [Next]_vars PROVE Turns'
<1>0. CycleTypes /\ AppTypes /\ HandlerTypes /\ CycleTypes'
  BY TypeParts, CycleStep
<1>1. shared' = shared
  BY DEF Next, StartProcessing, StopProcessing, Events, PopEvent, CallCallbacks, BeginCycle, Callback, LoadPort, FetchPort, Process,
         CheckReleased, vars, app_vars, Application, Connect, OpenPort, ClosePort, AskRelease, TakeRelease, ReleaseTimesOut,
         Unregister, DestroyClosed, Disconnect, Send, WriteHeader, WriteBody
<1>2. \A t \in Threads : TurnOk(t, cycle[t])
  BY DEF Turns, TurnOk
<1>3. \A t \in Threads : TurnOk(t, cycle'[t])
  <2>1. ASSUME NEW t \in Threads, NEW c, cycle' = [cycle EXCEPT ![t] = c], TurnOk(t, c)
        PROVE  \A u \in Threads : TurnOk(u, cycle'[u])
    <3>1. \A u \in Threads : cycle'[u] = IF u = t THEN c ELSE cycle[u]
      BY <1>0, <2>1 DEF CycleTypes
    <3> QED  BY <1>2, <2>1, <3>1
  <2>2. ASSUME NEW t \in Threads, NEW s \in Seq(Objs), \A i \in DOMAIN s : ThreadOf(s[i]) = t PROVE TurnOk(t, Turn(s))
    <3>1. CASE s = <<>>
      BY <3>1 DEF Turn, Idle, TurnOk, Busy
    <3>2. CASE s # <<>>
      BY <2>2, <3>2 DEF Turn, TurnOk
    <3> QED  BY <3>1, <3>2
  <2>3. CASE UNCHANGED cycle
    BY <1>2, <2>3
  <2>4. ASSUME NEW t \in Threads, BeginCycle(t) PROVE \A u \in Threads : TurnOk(u, cycle'[u])
    <3>1. CASE t = Handler
      <4>1. cycle' = [cycle EXCEPT ![t] = [stage |-> "events", todo |-> <<>>, held |-> 0]]
        BY <2>4, <3>1 DEF BeginCycle, Idle
      <4>2. TurnOk(t, [stage |-> "events", todo |-> <<>>, held |-> 0])
        BY DEF TurnOk, Busy
      <4> QED  BY <2>1, <4>1, <4>2
    <3>2. CASE t # Handler
      <4>1. <<t>> \in Seq(Objs) /\ DOMAIN <<t>> = {1} /\ <<t>>[1] = t
        BY <3>2 DEF Threads
      <4>2. t \notin shared
        <5>1. t \in running
          BY <2>4 DEF BeginCycle
        <5> QED  BY <5>1 DEF Turns
      <4>3. ThreadOf(t) = t
        BY <4>2 DEF ThreadOf
      <4>4. TurnOk(t, Turn(<<t>>))
        BY <2>2, <4>1, <4>3
      <4>5. cycle' = [cycle EXCEPT ![t] = Turn(<<t>>)]
        BY <2>4, <3>2 DEF BeginCycle
      <4> QED  BY <2>1, <4>4, <4>5
    <3> QED  BY <3>1, <3>2
  <2>5. CASE CallCallbacks
    <3>1. \A i \in DOMAIN callbacks : ThreadOf(callbacks[i]) = Handler
      BY DEF Turns, ThreadOf
    <3>2. TurnOk(Handler, Turn(callbacks)) /\ Handler \in Threads
      BY <1>0, <2>2, <3>1 DEF Threads, HandlerTypes
    <3>3. cycle' = [cycle EXCEPT ![Handler] = Turn(callbacks)]
      BY <2>5 DEF CallCallbacks
    <3> QED  BY <2>1, <3>2, <3>3
  <2>6. ASSUME NEW t \in Threads, Callback(t) PROVE \A u \in Threads : TurnOk(u, cycle'[u])
    <3>1. cycle[t].stage \in Busy
      BY <2>6 DEF Callback, LoadPort, FetchPort, Process, CheckReleased, Busy
    <3>2. CASE Rest(t)
      <4>1. TurnOk(t, Turn(Tail(cycle[t].todo)))
        BY <1>0, <2>2, <3>1, HeadObj, Head1
      <4>2. cycle' = [cycle EXCEPT ![t] = Turn(Tail(cycle[t].todo))]
        BY <3>2 DEF Rest
      <4> QED  BY <2>1, <4>1, <4>2
    <3>3. ASSUME NEW stage, NEW held, Move(t, stage, held) PROVE \A u \in Threads : TurnOk(u, cycle'[u])
      <4> DEFINE c == [cycle[t] EXCEPT !.stage = stage, !.held = held]
      <4>1. cycle[t] \in [stage : Stages, todo : Seq(Objs), held : Handles]
        BY <1>0 DEF CycleTypes, CycleRecords
      <4>2. c.todo = cycle[t].todo
        BY <4>1
      <4>3. cycle' = [cycle EXCEPT ![t] = c]
        BY <1>0, <3>3 DEF Move, CycleTypes, CycleRecords
      <4> HIDE DEF c
      <4>4. TurnOk(t, c)
        BY <1>2, <3>1, <4>2 DEF TurnOk
      <4> QED  BY <2>1, <4>3, <4>4
    <3> QED  BY <2>6, <3>2, <3>3 DEF Callback, LoadPort, FetchPort, Process, CheckReleased
  <2>7. CASE UNCHANGED vars \/ StartProcessing \/ StopProcessing \/ PopEvent \/ \E o \in Objs : Application(o)
    BY <2>3, <2>7 DEF vars, StartProcessing, StopProcessing, PopEvent, Application, Connect, OpenPort, ClosePort, AskRelease,
        TakeRelease, ReleaseTimesOut, Unregister, DestroyClosed, Disconnect, Send, WriteHeader, WriteBody
  <2> QED  BY <2>4, <2>5, <2>6, <2>7 DEF Next, Events
<1>4. /\ \A i \in DOMAIN callbacks' : callbacks'[i] \in shared
      /\ \A i \in DOMAIN events' : events'[i].obj \in shared
      /\ running' \cap shared = {}
  <2>1. CASE UNCHANGED <<events, callbacks, running>>
    BY <2>1 DEF Turns
  <2>2. CASE StartProcessing \/ StopProcessing
    BY <1>0, <2>2 DEF StartProcessing, StopProcessing, Turns, AppTypes
  <2>3. ASSUME NEW o \in shared, NEW k \in {"added", "removed"}, Push(Event(k, o)), UNCHANGED <<callbacks, running>>
        PROVE  \A i \in DOMAIN events' : events'[i].obj \in shared
    <3>1. o \in Objs /\ Event(k, o).obj = o /\ Event(k, o) \in EventRecords /\ events \in Seq(EventRecords)
      BY <1>0 DEF AppTypes, Event, EventRecords, HandlerTypes
    <3>2. CASE events' = Append(events, Event(k, o))
      BY <3>1, <3>2, AppendLaw DEF Turns
    <3>3. CASE events' = events
      BY <3>3 DEF Turns
    <3> QED  BY <1>0, <2>3, <3>1, <3>2, <3>3, Pushed
  <2>4. ASSUME NEW o \in Objs, Application(o)
        PROVE  /\ \A i \in DOMAIN callbacks' : callbacks'[i] \in shared
               /\ \A i \in DOMAIN events' : events'[i].obj \in shared
               /\ running' \cap shared = {}
    <3>1. CASE (Connect(o) \/ Disconnect(o)) /\ o \in shared
      <4>1. UNCHANGED <<callbacks, running>> /\ \E k \in {"added", "removed"} : Push(Event(k, o))
        BY <3>1 DEF Connect, Disconnect
      <4> QED  BY <2>3, <3>1, <4>1 DEF Turns
    <3>2. CASE (Connect(o) \/ Disconnect(o)) /\ o \notin shared
      <4>1. UNCHANGED <<callbacks, events>> /\ running' \in {running \cup {o}, running \ {o}}
        BY <3>2 DEF Connect, Disconnect
      <4> QED  BY <3>2, <4>1 DEF Turns
    <3>3. CASE ~(Connect(o) \/ Disconnect(o))
      BY <2>1, <2>4, <3>3 DEF Application, OpenPort, ClosePort, AskRelease, TakeRelease, ReleaseTimesOut, Unregister,
                DestroyClosed, Send, WriteHeader, WriteBody, handler_vars
    <3> QED  BY <3>1, <3>2, <3>3
  <2>5. CASE PopEvent
    <3> DEFINE e == Head(events)
    <3>1. /\ events # <<>> /\ events' = Tail(events) /\ UNCHANGED <<refused, running>>
          /\ callbacks' = IF e.kind = "added" THEN Append(callbacks, e.obj) ELSE Erase(callbacks, e.obj)
      BY <2>5 DEF PopEvent
    <3>2. e = events[1] /\ 1 \in DOMAIN events /\ e \in EventRecords /\ \A i \in DOMAIN Tail(events) : i + 1 \in DOMAIN events /\ Tail(events)[i] = events[i + 1]
      BY <1>0, <3>1, TailLaw DEF HandlerTypes
    <3> HIDE DEF e
    <3>3. e.obj \in shared /\ e.obj \in Objs
      BY <3>2 DEF Turns, EventRecords
    <3>4. \A i \in DOMAIN Append(callbacks, e.obj) : Append(callbacks, e.obj)[i] \in shared
      BY <1>0, <3>3, AppendLaw DEF HandlerTypes, Turns
    <3>5. \A i \in DOMAIN Erase(callbacks, e.obj) : Erase(callbacks, e.obj)[i] \in shared
      <4>1. \A i \in DOMAIN Erase(callbacks, e.obj) : \E j \in DOMAIN callbacks : callbacks[j] = Erase(callbacks, e.obj)[i]
        BY <1>0, EraseLaw DEF HandlerTypes, Once
      <4> QED  BY <4>1 DEF Turns
    <3> QED  BY <3>1, <3>2, <3>4, <3>5 DEF Turns
  <2>6. CASE UNCHANGED vars \/ CallCallbacks \/ \E t \in Threads : BeginCycle(t) \/ Callback(t)
    BY <2>1, <2>6 DEF vars, handler_vars, CallCallbacks, BeginCycle, Callback, LoadPort, FetchPort, Process, CheckReleased
  <2> QED  BY <2>2, <2>4, <2>5, <2>6 DEF Next, Events
<1> QED  BY <1>1, <1>3, <1>4 DEF Turns, TurnOk, ThreadOf

\* Only OpenPort shows a port, and ClosePort takes it away before it is unregistered.
LEMMA PortsStep == ASSUME TypeOK, Ports, [Next]_vars PROVE Ports'
<1>0. AppTypes /\ AppTypes'
  BY TypeParts, AppStep
<1>1. CASE UNCHANGED <<phase, port_vars>>
  BY <1>1 DEF Ports, port_vars
<1>2. ASSUME NEW o \in Objs, Application(o) PROVE Ports'
  <2>1. SUFFICES ASSUME NEW q \in Objs PROVE port'[q] = IF phase'[q] \in OpenPhases THEN registered'[q] ELSE 0
    BY DEF Ports
  <2>2. port[q] = IF phase[q] \in OpenPhases THEN registered[q] ELSE 0
    BY DEF Ports
  <2>3. q # o => UNCHANGED <<phase[q], port[q], registered[q]>>
    BY <1>0, <1>2 DEF AppTypes, Application, Connect, OpenPort, ClosePort, AskRelease, TakeRelease, ReleaseTimesOut, Unregister,
          DestroyClosed, Disconnect, Send, WriteHeader, WriteBody, Goto, port_vars
  <2>4. CASE q = o
    <3>1. \/ port'[o] = port[o] /\ registered'[o] = registered[o] /\ (phase[o] \in OpenPhases <=> phase'[o] \in OpenPhases)
          \/ port'[o] = registered'[o] /\ phase'[o] \in OpenPhases
          \/ port'[o] = 0 /\ phase'[o] \notin OpenPhases
          \/ port'[o] = port[o] /\ phase[o] \notin OpenPhases /\ phase'[o] \notin OpenPhases
      <4>1. CASE Connect(o) \/ AskRelease(o) \/ TakeRelease(o) \/ ReleaseTimesOut(o) \/ DestroyClosed(o) \/ Disconnect(o)
                 \/ Send(o) \/ WriteHeader(o) \/ WriteBody(o)
        <5>1. UNCHANGED port_vars
          BY <4>1 DEF Connect, AskRelease, TakeRelease, ReleaseTimesOut, DestroyClosed, Disconnect, Send, WriteHeader, WriteBody
        <5>2. phase[o] \in OpenPhases <=> phase'[o] \in OpenPhases
          BY <1>0, <4>1 DEF AppTypes, Connect, AskRelease, TakeRelease, ReleaseTimesOut, DestroyClosed, Disconnect, Send,
                WriteHeader, WriteBody, Goto, OpenPhases
        <5> QED  BY <5>1, <5>2 DEF port_vars
      <4>2. CASE OpenPort(o)
        BY <1>0, <4>2 DEF AppTypes, OpenPort, Goto, OpenPhases
      <4>3. CASE \E last \in BOOLEAN : ClosePort(o, last)
        BY <1>0, <4>3 DEF AppTypes, ClosePort, Goto, OpenPhases
      <4>4. CASE Unregister(o)
        BY <1>0, <4>4 DEF AppTypes, Unregister, Goto, OpenPhases
      <4> QED  BY <1>2, <4>1, <4>2, <4>3, <4>4 DEF Application
    <3> QED  BY <2>2, <2>4, <3>1
  <2> QED  BY <2>2, <2>3, <2>4
<1>3. CASE \/ StartProcessing \/ StopProcessing \/ Events \/ UNCHANGED vars
           \/ \E t \in Threads : BeginCycle(t) \/ Callback(t)
  BY <1>1, <1>3 DEF StartProcessing, StopProcessing, Events, PopEvent, CallCallbacks, BeginCycle, Callback, LoadPort, FetchPort, Process,
        CheckReleased, vars, app_vars
<1> QED  BY <1>2, <1>3 DEF Next

\* A callback works on a port because it did, or because it has just looked.
LEMMA ComesToUse ==
  ASSUME CycleTypes, [Next]_vars, NEW t \in Threads, NEW o \in Objs, UsesPort(t, o)'
  PROVE  \/ cycle'[t] = cycle[t] /\ UsesPort(t, o)
         \/ /\ FetchPort(t) /\ o = Head(cycle[t].todo) /\ cycle'[t].held = port[o]
            /\ UNCHANGED <<app_vars, port_vars, lock_vars>>
<1>1. cycle'[t].stage = "process" /\ o = Head(cycle'[t].todo)
  BY DEF UsesPort
<1>2. CASE cycle'[t] = cycle[t]
  BY <1>1, <1>2 DEF UsesPort
<1>3. ASSUME NEW s PROVE Turn(s).stage # "process"
  BY DEF Turn, Idle
<1>4. ASSUME NEW u \in Threads, NEW c, cycle' = [cycle EXCEPT ![u] = c] PROVE cycle'[t] = IF u = t THEN c ELSE cycle[t]
  BY <1>4 DEF CycleTypes
<1>5. ASSUME NEW u \in Threads, NEW s, cycle' = [cycle EXCEPT ![u] = Turn(s)] PROVE cycle'[t] = cycle[t]
  BY <1>1, <1>3, <1>4, <1>5
<1>6. ASSUME NEW u \in Threads, NEW stage, NEW held, Move(u, stage, held)
      PROVE  \/ cycle'[t] = cycle[t]
             \/ u = t /\ cycle'[t].stage = stage /\ cycle'[t].held = held /\ cycle'[t].todo = cycle[t].todo
  <2> DEFINE c == [cycle[u] EXCEPT !.stage = stage, !.held = held]
  <2>1. cycle[u] \in [stage : Stages, todo : Seq(Objs), held : Handles]
    BY DEF CycleTypes, CycleRecords
  <2>2. c.todo = cycle[u].todo /\ c.stage = stage /\ c.held = held
    BY <2>1
  <2>3. cycle' = [cycle EXCEPT ![u] = c]
    BY <1>6 DEF Move, CycleTypes, CycleRecords
  <2> HIDE DEF c
  <2> QED  BY <1>4, <2>2, <2>3
<1>7. CASE \/ StartProcessing \/ StopProcessing \/ PopEvent \/ UNCHANGED vars \/ \E p \in Objs : Application(p)
  <2>1. UNCHANGED cycle
    BY <1>7 DEF vars, StartProcessing, StopProcessing, PopEvent, Application, Connect, OpenPort, ClosePort, AskRelease,
        TakeRelease, ReleaseTimesOut, Unregister, DestroyClosed, Disconnect, Send, WriteHeader, WriteBody
  <2> QED  BY <1>2, <2>1
<1>8. CASE CallCallbacks
  BY <1>2, <1>5, <1>8 DEF CallCallbacks, Threads
<1>9. ASSUME NEW u \in Threads, BeginCycle(u) PROVE cycle'[t] = cycle[t]
  <2>1. CASE u = Handler
    <3>1. [Idle EXCEPT !.stage = "events"].stage # "process"
      BY DEF Idle
    <3> QED  BY <1>1, <1>4, <1>9, <2>1, <3>1 DEF BeginCycle
  <2>2. CASE u # Handler
    BY <1>5, <1>9, <2>2 DEF BeginCycle
  <2> QED  BY <2>1, <2>2
<1>10. ASSUME NEW u \in Threads, LoadPort(u) \/ Process(u) \/ CheckReleased(u) PROVE cycle'[t] = cycle[t]
  <2>1. Rest(u) \/ Move(u, "fetch", 0) \/ Move(u, "check", 0) \/ Move(u, "check", cycle[u].held)
    BY <1>10 DEF LoadPort, Process, CheckReleased
  <2> QED  BY <1>1, <1>5, <1>6, <2>1 DEF Rest
<1>11. ASSUME NEW u \in Threads, FetchPort(u), cycle'[t] # cycle[t]
       PROVE  /\ FetchPort(t) /\ o = Head(cycle[t].todo) /\ cycle'[t].held = port[o]
              /\ UNCHANGED <<app_vars, port_vars, lock_vars>>
  <2> DEFINE q == Head(cycle[u].todo)
  <2>1. Move(u, "process", port[q]) /\ UNCHANGED <<app_vars, port_vars, lock_vars>>
    BY <1>11 DEF FetchPort
  <2>2. u = t /\ cycle'[t].held = port[q] /\ cycle'[t].todo = cycle[t].todo
    BY <1>6, <1>11, <2>1
  <2> QED  BY <1>1, <1>11, <2>1, <2>2
<1> QED  BY <1>2, <1>7, <1>8, <1>9, <1>10, <1>11 DEF Next, Callback, Events

\* A close that takes the token of the very callback it found at work comes back
\* after that one has left the port; the other closes are in the histories.
LEMMA HandedStep == ASSUME TypeOK, Turns, Ports, Handed, [Next]_vars PROVE Handed'
<1>0. CycleTypes /\ AppTypes /\ LockTypes /\ CycleTypes'
  BY TypeParts, CycleStep
<1> DEFINE Noted(h, t, o) == h \in late[o] \cup primed[o] /\ t \in caught
           Open(h, o) == h = registered[o] /\ phase[o] \in OpenPhases
           Waits(h, t, o) == /\ h = registered[o] /\ phase[o] \in {"closing", "waiting"}
                             /\ t \in caught /\ cleanup[o] = 0
<1> SUFFICES ASSUME NEW o \in Objs, NEW t \in Threads, UsesPort(t, o)', cycle'[t].held # 0
             PROVE  Noted(cycle[t].held, t, o)' \/ Open(cycle[t].held, o)' \/ Waits(cycle[t].held, t, o)'
  BY DEF Handed
<1>2. CASE /\ FetchPort(t) /\ o = Head(cycle[t].todo) /\ cycle'[t].held = port[o]
           /\ UNCHANGED <<app_vars, port_vars, lock_vars>>
  <2>1. phase[o] \in OpenPhases /\ port[o] = registered[o]
    BY <1>2 DEF Ports
  <2> QED  BY <1>2, <2>1 DEF app_vars, port_vars, OpenPhases
<1>3. CASE cycle'[t] = cycle[t] /\ UsesPort(t, o)
  <2> DEFINE h == cycle[t].held
  <2>0. h' = h /\ cycle'[t].held = h
    BY <1>3
  <2>1. Noted(h, t, o) \/ Open(h, o) \/ Waits(h, t, o)
    BY <1>3 DEF Handed
  <2> HIDE DEF h
  <2>2. cycle[t].stage = "process" /\ o = Head(cycle[t].todo) /\ ThreadOf(o) = t
    BY <1>0, <1>3, HeadObj DEF UsesPort, Busy
  <2>3. CASE UNCHANGED <<registered, phase, cleanup, primed, late, caught>>
    BY <2>0, <2>1, <2>3
  <2>4. ASSUME NEW p \in Objs, Application(p), p # o
        PROVE  UNCHANGED <<registered[o], phase[o], cleanup[o], primed[o], late[o]>> /\ caught \subseteq caught'
    BY <1>0, <2>4 DEF AppTypes, LockTypes, Application, Connect, OpenPort, ClosePort, NoteClose, AskRelease, TakeRelease,
          ReleaseTimesOut, Unregister, DestroyClosed, Disconnect, Send, WriteHeader, WriteBody, Goto, port_vars, lock_vars
  <2>5. ASSUME Application(o) PROVE Noted(h, t, o)' \/ Open(h, o)' \/ Waits(h, t, o)'
    <3>1. /\ late[o] \subseteq late'[o] /\ primed[o] \subseteq primed'[o] /\ caught \subseteq caught'
      <4>1. CASE \E last \in BOOLEAN : ClosePort(o, last)
        BY <1>0, <4>1 DEF LockTypes, ClosePort, NoteClose
      <4>2. CASE ReleaseTimesOut(o)
        BY <1>0, <4>2 DEF LockTypes, ReleaseTimesOut
      <4>3. CASE ~(ReleaseTimesOut(o) \/ \E last \in BOOLEAN : ClosePort(o, last))
        BY <2>5, <4>3 DEF Application, Connect, OpenPort, AskRelease, TakeRelease, Unregister, DestroyClosed, Disconnect, Send,
              WriteHeader, WriteBody, lock_vars
      <4> QED  BY <4>1, <4>2, <4>3
    <3>2. CASE Noted(h, t, o)
      BY <2>0, <3>1, <3>2
    <3>3. CASE Open(h, o)
      <4>1. ~(Connect(o) \/ OpenPort(o) \/ AskRelease(o) \/ TakeRelease(o) \/ ReleaseTimesOut(o) \/ Unregister(o)
              \/ DestroyClosed(o) \/ Disconnect(o))
        BY <3>3 DEF Connect, OpenPort, AskRelease, TakeRelease, ReleaseTimesOut, Unregister, DestroyClosed, Disconnect, Goto,
              OpenPhases
      <4>2. CASE \E last \in BOOLEAN : ClosePort(o, last)
        <5>1. /\ phase'[o] = "closing" /\ UNCHANGED <<registered, cleanup>>
              /\ caught' = caught \cup {u \in Threads : UsesPort(u, o)}
              /\ primed' = [primed EXCEPT ![o] = IF cleanup[o] = 0 THEN @ ELSE @ \cup {registered[o]}]
          BY <1>0, <4>2 DEF ClosePort, NoteClose, Goto, AppTypes
        <5>2. t \in caught'
          BY <1>3, <5>1
        <5>3. cleanup[o] # 0 => registered[o] \in primed'[o]
          BY <1>0, <5>1 DEF LockTypes
        <5> QED  BY <2>0, <3>3, <5>1, <5>2, <5>3
      <4>3. CASE Send(o) \/ WriteHeader(o) \/ WriteBody(o)
        BY <1>0, <2>0, <3>3, <4>3 DEF Send, WriteHeader, WriteBody, Goto, AppTypes, port_vars, OpenPhases
      <4> QED  BY <2>5, <4>1, <4>2, <4>3 DEF Application
    <3>4. CASE Waits(h, t, o)
      <4>1. ~(Connect(o) \/ OpenPort(o) \/ (\E last \in BOOLEAN : ClosePort(o, last)) \/ Unregister(o)
              \/ DestroyClosed(o) \/ Disconnect(o) \/ Send(o) \/ WriteHeader(o) \/ WriteBody(o))
        BY <3>4 DEF Connect, OpenPort, ClosePort, Unregister, DestroyClosed, Disconnect, Send, WriteHeader, WriteBody, Goto
      <4>2. ~TakeRelease(o)
        BY <1>0, <3>4 DEF TakeRelease, LockTypes
      <4>3. CASE AskRelease(o)
        BY <1>0, <2>0, <3>4, <4>3 DEF AskRelease, Goto, AppTypes, port_vars
      <4>4. CASE ReleaseTimesOut(o)
        <5>1. registered[o] \in late'[o]
          BY <1>0, <4>4 DEF ReleaseTimesOut, LockTypes
        <5> QED  BY <2>0, <3>1, <3>4, <5>1
      <4> QED  BY <2>5, <4>1, <4>2, <4>3, <4>4 DEF Application
    <3> QED  BY <2>1, <3>2, <3>3, <3>4
  <2>6. ASSUME NEW u \in Threads, CheckReleased(u)
        PROVE  UNCHANGED <<registered, phase, primed, late, cleanup[o]>> /\ (t \in caught => t \in caught')
    <3>1. Head(cycle[u].todo) \in Objs /\ ThreadOf(Head(cycle[u].todo)) = u /\ cycle[u].stage = "check"
      BY <1>0, <2>6, HeadObj DEF CheckReleased, Busy
    <3>2. Head(cycle[u].todo) # o /\ u # t
      BY <2>2, <3>1
    <3> DEFINE q == Head(cycle[u].todo)
    <3>3. /\ UNCHANGED <<registered, phase, primed, late>> /\ caught' = caught \ {u}
          /\ cleanup' = cleanup \/ \E n \in Release(cleanup[q]) : cleanup' = [cleanup EXCEPT ![q] = n]
      BY <2>6 DEF CheckReleased, app_vars, port_vars
    <3> HIDE DEF q
    <3> QED  BY <1>0, <3>2, <3>3 DEF LockTypes, q
  <2>7. CASE \/ StartProcessing \/ StopProcessing \/ Events \/ UNCHANGED vars
             \/ \E u \in Threads : BeginCycle(u) \/ LoadPort(u) \/ FetchPort(u) \/ Process(u)
    BY <2>3, <2>7 DEF StartProcessing, StopProcessing, Events, PopEvent, CallCallbacks, BeginCycle, LoadPort, FetchPort, Process,
        vars, app_vars, port_vars, lock_vars
  <2>8. CASE \E p \in Objs : p # o /\ Application(p)
    BY <2>0, <2>1, <2>4, <2>8
  <2>9. CASE \E u \in Threads : CheckReleased(u)
    BY <2>0, <2>1, <2>6, <2>9
  <2> QED  BY <2>0, <2>5, <2>7, <2>8, <2>9 DEF Next, Callback
<1> QED  BY <1>0, <1>2, <1>3, ComesToUse

-----------------------------------------------------------------------------
(* The handler's list and its events. *)

\* The two kinds of events.
Kinds == {"added", "removed"}

\* An event is its kind and its object.
LEMMA EventLaw ==
  /\ \A k, j, o, q : Event(k, o) = Event(j, q) <=> k = j /\ o = q
  /\ \A k, o : Event(k, o).kind = k /\ Event(k, o).obj = o
  /\ \A e \in EventRecords : e.kind \in Kinds /\ e.obj \in Objs /\ e = Event(e.kind, e.obj)
BY DEF Event, EventRecords, Kinds

\* What a new event does to the queue: nothing, when it is full.
LEMMA PushLaw ==
  ASSUME HandlerTypes, Once, NEW o \in Objs, NEW k \in Kinds, Push(Event(k, o)), ~Queued(k, o), k = "added" => ~Queued("removed", o)
  PROVE  /\ \A i, j \in DOMAIN events' : events'[i] = events'[j] => i = j
         /\ \A i, j \in DOMAIN events' :
              events'[i].obj = events'[j].obj /\ events'[i].kind = "added" /\ events'[j].kind = "removed" => i < j
         /\ \/ refused' = refused \cup {o} /\ \A j, q : Queued(j, q)' <=> Queued(j, q)
            \/ refused' = refused /\ \A j, q : Queued(j, q)' <=> Queued(j, q) \/ (j = k /\ q = o)
<1>1. Event(k, o) \in EventRecords
  BY DEF Event, EventRecords, Kinds
<1>2. CASE events' = events /\ refused' = refused \cup {o}
  <2>1. \A j, q : Queued(j, q)' <=> Queued(j, q)
    BY <1>2 DEF Queued
  <2> QED  BY <1>2, <2>1 DEF Once
<1>3. CASE events' = Append(events, Event(k, o)) /\ refused' = refused
  <2> DEFINE n == Len(events)
             a == Append(events, Event(k, o))
  <2>1. /\ events \in Seq(EventRecords) /\ n \in Nat /\ DOMAIN events = 1..n /\ DOMAIN a = 1..(n + 1)
        /\ (\A i \in 1..n : a[i] = events[i]) /\ a[n + 1] = Event(k, o)
    BY <1>1, AppendLaw DEF HandlerTypes
  <2> HIDE DEF a, n
  <2>2. \A i \in 1..(n + 1) : i \in 1..n \/ i = n + 1
    BY <2>1
  <2>3. \A i \in 1..n : i \in 1..(n + 1) /\ i < n + 1
    BY <2>1
  <2>4. n + 1 \in 1..(n + 1)
    BY <2>1
  <2>5. \A i \in 1..n : events[i] # Event(k, o)
    BY <2>1 DEF Queued
  <2>6. ASSUME NEW i \in 1..(n + 1), NEW j \in 1..(n + 1), a[i] = a[j] PROVE i = j
    <3>1. CASE i \in 1..n /\ j \in 1..n
      BY <2>1, <2>6, <3>1 DEF Once
    <3>2. CASE i = n + 1 /\ j = n + 1
      BY <3>2
    <3>3. CASE i \in 1..n /\ j = n + 1
      BY <2>1, <2>5, <2>6, <3>3
    <3>4. CASE i = n + 1 /\ j \in 1..n
      BY <2>1, <2>5, <2>6, <3>4
    <3> QED  BY <2>2, <3>1, <3>2, <3>3, <3>4
  <2>7. ASSUME NEW i \in 1..(n + 1), NEW j \in 1..(n + 1), a[i].obj = a[j].obj, a[i].kind = "added", a[j].kind = "removed"
        PROVE  i < j
    <3>1. CASE i \in 1..n /\ j \in 1..n
      BY <2>1, <2>7, <3>1 DEF Once
    <3>2. CASE i = n + 1 /\ j = n + 1
      BY <2>7, <3>2
    <3>3. CASE i \in 1..n /\ j = n + 1
      BY <2>3, <3>3
    <3>4. CASE i = n + 1 /\ j \in 1..n
      <4>1. k = "added" /\ events[j].obj = o /\ events[j].kind = "removed"
        BY <2>1, <2>7, <3>4, EventLaw
      <4>2. events[j] \in EventRecords
        BY <2>1, <3>4
      <4>3. events[j] = Event("removed", o)
        BY <4>1, <4>2, EventLaw
      <4>4. Queued("removed", o)
        BY <2>1, <3>4, <4>3 DEF Queued
      <4> QED  BY <4>1, <4>4
    <3> QED  BY <2>2, <3>1, <3>2, <3>3, <3>4
  <2>8. events' = a
    BY <1>3 DEF a
  <2>9. ASSUME NEW j, NEW q PROVE Queued(j, q)' <=> Queued(j, q) \/ (j = k /\ q = o)
    <3>1. Queued(j, q)' <=> \E i \in 1..(n + 1) : a[i] = Event(j, q)
      BY <2>1, <2>8 DEF Queued
    <3>2. Queued(j, q) <=> \E i \in 1..n : events[i] = Event(j, q)
      BY <2>1 DEF Queued
    <3>3. (j = k /\ q = o) <=> Event(j, q) = Event(k, o)
      BY EventLaw
    <3>4. (\E i \in 1..(n + 1) : a[i] = Event(j, q)) <=> (\E i \in 1..n : a[i] = Event(j, q)) \/ a[n + 1] = Event(j, q)
      BY <2>2, <2>3, <2>4
    <3> QED  BY <2>1, <3>1, <3>2, <3>3, <3>4
  <2> QED  BY <1>3, <2>1, <2>6, <2>7, <2>8, <2>9
<1> QED  BY <1>2, <1>3, Pushed DEF Kinds

\* What taking an event does to the queue and to the list.
LEMMA PopLaw ==
  ASSUME HandlerTypes, Once, PopEvent
  PROVE  \E k \in Kinds, o \in Objs :
           /\ Queued(k, o) /\ (k = "removed" => ~Queued("added", o))
           /\ \A j, q : Queued(j, q)' <=> Queued(j, q) /\ ~(j = k /\ q = o)
           /\ \A q : Listed(q)' <=> IF k = "added" THEN Listed(q) \/ q = o ELSE Listed(q) /\ q # o
           /\ \A i, j \in DOMAIN events' : events'[i] = events'[j] => i = j
           /\ \A i, j \in DOMAIN events' :
                events'[i].obj = events'[j].obj /\ events'[i].kind = "added" /\ events'[j].kind = "removed" => i < j
           /\ \A i, j \in DOMAIN callbacks' : callbacks'[i] = callbacks'[j] => i = j
<1> DEFINE e == Head(events)
           k == e.kind
           o == e.obj
           n == Len(events)
           z == Tail(events)
<1>1. /\ events # <<>> /\ events' = z
      /\ callbacks' = IF k = "added" THEN Append(callbacks, o) ELSE Erase(callbacks, o)
  BY DEF PopEvent
<1>2. /\ n \in Nat \ {0} /\ DOMAIN events = 1..n /\ e = events[1] /\ e \in EventRecords /\ 1 \in 1..n
      /\ z \in Seq(EventRecords) /\ DOMAIN z = 1..(n - 1) /\ \A i \in 1..(n - 1) : i + 1 \in 1..n /\ z[i] = events[i + 1]
  BY <1>1, TailLaw DEF HandlerTypes
<1> HIDE DEF z, n, e
<1>3. k \in Kinds /\ o \in Objs /\ e = Event(k, o)
  BY <1>2, EventLaw
<1> HIDE DEF k, o
<1>4. \A i \in 1..n : i = 1 \/ (i - 1 \in 1..(n - 1) /\ events[i] = z[i - 1])
  <2>1. ASSUME NEW i \in 1..n, i # 1 PROVE i - 1 \in 1..(n - 1) /\ events[i] = z[i - 1]
    <3>1. i - 1 \in 1..(n - 1) /\ (i - 1) + 1 = i
      BY <1>2, <2>1
    <3>2. z[i - 1] = events[(i - 1) + 1]
      BY <1>2, <3>1
    <3> QED  BY <3>1, <3>2
  <2> QED  BY <2>1
<1>5. Queued(k, o)
  BY <1>2, <1>3 DEF Queued
<1>6. k = "removed" => ~Queued("added", o)
  <2>1. SUFFICES ASSUME k = "removed", NEW i \in 1..n, events[i] = Event("added", o) PROVE FALSE
    BY <1>2 DEF Queued
  <2>2. events[1].obj = o /\ events[1].kind = "removed" /\ events[i].obj = o /\ events[i].kind = "added"
    BY <1>2, <1>3, <2>1, EventLaw
  <2>3. i < 1
    BY <1>2, <2>2 DEF Once
  <2> QED  BY <1>2, <2>3
<1>7. ASSUME NEW j, NEW q PROVE Queued(j, q)' <=> Queued(j, q) /\ ~(j = k /\ q = o)
  <2>1. Queued(j, q)' <=> \E i \in 1..(n - 1) : z[i] = Event(j, q)
    BY <1>1, <1>2 DEF Queued
  <2>2. Queued(j, q) <=> \E i \in 1..n : events[i] = Event(j, q)
    BY <1>2 DEF Queued
  <2>3. (j = k /\ q = o) <=> Event(j, q) = e
    BY <1>3, EventLaw
  <2>4. ASSUME NEW i \in 1..(n - 1) PROVE z[i] # e
    <3>1. i + 1 \in 1..n /\ z[i] = events[i + 1] /\ i + 1 # 1
      BY <1>2
    <3>2. events[i + 1] # events[1]
      BY <1>2, <3>1 DEF Once
    <3> QED  BY <1>2, <3>1, <3>2
  <2> QED  BY <1>2, <1>4, <2>1, <2>2, <2>3, <2>4
<1>8. /\ \A i, j \in 1..(n - 1) : z[i] = z[j] => i = j
      /\ \A i, j \in 1..(n - 1) : z[i].obj = z[j].obj /\ z[i].kind = "added" /\ z[j].kind = "removed" => i < j
  <2>1. ASSUME NEW i \in 1..(n - 1), NEW j \in 1..(n - 1) PROVE i + 1 \in 1..n /\ j + 1 \in 1..n /\ z[i] = events[i + 1] /\ z[j] = events[j + 1]
    BY <1>2
  <2>2. ASSUME NEW i \in 1..(n - 1), NEW j \in 1..(n - 1), z[i] = z[j] PROVE i = j
    <3>0. \A x, y \in 1..n : events[x] = events[y] => x = y
      BY <1>2 DEF Once
    <3>1. i + 1 = j + 1
      BY <2>1, <2>2, <3>0
    <3> QED  BY <3>1
  <2>3. ASSUME NEW i \in 1..(n - 1), NEW j \in 1..(n - 1), z[i].obj = z[j].obj, z[i].kind = "added", z[j].kind = "removed" PROVE i < j
    <3>0. \A x, y \in 1..n : events[x].obj = events[y].obj /\ events[x].kind = "added" /\ events[y].kind = "removed" => x < y
      BY <1>2 DEF Once
    <3>1. i + 1 < j + 1
      BY <2>1, <2>3, <3>0
    <3> QED  BY <3>1
  <2> QED  BY <2>2, <2>3
<1>12. /\ \A i, j \in DOMAIN events' : events'[i] = events'[j] => i = j
       /\ \A i, j \in DOMAIN events' :
            events'[i].obj = events'[j].obj /\ events'[i].kind = "added" /\ events'[j].kind = "removed" => i < j
  BY <1>1, <1>2, <1>8
<1>13. \A j, q : Queued(j, q)' <=> Queued(j, q) /\ ~(j = k /\ q = o)
  BY <1>7
<1>9. callbacks \in Seq(Objs) /\ \A i, j \in DOMAIN callbacks : callbacks[i] = callbacks[j] => i = j
  BY DEF HandlerTypes, Once
<1>10. CASE k = "added"
  <2> DEFINE m == Len(callbacks)
             a == Append(callbacks, o)
  <2>1. /\ m \in Nat /\ DOMAIN callbacks = 1..m /\ DOMAIN a = 1..(m + 1) /\ (\A i \in 1..m : a[i] = callbacks[i]) /\ a[m + 1] = o
    BY <1>3, <1>9, AppendLaw
  <2>2. callbacks' = a
    BY <1>1, <1>10
  <2>3. \A i \in 1..m : callbacks[i] # o
    BY <1>3, <1>5, <1>10, <2>1 DEF Once, Listed
  <2> HIDE DEF m, a
  <2>4. \A i \in 1..(m + 1) : i \in 1..m \/ i = m + 1
    BY <2>1
  <2>5. (\A i \in 1..m : i \in 1..(m + 1)) /\ m + 1 \in 1..(m + 1)
    BY <2>1
  <2>6. \A q : Listed(q)' <=> Listed(q) \/ q = o
    <3>1. ASSUME NEW q PROVE Listed(q)' <=> Listed(q) \/ q = o
      <4>1. Listed(q)' <=> \E i \in 1..(m + 1) : a[i] = q
        BY <2>1, <2>2 DEF Listed
      <4>2. Listed(q) <=> \E i \in 1..m : callbacks[i] = q
        BY <2>1 DEF Listed
      <4> QED  BY <2>1, <2>4, <2>5, <4>1, <4>2
    <3> QED  BY <3>1
  <2>7. \A i, j \in 1..(m + 1) : a[i] = a[j] => i = j
    BY <1>9, <2>1, <2>3, <2>4
  <2>8. \A i, j \in DOMAIN callbacks' : callbacks'[i] = callbacks'[j] => i = j
    BY <2>1, <2>2, <2>7
  <2>9. \A q : Listed(q)' <=> IF k = "added" THEN Listed(q) \/ q = o ELSE Listed(q) /\ q # o
    BY <1>10, <2>6
  <2> QED  BY <1>3, <1>5, <1>6, <1>12, <1>13, <2>8, <2>9
<1>11. CASE k = "removed"
  <2> DEFINE a == Erase(callbacks, o)
  <2>1. callbacks' = a
    BY <1>1, <1>11
  <2>2. /\ \A i, j \in DOMAIN a : a[i] = a[j] => i = j
        /\ \A i \in DOMAIN a : a[i] # o /\ \E j \in DOMAIN callbacks : callbacks[j] = a[i]
        /\ \A j \in DOMAIN callbacks : callbacks[j] # o => \E i \in DOMAIN a : a[i] = callbacks[j]
    BY <1>9, EraseLaw
  <2> HIDE DEF a
  <2>3. \A q : Listed(q)' <=> Listed(q) /\ q # o
    <3>1. ASSUME NEW q PROVE Listed(q)' <=> Listed(q) /\ q # o
      <4>1. Listed(q)' <=> \E i \in DOMAIN a : a[i] = q
        BY <2>1 DEF Listed
      <4>2. Listed(q) <=> \E i \in DOMAIN callbacks : callbacks[i] = q
        BY DEF Listed
      <4> QED  BY <2>2, <4>1, <4>2
    <3> QED  BY <3>1
  <2>4. \A q : Listed(q)' <=> IF k = "added" THEN Listed(q) \/ q = o ELSE Listed(q) /\ q # o
    BY <1>11, <2>3
  <2>5. \A i, j \in DOMAIN callbacks' : callbacks'[i] = callbacks'[j] => i = j
    BY <2>1, <2>2
  <2> QED  BY <1>3, <1>5, <1>6, <1>12, <1>13, <2>4, <2>5
<1> QED  BY <1>3, <1>10, <1>11 DEF Kinds

\* The states that the invariants of the list tell apart.
LEMMA Elsewhere ==
  ASSUME AppTypes, NEW o \in Objs, Application(o), ~Connect(o), ~Disconnect(o)
  PROVE  /\ UNCHANGED handler_vars
         /\ \A q \in Objs : (phase'[q] = "none" <=> phase[q] = "none") /\ (phase'[q] = "gone" <=> phase[q] = "gone")
<1>1. UNCHANGED handler_vars
  BY DEF Application, OpenPort, ClosePort, AskRelease, TakeRelease, ReleaseTimesOut, Unregister, DestroyClosed, Send,
         WriteHeader, WriteBody
<1>2. \E to : phase' = [phase EXCEPT ![o] = to] /\ to # "none" /\ to # "gone" /\ phase[o] # "none" /\ phase[o] # "gone"
  BY DEF Application, OpenPort, ClosePort, AskRelease, TakeRelease, ReleaseTimesOut, Unregister, DestroyClosed, Send,
         WriteHeader, WriteBody, Goto
<1> QED  BY <1>1, <1>2 DEF AppTypes

\* Connect adds an object once, Disconnect removes it once, and the handler takes
\* the events in their order.
LEMMA ListStep == ASSUME TypeOK, Turns, Once, Remembered, [Next]_vars PROVE Once' /\ Remembered'
<1>0. AppTypes /\ HandlerTypes
  BY TypeParts
<1>1. ASSUME UNCHANGED handler_vars,
             \A q \in Objs : (phase'[q] = "none" <=> phase[q] = "none") /\ (phase'[q] = "gone" <=> phase[q] = "gone")
      PROVE  Once' /\ Remembered'
  <2>1. UNCHANGED <<events, callbacks, refused>>
    BY <1>1 DEF handler_vars
  <2>2. \A q : (Listed(q)' <=> Listed(q)) /\ \A k : Queued(k, q)' <=> Queued(k, q)
    BY <2>1 DEF Listed, Queued
  <2>3. Once'
    BY <1>1, <2>1, <2>2 DEF Once
  <2>4. Remembered'
    BY <1>1, <2>1, <2>2 DEF Remembered
  <2> QED  BY <2>3, <2>4
<1>2. ASSUME NEW o \in Objs, Connect(o) PROVE Once' /\ Remembered'
  <2>1. phase[o] = "none" /\ phase' = [phase EXCEPT ![o] = "idle"] /\ UNCHANGED callbacks
    BY <1>2 DEF Connect, Goto
  <2>2. phase'[o] = "idle" /\ \A q \in Objs : q # o => phase'[q] = phase[q]
    BY <1>0, <2>1 DEF AppTypes
  <2>3. ~Listed(o) /\ ~Queued("added", o) /\ ~Queued("removed", o)
    BY <2>1 DEF Once
  <2>4. \A q : Listed(q)' <=> Listed(q)
    BY <2>1 DEF Listed
  <2>5. CASE o \in shared
    <3>1. Push(Event("added", o))
      BY <1>2, <2>5 DEF Connect
    <3>2. /\ \A i, j \in DOMAIN events' : events'[i] = events'[j] => i = j
          /\ \A i, j \in DOMAIN events' :
               events'[i].obj = events'[j].obj /\ events'[i].kind = "added" /\ events'[j].kind = "removed" => i < j
          /\ \/ refused' = refused \cup {o} /\ \A j, q : Queued(j, q)' <=> Queued(j, q)
             \/ refused' = refused /\ \A j, q : Queued(j, q)' <=> Queued(j, q) \/ (j = "added" /\ q = o)
      BY <1>0, <2>3, <3>1, PushLaw DEF Kinds
    <3>3. \A q \in Objs : /\ Listed(q)' => phase'[q] # "none" /\ ~Queued("added", q)'
                          /\ Queued("added", q)' => phase'[q] # "none"
                          /\ Queued("removed", q)' => phase'[q] = "gone"
      BY <2>2, <2>3, <2>4, <3>2 DEF Once
    <3>4. \A i, j \in DOMAIN callbacks' : callbacks'[i] = callbacks'[j] => i = j
      BY <2>1 DEF Once
    <3>5. Once'
      BY <3>2, <3>3, <3>4 DEF Once
    <3>6. Remembered'
      BY <2>2, <2>4, <3>2 DEF Remembered
    <3> QED  BY <3>5, <3>6
  <2>6. CASE o \notin shared
    <3>1. UNCHANGED <<events, refused>>
      BY <1>2, <2>6 DEF Connect
    <3>2. \A q, k : Queued(k, q)' <=> Queued(k, q)
      BY <3>1 DEF Queued
    <3>3. Once'
      BY <2>1, <2>2, <2>3, <2>4, <3>1, <3>2 DEF Once
    <3>4. Remembered'
      BY <2>2, <2>4, <3>1, <3>2 DEF Remembered
    <3> QED  BY <3>3, <3>4
  <2> QED  BY <2>5, <2>6
<1>3. ASSUME NEW o \in Objs, Disconnect(o) PROVE Once' /\ Remembered'
  <2>1. phase[o] = "disconnecting" /\ phase' = [phase EXCEPT ![o] = "gone"] /\ UNCHANGED callbacks
    BY <1>3 DEF Disconnect, Goto
  <2>2. phase'[o] = "gone" /\ \A q \in Objs : q # o => phase'[q] = phase[q]
    BY <1>0, <2>1 DEF AppTypes
  <2>3. ~Queued("removed", o)
    BY <2>1 DEF Once
  <2>4. \A q : Listed(q)' <=> Listed(q)
    BY <2>1 DEF Listed
  <2>5. CASE o \in shared
    <3>1. Push(Event("removed", o))
      BY <1>3, <2>5 DEF Disconnect
    <3>2. /\ \A i, j \in DOMAIN events' : events'[i] = events'[j] => i = j
          /\ \A i, j \in DOMAIN events' :
               events'[i].obj = events'[j].obj /\ events'[i].kind = "added" /\ events'[j].kind = "removed" => i < j
          /\ \/ refused' = refused \cup {o} /\ \A j, q : Queued(j, q)' <=> Queued(j, q)
             \/ refused' = refused /\ \A j, q : Queued(j, q)' <=> Queued(j, q) \/ (j = "removed" /\ q = o)
      BY <1>0, <2>3, <3>1, PushLaw DEF Kinds
    <3>3. \A q \in Objs : /\ Listed(q)' => phase'[q] # "none" /\ ~Queued("added", q)'
                          /\ Queued("added", q)' => phase'[q] # "none"
                          /\ Queued("removed", q)' => phase'[q] = "gone"
      BY <2>2, <2>3, <2>4, <3>2 DEF Once
    <3>4. \A i, j \in DOMAIN callbacks' : callbacks'[i] = callbacks'[j] => i = j
      BY <2>1 DEF Once
    <3>5. Once'
      BY <3>2, <3>3, <3>4 DEF Once
    <3>6. Remembered'
      BY <2>2, <2>4, <3>2 DEF Remembered
    <3> QED  BY <3>5, <3>6
  <2>6. CASE o \notin shared
    <3>1. UNCHANGED <<events, refused>>
      BY <1>3, <2>6 DEF Disconnect
    <3>2. \A q, k : Queued(k, q)' <=> Queued(k, q)
      BY <3>1 DEF Queued
    <3>3. Once'
      BY <2>1, <2>2, <2>4, <3>1, <3>2 DEF Once
    <3>4. ~Listed(o) /\ ~Queued("added", o)
      BY <2>6, EventLaw DEF Turns, Listed, Queued
    <3>5. Remembered'
      BY <2>2, <2>4, <3>1, <3>2, <3>4 DEF Remembered
    <3> QED  BY <3>3, <3>5
  <2> QED  BY <2>5, <2>6
<1>4. CASE PopEvent
  <2>1. PICK k \in Kinds, o \in Objs :
           /\ Queued(k, o) /\ (k = "removed" => ~Queued("added", o))
           /\ \A j, q : Queued(j, q)' <=> Queued(j, q) /\ ~(j = k /\ q = o)
           /\ \A q : Listed(q)' <=> IF k = "added" THEN Listed(q) \/ q = o ELSE Listed(q) /\ q # o
           /\ \A i, j \in DOMAIN events' : events'[i] = events'[j] => i = j
           /\ \A i, j \in DOMAIN events' :
                events'[i].obj = events'[j].obj /\ events'[i].kind = "added" /\ events'[j].kind = "removed" => i < j
           /\ \A i, j \in DOMAIN callbacks' : callbacks'[i] = callbacks'[j] => i = j
    BY <1>0, <1>4, PopLaw
  <2>2. UNCHANGED <<phase, refused>>
    BY <1>4 DEF PopEvent, app_vars
  <2>3. \A q \in Objs : /\ Listed(q)' => phase'[q] # "none" /\ ~Queued("added", q)'
                        /\ Queued("added", q)' => phase'[q] # "none"
                        /\ Queued("removed", q)' => phase'[q] = "gone"
    BY <2>1, <2>2 DEF Once, Kinds
  <2>4. Once'
    BY <2>1, <2>3 DEF Once
  <2>5. ASSUME NEW q \in Objs, q \notin refused, phase[q] = "gone", Listed(q)' \/ Queued("added", q)' PROVE Queued("removed", q)'
    <3>1. CASE q = o
      <4>1. k = "added"
        BY <2>1, <2>5, <3>1 DEF Kinds
      <4>2. Queued("removed", q)
        BY <2>1, <2>5, <3>1, <4>1 DEF Remembered
      <4> QED  BY <2>1, <4>1, <4>2
    <3>2. CASE q # o
      <4>1. Queued("removed", q)
        BY <2>1, <2>5, <3>2 DEF Remembered
      <4> QED  BY <2>1, <3>2, <4>1
    <3> QED  BY <3>1, <3>2
  <2>6. Remembered'
    BY <2>2, <2>5 DEF Remembered
  <2> QED  BY <2>4, <2>6
<1>5. ASSUME NEW o \in Objs, Application(o) PROVE Once' /\ Remembered'
  BY <1>0, <1>1, <1>2, <1>3, <1>5, Elsewhere
<1>6. ASSUME UNCHANGED <<events, callbacks, refused, phase>> PROVE Once' /\ Remembered'
  <2>1. \A q : (Listed(q)' <=> Listed(q)) /\ \A k : Queued(k, q)' <=> Queued(k, q)
    BY <1>6 DEF Listed, Queued
  <2>2. Once'
    BY <1>6, <2>1 DEF Once
  <2> QED  BY <1>6, <2>1, <2>2 DEF Remembered
<1>7. CASE \/ StartProcessing \/ StopProcessing \/ CallCallbacks \/ UNCHANGED vars
           \/ \E t \in Threads : BeginCycle(t) \/ Callback(t)
  <2>1. UNCHANGED <<events, callbacks, refused, phase>>
    BY <1>7 DEF StartProcessing, StopProcessing, CallCallbacks, BeginCycle, Callback, LoadPort, FetchPort, Process, CheckReleased, vars,
        app_vars, handler_vars
  <2> QED  BY <1>6, <2>1
<1> QED  BY <1>4, <1>5, <1>7 DEF Next, Events

-----------------------------------------------------------------------------
(* The rings. *)

\* Send() adds the message before anything is written.
LEMMA SenderStep == ASSUME TypeOK, Sender, [Next]_vars PROVE Sender'
<1>0. AppTypes /\ QueueTypes
  BY TypeParts
<1>1. CASE UNCHANGED <<phase, accepted>>
  BY <1>1 DEF Sender
<1>2. ASSUME NEW o \in Objs, Send(o) PROVE Sender'
  <2>1. PICK s \in Sizes : accepted' = [accepted EXCEPT ![o] = Append(accepted[o], [n |-> Len(accepted[o]) + 1, size |-> s])]
    BY <1>2 DEF Send
  <2>2. accepted'[o] = Append(accepted[o], [n |-> Len(accepted[o]) + 1, size |-> s])
    BY <1>0, <2>1 DEF QueueTypes
  <2>3. accepted'[o] # <<>>
    BY <1>0, <2>2, AppendedTo DEF QueueTypes
  <2>4. \A q \in Objs : q # o => accepted'[q] = accepted[q] /\ phase'[q] = phase[q]
    BY <1>0, <1>2, <2>1 DEF Send, Goto, AppTypes, QueueTypes
  <2> QED  BY <2>3, <2>4 DEF Sender
<1>3. ASSUME NEW o \in Objs, Application(o), ~Send(o) PROVE Sender'
  <2>1. accepted' = accepted
    BY <1>3 DEF Application, Connect, OpenPort, ClosePort, AskRelease, TakeRelease, ReleaseTimesOut, Unregister, DestroyClosed,
          Disconnect, WriteHeader, WriteBody, queue_vars
  <2>2. \A q \in Objs : phase'[q] = phase[q] \/ phase'[q] \notin {"waiting for space", "writing"}
                        \/ phase[q] = "waiting for space"
    BY <1>0, <1>3 DEF AppTypes, Application, Connect, OpenPort, ClosePort, AskRelease, TakeRelease, ReleaseTimesOut, Unregister,
          DestroyClosed, Disconnect, WriteHeader, WriteBody, Goto
  <2> QED  BY <2>1, <2>2 DEF Sender
<1>4. CASE \/ StartProcessing \/ StopProcessing \/ Events \/ UNCHANGED vars
           \/ \E t \in Threads : BeginCycle(t) \/ Callback(t)
  BY <1>1, <1>4 DEF StartProcessing, StopProcessing, Events, PopEvent, CallCallbacks, BeginCycle, Callback, LoadPort, FetchPort, Process,
        CheckReleased, vars, app_vars, queue_vars
<1> QED  BY <1>2, <1>3, <1>4 DEF Next

\* A ring that ends with a header.
LEMMA CutLaw ==
  ASSUME NEW x \in Seq(Units), Cut(x)
  PROVE  \E u \in Units :
           /\ u.part = "header" /\ u = x[Len(x)] /\ Front(x) \in Seq(Units) /\ x = Append(Front(x), u)
           /\ SubSeq(x, 1, Whole(x)) = Front(x) /\ SubSeq(x, Whole(x) + 1, Len(x)) = <<u>>
<1> DEFINE n == Len(x)
<1>1. x # <<>> /\ x[n].part = "header" /\ n \in Nat /\ n \in 1..n
  BY TailLaw DEF Cut
<1>2. PICK s \in Seq(Units), u \in Units : x = Append(s, u)
  BY <1>1, SequenceEmptyOrAppend
<1>3. n = Len(s) + 1 /\ x[n] = u /\ \A i \in 1..Len(s) : x[i] = s[i]
  BY <1>2, AppendLaw
<1>4. Front(x) = s
  <2>1. Front(x) = SubSeq(Append(s, u), 1, Len(s))
    BY <1>2, <1>3 DEF Front
  <2>2. Len(s) \in Nat /\ \A i \in 1..Len(s) : i \in 1..Len(s) /\ Append(s, u)[i] \in Units
    <3>1. ASSUME NEW i \in 1..Len(s) PROVE Append(s, u)[i] \in Units
      BY AppendLaw, ElementOfSeq
    <3> QED  BY <3>1
  <2>3. /\ SubSeq(Append(s, u), 1, Len(s)) \in Seq(Units)
        /\ Len(SubSeq(Append(s, u), 1, Len(s))) = Len(s)
        /\ \A i \in 1..Len(s) : SubSeq(Append(s, u), 1, Len(s))[i] = s[i]
    BY <2>2, AppendLaw, SubSeqProperties
  <2> QED  BY <2>1, <2>3, SeqEqual
<1>5. Whole(x) = Len(s)
  BY <1>1, <1>3 DEF Whole
<1>6. SubSeq(x, 1, Whole(x)) = s
  BY <1>3, <1>4, <1>5 DEF Front
<1>7. SubSeq(x, Whole(x) + 1, Len(x)) = <<u>>
  <2>1. Whole(x) + 1 = n
    BY <1>3, <1>5
  <2>2. SubSeq(x, n, n) = <<x[n]>> \o SubSeq(x, n + 1, n)
    BY <1>1, SubSeqRecursiveFirst
  <2>3. SubSeq(x, n + 1, n) = <<>>
    BY <1>1, SubSeqEmpty
  <2>4. <<u>> \o <<>> = <<u>>
    <3>1. <<u>> \in Seq(Units)
      OBVIOUS
    <3> QED  BY <3>1, ConcatEmptySeq
  <2> HIDE DEF n
  <2> QED  BY <1>3, <2>1, <2>2, <2>3, <2>4 DEF n
<1> QED  BY <1>1, <1>2, <1>3, <1>4, <1>6, <1>7


\* A ring after one more unit.
LEMMA AppendedLaw ==
  ASSUME NEW x \in Seq(Units), NEW u \in Units
  PROVE  /\ Cut(Append(x, u)) <=> u.part = "header"
         /\ Append(x, u)[Len(Append(x, u))] = u
         /\ u.part = "header" => Front(Append(x, u)) = x
<1>1. Append(x, u) \in Seq(Units) /\ Append(x, u) # <<>> /\ Append(x, u)[Len(Append(x, u))] = u
  BY AppendProperties
<1>2. ASSUME u.part = "header" PROVE Front(Append(x, u)) = x
  <2>1. Cut(Append(x, u))
    BY <1>1, <1>2 DEF Cut
  <2>2. Front(Append(x, u)) \in Seq(Units) /\ \E v \in Units : Append(x, u) = Append(Front(Append(x, u)), v)
    BY <1>1, <2>1, CutLaw
  <2> QED  BY <2>2, AppendInjective
<1> QED  BY <1>1, <1>2 DEF Cut

\* A ring without a cut message is read to its end.
LEMMA UncutLaw ==
  ASSUME NEW x \in Seq(Units), ~Cut(x)
  PROVE  SubSeq(x, 1, Whole(x)) = x /\ SubSeq(x, Whole(x) + 1, Len(x)) = <<>>
<1>1. Whole(x) = Len(x) /\ Len(x) \in Nat
  BY DEF Whole, Cut
<1>2. Len(x) + 1 \in Int /\ Len(x) \in Int /\ Len(x) < Len(x) + 1
  BY <1>1
<1> QED  BY <1>1, <1>2, SubSeqFull, SubSeqEmpty

\* What the ring of an object and what left it make together.
RingOk(o) == /\ Balanced(ring[o]) /\ (phase[o] = "writing" <=> Cut(ring[o]))
             /\ Cut(ring[o]) => ring[o][Len(ring[o])].msg = Sending(o)
             /\ out[o] \o Those("header", ring[o]) = Written(o)
\* Every ring.
Rings == \A o \in Objs : RingOk(o)

\* Each writer and the reader leave the ring as it should be.
LEMMA RingStep ==
  ASSUME TypeOK, Turns, Sender, [Next]_vars, NEW o \in Objs, RingOk(o)
  PROVE  RingOk(o)'
<1>0. AppTypes /\ QueueTypes /\ QueueTypes' /\ CycleTypes
  BY TypeParts, QueueStep
<1> DEFINE x == ring[o]
           B(y) == Those("body", y)
           H(y) == Those("header", y)
<1>1. x \in Seq(Units) /\ out[o] \in Seq(Messages) /\ accepted[o] \in Seq(Messages)
  BY <1>0 DEF QueueTypes
<1>2. \A y \in Seq(Units) : B(y) \in Seq(Messages) /\ H(y) \in Seq(Messages)
  BY ThoseLaws
<1>3. \A y \in Seq(Units), u \in Units :
        /\ u.part = "header" => H(Append(y, u)) = Append(H(y), u.msg) /\ B(Append(y, u)) = B(y)
        /\ u.part = "body" => B(Append(y, u)) = Append(B(y), u.msg) /\ H(Append(y, u)) = H(y)
  BY ThoseLaws
<1>4. B(<<>>) = <<>> /\ H(<<>>) = <<>>
  BY ThoseLaws
<1>5. \A y : Balanced(y) <=> IF Cut(y) THEN H(Front(y)) = B(Front(y)) ELSE H(y) = B(y)
  BY DEF Balanced
<1> HIDE DEF B, H
<1>6. /\ Balanced(x) /\ (phase[o] = "writing" <=> Cut(x))
      /\ Cut(x) => x[Len(x)].msg = Sending(o)
      /\ out[o] \o H(x) = Written(o)
  BY DEF RingOk, H
<1>7. ASSUME /\ Balanced(ring'[o]) /\ (phase'[o] = "writing" <=> Cut(ring'[o]))
             /\ Cut(ring'[o]) => ring'[o][Len(ring'[o])].msg = accepted'[o][Len(accepted'[o])]
             /\ out'[o] \o H(ring'[o]) = IF phase'[o] = "waiting for space"
                                         THEN SubSeq(accepted'[o], 1, Len(accepted'[o]) - 1) ELSE accepted'[o]
      PROVE  RingOk(o)'
  BY <1>7 DEF RingOk, H, Sending, Written, Cut, Balanced, Front
<1> HIDE DEF x
<1>8. ASSUME UNCHANGED <<ring[o], accepted[o], out[o]>>, phase'[o] = "writing" <=> phase[o] = "writing",
             phase'[o] = "waiting for space" <=> phase[o] = "waiting for space"
      PROVE  RingOk(o)'
  BY <1>6, <1>7, <1>8 DEF x, Sending, Written
<1>9. CASE Send(o)
  <2>1. PICK m : accepted'[o] = Append(accepted[o], m) /\ m \in Messages
    <3>1. PICK m : accepted' = [accepted EXCEPT ![o] = Append(accepted[o], m)]
      BY <1>9 DEF Send
    <3>2. accepted'[o] = Append(accepted[o], m) /\ accepted'[o] \in Seq(Messages)
      BY <1>0, <3>1 DEF QueueTypes
    <3>3. Len(accepted'[o]) = Len(accepted[o]) + 1 /\ accepted'[o][Len(accepted[o]) + 1] = m /\ Len(accepted[o]) \in Nat
      BY <1>1, <3>2
    <3>4. Len(accepted[o]) + 1 \in 1..Len(accepted'[o])
      BY <3>3
    <3>5. m \in Messages
      BY <3>2, <3>3, <3>4, ElementOfSeq
    <3> QED  BY <3>2, <3>5
  <2>2. phase[o] = "open" /\ phase'[o] = "waiting for space" /\ ring'[o] = x /\ out'[o] = out[o]
    BY <1>0, <1>9 DEF Send, Goto, AppTypes, x
  <2>3. SubSeq(accepted'[o], 1, Len(accepted'[o]) - 1) = accepted[o]
    <3>1. Len(accepted'[o]) - 1 = Len(accepted[o]) /\ Len(accepted[o]) \in Nat
      BY <1>1, <2>1, AppendLaw
    <3>2. ASSUME NEW i \in 1..Len(accepted[o]) PROVE Append(accepted[o], m)[i] = accepted[o][i] /\ accepted[o][i] \in Messages
      BY <1>1, <2>1, AppendLaw, ElementOfSeq
    <3>3. /\ SubSeq(Append(accepted[o], m), 1, Len(accepted[o])) \in Seq(Messages)
          /\ Len(SubSeq(Append(accepted[o], m), 1, Len(accepted[o]))) = Len(accepted[o])
          /\ \A i \in 1..Len(accepted[o]) : SubSeq(Append(accepted[o], m), 1, Len(accepted[o]))[i] = accepted[o][i]
      BY <3>1, <3>2, SubSeqProperties
    <3>4. SubSeq(Append(accepted[o], m), 1, Len(accepted[o])) = accepted[o]
      BY <1>1, <3>3, SeqEqual
    <3> QED  BY <2>1, <3>1, <3>4
  <2>4. ~Cut(x) /\ out[o] \o H(x) = accepted[o]
    BY <1>6, <2>2 DEF Written
  <2> QED  BY <1>6, <1>7, <2>2, <2>3, <2>4
<1>10. CASE WriteHeader(o)
  <2> DEFINE u == [part |-> "header", msg |-> Sending(o)]
             y == Append(x, u)
  <2>1. phase[o] = "waiting for space" /\ phase'[o] = "writing" /\ ring'[o] = y /\ out'[o] = out[o] /\ accepted'[o] = accepted[o]
    BY <1>0, <1>10 DEF WriteHeader, Goto, AppTypes, QueueTypes, x
  <2>2. Sending(o) \in Messages /\ u \in Units /\ u.part = "header" /\ u.msg = Sending(o)
    BY <1>0, <2>1, SendingTypes DEF Units
  <2> HIDE DEF u
  <2>3. Cut(y) /\ y[Len(y)] = u /\ Front(y) = x
    BY <1>1, <2>2, AppendedLaw
  <2>4. ~Cut(x) /\ H(x) = B(x) /\ H(y) = Append(H(x), Sending(o))
    BY <1>1, <1>3, <1>5, <1>6, <2>1, <2>2
  <2>5. Balanced(y)
    BY <1>5, <2>3, <2>4
  <2>6. out[o] \o H(y) = accepted[o]
    <3> DEFINE a == accepted[o]
               n == Len(a)
    <3>1. a # <<>> /\ n \in Nat /\ n \in 1..n /\ Sending(o) = a[n]
      BY <1>1, <2>1, TailLaw DEF Sender, Sending
    <3>2. a = SubSeq(a, 1, n - 1) \o <<a[n]>>
      <4>1. SubSeq(a, 1, n) = SubSeq(a, 1, n - 1) \o <<a[n]>>
        <5>1. 1 \in 1..n /\ n \in 1..n
          BY <3>1
        <5> QED  BY <1>1, <5>1, SubSeqRecursiveSecond
      <4> QED  BY <1>1, <4>1, SubSeqFull
    <3>3. out[o] \o H(x) = SubSeq(a, 1, n - 1)
      BY <1>6, <2>1 DEF Written
    <3>5. H(x) \in Seq(Messages)
      BY <1>1, <1>2
    <3>6. out[o] \o H(y) = (out[o] \o H(x)) \o <<Sending(o)>>
      <4> DEFINE q == out[o]
                 b == H(x)
                 e == Sending(o)
      <4>1. q \in Seq(Messages) /\ b \in Seq(Messages) /\ e \in Messages /\ H(y) = Append(b, e)
        BY <1>1, <2>2, <2>4, <3>5
      <4> HIDE DEF q, b, e
      <4>2. q \o Append(b, e) = (q \o b) \o <<e>>
        BY <4>1, ConcatAppend
      <4> QED  BY <4>1, <4>2 DEF q, b, e
    <3> HIDE DEF n, a
    <3> QED  BY <3>1, <3>2, <3>3, <3>6 DEF a
  <2>7. y[Len(y)].msg = accepted[o][Len(accepted[o])]
    BY <2>2, <2>3 DEF Sending
  <2> HIDE DEF y
  <2> QED  BY <1>7, <2>1, <2>3, <2>5, <2>6, <2>7
<1>11. CASE WriteBody(o)
  <2> DEFINE u == [part |-> "body", msg |-> Sending(o)]
             y == Append(x, u)
  <2>1. phase[o] = "writing" /\ phase'[o] = "open" /\ ring'[o] = y /\ out'[o] = out[o] /\ accepted'[o] = accepted[o]
    BY <1>0, <1>11 DEF WriteBody, Goto, AppTypes, QueueTypes, x
  <2>2. Sending(o) \in Messages /\ u \in Units /\ u.part = "body" /\ u.msg = Sending(o)
    BY <1>0, <2>1, SendingTypes DEF Units
  <2> HIDE DEF u
  <2>3. ~Cut(y)
    BY <1>1, <2>2, AppendedLaw
  <2> DEFINE f == Front(x)
  <2>4. PICK v \in Units : v.part = "header" /\ v = x[Len(x)] /\ f \in Seq(Units) /\ x = Append(f, v)
    BY <1>1, <1>6, <2>1, CutLaw
  <2>5. v.msg = Sending(o) /\ H(f) = B(f)
    BY <1>5, <1>6, <2>1, <2>4
  <2> HIDE DEF f
  <2>6. H(x) = Append(H(f), Sending(o)) /\ B(x) = B(f)
    <3>1. H(Append(f, v)) = Append(H(f), v.msg) /\ B(Append(f, v)) = B(f)
      BY <1>3, <2>4
    <3> QED  BY <2>4, <2>5, <3>1
  <2>7. H(y) = H(x) /\ B(y) = Append(B(x), Sending(o))
    BY <1>1, <1>3, <2>2
  <2>8. Balanced(y)
    BY <1>5, <2>3, <2>5, <2>6, <2>7
  <2>9. out[o] \o H(y) = accepted[o]
    BY <1>6, <2>1, <2>7 DEF Written
  <2> HIDE DEF y
  <2> QED  BY <1>7, <2>1, <2>3, <2>8, <2>9
<1>12. ASSUME NEW t \in Threads, Process(t), o = Head(cycle[t].todo) PROVE RingOk(o)'
  <2> DEFINE w == SubSeq(x, 1, Whole(x))
             d == SubSeq(x, Whole(x) + 1, Len(x))
  <2>1. phase' = phase /\ accepted' = accepted /\ ring'[o] = d /\ out'[o] = out[o] \o B(w)
    BY <1>0, <1>12 DEF Process, app_vars, QueueTypes, x, B
  <2>2. CASE Cut(x)
    <3>1. PICK v \in Units : /\ v.part = "header" /\ v = x[Len(x)] /\ Front(x) \in Seq(Units) /\ x = Append(Front(x), v)
                             /\ w = Front(x) /\ d = <<v>>
      BY <1>1, <2>2, CutLaw
    <3>0. w \in Seq(Units) /\ x = Append(w, v)
      BY <3>1
    <3>2. H(w) = B(w) /\ B(w) \in Seq(Messages) /\ v.msg \in Messages
      BY <1>2, <1>5, <1>6, <2>2, <3>1 DEF Units
    <3>4. d = Append(<<>>, v) /\ <<>> \in Seq(Units)
      BY <3>1
    <3> HIDE DEF w, d
    <3>3. H(x) = Append(B(w), v.msg)
      <4>1. H(Append(w, v)) = Append(H(w), v.msg)
        BY <1>3, <3>0, <3>1
      <4> QED  BY <3>0, <3>2, <4>1
    <3>5. Cut(d) /\ d[Len(d)] = v /\ Front(d) = <<>>
      <4>1. /\ Cut(Append(<<>>, v)) /\ Append(<<>>, v)[Len(Append(<<>>, v))] = v
            /\ Front(Append(<<>>, v)) = <<>>
        BY <3>1, <3>4, AppendedLaw
      <4> QED  BY <3>4, <4>1
    <3>6. Balanced(d)
      BY <1>4, <1>5, <3>5
    <3>7. H(d) = <<v.msg>>
      <4>1. H(Append(<<>>, v)) = Append(H(<<>>), v.msg)
        BY <1>3, <3>1, <3>4
      <4>2. H(d) = Append(<<>>, v.msg)
        BY <1>4, <3>4, <4>1
      <4> QED  BY <4>2
    <3>8. (out[o] \o B(w)) \o H(d) = out[o] \o H(x)
      <4> DEFINE q == out[o]
                 b == B(w)
                 e == v.msg
      <4>1. q \in Seq(Messages) /\ b \in Seq(Messages) /\ e \in Messages /\ H(x) = Append(b, e) /\ H(d) = <<e>>
        BY <1>1, <3>2, <3>3, <3>7
      <4> HIDE DEF q, b, e
      <4>2. q \o Append(b, e) = (q \o b) \o <<e>>
        BY <4>1, ConcatAppend
      <4> QED  BY <4>1, <4>2 DEF q, b
    <3> QED  BY <1>6, <1>7, <2>1, <2>2, <3>1, <3>5, <3>6, <3>8 DEF Sending, Written
  <2>3. CASE ~Cut(x)
    <3>1. w = x /\ d = <<>>
      BY <1>1, <2>3, UncutLaw
    <3>2. H(x) = B(x)
      BY <1>5, <1>6, <2>3
    <3>3. ~Cut(<<>>)
      BY DEF Cut
    <3> HIDE DEF w, d
    <3>4. Balanced(d) /\ ~Cut(d)
      BY <1>4, <1>5, <3>1, <3>3
    <3>5. (out[o] \o B(w)) \o H(d) = out[o] \o H(x)
      <4>1. out[o] \o B(w) \in Seq(Messages)
        BY <1>1, <1>2, <3>1, ConcatProperties
      <4>2. (out[o] \o B(w)) \o <<>> = out[o] \o B(w)
        BY <4>1, ConcatEmptySeq
      <4> QED  BY <1>4, <3>1, <3>2, <4>2
    <3> QED  BY <1>6, <1>7, <2>1, <2>3, <3>4, <3>5 DEF Written
  <2> QED  BY <2>2, <2>3
<1>13. ASSUME NEW t \in Threads, Process(t), o # Head(cycle[t].todo) PROVE RingOk(o)'
  <2>1. UNCHANGED <<ring[o], accepted[o], out[o], phase[o]>>
    <3> DEFINE q == Head(cycle[t].todo)
    <3>1. \E d, e : ring' = [ring EXCEPT ![q] = d] /\ out' = [out EXCEPT ![q] = e]
      BY <1>13 DEF Process
    <3> HIDE DEF q
    <3>2. ring'[o] = ring[o] /\ out'[o] = out[o]
      BY <1>0, <1>13, <3>1 DEF QueueTypes, q
    <3> QED  BY <1>13, <3>2 DEF Process, app_vars
  <2> QED  BY <1>8, <2>1
<1>14. ASSUME NEW p \in Objs, Application(p), p # o \/ ~(Send(o) \/ WriteHeader(o) \/ WriteBody(o)) PROVE RingOk(o)'
  <2>1. CASE p # o
    <3>1. UNCHANGED <<ring[o], accepted[o], out[o], phase[o]>>
      BY <1>0, <1>14, <2>1 DEF AppTypes, QueueTypes, Application, Connect, OpenPort, ClosePort, AskRelease, TakeRelease,
            ReleaseTimesOut, Unregister, DestroyClosed, Disconnect, Send, WriteHeader, WriteBody, Goto, queue_vars
    <3> QED  BY <1>8, <3>1
  <2>2. CASE p = o
    <3>1. UNCHANGED queue_vars /\ \A y \in {"writing", "waiting for space"} : phase'[o] = y <=> phase[o] = y
      BY <1>0, <1>14, <2>2 DEF AppTypes, Application, Connect, OpenPort, ClosePort, AskRelease, TakeRelease,
            ReleaseTimesOut, Unregister, DestroyClosed, Disconnect, Goto
    <3> QED  BY <1>8, <3>1 DEF queue_vars
  <2> QED  BY <2>1, <2>2
<1>15. CASE \/ StartProcessing \/ StopProcessing \/ Events \/ UNCHANGED vars
            \/ \E t \in Threads : BeginCycle(t) \/ LoadPort(t) \/ FetchPort(t) \/ CheckReleased(t)
  <2>1. UNCHANGED <<phase, ring, accepted, out>>
    BY <1>15 DEF StartProcessing, StopProcessing, Events, PopEvent, CallCallbacks, BeginCycle, LoadPort, FetchPort, CheckReleased, vars,
        app_vars, queue_vars
  <2> QED  BY <1>8, <2>1
<1> QED  BY <1>9, <1>10, <1>11, <1>12, <1>13, <1>14, <1>15 DEF Next, Callback

-----------------------------------------------------------------------------
(* The inductive invariant, and the theorems. *)

IInv == TypeOK /\ Turns /\ Ports /\ Handed /\ Once /\ Remembered /\ Sender /\ Rings

\* The invariant holds at the start.
LEMMA InitIInv == Init => IInv
<1> SUFFICES ASSUME Init PROVE IInv
  OBVIOUS
<1>0. 0 \in Handles /\ <<>> \in Seq(Units) /\ <<>> \in Seq(Messages) /\ <<>> \in Seq(Objs) /\ <<>> \in Seq(EventRecords)
  BY HandleTypes
<1>1. PICK s \in Setups : phase = [o \in Objs |-> IF o \in s[1] THEN "none" ELSE "gone"] /\ shared = s[2]
  BY DEF Init
<1>2. shared \subseteq Objs
  BY <1>1
<1>3. /\ dying = {} /\ opens = [o \in Objs |-> 0]
      /\ port = [o \in Objs |-> 0] /\ registered = [o \in Objs |-> 0]
      /\ needpost = [o \in Objs |-> 0] /\ cleanup = [o \in Objs |-> 0]
      /\ primed = [o \in Objs |-> {}] /\ late = [o \in Objs |-> {}] /\ caught = {}
      /\ events = <<>> /\ refused = {} /\ callbacks = <<>> /\ running = {}
      /\ cycle = [t \in Threads |-> Idle]
      /\ ring = [o \in Objs |-> <<>>] /\ accepted = [o \in Objs |-> <<>>] /\ out = [o \in Objs |-> <<>>]
  BY DEF Init
<1>4. \A o \in Objs : phase[o] \in {"none", "gone"}
  BY <1>1
<1>5. TypeOK
  <2>1. AppTypes
    <3>1. phase \in [Objs -> Phases]
      BY <1>1 DEF Phases
    <3> HIDE DEF Handles
    <3> QED  BY <1>0, <1>2, <1>3, <3>1 DEF AppTypes
  <2>2. LockTypes
    BY <1>3 DEF LockTypes
  <2>3. HandlerTypes
    BY <1>0, <1>3 DEF HandlerTypes
  <2>4. CycleTypes
    BY <1>3, TurnTypes DEF CycleTypes
  <2>5. QueueTypes
    <3> HIDE DEF Units, Messages
    <3> QED  BY <1>0, <1>3 DEF QueueTypes
  <2> QED  BY <2>1, <2>2, <2>3, <2>4, <2>5, TypeParts
<1>6. Turns
  BY <1>3 DEF Turns, Idle, Busy
<1>7. Ports
  BY <1>3, <1>4 DEF Ports, OpenPhases
<1>8. Handed
  BY <1>3 DEF Handed, UsesPort, Idle
<1>9. Once /\ Remembered
  BY <1>3 DEF Once, Remembered, Listed, Queued
<1>10. Sender
  BY <1>4 DEF Sender
<1>11. Rings
  <2>1. ASSUME NEW o \in Objs PROVE RingOk(o)
    <3>1. ring[o] = <<>> /\ accepted[o] = <<>> /\ out[o] = <<>> /\ phase[o] \notin {"writing", "waiting for space"}
      BY <1>3, <1>4
    <3>2. ~Cut(<<>>) /\ Those("header", <<>>) = <<>> /\ Those("body", <<>>) = <<>>
      BY ThoseLaws DEF Cut
    <3>3. Written(o) = <<>> /\ <<>> \o <<>> = <<>>
      BY <1>0, <3>1, ConcatEmptySeq DEF Written
    <3> QED  BY <3>1, <3>2, <3>3 DEF RingOk, Balanced
  <2> QED  BY <2>1 DEF Rings
<1> QED  BY <1>5, <1>6, <1>7, <1>8, <1>9, <1>10, <1>11 DEF IInv

\* Every step keeps it.
LEMMA NextIInv == IInv /\ [Next]_vars => IInv'
<1> SUFFICES ASSUME IInv, [Next]_vars PROVE IInv'
  OBVIOUS
<1>0. TypeOK /\ Turns /\ Ports /\ Handed /\ Once /\ Remembered /\ Sender /\ Rings
  BY DEF IInv
<1>1. TypeOK'
  BY <1>0, TypeStep
<1>2. Turns' /\ Ports' /\ Sender'
  BY <1>0, TurnsStep, PortsStep, SenderStep
<1>3. Handed'
  BY <1>0, HandedStep
<1>4. Once' /\ Remembered'
  BY <1>0, ListStep
<1>5. Rings'
  BY <1>0, RingStep DEF Rings
<1> QED  BY <1>1, <1>2, <1>3, <1>4, <1>5 DEF IInv

\* So it always holds.
LEMMA Invariance == Spec => []IInv
BY InitIInv, NextIInv, PTL DEF Spec

\* Every variable keeps its type, whatever the sizes, the slots and the bounds.
THEOREM TypeTheorem == Spec => []TypeOK
<1>1. IInv => TypeOK
  BY DEF IInv
<1> QED  BY <1>1, Invariance, PTL

\* However the closes, the cycles and the semaphores fall, and whatever tokens
\* earlier cycles left: a process callback works on a port that is not registered
\* only if the close of that port timed out or took such a token, and only if it
\* was at work on the port when the close began.
THEOREM CleanHandshakeTheorem == Spec => []CleanHandshake
<1>1. IInv => CleanHandshake
  BY DEF IInv, Handed, CleanHandshake
<1> QED  BY <1>1, Invariance, PTL

\* The handler calls an object that is gone only until it has taken the event
\* of its removal, unless one of the object's events found the queue full.
THEOREM GoneIsForgottenTheorem == Spec => []GoneIsForgotten
<1>1. IInv => GoneIsForgotten
  BY DEF IInv, Remembered, GoneIsForgotten, Listed, Queued
<1> QED  BY <1>1, Invariance, PTL

\* What left the ring of an output and what is in it are the messages that
\* send_message() took, each once, whole and in their order.
THEOREM InOrderTheorem == Spec => []InOrder
<1>1. IInv => InOrder
  BY DEF IInv, Rings, RingOk, InOrder
<1> QED  BY <1>1, Invariance, PTL
=============================================================================
