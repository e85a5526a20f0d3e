-------------------------- MODULE MidiStream_proofs --------------------------
(* Proofs about MidiStream, for packets of any size, any number of messages  *)
(* and of spans: the application gets what was sent, whole and in order, and *)
(* the relative times add up.                                                *)
EXTENDS MidiStream, DataLemmas

-----------------------------------------------------------------------------
(* What Kept(), Flatten() and Sum() compute, by induction over a sequence.   *)

\* Kept() is Filtered() of DataLemmas, of pieces.
LEMMA KeptIs ==
  ASSUME NEW s, NEW P PROVE Kept(s, P) = Filtered(s, P)
BY DEF Kept, Filtered

LEMMA KeptLaws ==
  ASSUME NEW P
  PROVE  /\ Kept(<<>>, P) = <<>>
         /\ \A s \in Seq(Pieces) : Kept(s, P) \in Seq(Pieces)
BY KeptIs, FilteredNone, FilteredType

LEMMA KeptConcat ==
  ASSUME NEW P, NEW a \in Seq(Pieces), NEW b \in Seq(Pieces)
  PROVE  Kept(a \o b, P) = Kept(a, P) \o Kept(b, P)
BY KeptIs, FilteredConcat

LEMMA KeptTwice ==
  ASSUME NEW P, NEW R, NEW s \in Seq(Pieces)
  PROVE  Kept(Kept(s, P), R) = Kept(s, P \cap R)
BY KeptIs, FilteredTwice

LEMMA KeptElements ==
  ASSUME NEW P, NEW s \in Seq(Pieces)
  PROVE  /\ NoneIn(s, P) => Kept(s, P) = <<>>
         /\ AllIn(s, P) => Kept(s, P) = s
         /\ AllIn(Kept(s, P), P)
BY KeptIs, FilteredElements


\* The same of Flatten() and of Sum().
Deliveries == [bytes : Seq(Pieces), timestamp : Nat]

LEMMA FlattenFold ==
  ASSUME NEW ms \in Seq(Deliveries)
  PROVE  \E f \in [0..Len(ms) -> Seq(Pieces)] :
           /\ f[0] = <<>> /\ Flatten(ms) = f[Len(ms)]
           /\ \A i \in 1..Len(ms) : f[i] = f[i - 1] \o ms[i].bytes
<1> DEFINE Of(f) == [i \in 0..Len(ms) |-> IF i = 0 THEN <<>> ELSE f[i - 1] \o ms[i].bytes]
           of == CHOOSE f : f = Of(f)
           n == Len(ms)
           A == Seq(Pieces)
           step == [i \in 1..n |-> [x \in A |-> x \o ms[i].bytes]]
<1>1. n \in Nat /\ <<>> \in A /\ \A i \in 1..n : i \in 0..n /\ i # 0 /\ i - 1 \in 0..n
  OBVIOUS
<1>2. step \in [1..n -> [A -> A]]
  <2>1. \A i \in 1..n : ms[i].bytes \in Seq(Pieces)
    <3>1. ASSUME NEW i \in 1..n PROVE ms[i].bytes \in Seq(Pieces)
      <4>1. ms[i] \in Deliveries
        BY ElementOfSeq
      <4> QED  BY <4>1 DEF Deliveries
    <3> QED  BY <3>1
  <2>2. ASSUME NEW i \in 1..n, NEW x \in A PROVE x \o ms[i].bytes \in A
    BY <2>1, ConcatProperties
  <2> HIDE DEF A, n
  <2> QED  BY <2>2
<1>3. PICK f \in [0..n -> A] : IsFold(f, n, <<>>, step)
  <2> HIDE DEF n, A, step
  <2> QED  BY <1>1, <1>2, FoldExists
<1>4. \A i \in 0..n : f[i] = IF i = 0 THEN <<>> ELSE step[i][f[i - 1]]
  <2> HIDE DEF n, A, step
  <2> QED  BY <1>3 DEF IsFold
<1>5. ASSUME NEW i \in 1..n PROVE f[i] = f[i - 1] \o ms[i].bytes
  <2>1. f[i - 1] \in A
    BY <1>1
  <2>2. f[i] = step[i][f[i - 1]]
    <3> HIDE DEF n, step
    <3> QED  BY <1>1, <1>4
  <2> HIDE DEF n, A
  <2> QED  BY <2>1, <2>2
<1>6. f[0] = <<>>
  <2> HIDE DEF n, step
  <2>1. 0 \in 0..n
    BY <1>1
  <2> QED  BY <1>4, <2>1
<1>7. f = Of(f)
  <2>1. \A i \in 0..n : i = 0 \/ i \in 1..n
    OBVIOUS
  <2>2. \A i \in 0..n : f[i] = Of(f)[i]
    BY <1>5, <1>6, <2>1
  <2> QED  BY <2>2
<1>8. ASSUME NEW g, g = Of(g) PROVE g = f
  <2>1. \A i \in 0..n : g[i] = Of(g)[i]
    BY <1>8
  <2>2. g[0] = <<>>
    BY <1>1, <2>1
  <2>3. \A i \in 1..n : g[i] = g[i - 1] \o ms[i].bytes
    BY <1>1, <2>1
  <2>4. Alike(g, f, n)
    BY <1>5, <1>6, <2>2, <2>3 DEF Alike
  <2>5. \A i \in 0..n : g[i] = f[i]
    <3> HIDE DEF n
    <3> QED  BY <1>1, <2>4, SameRecursion
  <2>6. g = [i \in 0..n |-> g[i]] /\ f = [i \in 0..n |-> f[i]]
    BY <1>8
  <2> QED  BY <2>5, <2>6
<1>9. Flatten(ms) = of[Len(ms)]
  BY DEF Flatten
<1>10. of = f
  BY <1>7, <1>8
<1> QED  BY <1>5, <1>6, <1>9, <1>10

LEMMA FlattenLaws ==
  /\ Flatten(<<>>) = <<>>
  /\ \A ms \in Seq(Deliveries) : Flatten(ms) \in Seq(Pieces)
  /\ \A ms \in Seq(Deliveries), m \in Deliveries :
       Flatten(Append(ms, m)) = Flatten(ms) \o m.bytes
<1>1. Flatten(<<>>) = <<>>
  <2>1. <<>> \in Seq(Deliveries) /\ Len(<<>>) = 0
    OBVIOUS
  <2>2. ASSUME NEW ms \in Seq(Deliveries), Len(ms) = 0 PROVE Flatten(ms) = <<>>
    <3>1. PICK f : f[0] = <<>> /\ Flatten(ms) = f[Len(ms)]
      BY FlattenFold
    <3> QED  BY <2>2, <3>1
  <2> QED  BY <2>1, <2>2
<1>2. ASSUME NEW ms \in Seq(Deliveries) PROVE Flatten(ms) \in Seq(Pieces)
  <2>1. Len(ms) \in 0..Len(ms)
    OBVIOUS
  <2>2. PICK f \in [0..Len(ms) -> Seq(Pieces)] : Flatten(ms) = f[Len(ms)]
    BY FlattenFold
  <2> QED  BY <2>1, <2>2
<1>3. ASSUME NEW ms \in Seq(Deliveries), NEW m \in Deliveries
      PROVE  Flatten(Append(ms, m)) = Flatten(ms) \o m.bytes
  <2> DEFINE t == Append(ms, m)
             n == Len(ms)
  <2>1. /\ t \in Seq(Deliveries) /\ Len(t) = n + 1 /\ n \in Nat /\ t[n + 1] = m
        /\ \A i \in 1..n : t[i] = ms[i]
        /\ n + 1 \in 1..(n + 1) /\ (n + 1) - 1 = n /\ n \in 0..n /\ \A i \in 1..n : i \in 1..(n + 1)
    OBVIOUS
  <2> HIDE DEF t, n
  <2>2. PICK f : /\ f[0] = <<>> /\ Flatten(ms) = f[n]
                 /\ \A i \in 1..n : f[i] = f[i - 1] \o ms[i].bytes
    BY FlattenFold DEF n
  <2>3. PICK g : /\ g[0] = <<>> /\ Flatten(t) = g[n + 1]
                 /\ \A i \in 1..(n + 1) : g[i] = g[i - 1] \o t[i].bytes
    <3>1. \E g : /\ g[0] = <<>> /\ Flatten(t) = g[Len(t)]
                 /\ \A i \in 1..Len(t) : g[i] = g[i - 1] \o t[i].bytes
      BY <2>1, FlattenFold
    <3> QED  BY <2>1, <3>1
  <2>4. Alike(f, g, n)
    BY <2>1, <2>2, <2>3 DEF Alike
  <2>5. f[n] = g[n]
    BY <2>1, <2>4, SameRecursion
  <2>6. g[n + 1] = g[n] \o m.bytes
    BY <2>1, <2>3
  <2> QED  BY <2>2, <2>3, <2>5, <2>6 DEF t
<1> QED  BY <1>1, <1>2, <1>3

LEMMA SumFold ==
  ASSUME NEW ms \in Seq(Deliveries)
  PROVE  \E f \in [0..Len(ms) -> Nat] :
           /\ f[0] = 0 /\ Sum(ms) = f[Len(ms)]
           /\ \A i \in 1..Len(ms) : f[i] = f[i - 1] + ms[i].timestamp
<1> DEFINE Of(f) == [i \in 0..Len(ms) |-> IF i = 0 THEN 0 ELSE f[i - 1] + ms[i].timestamp]
           of == CHOOSE f : f = Of(f)
           n == Len(ms)
           A == Nat
           step == [i \in 1..n |-> [x \in A |-> x + ms[i].timestamp]]
<1>1. n \in Nat /\ 0 \in A /\ \A i \in 1..n : i \in 0..n /\ i # 0 /\ i - 1 \in 0..n
  OBVIOUS
<1>2. step \in [1..n -> [A -> A]]
  <2>1. \A i \in 1..n : ms[i].timestamp \in Nat
    <3>1. ASSUME NEW i \in 1..n PROVE ms[i].timestamp \in Nat
      <4>1. ms[i] \in Deliveries
        BY ElementOfSeq
      <4> QED  BY <4>1 DEF Deliveries
    <3> QED  BY <3>1
  <2>2. ASSUME NEW i \in 1..n, NEW x \in A PROVE x + ms[i].timestamp \in A
    BY <2>1
  <2> HIDE DEF A, n
  <2> QED  BY <2>2
<1>3. PICK f \in [0..n -> A] : IsFold(f, n, 0, step)
  <2> HIDE DEF n, A, step
  <2> QED  BY <1>1, <1>2, FoldExists
<1>4. \A i \in 0..n : f[i] = IF i = 0 THEN 0 ELSE step[i][f[i - 1]]
  <2> HIDE DEF n, A, step
  <2> QED  BY <1>3 DEF IsFold
<1>5. ASSUME NEW i \in 1..n PROVE f[i] = f[i - 1] + ms[i].timestamp
  <2>1. f[i - 1] \in A
    BY <1>1
  <2>2. f[i] = step[i][f[i - 1]]
    <3> HIDE DEF n, step
    <3> QED  BY <1>1, <1>4
  <2> HIDE DEF n, A
  <2> QED  BY <2>1, <2>2
<1>6. f[0] = 0
  <2> HIDE DEF n, step
  <2>1. 0 \in 0..n
    BY <1>1
  <2> QED  BY <1>4, <2>1
<1>7. f = Of(f)
  <2>1. \A i \in 0..n : i = 0 \/ i \in 1..n
    OBVIOUS
  <2>2. \A i \in 0..n : f[i] = Of(f)[i]
    BY <1>5, <1>6, <2>1
  <2> QED  BY <2>2
<1>8. ASSUME NEW g, g = Of(g) PROVE g = f
  <2>1. \A i \in 0..n : g[i] = Of(g)[i]
    BY <1>8
  <2>2. g[0] = 0
    BY <1>1, <2>1
  <2>3. \A i \in 1..n : g[i] = g[i - 1] + ms[i].timestamp
    BY <1>1, <2>1
  <2>4. Alike(g, f, n)
    BY <1>5, <1>6, <2>2, <2>3 DEF Alike
  <2>5. \A i \in 0..n : g[i] = f[i]
    <3> HIDE DEF n
    <3> QED  BY <1>1, <2>4, SameRecursion
  <2>6. g = [i \in 0..n |-> g[i]] /\ f = [i \in 0..n |-> f[i]]
    BY <1>8
  <2> QED  BY <2>5, <2>6
<1>9. Sum(ms) = of[Len(ms)]
  BY DEF Sum
<1>10. of = f
  BY <1>7, <1>8
<1> QED  BY <1>5, <1>6, <1>9, <1>10

LEMMA SumLaws ==
  /\ Sum(<<>>) = 0
  /\ \A ms \in Seq(Deliveries) : Sum(ms) \in Nat
  /\ \A ms \in Seq(Deliveries), m \in Deliveries :
       Sum(Append(ms, m)) = Sum(ms) + m.timestamp
<1>1. Sum(<<>>) = 0
  <2>1. <<>> \in Seq(Deliveries) /\ Len(<<>>) = 0
    OBVIOUS
  <2>2. ASSUME NEW ms \in Seq(Deliveries), Len(ms) = 0 PROVE Sum(ms) = 0
    <3>1. PICK f : f[0] = 0 /\ Sum(ms) = f[Len(ms)]
      BY SumFold
    <3> QED  BY <2>2, <3>1
  <2> QED  BY <2>1, <2>2
<1>2. ASSUME NEW ms \in Seq(Deliveries) PROVE Sum(ms) \in Nat
  <2>1. Len(ms) \in 0..Len(ms)
    OBVIOUS
  <2>2. PICK f \in [0..Len(ms) -> Nat] : Sum(ms) = f[Len(ms)]
    BY SumFold
  <2> QED  BY <2>1, <2>2
<1>3. ASSUME NEW ms \in Seq(Deliveries), NEW m \in Deliveries
      PROVE  Sum(Append(ms, m)) = Sum(ms) + m.timestamp
  <2> DEFINE t == Append(ms, m)
             n == Len(ms)
  <2>1. /\ t \in Seq(Deliveries) /\ Len(t) = n + 1 /\ n \in Nat /\ t[n + 1] = m
        /\ \A i \in 1..n : t[i] = ms[i]
        /\ n + 1 \in 1..(n + 1) /\ (n + 1) - 1 = n /\ n \in 0..n /\ \A i \in 1..n : i \in 1..(n + 1)
    OBVIOUS
  <2> HIDE DEF t, n
  <2>2. PICK f : /\ f[0] = 0 /\ Sum(ms) = f[n]
                 /\ \A i \in 1..n : f[i] = f[i - 1] + ms[i].timestamp
    BY SumFold DEF n
  <2>3. PICK g : /\ g[0] = 0 /\ Sum(t) = g[n + 1]
                 /\ \A i \in 1..(n + 1) : g[i] = g[i - 1] + t[i].timestamp
    <3>1. \E g : /\ g[0] = 0 /\ Sum(t) = g[Len(t)]
                 /\ \A i \in 1..Len(t) : g[i] = g[i - 1] + t[i].timestamp
      BY <2>1, SumFold
    <3> QED  BY <2>1, <3>1
  <2>4. Alike(f, g, n)
    BY <2>1, <2>2, <2>3 DEF Alike
  <2>5. f[n] = g[n]
    BY <2>1, <2>4, SameRecursion
  <2>6. g[n + 1] = g[n] + m.timestamp
    BY <2>1, <2>3
  <2> QED  BY <2>2, <2>3, <2>5, <2>6 DEF t
<1> QED  BY <1>1, <1>2, <1>3

\* Messages of one piece each.
Singles(w, d) == [i \in 1..Len(w) |-> [bytes |-> <<w[i]>>, timestamp |-> d]]

LEMMA FlattenSingles ==
  ASSUME NEW ms \in Seq(Deliveries), NEW w \in Seq(Pieces), NEW d \in Nat
  PROVE  /\ Singles(w, d) \in Seq(Deliveries)
         /\ Flatten(ms \o Singles(w, d)) = Flatten(ms) \o w
<1>1. ASSUME NEW v \in Seq(Pieces) PROVE Singles(v, d) \in Seq(Deliveries) /\ Len(Singles(v, d)) = Len(v)
  <2>1. \A i \in 1..Len(v) : [bytes |-> <<v[i]>>, timestamp |-> d] \in Deliveries
    BY DEF Deliveries
  <2> QED  BY <2>1 DEF Singles
<1> DEFINE Q == {v \in Seq(Pieces) : Flatten(ms \o Singles(v, d)) = Flatten(ms) \o v}
<1>2. <<>> \in Q
  <2>1. <<>> \in Seq(Pieces) /\ Len(<<>>) = 0
    OBVIOUS
  <2>2. Singles(<<>>, d) = <<>>
    BY <1>1, <2>1, EmptySeq
  <2>3. ms \o <<>> = ms /\ Flatten(ms) \in Seq(Pieces)
    BY ConcatEmptySeq, FlattenLaws
  <2>4. Flatten(ms) \o <<>> = Flatten(ms)
    BY <2>3, ConcatEmptySeq
  <2> QED  BY <2>1, <2>2, <2>3, <2>4
<1>3. ASSUME NEW v \in Seq(Pieces), NEW e \in Pieces, v \in Q PROVE Append(v, e) \in Q
  <2> DEFINE m == [bytes |-> <<e>>, timestamp |-> d]
  <2>1. m \in Deliveries /\ m.bytes = <<e>> /\ <<e>> \in Seq(Pieces)
    BY DEF Deliveries
  <2>2. Singles(Append(v, e), d) = Append(Singles(v, d), m)
    <3>1. Append(v, e) \in Seq(Pieces) /\ Len(Append(v, e)) = Len(v) + 1 /\ Len(v) \in Nat
      OBVIOUS
    <3>2. /\ Len(Singles(Append(v, e), d)) = Len(v) + 1 /\ Singles(Append(v, e), d) \in Seq(Deliveries)
          /\ Len(Singles(v, d)) = Len(v) /\ Singles(v, d) \in Seq(Deliveries)
      BY <1>1, <3>1
    <3>3. /\ Append(Singles(v, d), m) \in Seq(Deliveries) /\ Len(Append(Singles(v, d), m)) = Len(v) + 1
          /\ \A i \in 1..Len(v) : Append(Singles(v, d), m)[i] = Singles(v, d)[i]
          /\ Append(Singles(v, d), m)[Len(v) + 1] = m
      <4> HIDE DEF m
      <4> QED  BY <2>1, <3>2, AppendLaw
    <3>4. ASSUME NEW i \in 1..(Len(v) + 1)
          PROVE  Singles(Append(v, e), d)[i] = Append(Singles(v, d), m)[i]
      <4>1. Singles(Append(v, e), d)[i] = [bytes |-> <<Append(v, e)[i]>>, timestamp |-> d]
        BY <3>1 DEF Singles
      <4>2. CASE i \in 1..Len(v)
        <5>1. Append(v, e)[i] = v[i]
          BY <4>2, AppendLaw
        <5>2. Singles(v, d)[i] = [bytes |-> <<v[i]>>, timestamp |-> d]
          BY <4>2 DEF Singles
        <5> QED  BY <3>3, <4>1, <4>2, <5>1, <5>2
      <4>3. CASE i = Len(v) + 1
        <5>1. Append(v, e)[i] = e
          BY <4>3, AppendLaw
        <5>2. Singles(Append(v, e), d)[i] = m
          BY <4>1, <5>1
        <5> HIDE DEF m
        <5> QED  BY <3>3, <4>3, <5>2
      <4>4. i \in 1..Len(v) \/ i = Len(v) + 1
        BY <3>1
      <4> QED  BY <4>2, <4>3, <4>4
    <3> HIDE DEF m
    <3> QED  BY <3>2, <3>3, <3>4, SeqEqual
  <2> HIDE DEF m
  <2>3. ms \o Append(Singles(v, d), m) = Append(ms \o Singles(v, d), m) /\ ms \o Singles(v, d) \in Seq(Deliveries)
    <3>1. Singles(v, d) \in Seq(Deliveries)
      BY <1>1
    <3>2. ms \o Singles(v, d) \in Seq(Deliveries)
      BY <3>1, ConcatProperties
    <3> QED  BY <2>1, <3>1, <3>2, ConcatAppend, AppendIsConcat
  <2>4. Flatten(Append(ms \o Singles(v, d), m)) = Flatten(ms \o Singles(v, d)) \o <<e>>
    BY <2>1, <2>3, FlattenLaws
  <2>5. Flatten(ms \o Singles(v, d)) = Flatten(ms) \o v /\ Flatten(ms) \in Seq(Pieces)
    BY <1>3, FlattenLaws
  <2>6. (Flatten(ms) \o v) \o <<e>> = Flatten(ms) \o Append(v, e)
    <3>1. Flatten(ms) \in Seq(Pieces)
      BY FlattenLaws
    <3>2. Flatten(ms) \o Append(v, e) = (Flatten(ms) \o v) \o <<e>>
      <4> HIDE DEF Q
      <4> QED  BY <3>1, ConcatAppend
    <3> QED  BY <3>2
  <2>7. Append(v, e) \in Seq(Pieces)
    OBVIOUS
  <2> QED  BY <2>2, <2>3, <2>4, <2>5, <2>6, <2>7
<1>4. Seq(Pieces) \subseteq Q
  <2> HIDE DEF Q
  <2> QED  BY <1>2, <1>3, SeqInduction
<1>5. w \in Q
  <2> HIDE DEF Q
  <2> QED  BY <1>4
<1> QED  BY <1>1, <1>5

\* What two sequences have in common stays in common when less is kept of both,
\* and when they grow alike.
LEMMA StaysAlike ==
  ASSUME NEW P, NEW R, R \subseteq P, NEW a \in Seq(Pieces), NEW b \in Seq(Pieces), Kept(a, P) = Kept(b, P)
  PROVE  Kept(a, R) = Kept(b, R)
<1>1. P \cap R = R
  OBVIOUS
<1>2. Kept(a, R) = Kept(Kept(a, P), R) /\ Kept(b, R) = Kept(Kept(b, P), R)
  BY <1>1, KeptTwice
<1> QED  BY <1>2

LEMMA GrowsAlike ==
  ASSUME NEW P, NEW R, R \subseteq P,
         NEW a \in Seq(Pieces), NEW b \in Seq(Pieces), NEW x \in Seq(Pieces), NEW y \in Seq(Pieces),
         Kept(a, P) = Kept(b, P), Kept(x, R) = Kept(y, R)
  PROVE  Kept(a \o x, R) = Kept(b \o y, R)
<1>1. Kept(a, R) = Kept(b, R)
  BY StaysAlike
<1>2. Kept(a \o x, R) = Kept(a, R) \o Kept(x, R) /\ Kept(b \o y, R) = Kept(b, R) \o Kept(y, R)
  BY KeptConcat
<1> QED  BY <1>1, <1>2

-----------------------------------------------------------------------------
(* The invariant. A sysex is collected from its first piece on, which is of  *)
(* the sysex that the device is inside of, or something of it was damaged.   *)

Got == Flatten(delivered) \o message.bytes

Clock ==
  /\ last_time_ns <= device.now
  /\ first_message => started = 0 /\ last_time_ns = 0 /\ delivered = <<>>

\* A part of it was damaged; it is a sysex so far, the one with number n; it is a
\* message from its first piece to its last.
Broken(b, S) == \E j \in 1..Len(b) : b[j] \notin S
Begun(b, n) ==
  b[1].first /\ b[1].msg = n /\ \A j \in 2..Len(b) : b[j].msg = n \/ b[j].kind \in RealTime
Entire(b) ==
  /\ b[1].first /\ Last(b).last /\ b[1].msg = Last(b).msg
  /\ \A j \in 2..(Len(b) - 1) : b[j].msg = b[1].msg \/ b[j].kind \in RealTime

Collected ==
  /\ "sysex" \in ignored => message.bytes = <<>>
  /\ "sysex" \notin ignored /\ m_state = "in_sysex" =>
       message.bytes # <<>> /\ (Broken(message.bytes, Sound) \/ Begun(message.bytes, device.inside))

SInv == TypeOK /\ Clock /\ Collected /\ Transparent /\ TimesAddUp

-----------------------------------------------------------------------------
(* What a span may be: whole messages, or one part of a sysex.               *)

WholeOnes(s) ==
  \A i \in 1..Len(s) : /\ s[i].kind # "sysex" /\ s[i].first /\ s[i].last
                       /\ device.inside # 0 => s[i].kind \in RealTime

OnePart(s) ==
  /\ Len(s) = 1 /\ s[1].kind = "sysex" /\ s[1].first = (device.inside = 0)
  /\ device.inside # 0 => s[1].msg = device.inside

IsSpan(s) ==
  /\ s \in Seq(Pieces) /\ Len(s) \in Nat /\ Len(s) >= 1 /\ (Len(s) > 1 => multi)
  /\ WholeOnes(s) \/ OnePart(s)

LEMMA MessagesAreSpans ==
  ASSUME TypeOK, NEW kinds \in SUBSET (Kinds \ {"sysex"}), device.inside # 0 => kinds \subseteq RealTime,
         NEW s \in Messages(kinds), Last(s).msg <= MaxMessages
  PROVE  IsSpan(s)
<1> DEFINE n == device.begun + 1
<1>1. n \in Nat /\ n >= 1 /\ MaxMessages \in Nat /\ PacketSize \in Nat
  BY BoundsAssumption DEF TypeOK
<1>2. ASSUME NEW k \in kinds, s = <<Whole(n, k)>> PROVE IsSpan(s)
  <2>1. Len(s) = 1 /\ s[1] = Whole(n, k) /\ Last(s) = Whole(n, k)
    BY <1>2 DEF Last
  <2>2. n <= MaxMessages
    BY <2>1 DEF Whole
  <2>3. Whole(n, k) \in Pieces
    <3> HIDE DEF n
    <3> QED  BY <1>1, <2>2 DEF Pieces, Whole
  <2>4. s \in Seq(Pieces)
    BY <1>2, <2>3
  <2>5. WholeOnes(s)
    BY <2>1 DEF WholeOnes, Whole
  <2> QED  BY <2>1, <2>4, <2>5 DEF IsSpan
<1>3. ASSUME multi, NEW l \in 2..PacketSize, NEW ks \in [1..PacketSize -> kinds],
             s = [i \in 1..l |-> Whole(n + i - 1, ks[i])]
      PROVE  IsSpan(s)
  <2>1. l \in Nat /\ l >= 2 /\ \A i \in 1..l : ks[i] \in kinds
    BY <1>1
  <2>2. Len(s) = l /\ l \in 1..l /\ \A i \in 1..l : s[i] = Whole(n + i - 1, ks[i])
    BY <1>3, <2>1
  <2>3. n + l - 1 <= MaxMessages
    BY <2>2 DEF Last, Whole
  <2>4. ASSUME NEW i \in 1..l PROVE Whole(n + i - 1, ks[i]) \in Pieces
    <3>1. n + i - 1 \in 1..MaxMessages
      <4> HIDE DEF n
      <4> QED  BY <1>1, <2>1, <2>3
    <3>2. ks[i] \in Kinds
      BY <2>1
    <3> QED  BY <3>1, <3>2 DEF Pieces, Whole
  <2>5. s \in Seq(Pieces)
    BY <1>3, <2>1, <2>4
  <2>6. WholeOnes(s)
    BY <2>1, <2>2 DEF WholeOnes, Whole
  <2> QED  BY <1>3, <2>1, <2>2, <2>5, <2>6 DEF IsSpan
<1> QED  BY <1>2, <1>3 DEF Messages

LEMMA SpanShape ==
  ASSUME TypeOK, NEW s \in NextSpans, Sends(s)
  PROVE  IsSpan(s)
<1>1. /\ device.inside \in 0..MaxMessages /\ device.begun + 1 \in Nat /\ device.begun + 1 >= 1
      /\ MaxMessages \in Nat /\ Last(s).msg <= MaxMessages
  BY BoundsAssumption DEF TypeOK, Sends
<1>2. ASSUME NEW m \in Nat, m >= 1, NEW f \in BOOLEAN, NEW l \in BOOLEAN, s = <<Part(m, f, l)>>,
             f = (device.inside = 0), device.inside # 0 => m = device.inside
      PROVE  IsSpan(s)
  <2>1. Len(s) = 1 /\ s[1] = Part(m, f, l) /\ Last(s) = Part(m, f, l)
    BY <1>2 DEF Last
  <2>2. m \in 1..MaxMessages
    BY <1>1, <1>2, <2>1 DEF Part
  <2>3. Part(m, f, l) \in Pieces
    BY <2>2 DEF Part, Pieces, Kinds
  <2>4. s \in Seq(Pieces)
    BY <1>2, <2>3
  <2>5. OnePart(s)
    BY <1>2, <2>1 DEF OnePart, Part
  <2> QED  BY <2>1, <2>4, <2>5 DEF IsSpan
<1>3. CASE device.inside # 0
  <2>1. CASE s \in Messages(RealTime)
    <3>1. RealTime \in SUBSET (Kinds \ {"sysex"})
      BY DEF RealTime, Kinds
    <3> QED  BY <1>1, <2>1, <3>1, MessagesAreSpans
  <2>2. CASE \E l \in BOOLEAN : s = <<Part(device.inside, FALSE, l)>>
    <3>1. device.inside \in Nat /\ device.inside >= 1
      BY <1>1, <1>3
    <3> QED  BY <1>2, <1>3, <2>2, <3>1
  <2> QED  BY <1>3, <2>1, <2>2 DEF NextSpans
<1>4. CASE device.inside = 0
  <2>1. CASE s \in Messages(Kinds \ {"sysex"})
    BY <1>1, <1>4, <2>1, MessagesAreSpans
  <2>2. CASE \E l \in BOOLEAN : s = <<Part(device.begun + 1, TRUE, l)>>
    BY <1>1, <1>2, <1>4, <2>2
  <2> QED  BY <1>4, <2>1, <2>2 DEF NextSpans
<1> QED  BY <1>3, <1>4

\* What the source makes of it.
LEMMA DeviceStep ==
  ASSUME TypeOK, NEW s, IsSpan(s), Sends(s)
  PROVE  /\ device' \in [begun : 0..MaxMessages, inside : 0..MaxMessages, now : 0..MaxSpans]
         /\ device.now + 1 \in 0..MaxSpans /\ device'.now = device.now + 1 /\ device.now \in Nat
         /\ WholeOnes(s) => device'.inside = device.inside
         /\ OnePart(s) => device'.inside = IF s[1].last THEN 0 ELSE s[1].msg
<1> DEFINE b == IF Last(s).msg > device.begun THEN Last(s).msg ELSE device.begun
           c == IF BeginsSysex(Last(s)) /\ ~EndsSysex(Last(s)) THEN Last(s).msg
                ELSE IF EndsSysex(Last(s)) THEN 0 ELSE device.inside
<1>1. device' = [now |-> device.now + 1, begun |-> b, inside |-> c]
  BY DEF Sends
<1>2. /\ Last(s) = s[Len(s)] /\ Len(s) \in 1..Len(s) /\ Last(s) \in Pieces
      /\ Last(s).msg \in 0..MaxMessages
  <2>1. Last(s) = s[Len(s)] /\ Len(s) \in 1..Len(s) /\ Last(s) \in Pieces
    BY DEF IsSpan, Last
  <2>2. Last(s).msg \in 1..MaxMessages
    BY <2>1 DEF Pieces
  <2> QED  BY <2>1, <2>2, BoundsAssumption
<1>3. /\ device.inside \in 0..MaxMessages /\ device.begun \in 0..MaxMessages
      /\ device.now \in Nat /\ device.now + 1 \in 0..MaxSpans
  BY BoundsAssumption DEF TypeOK, Sends
<1>4. b \in 0..MaxMessages /\ c \in 0..MaxMessages
  BY <1>2, <1>3, BoundsAssumption
<1>5. WholeOnes(s) => c = device.inside
  BY <1>2 DEF WholeOnes, BeginsSysex, EndsSysex
<1>6. OnePart(s) => c = IF s[1].last THEN 0 ELSE s[1].msg
  BY <1>2 DEF OnePart, BeginsSysex, EndsSysex
<1> HIDE DEF b, c
<1> QED  BY <1>1, <1>3, <1>4, <1>5, <1>6

-----------------------------------------------------------------------------
(* What the machine makes of a span, case by case.                           *)

\* A sysex, or a message that is ignored.
Skips(s) ==
  /\ UNCHANGED <<message, delivered>> /\ message.bytes = <<>>
  /\ \/ m_state = "in_sysex" /\ "sysex" \in ignored
     \/ m_state = "main" /\ Len(s) = 1 /\ s[1].first /\ Ignored(s[1])
  /\ m_state' = "in_sysex" => "sysex" \in ignored

Collects(s) ==
  /\ m_state = "in_sysex" /\ m_state' = "in_sysex" /\ "sysex" \notin ignored
  /\ ~EndsSysex(Last(s))
  /\ message' = [message EXCEPT !.bytes = @ \o s] /\ UNCHANGED delivered

Finishes(s) ==
  /\ m_state = "in_sysex" /\ m_state' = "main" /\ "sysex" \notin ignored
  /\ EndsSysex(Last(s))
  /\ delivered' = Append(delivered, [message EXCEPT !.bytes = @ \o s]) /\ message' = Empty

Starts(s) ==
  /\ m_state = "main" /\ m_state' = "in_sysex" /\ "sysex" \notin ignored
  /\ Len(s) = 1 /\ s[1].first /\ ~s[1].last /\ s[1].kind = "sysex" /\ ~Ignored(s[1])
  /\ message' = [bytes |-> s, timestamp |-> Delta] /\ UNCHANGED delivered

Passes(s) ==
  /\ m_state = "main" /\ m_state' = "main"
  /\ Len(s) = 1 /\ (s[1].first => s[1].last /\ ~Ignored(s[1]))
  /\ delivered' = Append(delivered, [bytes |-> s, timestamp |-> Delta]) /\ message' = Empty

Unpacks(s) ==
  /\ m_state = "main" /\ m_state' = "main"
  /\ Len(s) = 1 /\ s[1].first => s[1].last
  /\ delivered' = delivered \o Singles(Kept(s, {p \in Wanted : p.first}), Delta) /\ message' = Empty

Outcome(s) == Skips(s) \/ Collects(s) \/ Finishes(s) \/ Starts(s) \/ Passes(s) \/ Unpacks(s)

LEMMA Outcomes ==
  ASSUME TypeOK, Collected, NEW s, IsSpan(s), Receive(s)
  PROVE  Outcome(s)
<1>1. /\ Len(s) \in Nat /\ Len(s) >= 1 /\ (Len(s) > 1 => multi) /\ (Len(s) = 1 => Last(s) = s[1])
      /\ WholeOnes(s) \/ OnePart(s)
  BY DEF IsSpan, Last
<1>2. m_state \in {"main", "in_sysex"} /\ (m_state = "main" => message.bytes = <<>>)
      /\ ("sysex" \in ignored => message.bytes = <<>>)
  BY DEF TypeOK, Collected
<1>3. CASE m_state = "in_sysex"
  <2>1. ContinueSysex(s)
    BY <1>3 DEF Receive
  <2>2. CASE "sysex" \in ignored
    BY <1>2, <1>3, <2>1, <2>2 DEF ContinueSysex, Outcome, Skips
  <2>3. CASE "sysex" \notin ignored /\ HasFinishedSysex(s)
    BY <1>3, <2>1, <2>3 DEF ContinueSysex, Deliver, HasFinishedSysex, Outcome, Finishes
  <2>4. CASE "sysex" \notin ignored /\ ~HasFinishedSysex(s)
    BY <1>3, <2>1, <2>4 DEF ContinueSysex, HasFinishedSysex, Outcome, Collects
  <2> QED  BY <2>2, <2>3, <2>4
<1>4. CASE m_state = "main" /\ StartSysex(s)
  <2>1. /\ BeginsSysex(s[1]) /\ ~HasFinishedSysex(s) /\ m_state' = "in_sysex"
        /\ message' = IF Ignored(s[1]) THEN message ELSE [bytes |-> s, timestamp |-> Delta]
        /\ delivered' = delivered
    BY <1>4 DEF StartSysex
  <2>2. s[1].kind = "sysex" /\ s[1].first /\ Len(s) = 1
    <3>1. s[1].kind = "sysex" /\ s[1].first /\ 1 \in 1..Len(s)
      BY <1>1, <2>1 DEF BeginsSysex
    <3>2. ~WholeOnes(s)
      BY <3>1 DEF WholeOnes
    <3> QED  BY <1>1, <3>1, <3>2 DEF OnePart
  <2>3. ~s[1].last
    BY <1>1, <2>1, <2>2 DEF HasFinishedSysex, EndsSysex
  <2>4. Ignored(s[1]) <=> "sysex" \in ignored
    BY <2>2 DEF Ignored
  <2>5. CASE Ignored(s[1])
    BY <1>2, <1>4, <2>1, <2>2, <2>4, <2>5 DEF Outcome, Skips
  <2>6. CASE ~Ignored(s[1])
    BY <1>4, <2>1, <2>2, <2>3, <2>4, <2>6 DEF Outcome, Starts
  <2> QED  BY <2>5, <2>6
<1>5. CASE m_state = "main" /\ ~StartSysex(s)
  <2>1. m_state # "in_sysex"
    BY <1>5
  <2>2. ASSUME Len(s) = 1, ~BeginsSysex(s[1]) \/ HasFinishedSysex(s), s[1].first PROVE s[1].last
    <3>1. CASE WholeOnes(s)
      BY <1>1, <2>2, <3>1 DEF WholeOnes
    <3>2. CASE OnePart(s)
      BY <1>1, <2>1, <2>2, <3>2 DEF OnePart, BeginsSysex, HasFinishedSysex, EndsSysex
    <3> QED  BY <1>1, <3>1, <3>2
  <2>3. CASE multi
    <3>1. OnPacket(s)
      BY <2>1, <2>3 DEF Receive
    <3>2. /\ ~BeginsSysex(s[1]) \/ HasFinishedSysex(s)
          /\ m_state' = m_state /\ message' = Empty
          /\ delivered' = delivered \o Singles(Kept(s, {p \in Wanted : p.first}), Delta)
      BY <1>5, <3>1 DEF OnPacket, Singles
    <3> QED  BY <1>5, <2>2, <3>2 DEF Outcome, Unpacks
  <2>4. CASE ~multi
    <3>0. OnMain(s)
      BY <2>1, <2>4 DEF Receive
    <3>1. Len(s) = 1
      BY <1>1, <2>4
    <3>2. /\ ~BeginsSysex(s[1]) \/ HasFinishedSysex(s)
          /\ m_state' = m_state
          /\ IF Ignored(s[1]) /\ s[1].first THEN UNCHANGED <<message, delivered>>
             ELSE Deliver([bytes |-> s, timestamp |-> Delta])
      BY <1>5, <3>0 DEF OnMain
    <3>3. CASE Ignored(s[1]) /\ s[1].first
      BY <1>2, <1>5, <3>1, <3>2, <3>3 DEF Outcome, Skips
    <3>4. CASE ~(Ignored(s[1]) /\ s[1].first)
      BY <1>5, <2>2, <3>1, <3>2, <3>4 DEF Outcome, Passes, Deliver
    <3> QED  BY <3>3, <3>4
  <2> QED  BY <2>3, <2>4
<1> QED  BY <1>2, <1>3, <1>4, <1>5

\* The times are those of the clock.
LEMMA DeltaType ==
  ASSUME TypeOK, Clock, device.now + 1 \in 0..MaxSpans
  PROVE  Delta \in 0..MaxSpans
<1>1. last_time_ns \in Nat /\ device.now \in Nat /\ MaxSpans \in Nat /\ last_time_ns <= device.now
  BY BoundsAssumption DEF TypeOK, Clock
<1> QED  BY <1>1 DEF Delta

-----------------------------------------------------------------------------
(* Steps: the types and the clock.                                           *)

Sent == [bytes : Seq(Pieces) \ {<<>>}, timestamp : 0..MaxSpans]

LEMMA NewBytes ==
  ASSUME NEW B, NEW T, NEW r \in [bytes : B, timestamp : T], NEW b
  PROVE  [r EXCEPT !.bytes = b] = [bytes |-> b, timestamp |-> r.timestamp]
OBVIOUS

\* The message with the pieces of s at its end.
LEMMA Longer ==
  ASSUME TypeOK, NEW s \in Seq(Pieces), Len(s) \in Nat, Len(s) >= 1
  PROVE  /\ [message EXCEPT !.bytes = @ \o s] \in Sent
         /\ [message EXCEPT !.bytes = @ \o s].bytes = message.bytes \o s
         /\ [message EXCEPT !.bytes = @ \o s].timestamp = message.timestamp
<1>1. /\ message \in [bytes : Seq(Pieces), timestamp : 0..MaxSpans]
      /\ message.bytes \in Seq(Pieces) /\ message.timestamp \in 0..MaxSpans
  BY DEF TypeOK
<1>2. [message EXCEPT !.bytes = @ \o s] = [bytes |-> message.bytes \o s, timestamp |-> message.timestamp]
  BY <1>1, NewBytes
<1>3. message.bytes \o s \in Seq(Pieces) /\ Len(message.bytes \o s) = Len(message.bytes) + Len(s)
  BY <1>1, ConcatProperties
<1>4. Len(message.bytes) \in Nat /\ Len(<<>>) = 0
  BY <1>1
<1>5. message.bytes \o s # <<>>
  BY <1>3, <1>4
<1>6. [bytes |-> message.bytes \o s, timestamp |-> message.timestamp] \in Sent
  BY <1>1, <1>3, <1>5 DEF Sent
<1> QED  BY <1>2, <1>6

LEMMA SinglesType ==
  ASSUME NEW w \in Seq(Pieces), NEW d \in 0..MaxSpans
  PROVE  Singles(w, d) \in Seq(Sent)
<1>1. ASSUME NEW i \in 1..Len(w) PROVE [bytes |-> <<w[i]>>, timestamp |-> d] \in Sent
  <2>1. w[i] \in Pieces
    OBVIOUS
  <2>2. <<w[i]>> \in Seq(Pieces) /\ Len(<<w[i]>>) = 1 /\ Len(<<>>) = 0
    BY <2>1
  <2>3. <<w[i]>> # <<>>
    BY <2>2
  <2> QED  BY <2>2, <2>3 DEF Sent
<1> HIDE DEF Sent
<1> QED  BY <1>1 DEF Singles

LEMMA MachineReceive ==
  ASSUME TypeOK, Clock, Collected, NEW s, IsSpan(s), Receive(s)
  PROVE  /\ m_state' \in {"main", "in_sysex"} /\ (m_state' = "main" => message'.bytes = <<>>)
         /\ message' \in [bytes : Seq(Pieces), timestamp : 0..MaxSpans]
         /\ delivered' \in Seq(Sent)
<1>1. /\ m_state \in {"main", "in_sysex"} /\ delivered \in Seq(Sent)
      /\ message \in [bytes : Seq(Pieces), timestamp : 0..MaxSpans]
      /\ (m_state = "main" => message.bytes = <<>>)
  BY DEF TypeOK, Sent
<1>2. s \in Seq(Pieces) /\ Len(s) \in Nat /\ Len(s) >= 1
  BY DEF IsSpan
<1>3. Delta \in 0..MaxSpans
  BY DeviceStep, DeltaType DEF Receive
<1>4. Empty \in [bytes : Seq(Pieces), timestamp : 0..MaxSpans] /\ Empty.bytes = <<>>
  BY BoundsAssumption, EmptySeq DEF Empty
<1>5. s # <<>>
  <2>1. Len(<<>>) = 0
    OBVIOUS
  <2> QED  BY <1>2, <2>1
<1>6. [bytes |-> s, timestamp |-> Delta] \in Sent /\ Sent \subseteq [bytes : Seq(Pieces), timestamp : 0..MaxSpans]
  BY <1>2, <1>3, <1>5 DEF Sent
<1>7. CASE Skips(s)
  <2>1. m_state' \in {"main", "in_sysex"}
    BY <1>1 DEF Receive, ContinueSysex, OnPacket, OnMain, StartSysex
  <2> QED  BY <1>1, <1>7, <2>1 DEF Skips
<1>8. CASE Collects(s)
  <2>1. [message EXCEPT !.bytes = @ \o s] \in Sent
    BY <1>2, Longer
  <2> QED  BY <1>1, <1>6, <1>8, <2>1 DEF Collects
<1>9. CASE Finishes(s)
  <2>1. [message EXCEPT !.bytes = @ \o s] \in Sent
    BY <1>2, Longer
  <2> QED  BY <1>1, <1>4, <1>9, <2>1, AppendProperties DEF Finishes
<1>10. CASE Starts(s)
  BY <1>1, <1>6, <1>10 DEF Starts
<1>11. CASE Passes(s)
  BY <1>1, <1>4, <1>6, <1>11, AppendProperties DEF Passes
<1>12. CASE Unpacks(s)
  <2>1. Kept(s, {p \in Wanted : p.first}) \in Seq(Pieces)
    BY <1>2, KeptLaws
  <2>2. Singles(Kept(s, {p \in Wanted : p.first}), Delta) \in Seq(Sent)
    BY <1>3, <2>1, SinglesType
  <2> QED  BY <1>1, <1>4, <1>12, <2>2, ConcatProperties DEF Unpacks
<1> QED  BY <1>7, <1>8, <1>9, <1>10, <1>11, <1>12, Outcomes DEF Outcome

\* Messages that were in the span are messages that the device sends.
LEMMA Numbers ==
  ASSUME NEW s \in Seq(Pieces)
  PROVE  MessagesOf(s) \subseteq 1..MaxMessages
<1>1. ASSUME NEW i \in 1..Len(s) PROVE s[i].msg \in 1..MaxMessages
  <2>1. s[i] \in Pieces
    OBVIOUS
  <2> QED  BY <2>1 DEF Pieces
<1> QED  BY <1>1 DEF MessagesOf

LEMMA TypeReceive ==
  ASSUME TypeOK, Clock, Collected, NEW s, IsSpan(s), Receive(s)
  PROVE  TypeOK' /\ Clock'
<1>1. s \in Seq(Pieces) /\ Len(s) \in Nat /\ Len(s) >= 1
  BY DEF IsSpan
<1>2. /\ device' \in [begun : 0..MaxMessages, inside : 0..MaxMessages, now : 0..MaxSpans]
      /\ device.now + 1 \in 0..MaxSpans /\ device'.now = device.now + 1 /\ device.now \in Nat
  BY DeviceStep DEF Receive
<1>3. /\ last_time_ns' = device.now + 1 /\ first_message' = FALSE /\ span' = s
      /\ ignored' = ignored /\ multi' = multi
      /\ expected' = expected \o Kept(s, Wanted) /\ within' \subseteq within \cup MessagesOf(s)
      /\ damaged' = IF OutOfStep THEN damaged \cup MessagesOf(s) ELSE damaged
      /\ timeless' \in BOOLEAN
      /\ started' = IF first_message THEN device.now + 1 ELSE started
  BY DEF Receive, Timestamp
<1>4. expected' \in Seq(Pieces)
  <2>1. expected \in Seq(Pieces) /\ <<>> \in Seq(Pieces) /\ Kept(s, Wanted) \in Seq(Pieces)
    BY <1>1, KeptLaws, EmptySeq DEF TypeOK
  <2> QED  BY <1>1, <1>3, <2>1, ConcatProperties
<1>5. damaged' \subseteq 1..MaxMessages /\ within' \subseteq 1..MaxMessages
  BY <1>1, <1>3, Numbers DEF TypeOK
<1>6. started' \in 0..MaxSpans /\ last_time_ns' \in 0..MaxSpans
  BY <1>2, <1>3 DEF TypeOK
<1>7. TypeOK'
  BY <1>1, <1>2, <1>3, <1>4, <1>5, <1>6, MachineReceive DEF TypeOK, Sent
<1>8. Clock'
  BY <1>2, <1>3 DEF Clock
<1> QED  BY <1>7, <1>8

LEMMA TypeGap ==
  ASSUME TypeOK, Clock, NEW s, IsSpan(s), Lose(s) \/ Reset(s)
  PROVE  TypeOK' /\ Clock'
<1>1. s \in Seq(Pieces) /\ message.bytes \in Seq(Pieces) /\ <<>> \in Seq(Pieces)
  BY EmptySeq DEF IsSpan, TypeOK
<1>2. /\ device' \in [begun : 0..MaxMessages, inside : 0..MaxMessages, now : 0..MaxSpans]
      /\ device'.now = device.now + 1 /\ device.now \in Nat /\ device.inside \in 0..MaxMessages
  BY DeviceStep DEF Lose, Reset, TypeOK
<1>3. s \o message.bytes \in Seq(Pieces)
  BY <1>1, ConcatProperties
<1>4. damaged' \subseteq 1..MaxMessages
  <2>1. damaged \subseteq 1..MaxMessages /\ {device.inside} \ {0} \subseteq 1..MaxMessages
    BY <1>2, BoundsAssumption DEF TypeOK
  <2> QED  BY <1>1, <1>3, <2>1, Numbers DEF Lose, Reset, Damages
<1>5. /\ UNCHANGED <<ignored, multi, last_time_ns, first_message, delivered, expected, within, timeless, started>>
      /\ span' = <<>>
      /\ UNCHANGED <<m_state, message>> \/ (m_state' = "main" /\ message' = Empty)
  BY DEF Lose, Reset, machine
<1>6. Empty \in [bytes : Seq(Pieces), timestamp : 0..MaxSpans] /\ Empty.bytes = <<>>
  BY BoundsAssumption, EmptySeq DEF Empty
<1>7. TypeOK'
  BY <1>1, <1>2, <1>4, <1>5, <1>6 DEF TypeOK
<1>8. Clock'
  <2>1. last_time_ns \in Nat
    BY DEF TypeOK
  <2> QED  BY <1>2, <1>5, <2>1 DEF Clock
<1> QED  BY <1>7, <1>8

-----------------------------------------------------------------------------
(* Steps: what is collected, and how the messages are framed.                *)

LEMMA BrokenLaws ==
  ASSUME NEW S, NEW R, R \subseteq S, NEW a \in Seq(Pieces), NEW b \in Seq(Pieces)
  PROVE  /\ Broken(a, S) => Broken(a, R)
         /\ Broken(a, S) \/ Broken(b, S) => Broken(a \o b, S)
<1>1. /\ Len(a) \in Nat /\ Len(b) \in Nat /\ Len(a \o b) = Len(a) + Len(b)
      /\ \A i \in 1..Len(a) : (a \o b)[i] = a[i] /\ i \in 1..Len(a \o b)
      /\ \A i \in 1..Len(b) : (a \o b)[Len(a) + i] = b[i] /\ Len(a) + i \in 1..Len(a \o b)
  OBVIOUS
<1> QED  BY <1>1 DEF Broken

\* What continues a sysex.
Continues(s, n) == \A i \in 1..Len(s) : s[i].msg = n \/ s[i].kind \in RealTime

LEMMA BegunLaws ==
  ASSUME NEW n, NEW a \in Seq(Pieces), a # <<>>, NEW s \in Seq(Pieces), Len(s) >= 1,
         Begun(a, n), Continues(s, n)
  PROVE  /\ Begun(a \o s, n)
         /\ Last(s).last /\ Last(s).msg = n => Entire(a \o s)
<1>1. /\ Len(a) \in Nat /\ Len(a) >= 1 /\ Len(s) \in Nat /\ Len(a \o s) = Len(a) + Len(s)
      /\ \A i \in 1..Len(a) : (a \o s)[i] = a[i]
      /\ \A i \in (Len(a) + 1)..(Len(a) + Len(s)) : (a \o s)[i] = s[i - Len(a)] /\ i - Len(a) \in 1..Len(s)
  OBVIOUS
<1>2. (a \o s)[1] = a[1] /\ (a \o s)[1].first /\ (a \o s)[1].msg = n
  BY <1>1 DEF Begun
<1>3. ASSUME NEW j \in 2..(Len(a) + Len(s)) PROVE (a \o s)[j].msg = n \/ (a \o s)[j].kind \in RealTime
  <2>1. CASE j \in 2..Len(a)
    BY <1>1, <2>1 DEF Begun
  <2>2. CASE j \in (Len(a) + 1)..(Len(a) + Len(s))
    BY <1>1, <2>2 DEF Continues
  <2>3. j \in 2..Len(a) \/ j \in (Len(a) + 1)..(Len(a) + Len(s))
    BY <1>1
  <2> QED  BY <2>1, <2>2, <2>3
<1>4. Last(a \o s) = Last(s)
  BY <1>1 DEF Last
<1>5. Begun(a \o s, n)
  BY <1>1, <1>2, <1>3 DEF Begun
<1>6. ASSUME Last(s).last, Last(s).msg = n PROVE Entire(a \o s)
  <2>1. \A j \in 2..(Len(a \o s) - 1) : j \in 2..(Len(a) + Len(s))
    BY <1>1
  <2> QED  BY <1>2, <1>3, <1>4, <1>6, <2>1 DEF Entire
<1> QED  BY <1>5, <1>6

\* Less is sound after a step; out of step, nothing of a span is.
LEMMA LessSound ==
  ASSUME NEW s, Receive(s) \/ Lose(s) \/ Reset(s)
  PROVE  Sound' \subseteq Sound
<1>1. damaged \subseteq damaged'
  BY DEF Receive, Lose, Reset, Damages
<1> QED  BY <1>1 DEF Sound

LEMMA NoneSound ==
  ASSUME NEW s \in Seq(Pieces), MessagesOf(s) \subseteq damaged'
  PROVE  NoneIn(s, Sound') /\ (Len(s) >= 1 => Broken(s, Sound'))
<1>1. ASSUME NEW i \in 1..Len(s) PROVE s[i] \notin Sound'
  <2>1. s[i].msg \in MessagesOf(s)
    BY DEF MessagesOf
  <2> QED  BY <2>1 DEF Sound
<1>2. Len(s) \in Nat
  OBVIOUS
<1> QED  BY <1>1, <1>2 DEF NoneIn, Broken

LEMMA OutOfStepDamages ==
  ASSUME NEW s, IsSpan(s), Receive(s), OutOfStep
  PROVE  NoneIn(s, Sound') /\ Broken(s, Sound')
<1>1. MessagesOf(s) \subseteq damaged'
  BY DEF Receive
<1> QED  BY <1>1, NoneSound DEF IsSpan

\* In step, inside of a sysex, a span continues it.
LEMMA InStepContinues ==
  ASSUME NEW s, IsSpan(s), device.inside # 0
  PROVE  Continues(s, device.inside)
<1>1. CASE WholeOnes(s)
  BY <1>1 DEF WholeOnes, Continues
<1>2. CASE OnePart(s)
  BY <1>2 DEF OnePart, Continues
<1> QED  BY <1>1, <1>2 DEF IsSpan

LEMMA CollectedReceive ==
  ASSUME TypeOK, Collected, NEW s, IsSpan(s), Receive(s)
  PROVE  Collected'
<1>1. /\ s \in Seq(Pieces) /\ Len(s) \in Nat /\ Len(s) >= 1 /\ message.bytes \in Seq(Pieces)
      /\ Len(s) \in 1..Len(s) /\ 1 \in 1..Len(s) /\ Last(s) = s[Len(s)] /\ (WholeOnes(s) \/ OnePart(s))
      /\ ignored' = ignored /\ Len(<<>>) = 0 /\ Empty.bytes = <<>>
  BY DEF IsSpan, TypeOK, Receive, Last, Empty
<1>2. CASE Skips(s)
  BY <1>1, <1>2 DEF Skips, Collected
<1>3. CASE Collects(s)
  <2>1. message'.bytes = message.bytes \o s /\ message'.bytes # <<>>
    <3>1. message' = [message EXCEPT !.bytes = @ \o s] /\ [message EXCEPT !.bytes = @ \o s] \in Sent
      BY <1>1, <1>3, Longer DEF Collects
    <3> QED  BY <1>1, <3>1, Longer DEF Sent
  <2>2. message.bytes # <<>> /\ (Broken(message.bytes, Sound) \/ Begun(message.bytes, device.inside))
    BY <1>3 DEF Collects, Collected
  <2>3. CASE Broken(message.bytes, Sound)
    <3>1. Broken(message.bytes, Sound')
      BY <1>1, <2>3, BrokenLaws, LessSound
    <3>2. Broken(message.bytes \o s, Sound')
      BY <1>1, <3>1, BrokenLaws
    <3> QED  BY <1>1, <1>3, <2>1, <3>2 DEF Collected, Collects
  <2>4. CASE OutOfStep
    <3>1. Broken(s, Sound')
      BY <2>4, OutOfStepDamages
    <3>2. Broken(message.bytes \o s, Sound')
      BY <1>1, <3>1, BrokenLaws
    <3> QED  BY <1>1, <1>3, <2>1, <3>2 DEF Collected, Collects
  <2>5. CASE Begun(message.bytes, device.inside) /\ ~OutOfStep
    <3>1. device.inside # 0
      BY <1>3, <2>5 DEF OutOfStep, Collects
    <3>2. Begun(message.bytes \o s, device.inside)
      BY <1>1, <2>2, <2>5, <3>1, InStepContinues, BegunLaws
    <3>3. device'.inside = device.inside
      <4>1. WholeOnes(s) => device'.inside = device.inside
        BY DeviceStep DEF Receive
      <4>2. ASSUME OnePart(s) PROVE device'.inside = device.inside
        <5>1. ~s[1].last /\ s[1].msg = device.inside
          BY <1>1, <1>3, <3>1, <4>2 DEF Collects, EndsSysex, OnePart
        <5> QED  BY <4>2, <5>1, DeviceStep DEF Receive
      <4> QED  BY <1>1, <4>1, <4>2
    <3> QED  BY <1>1, <1>3, <2>1, <3>2, <3>3 DEF Collected, Collects
  <2> QED  BY <2>2, <2>3, <2>4, <2>5
<1>4. CASE Finishes(s)
  BY <1>1, <1>4 DEF Finishes, Collected
<1>5. CASE Starts(s)
  <2>1. OnePart(s)
    BY <1>1, <1>5 DEF Starts, WholeOnes
  <2>2. device'.inside = s[1].msg
    BY <1>5, <2>1, DeviceStep DEF Receive, Starts
  <2>3. Begun(s, device'.inside)
    BY <1>1, <1>5, <2>2 DEF Begun, Starts
  <2>4. message'.bytes = s /\ s # <<>>
    BY <1>1, <1>5 DEF Starts
  <2> QED  BY <1>1, <1>5, <2>3, <2>4 DEF Collected, Starts
<1>6. CASE Passes(s)
  BY <1>1, <1>6 DEF Passes, Collected
<1>7. CASE Unpacks(s)
  BY <1>1, <1>7 DEF Unpacks, Collected
<1> QED  BY <1>2, <1>3, <1>4, <1>5, <1>6, <1>7, Outcomes DEF Outcome

LEMMA CollectedGap ==
  ASSUME TypeOK, Collected, NEW s, Lose(s) \/ Reset(s)
  PROVE  Collected'
<1>1. CASE Reset(s)
  BY <1>1 DEF Reset, Empty, Collected
<1>2. CASE Lose(s)
  <2>1. /\ UNCHANGED <<ignored, message, m_state>> /\ message.bytes \in Seq(Pieces)
        /\ {device.inside} \ {0} \subseteq damaged'
    BY <1>2 DEF Lose, machine, TypeOK, Damages
  <2>2. ASSUME "sysex" \notin ignored, m_state = "in_sysex" PROVE Broken(message.bytes, Sound')
    <3>1. CASE Broken(message.bytes, Sound)
      BY <1>2, <2>1, <3>1, BrokenLaws, LessSound
    <3>2. CASE Begun(message.bytes, device.inside)
      <4>1. Len(message.bytes) \in Nat /\ Len(message.bytes) >= 1
        BY <2>1, <2>2 DEF Collected
      <4>2. 1 \in 1..Len(message.bytes) /\ message.bytes[1] \in Pieces
        BY <2>1, <4>1
      <4>3. message.bytes[1].msg = device.inside /\ device.inside # 0
        BY <3>2, <4>2, BoundsAssumption DEF Begun, Pieces
      <4>4. message.bytes[1] \notin Sound'
        BY <2>1, <4>3 DEF Sound
      <4> QED  BY <4>2, <4>4 DEF Broken
    <3> QED  BY <2>2, <3>1, <3>2 DEF Collected
  <2> QED  BY <2>1, <2>2 DEF Collected
<1> QED  BY <1>1, <1>2

\* The pieces that are kept are pieces that there are.
LEMMA KeptAre ==
  ASSUME NEW P, NEW s \in Seq(Pieces), NEW i \in 1..Len(Kept(s, P))
  PROVE  Kept(s, P)[i] \in P /\ \E k \in 1..Len(s) : Kept(s, P)[i] = s[k]
BY KeptIs, FilteredAre

\* Of messages one after the other.
FramedBy(d, S) == \A i \in 1..Len(d) : Broken(d[i].bytes, S) \/ Entire(d[i].bytes)

LEMMA FramedMore ==
  ASSUME NEW S, NEW R, R \subseteq S, NEW d \in Seq(Sent), NEW x \in Seq(Sent),
         FramedBy(d, S), FramedBy(x, R)
  PROVE  FramedBy(d \o x, R)
<1>1. /\ Len(d \o x) = Len(d) + Len(x) /\ Len(d) \in Nat /\ Len(x) \in Nat
      /\ \A i \in 1..Len(d) : (d \o x)[i] = d[i]
      /\ \A i \in (Len(d) + 1)..(Len(d) + Len(x)) : (d \o x)[i] = x[i - Len(d)] /\ i - Len(d) \in 1..Len(x)
  OBVIOUS
<1>2. ASSUME NEW i \in 1..Len(d) PROVE Broken(d[i].bytes, R) \/ Entire(d[i].bytes)
  <2>1. d[i] \in Sent
    OBVIOUS
  <2>2. d[i].bytes \in Seq(Pieces)
    BY <2>1 DEF Sent
  <2>3. Broken(d[i].bytes, S) \/ Entire(d[i].bytes)
    BY DEF FramedBy
  <2>4. \A b \in Seq(Pieces) : Broken(b, S) => Broken(b, R)
    BY BrokenLaws
  <2> QED  BY <2>2, <2>3, <2>4
<1>3. ASSUME NEW i \in 1..Len(d \o x) PROVE Broken((d \o x)[i].bytes, R) \/ Entire((d \o x)[i].bytes)
  <2>1. i \in 1..Len(d) \/ i \in (Len(d) + 1)..(Len(d) + Len(x))
    BY <1>1
  <2> QED  BY <1>1, <1>2, <2>1 DEF FramedBy
<1> QED  BY <1>3 DEF FramedBy

LEMMA FramedSingles ==
  ASSUME NEW S, NEW w \in Seq(Pieces), NEW t, \A i \in 1..Len(w) : w[i].first /\ w[i].last
  PROVE  FramedBy(Singles(w, t), S)
<1>1. Len(Singles(w, t)) = Len(w) /\ \A i \in 1..Len(w) : Singles(w, t)[i].bytes = <<w[i]>>
  BY DEF Singles
<1>2. ASSUME NEW i \in 1..Len(w) PROVE Entire(<<w[i]>>)
  <2>1. Len(<<w[i]>>) = 1 /\ <<w[i]>>[1] = w[i] /\ Last(<<w[i]>>) = w[i]
    BY DEF Last
  <2> QED  BY <2>1 DEF Entire
<1> QED  BY <1>1, <1>2 DEF FramedBy

\* A step adds messages to those that were delivered.
LEMMA FramedStep ==
  ASSUME delivered \in Seq(Sent), NEW x \in Seq(Sent), delivered' = delivered \o x,
         Sound' \subseteq Sound, Framed, FramedBy(x, Sound')
  PROVE  Framed'
<1>1. FramedBy(delivered, Sound)
  BY DEF Framed, FramedBy, Broken, Entire
<1>2. FramedBy(delivered', Sound')
  BY <1>1, FramedMore
<1> QED  BY <1>2 DEF Framed, FramedBy, Broken, Entire

\* A message that is delivered is added as a sequence of one.
LEMMA OneSent ==
  ASSUME NEW d \in Seq(Sent), NEW m \in Sent, NEW S
  PROVE  /\ Append(d, m) = d \o <<m>> /\ <<m>> \in Seq(Sent)
         /\ Broken(m.bytes, S) \/ Entire(m.bytes) => FramedBy(<<m>>, S)
<1>1. Append(d, m) = d \o <<m>>
  BY AppendIsConcat
<1>2. <<m>> \in Seq(Sent) /\ Len(<<m>>) = 1 /\ <<m>>[1] = m
  OBVIOUS
<1> QED  BY <1>1, <1>2 DEF FramedBy

LEMMA FramedReceive ==
  ASSUME TypeOK, Clock, Collected, Framed, NEW s, IsSpan(s), Receive(s)
  PROVE  Framed'
<1>1. /\ s \in Seq(Pieces) /\ Len(s) \in Nat /\ Len(s) >= 1 /\ message.bytes \in Seq(Pieces)
      /\ Len(s) \in 1..Len(s) /\ 1 \in 1..Len(s) /\ Last(s) = s[Len(s)] /\ (WholeOnes(s) \/ OnePart(s))
      /\ delivered \in Seq(Sent)
  BY DEF IsSpan, TypeOK, Receive, Last, Sent
<1>2. Sound' \subseteq Sound
  BY LessSound
<1>3. Delta \in 0..MaxSpans
  BY DeviceStep, DeltaType DEF Receive
<1>4. CASE Skips(s) \/ Collects(s) \/ Starts(s)
  <2>1. delivered' = delivered
    BY <1>4 DEF Skips, Collects, Starts
  <2>2. <<>> \in Seq(Sent) /\ Len(<<>>) = 0
    BY EmptySeq
  <2>3. delivered' = delivered \o <<>> /\ FramedBy(<<>>, Sound')
    BY <1>1, <2>1, <2>2, ConcatEmptySeq DEF FramedBy
  <2> QED  BY <1>1, <1>2, <2>2, <2>3, FramedStep
<1>5. CASE Finishes(s)
  <2> DEFINE m == [message EXCEPT !.bytes = @ \o s]
  <2>1. m \in Sent /\ m.bytes = message.bytes \o s
    BY <1>1, Longer
  <2>2. message.bytes # <<>> /\ (Broken(message.bytes, Sound) \/ Begun(message.bytes, device.inside))
    BY <1>5 DEF Finishes, Collected
  <2>5. ASSUME Begun(message.bytes, device.inside), ~OutOfStep PROVE Entire(message.bytes \o s)
    <3>1. device.inside # 0
      BY <1>5, <2>5 DEF OutOfStep, Finishes
    <3>2. Last(s).last /\ Last(s).msg = device.inside
      <4>1. Last(s).kind = "sysex" /\ Last(s).last
        BY <1>5 DEF Finishes, EndsSysex
      <4>2. OnePart(s)
        BY <1>1, <4>1 DEF WholeOnes
      <4> QED  BY <1>1, <3>1, <4>1, <4>2 DEF OnePart
    <3> QED  BY <1>1, <2>2, <2>5, <3>1, <3>2, InStepContinues, BegunLaws
  <2>6. Broken(message.bytes \o s, Sound') \/ Entire(message.bytes \o s)
    <3>1. Broken(message.bytes, Sound) => Broken(message.bytes \o s, Sound')
      BY <1>1, <1>2, BrokenLaws
    <3>2. OutOfStep => Broken(message.bytes \o s, Sound')
      BY <1>1, <1>2, OutOfStepDamages, BrokenLaws
    <3> QED  BY <2>2, <2>5, <3>1, <3>2
  <2>7. delivered' = Append(delivered, m)
    BY <1>5 DEF Finishes
  <2> HIDE DEF m
  <2> QED  BY <1>1, <1>2, <2>1, <2>6, <2>7, OneSent, FramedStep
<1>6. CASE Passes(s)
  <2> DEFINE m == [bytes |-> s, timestamp |-> Delta]
  <2>1. m \in Sent /\ m.bytes = s
    <3>1. Len(<<>>) = 0
      OBVIOUS
    <3> QED  BY <1>1, <1>3, <3>1 DEF Sent
  <2>2. Len(s) = 1 /\ m_state = "main" /\ delivered' = Append(delivered, m) /\ (s[1].first => s[1].last)
    BY <1>6 DEF Passes
  <2>3. ASSUME s[1].first PROVE Entire(s)
    BY <1>1, <2>2, <2>3 DEF Entire
  <2>4. ASSUME ~s[1].first PROVE Broken(s, Sound')
    <3>1. OutOfStep
      BY <1>1, <2>2, <2>4 DEF WholeOnes, OnePart, OutOfStep
    <3> QED  BY <3>1, OutOfStepDamages
  <2>5. Broken(s, Sound') \/ Entire(s)
    BY <2>3, <2>4
  <2> HIDE DEF m
  <2> QED  BY <1>1, <1>2, <2>1, <2>2, <2>5, OneSent, FramedStep
<1>7. CASE Unpacks(s)
  <2> DEFINE P == {p \in Wanted : p.first}
             w == Kept(s, P)
  <2>1. w \in Seq(Pieces)
    <3> HIDE DEF P
    <3> QED  BY <1>1, KeptLaws
  <2>2. \A k \in 1..Len(s) : s[k].first => s[k].last
    <3>1. CASE WholeOnes(s)
      BY <3>1 DEF WholeOnes
    <3>2. CASE OnePart(s)
      BY <1>7, <3>2 DEF OnePart, Unpacks
    <3> QED  BY <1>1, <3>1, <3>2
  <2>3. ASSUME NEW i \in 1..Len(w) PROVE w[i].first /\ w[i].last
    <3>1. w[i] \in P /\ \E k \in 1..Len(s) : w[i] = s[k]
      <4> HIDE DEF P
      <4> QED  BY <1>1, KeptAre
    <3>2. w[i].first
      BY <3>1
    <3> HIDE DEF w
    <3> QED  BY <2>2, <3>1, <3>2
  <2>4. delivered' = delivered \o Singles(w, Delta)
    BY <1>7 DEF Unpacks
  <2> HIDE DEF w
  <2> QED  BY <1>1, <1>2, <1>3, <2>1, <2>3, <2>4, SinglesType, FramedSingles, FramedStep
<1> QED  BY <1>4, <1>5, <1>6, <1>7, Outcomes DEF Outcome

-----------------------------------------------------------------------------
(* Steps: what the application has got grows as what was received for it.    *)

\* The pieces that reach the application of a span without a loss: inside of a
\* sysex, all or none.
Expects(s) == IF device.inside # 0 THEN IF "sysex" \in ignored THEN <<>> ELSE s ELSE Kept(s, Wanted)

\* A step of the machine adds them to what the application has got, one for one
\* or at least those that are sound.
Grows(s) ==
  \E x \in Seq(Pieces) : Got' = Got \o x /\ Kept(x, Sound') = Kept(Expects(s), Sound')

LEMMA SentAre ==
  /\ Sent \subseteq Deliveries
  /\ \A d \in Seq(Sent) : d \in Seq(Deliveries) /\ Flatten(d) \in Seq(Pieces)
<1>1. Sent \subseteq Deliveries
  BY BoundsAssumption DEF Sent, Deliveries
<1>2. Seq(Sent) \subseteq Seq(Deliveries)
  BY <1>1
<1> QED  BY <1>1, <1>2, FlattenLaws

\* Out of step, nothing of a span is sound, and none of it counts.
LEMMA GrowsOutOfStep ==
  ASSUME NEW s, IsSpan(s), Receive(s), OutOfStep
  PROVE  /\ Kept(s, Sound') = <<>> /\ Kept(<<>>, Sound') = <<>>
         /\ \A P : Kept(Kept(s, P), Sound') = <<>>
         /\ Kept(Expects(s), Sound') = <<>>
<1>1. s \in Seq(Pieces) /\ NoneIn(s, Sound')
  BY OutOfStepDamages DEF IsSpan
<1>2. Kept(s, Sound') = <<>> /\ Kept(<<>>, Sound') = <<>>
  BY <1>1, KeptElements, KeptLaws
<1>3. ASSUME NEW P PROVE Kept(Kept(s, P), Sound') = <<>>
  <2>1. NoneIn(s, P \cap Sound')
    BY <1>1 DEF NoneIn
  <2>2. Kept(s, P \cap Sound') = <<>>
    BY <1>1, <2>1, KeptElements
  <2> QED  BY <1>1, <2>2, KeptTwice
<1> QED  BY <1>2, <1>3 DEF Expects

\* In step, outside of a sysex, a span has first pieces only.
LEMMA InStepFirst ==
  ASSUME NEW s, IsSpan(s), device.inside = 0
  PROVE  /\ \A i \in 1..Len(s) : s[i].first
         /\ Kept(s, {p \in Wanted : p.first}) = Kept(s, Wanted)
<1> DEFINE F == {p \in Pieces : p.first}
<1>1. \A i \in 1..Len(s) : s[i].first /\ s[i] \in Pieces
  <2>1. \A i \in 1..Len(s) : s[i] \in Pieces
    BY DEF IsSpan
  <2>2. CASE WholeOnes(s)
    BY <2>1, <2>2 DEF WholeOnes
  <2>3. CASE OnePart(s)
    <3>1. Len(s) = 1 /\ s[1].first = (device.inside = 0)
      BY <2>3 DEF OnePart
    <3>2. 1 \in 1..Len(s) /\ \A i \in 1..Len(s) : i = 1
      BY <3>1
    <3>3. s[1].first \in BOOLEAN
      BY <2>1, <3>2 DEF Pieces
    <3>4. s[1].first
      BY <3>1, <3>3
    <3> QED  BY <2>1, <3>2, <3>4
  <2> QED  BY <2>2, <2>3 DEF IsSpan
<1>2. s \in Seq(Pieces) /\ AllIn(s, F)
  BY <1>1 DEF AllIn, IsSpan
<1>3. {p \in Wanted : p.first} = F \cap Wanted
  BY DEF Wanted
<1>4. Kept(s, F) = s
  <2> HIDE DEF F
  <2> QED  BY <1>2, KeptElements
<1>5. Kept(s, F \cap Wanted) = Kept(s, Wanted)
  <2> HIDE DEF F
  <2> QED  BY <1>2, <1>4, KeptTwice
<1> QED  BY <1>1, <1>3, <1>5

\* Of a span of one piece, it or nothing is for the application.
LEMMA KeptSpan ==
  ASSUME NEW s \in Seq(Pieces), Len(s) = 1
  PROVE  Kept(s, Wanted) = IF Ignored(s[1]) THEN <<>> ELSE s
<1>1. s[1] \in Pieces /\ (s[1] \in Wanted <=> ~Ignored(s[1])) /\ \A i \in 1..Len(s) : i = 1
  BY DEF Wanted
<1>2. CASE Ignored(s[1])
  <2>1. NoneIn(s, Wanted)
    BY <1>1, <1>2 DEF NoneIn
  <2> QED  BY <1>2, <2>1, KeptElements
<1>3. CASE ~Ignored(s[1])
  <2>1. AllIn(s, Wanted)
    BY <1>1, <1>3 DEF AllIn
  <2> QED  BY <1>3, <2>1, KeptElements
<1> QED  BY <1>2, <1>3

LEMMA GrowsReceive ==
  ASSUME TypeOK, Clock, Collected, NEW s, IsSpan(s), Receive(s)
  PROVE  Grows(s)
<1> DEFINE d == Flatten(delivered)
           b == message.bytes
<1>1. /\ s \in Seq(Pieces) /\ Len(s) \in Nat /\ Len(s) >= 1 /\ 1 \in 1..Len(s)
      /\ message \in [bytes : Seq(Pieces), timestamp : 0..MaxSpans] /\ b \in Seq(Pieces)
      /\ delivered \in Seq(Sent) /\ delivered \in Seq(Deliveries) /\ d \in Seq(Pieces)
      /\ m_state \in {"main", "in_sysex"} /\ (m_state = "main" => b = <<>>)
      /\ <<>> \in Seq(Pieces) /\ Got \in Seq(Pieces)
  <2>1. delivered \in Seq(Sent) /\ b \in Seq(Pieces) /\ <<>> \in Seq(Pieces)
    BY EmptySeq DEF TypeOK, Sent
  <2>2. delivered \in Seq(Deliveries) /\ d \in Seq(Pieces)
    BY <2>1, SentAre
  <2>3. d \o b \in Seq(Pieces)
    BY <2>1, <2>2, ConcatProperties
  <2> QED  BY <2>1, <2>2, <2>3 DEF IsSpan, TypeOK, Got
<1>2. Delta \in 0..MaxSpans /\ Delta \in Nat
  <2>1. Delta \in 0..MaxSpans
    BY DeviceStep, DeltaType DEF Receive
  <2> QED  BY <2>1, BoundsAssumption
<1>3. Got = d \o b
  BY DEF Got
<1>4. Empty.bytes = <<>>
  BY DEF Empty
<1>5. \A e \in Seq(Pieces) : e \o <<>> = e
  BY ConcatEmptySeq
<1>6. ~OutOfStep => (device.inside # 0 <=> m_state = "in_sysex")
  BY <1>1 DEF OutOfStep
<1>7. ASSUME NEW m \in Sent
      PROVE  Flatten(Append(delivered, m)) = d \o m.bytes /\ m.bytes \in Seq(Pieces)
  <2>1. m \in Deliveries
    BY SentAre
  <2> QED  BY <1>1, <2>1, FlattenLaws DEF Deliveries
<1>8. CASE Skips(s)
  <2>1. Got' = Got \o <<>>
    BY <1>1, <1>5, <1>8 DEF Skips, Got
  <2>2. CASE OutOfStep
    BY <1>1, <2>1, <2>2, GrowsOutOfStep DEF Grows
  <2>3. CASE ~OutOfStep
    <3>1. Expects(s) = <<>>
      BY <1>1, <1>6, <1>8, <2>3, KeptSpan DEF Skips, Expects
    <3> QED  BY <1>1, <2>1, <3>1 DEF Grows
  <2> QED  BY <2>2, <2>3
<1>9. CASE Collects(s) \/ Finishes(s)
  <2> DEFINE m == [message EXCEPT !.bytes = @ \o s]
  <2>1. m \in Sent /\ m.bytes = b \o s
    BY <1>1, Longer
  <2>2. d \o (b \o s) = (d \o b) \o s /\ d \o (b \o s) \in Seq(Pieces)
    <3>1. d \in Seq(Pieces) /\ b \in Seq(Pieces) /\ s \in Seq(Pieces)
      BY <1>1
    <3> HIDE DEF d, b
    <3> QED  BY <3>1, Regroup
  <2>3. Got' = Got \o s
    <3>1. CASE message' = m /\ delivered' = delivered
      BY <1>3, <2>1, <2>2, <3>1 DEF Got
    <3>2. CASE message' = Empty /\ delivered' = Append(delivered, m)
      <4>1. Flatten(delivered') = d \o (b \o s)
        <5> HIDE DEF m, d, b
        <5> QED  BY <1>7, <2>1, <3>2
      <4> QED  BY <1>3, <1>4, <1>5, <2>2, <3>2, <4>1 DEF Got
    <3> QED  BY <1>9, <3>1, <3>2 DEF Collects, Finishes
  <2>4. CASE OutOfStep
    BY <1>1, <2>3, <2>4, GrowsOutOfStep DEF Grows
  <2>5. CASE ~OutOfStep
    <3>1. Expects(s) = s
      BY <1>6, <1>9, <2>5 DEF Collects, Finishes, Expects
    <3> QED  BY <1>1, <2>3, <3>1 DEF Grows
  <2> QED  BY <2>4, <2>5
<1>10. CASE Starts(s) \/ Passes(s)
  <2> DEFINE m == [bytes |-> s, timestamp |-> Delta]
  <2>1. m \in Sent /\ m.bytes = s
    <3>1. s # <<>>
      <4>1. Len(<<>>) = 0
        OBVIOUS
      <4> QED  BY <1>1, <4>1
    <3> QED  BY <1>1, <1>2, <3>1 DEF Sent
  <2>2. m_state = "main" /\ b = <<>> /\ Len(s) = 1
    BY <1>1, <1>10 DEF Starts, Passes
  <2>3. Got = d
    BY <1>1, <1>3, <1>5, <2>2
  <2>4. Got' = Got \o s
    <3>1. CASE message' = m /\ delivered' = delivered
      BY <2>1, <2>3, <3>1 DEF Got
    <3>2. CASE message' = Empty /\ delivered' = Append(delivered, m)
      <4>1. Flatten(delivered') = d \o s /\ d \o s \in Seq(Pieces)
        <5>1. d \o s \in Seq(Pieces)
          BY <1>1, ConcatProperties
        <5> HIDE DEF m, d
        <5> QED  BY <1>7, <2>1, <3>2, <5>1
      <4> QED  BY <1>4, <1>5, <2>3, <3>2, <4>1 DEF Got
    <3> QED  BY <1>10, <3>1, <3>2 DEF Starts, Passes
  <2>5. CASE OutOfStep
    BY <1>1, <2>4, <2>5, GrowsOutOfStep DEF Grows
  <2>6. CASE ~OutOfStep
    <3>1. device.inside = 0
      BY <1>6, <2>2, <2>6
    <3>2. s[1].first
      BY <1>1, <3>1, InStepFirst
    <3>3. ~Ignored(s[1])
      BY <1>10, <3>2 DEF Starts, Passes
    <3>4. Expects(s) = s
      BY <1>1, <2>2, <3>1, <3>3, KeptSpan DEF Expects
    <3> QED  BY <1>1, <2>4, <3>4 DEF Grows
  <2> QED  BY <2>5, <2>6
<1>11. CASE Unpacks(s)
  <2> DEFINE P == {p \in Wanted : p.first}
             w == Kept(s, P)
  <2>1. w \in Seq(Pieces)
    <3> HIDE DEF P
    <3> QED  BY <1>1, KeptLaws
  <2>2. m_state = "main" /\ b = <<>> /\ delivered' = delivered \o Singles(w, Delta) /\ message' = Empty
    BY <1>1, <1>11 DEF Unpacks
  <2>3. Got' = Got \o w
    <3>1. Got = d
      BY <1>1, <1>3, <1>5, <2>2
    <3>2. Flatten(delivered') = d \o w /\ d \o w \in Seq(Pieces)
      <4> HIDE DEF w
      <4> QED  BY <1>1, <1>2, <2>1, <2>2, FlattenSingles, ConcatProperties
    <3> HIDE DEF w, d
    <3> QED  BY <1>4, <1>5, <2>2, <3>1, <3>2 DEF Got
  <2>4. CASE OutOfStep
    <3>1. Kept(w, Sound') = <<>>
      <4> HIDE DEF P
      <4> QED  BY <2>4, GrowsOutOfStep
    <3>2. Kept(Expects(s), Sound') = <<>>
      BY <2>4, GrowsOutOfStep
    <3> HIDE DEF w
    <3> QED  BY <2>1, <2>3, <3>1, <3>2 DEF Grows
  <2>5. CASE ~OutOfStep
    <3>1. device.inside = 0
      BY <1>6, <2>2, <2>5
    <3>2. Expects(s) = w
      BY <3>1, InStepFirst DEF Expects
    <3> HIDE DEF w
    <3> QED  BY <2>1, <2>3, <3>2 DEF Grows
  <2> QED  BY <2>4, <2>5
<1> QED  BY <1>8, <1>9, <1>10, <1>11, Outcomes DEF Outcome

\* Where the flags agree, what reaches the application is what is wanted.
LEMMA DecidedStep ==
  ASSUME NEW s, Receive(s) \/ Lose(s) \/ Reset(s)
  PROVE  Decided' \subseteq Decided /\ Decided' \subseteq Sound'
<1>1. ignored' = ignored /\ within \subseteq within' /\ Sound' \subseteq Sound
  BY LessSound DEF Receive, Lose, Reset
<1>2. \A p : Ignored(p)' <=> Ignored(p)
  BY <1>1 DEF Ignored
<1> QED  BY <1>1, <1>2 DEF Decided

LEMMA DecidedExpects ==
  ASSUME NEW s, IsSpan(s), Receive(s)
  PROVE  Kept(Expects(s), Decided') = Kept(Kept(s, Wanted), Decided')
<1> DEFINE D == Decided'
           E == {p \in Pieces : p.msg \in within'}
<1>1. CASE device.inside = 0
  BY <1>1 DEF Expects
<1>2. CASE device.inside # 0
  <2>1. s \in Seq(Pieces) /\ \A i \in 1..Len(s) : s[i] \in Pieces
    <3>1. s \in Seq(Pieces)
      BY DEF IsSpan
    <3> QED  BY <3>1, ElementOfSeq
  <2>2. MessagesOf(s) \subseteq within' /\ ignored' = ignored
    BY <1>2 DEF Receive
  <2>3. AllIn(s, E)
    BY <2>1, <2>2 DEF AllIn, MessagesOf
  <2>4. \A p \in E \cap D : p \in Wanted <=> "sysex" \notin ignored
    <3>1. ASSUME NEW p \in E, p \in Decided' PROVE Ignored(p) <=> "sysex" \in ignored
      BY <2>2, <3>1 DEF Decided, Ignored
    <3> QED  BY <3>1 DEF Wanted
  <2> HIDE DEF D, E
  <2>5. Kept(s, E) = s
    BY <2>1, <2>3, KeptElements
  <2>6. Kept(s, D) = Kept(s, E \cap D)
    BY <2>1, <2>5, KeptTwice
  <2>7. Kept(Kept(s, Wanted), D) = Kept(s, E \cap (Wanted \cap D))
    <3>1. Kept(Kept(s, Wanted), D) = Kept(s, Wanted \cap D)
      BY <2>1, KeptTwice
    <3>2. Kept(Kept(s, E), Wanted \cap D) = Kept(s, E \cap (Wanted \cap D))
      BY <2>1, KeptTwice
    <3> QED  BY <2>5, <3>1, <3>2
  <2>8. CASE "sysex" \in ignored
    <3>1. E \cap (Wanted \cap D) = {}
      BY <2>4, <2>8
    <3>2. NoneIn(s, {})
      BY DEF NoneIn
    <3>3. Kept(s, {}) = <<>> /\ Kept(<<>>, D) = <<>>
      BY <2>1, <3>2, KeptElements, KeptLaws
    <3> QED  BY <1>2, <2>7, <2>8, <3>1, <3>3 DEF Expects, D
  <2>9. CASE "sysex" \notin ignored
    <3>1. E \cap (Wanted \cap D) = E \cap D
      BY <2>4, <2>9
    <3> QED  BY <1>2, <2>6, <2>7, <2>9, <3>1 DEF Expects, D
  <2> QED  BY <2>8, <2>9
<1> QED  BY <1>1, <1>2

LEMMA TransparentReceive ==
  ASSUME TypeOK, Clock, Collected, Transparent, NEW s, IsSpan(s), Receive(s)
  PROVE  Transparent'
<1>1. PICK x \in Seq(Pieces) : Got' = Got \o x /\ Kept(x, Sound') = Kept(Expects(s), Sound')
  BY GrowsReceive DEF Grows
<1>2. Decided' \subseteq Decided /\ Decided' \subseteq Sound'
  BY DecidedStep
<1>3. Got \in Seq(Pieces) /\ expected \in Seq(Pieces) /\ Expects(s) \in Seq(Pieces) /\ Kept(s, Wanted) \in Seq(Pieces)
  <2>1. delivered \in Seq(Sent) /\ message.bytes \in Seq(Pieces) /\ expected \in Seq(Pieces)
    BY DEF TypeOK, Sent
  <2>2. s \in Seq(Pieces) /\ <<>> \in Seq(Pieces)
    BY EmptySeq DEF IsSpan
  <2>3. Flatten(delivered) \o message.bytes \in Seq(Pieces)
    BY <2>1, SentAre, ConcatProperties
  <2>4. Expects(s) \in Seq(Pieces) /\ Kept(s, Wanted) \in Seq(Pieces)
    BY <2>2, KeptLaws DEF Expects
  <2> QED  BY <2>1, <2>3, <2>4 DEF Got
<1>4. expected' = expected \o Kept(s, Wanted)
  BY DEF Receive
<1>5. Kept(Got, Decided) = Kept(expected, Decided) /\ Framed
  BY DEF Transparent, Got
<1>6. Kept(x, Decided') = Kept(Kept(s, Wanted), Decided')
  <2>1. Kept(x, Decided') = Kept(Expects(s), Decided')
    BY <1>1, <1>2, <1>3, StaysAlike
  <2> QED  BY <2>1, DecidedExpects
<1>7. Kept(Got \o x, Decided') = Kept(expected \o Kept(s, Wanted), Decided')
  BY <1>2, <1>3, <1>5, <1>6, GrowsAlike
<1>8. Framed'
  BY <1>5, FramedReceive
<1>9. Kept(Got', Decided') = Kept(expected', Decided')
  BY <1>1, <1>4, <1>7
<1> QED  BY <1>8, <1>9 DEF Transparent, Got

LEMMA TransparentGap ==
  ASSUME TypeOK, Transparent, NEW s, IsSpan(s), Lose(s) \/ Reset(s)
  PROVE  Transparent'
<1> DEFINE d == Flatten(delivered)
           b == message.bytes
<1>1. /\ Sound' \subseteq Sound /\ Decided' \subseteq Decided /\ Decided' \subseteq Sound'
      /\ delivered' = delivered /\ expected' = expected
  BY LessSound, DecidedStep DEF Lose, Reset
<1>2. /\ d \in Seq(Pieces) /\ b \in Seq(Pieces) /\ <<>> \in Seq(Pieces) /\ d \o b \in Seq(Pieces)
      /\ expected \in Seq(Pieces) /\ delivered \in Seq(Sent)
  <2>1. b \in Seq(Pieces) /\ expected \in Seq(Pieces) /\ delivered \in Seq(Sent) /\ <<>> \in Seq(Pieces)
    BY EmptySeq DEF TypeOK, Sent
  <2> QED  BY <2>1, SentAre, ConcatProperties
<1>3. Kept(d \o b, Decided) = Kept(expected, Decided) /\ Framed
  BY DEF Transparent
<1>4. Framed'
  <2>1. <<>> \in Seq(Sent) /\ Len(<<>>) = 0
    BY EmptySeq
  <2>2. delivered' = delivered \o <<>> /\ FramedBy(<<>>, Sound')
    BY <1>1, <1>2, <2>1, ConcatEmptySeq DEF FramedBy
  <2> QED  BY <1>1, <1>2, <1>3, <2>1, <2>2, FramedStep
<1>5. Kept(d \o b, Decided') = Kept(expected, Decided')
  <2> DEFINE g == d \o b
  <2>1. g \in Seq(Pieces) /\ Kept(g, Decided) = Kept(expected, Decided)
    BY <1>2, <1>3
  <2> HIDE DEF g
  <2>2. Kept(g, Decided') = Kept(expected, Decided')
    BY <1>1, <1>2, <2>1, StaysAlike
  <2> QED  BY <2>2 DEF g
<1>6. CASE message' = message
  BY <1>1, <1>4, <1>5, <1>6 DEF Transparent
<1>7. CASE Reset(s)
  <2>1. message'.bytes = <<>> /\ MessagesOf(s \o b) \subseteq damaged'
    BY <1>7 DEF Reset, Empty, Damages
  <2>2. NoneIn(b, Decided')
    <3>1. NoneIn(s \o b, Sound')
      <4>1. s \o b \in Seq(Pieces)
        BY <1>2, ConcatProperties DEF IsSpan
      <4> HIDE DEF b
      <4> QED  BY <2>1, <4>1, NoneSound
    <3>2. \A i \in 1..Len(b) : (s \o b)[Len(s) + i] = b[i] /\ Len(s) + i \in 1..Len(s \o b)
      <4>1. s \in Seq(Pieces)
        BY DEF IsSpan
      <4> HIDE DEF b
      <4> QED  BY <1>2, <4>1
    <3> HIDE DEF b
    <3> QED  BY <1>1, <3>1, <3>2 DEF NoneIn
  <2>3. Kept(b, Decided') = <<>> /\ Kept(d, Decided') \in Seq(Pieces)
    <3> HIDE DEF d, b
    <3> QED  BY <1>2, <2>2, KeptElements, KeptLaws
  <2>4. Kept(d \o b, Decided') = Kept(d, Decided')
    <3> HIDE DEF d, b
    <3>1. Kept(d \o b, Decided') = Kept(d, Decided') \o Kept(b, Decided')
      BY <1>2, KeptConcat
    <3> QED  BY <2>3, <3>1, ConcatEmptySeq
  <2>5. d \o <<>> = d
    BY <1>2, ConcatEmptySeq
  <2> QED  BY <1>1, <1>4, <1>5, <2>1, <2>4, <2>5 DEF Transparent
<1> QED  BY <1>6, <1>7 DEF Lose, machine

-----------------------------------------------------------------------------
(* Steps: the times, and the end of a sysex.                                 *)

LEMMA TimesReceive ==
  ASSUME TypeOK, Clock, Collected, TimesAddUp, NEW s, IsSpan(s), Receive(s)
  PROVE  TimesAddUp'
<1> SUFFICES ASSUME ~timeless' PROVE started' + Sum(delivered') = last_time_ns'
  BY DEF TimesAddUp
<1>1. /\ ~timeless /\ ~OutOfStep /\ device.inside = 0 /\ ~(Len(s) > 1) /\ s[1].last /\ ~Ignored(s[1])
      /\ last_time_ns' = device.now + 1
      /\ started' = IF first_message THEN device.now + 1 ELSE started
  BY DEF Receive, Timestamp
<1>2. /\ s \in Seq(Pieces) /\ Len(s) = 1 /\ 1 \in 1..Len(s) /\ m_state = "main" /\ s[1].first
      /\ delivered \in Seq(Deliveries) /\ started \in Nat /\ last_time_ns \in Nat /\ device.now \in Nat
  <2>1. s \in Seq(Pieces) /\ Len(s) = 1 /\ 1 \in 1..Len(s)
    <3>1. s \in Seq(Pieces) /\ Len(s) \in Nat /\ Len(s) >= 1
      BY DEF IsSpan
    <3>2. ~(Len(s) > 1)
      BY <1>1
    <3>3. \A n \in Nat : n >= 1 /\ ~(n > 1) => n = 1
      OBVIOUS
    <3>4. Len(s) = 1
      BY <3>1, <3>2, <3>3
    <3> QED  BY <3>1, <3>4
  <2>2. m_state = "main"
    BY <1>1 DEF TypeOK, OutOfStep
  <2>3. s[1].first
    BY <1>1, <2>1, InStepFirst
  <2>4. delivered \in Seq(Deliveries)
    BY SentAre DEF TypeOK, Sent
  <2>5. started \in Nat /\ last_time_ns \in Nat /\ device.now \in Nat
    BY BoundsAssumption DEF TypeOK
  <2> QED  BY <2>1, <2>2, <2>3, <2>4, <2>5
<1>3. Delta \in Nat
  BY <1>2, BoundsAssumption, DeviceStep, DeltaType DEF Receive
<1>4. \E m \in Deliveries : m.timestamp = Delta /\ delivered' = Append(delivered, m)
  <2>1. CASE Passes(s)
    <3>1. [bytes |-> s, timestamp |-> Delta] \in Deliveries
      BY <1>2, <1>3 DEF Deliveries
    <3> QED  BY <2>1, <3>1 DEF Passes
  <2>2. CASE Unpacks(s)
    <3>1. Kept(s, {p \in Wanted : p.first}) = s
      BY <1>1, <1>2, InStepFirst, KeptSpan
    <3>2. delivered' = delivered \o Singles(s, Delta)
      BY <2>2, <3>1 DEF Unpacks
    <3> DEFINE m == [bytes |-> <<s[1]>>, timestamp |-> Delta]
    <3>3. m \in Deliveries /\ m.timestamp = Delta
      <4>1. s[1] \in Pieces
        BY <1>2, ElementOfSeq
      <4>2. <<s[1]>> \in Seq(Pieces)
        BY <4>1
      <4> QED  BY <1>3, <4>2 DEF Deliveries
    <3>4. Singles(s, Delta) = <<m>>
      BY <1>2 DEF Singles
    <3>5. delivered' = Append(delivered, m)
      <4> HIDE DEF m
      <4> QED  BY <1>2, <3>2, <3>3, <3>4, AppendIsConcat
    <3> QED  BY <3>3, <3>5
  <2>3. ~Skips(s) /\ ~Collects(s) /\ ~Finishes(s) /\ ~Starts(s)
    BY <1>1, <1>2 DEF Skips, Collects, Finishes, Starts
  <2> QED  BY <2>1, <2>2, <2>3, Outcomes DEF Outcome
<1>5. Sum(delivered') = Sum(delivered) + Delta /\ Sum(delivered) \in Nat
  BY <1>2, <1>4, SumLaws
<1>6. CASE first_message
  <2>1. Sum(delivered) = 0 /\ Delta = 0
    BY <1>6, SumLaws DEF Clock, Delta
  <2> QED  BY <1>1, <1>2, <1>5, <1>6, <2>1
<1>7. CASE ~first_message
  <2>1. started + Sum(delivered) = last_time_ns /\ Delta = device.now + 1 - last_time_ns
    BY <1>1, <1>7 DEF TimesAddUp, Delta
  <2> QED  BY <1>1, <1>2, <1>5, <1>7, <2>1, SMTT(30)
<1> QED  BY <1>6, <1>7

\* The end of a sysex is the end of it for the machine and for the device.
LEMMA EndReceive ==
  ASSUME TypeOK, NEW s, IsSpan(s), Receive(s), EndsSysex(Last(s))
  PROVE  ~OutOfStep'
<1>1. /\ Len(s) \in 1..Len(s) /\ Last(s) = s[Len(s)] /\ Last(s).kind = "sysex" /\ Last(s).last
      /\ (WholeOnes(s) \/ OnePart(s)) /\ m_state \in {"main", "in_sysex"}
  BY DEF IsSpan, Last, EndsSysex, TypeOK
<1>2. OnePart(s)
  BY <1>1 DEF WholeOnes
<1>3. device'.inside = 0
  BY <1>1, <1>2, DeviceStep DEF Receive, OnePart
<1>4. m_state' = "main"
  <2>1. CASE m_state = "in_sysex"
    BY <2>1 DEF Receive, ContinueSysex, HasFinishedSysex
  <2>2. CASE m_state = "main"
    <3>1. ~StartSysex(s)
      BY DEF StartSysex, HasFinishedSysex
    <3> QED  BY <2>2, <3>1 DEF Receive, OnPacket, OnMain
  <2> QED  BY <1>1, <2>1, <2>2
<1> QED  BY <1>3, <1>4 DEF OutOfStep

-----------------------------------------------------------------------------
(* Theorems.                                                                 *)

LEMMA Start == Init => SInv
<1> SUFFICES ASSUME Init PROVE SInv
  OBVIOUS
<1>1. <<>> \in Seq(Pieces) /\ <<>> \in Seq(Sent) /\ Len(<<>>) = 0
  BY EmptySeq
<1>2. Empty.bytes = <<>> /\ Empty \in [bytes : Seq(Pieces), timestamp : 0..MaxSpans]
  BY <1>1, BoundsAssumption DEF Empty
<1>3. TypeOK
  <2>1. 0 \in 0..MaxMessages /\ 0 \in 0..MaxSpans
    BY BoundsAssumption
  <2>2. device \in [begun : 0..MaxMessages, inside : 0..MaxMessages, now : 0..MaxSpans]
    BY <2>1 DEF Init
  <2> QED  BY <1>1, <1>2, <2>1, <2>2 DEF Init, TypeOK, Sent
<1>4. Clock
  BY BoundsAssumption DEF Init, Clock
<1>5. Collected
  BY <1>2 DEF Init, Collected
<1>6. Transparent
  <2>1. Flatten(<<>>) = <<>> /\ <<>> \o <<>> = <<>>
    BY <1>1, FlattenLaws, ConcatEmptySeq
  <2>2. Framed
    BY <1>1 DEF Framed, Init
  <2> QED  BY <1>2, <2>1, <2>2 DEF Init, Transparent
<1>7. TimesAddUp
  BY SumLaws DEF Init, TimesAddUp
<1> QED  BY <1>3, <1>4, <1>5, <1>6, <1>7 DEF SInv

LEMMA Step == SInv /\ [Next]_vars => SInv'
<1> SUFFICES ASSUME SInv, [Next]_vars PROVE SInv'
  OBVIOUS
<1>1. TypeOK /\ Clock /\ Collected /\ Transparent /\ TimesAddUp
  BY DEF SInv
<1>2. ASSUME NEW s \in NextSpans, Receive(s) PROVE SInv'
  <2>1. IsSpan(s)
    BY <1>1, <1>2, SpanShape DEF Receive
  <2> QED  BY <1>1, <1>2, <2>1, TypeReceive, CollectedReceive, TransparentReceive, TimesReceive DEF SInv
<1>3. ASSUME NEW s \in NextSpans, Lose(s) \/ Reset(s) PROVE SInv'
  <2>1. IsSpan(s)
    BY <1>1, <1>3, SpanShape DEF Lose, Reset
  <2>2. TimesAddUp'
    BY <1>1, <1>3 DEF Lose, Reset, machine, TimesAddUp
  <2> QED  BY <1>1, <1>3, <2>1, <2>2, TypeGap, CollectedGap, TransparentGap DEF SInv
<1>4. ASSUME UNCHANGED vars PROVE SInv'
  BY <1>1, <1>4
     DEF SInv, vars, machine, history, TypeOK, Clock, Collected, Transparent, Framed, TimesAddUp,
         Sound, Decided, Ignored, Broken, Begun
<1> QED  BY <1>2, <1>3, <1>4 DEF Next

LEMMA Invariance == Spec => []SInv
BY Start, Step, PTL DEF Spec

\* The variables keep their types: in the state main nothing is collected, and
\* no message without bytes reaches on_message().
THEOREM TypeTheorem == Spec => []TypeOK
<1>1. SInv => TypeOK
  BY DEF SInv
<1> QED  BY <1>1, Invariance, PTL

\* What on_bytes() and on_bytes_multi() receive reaches on_message() if it is of
\* no ignored kind, once, in order and each message whole, up to what a gap in the
\* connection damaged and to the real-time messages inside of a sysex for which
\* the flags differ.
THEOREM TransparentTheorem == Spec => []Transparent
<1>1. SInv => Transparent
  BY DEF SInv
<1> QED  BY <1>1, Invariance, PTL

\* The relative times that timestamp() gives add up to the time of the last
\* message.
THEOREM TimesAddUpTheorem == Spec => []TimesAddUp
<1>1. SInv => TimesAddUp
  BY DEF SInv
<1> QED  BY <1>1, Invariance, PTL

\* The end of a sysex that is received brings has_finished_sysex() and the device
\* back in step.
THEOREM RecoversTheorem == Spec => Recovers
<1>1. SInv /\ [Next]_vars => [span' # <<>> /\ span' # span /\ EndsSysex(Last(span')) => ~OutOfStep']_vars
  <2> SUFFICES ASSUME SInv, [Next]_vars, span' # <<>>, span' # span, EndsSysex(Last(span'))
               PROVE  ~OutOfStep'
    OBVIOUS
  <2>1. PICK s \in NextSpans : Receive(s) \/ Lose(s) \/ Reset(s)
    BY DEF Next, vars, history
  <2>2. Receive(s) /\ span' = s
    BY <2>1 DEF Receive, Lose, Reset
  <2>3. IsSpan(s)
    BY <2>2, SpanShape DEF SInv, Receive
  <2> QED  BY <2>2, <2>3, EndReceive DEF SInv
<1> QED  BY <1>1, Invariance, PTL DEF Spec, Recovers
=====
