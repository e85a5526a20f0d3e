---------------------------- MODULE DataLemmas ----------------------------
(* What the proofs share about data: induction, recursive functions and      *)
(* sequences. The induction theorems of the library are about operators,     *)
(* which the provers cannot instantiate; here a predicate is the set of      *)
(* numbers it holds of, and one step of a recursion is a function.           *)
EXTENDS Integers, Sequences, FiniteSets, FiniteSetTheorems, SequenceTheorems, WellFoundedInduction, TLAPS

\* Of a set of numbers, one is the least: the intervals from 1 are finite sets,
\* of which each collection has a minimal one.
LEMMA LeastElement ==
  ASSUME NEW B \in SUBSET Nat, B # {}
  PROVE  \E m \in B : \A n \in B : m <= n
<1> DEFINE T == {1..n : n \in B}
<1>1. T \subseteq FiniteSubsetsOf(Nat) /\ T # {}
  <2>1. \A n \in B : 1..n \in SUBSET Nat /\ IsFiniteSet(1..n)
    BY FS_Interval
  <2> QED  BY <2>1 DEF FiniteSubsetsOf
<1>2. PICK x \in T : \A y \in T : <<y, x>> \notin StrictSubsetOrdering(Nat)
  <2> HIDE DEF T
  <2> QED  BY <1>1, FS_StrictSubsetOrderingWellFounded, WFMin
<1>3. PICK m \in B : x = 1..m
  BY <1>2
<1>4. ASSUME NEW n \in B, n < m PROVE FALSE
  <2>1. 1..n \subseteq 1..m /\ 1..n # 1..m
    <3>1. m \in 1..m /\ m \notin 1..n
      BY <1>4
    <3> QED  BY <1>4, <3>1
  <2>2. <<1..n, 1..m>> \in StrictSubsetOrdering(Nat)
    <3>1. 1..n \in SUBSET Nat /\ 1..m \in SUBSET Nat
      OBVIOUS
    <3> QED  BY <2>1, <3>1 DEF StrictSubsetOrdering
  <2> QED  BY <1>2, <1>3, <1>4, <2>2
<1> QED  BY <1>4

\* A set that has 0, and with each number the next one, has all.
LEMMA Induction ==
  ASSUME NEW P, 0 \in P, \A n \in Nat : n \in P => n + 1 \in P
  PROVE  Nat \subseteq P
<1> SUFFICES ASSUME NEW k \in Nat, k \notin P PROVE FALSE
  OBVIOUS
<1> DEFINE B == {n \in Nat : n \notin P}
<1>1. PICK m \in B : \A n \in B : m <= n
  <2>1. B \in SUBSET Nat /\ B # {}
    OBVIOUS
  <2> HIDE DEF B
  <2> QED  BY <2>1, LeastElement
<1>2. m # 0 /\ m - 1 \in Nat
  BY <1>1
<1>3. m - 1 \in P
  BY <1>1, <1>2
<1>4. (m - 1) + 1 \in P
  BY <1>2, <1>3
<1> QED  BY <1>1, <1>2, <1>4

\* f is what step makes of `first`, up to n.
IsFold(f, n, first, step) ==
  f = [i \in 0..n |-> IF i = 0 THEN first ELSE step[i][f[i - 1]]]

\* A recursion over 1..n has a result, in the set its steps stay in.
LEMMA FoldExists ==
  ASSUME NEW A, NEW first \in A, NEW n \in Nat, NEW step \in [1..n -> [A -> A]]
  PROVE  \E f \in [0..n -> A] : IsFold(f, n, first, step)
<1> DEFINE P == {k \in Nat : k <= n => \E f \in [0..k -> A] : IsFold(f, k, first, step)}
<1>1. 0 \in P
  <2> DEFINE f == [i \in 0..0 |-> first]
  <2>1. f \in [0..0 -> A] /\ IsFold(f, 0, first, step)
    BY DEF IsFold
  <2> QED  BY <2>1
<1>2. ASSUME NEW k \in Nat, k \in P PROVE k + 1 \in P
  <2> SUFFICES ASSUME k + 1 <= n PROVE \E f \in [0..(k + 1) -> A] : IsFold(f, k + 1, first, step)
    OBVIOUS
  <2>1. PICK g \in [0..k -> A] : IsFold(g, k, first, step)
    BY <1>2
  <2>2. g[k] \in A /\ k + 1 \in 1..n /\ step[k + 1][g[k]] \in A
    OBVIOUS
  <2> DEFINE f == [i \in 0..(k + 1) |-> IF i <= k THEN g[i] ELSE step[k + 1][g[k]]]
  <2>3. f \in [0..(k + 1) -> A]
    BY <2>2
  <2>4. ASSUME NEW i \in 0..(k + 1) PROVE f[i] = IF i = 0 THEN first ELSE step[i][f[i - 1]]
    <3>1. CASE i = 0
      BY <2>1, <3>1 DEF IsFold
    <3>2. CASE i \in 1..k
      <4>1. f[i] = g[i] /\ f[i - 1] = g[i - 1] /\ i \in 0..k /\ i # 0
        BY <3>2
      <4>2. g[i] = step[i][g[i - 1]]
        BY <2>1, <4>1 DEF IsFold
      <4> QED  BY <4>1, <4>2
    <3>3. CASE i = k + 1
      BY <3>3
    <3> QED  BY <3>1, <3>2, <3>3
  <2>5. IsFold(f, k + 1, first, step)
    <3>1. f = [i \in 0..(k + 1) |-> IF i = 0 THEN first ELSE step[i][f[i - 1]]]
      <4> HIDE DEF f
      <4> QED  BY <2>3, <2>4
    <3> QED  BY <3>1 DEF IsFold
  <2> QED  BY <2>3, <2>5
<1>3. n \in P
  <2> HIDE DEF P
  <2> QED  BY <1>1, <1>2, Induction
<1> QED  BY <1>3

\* It has one result, and as far as two recursions have the same steps, theirs
\* are the same.
LEMMA FoldsAgree ==
  ASSUME NEW m \in Nat, NEW n \in Nat, NEW k \in Nat, k <= m, k <= n,
         NEW first, NEW a, NEW b, NEW f, NEW g, IsFold(f, m, first, a), IsFold(g, n, first, b),
         \A i \in 1..k : a[i] = b[i]
  PROVE  f[k] = g[k]
<1> DEFINE P == {i \in Nat : i <= k => f[i] = g[i]}
<1>1. 0 \in P
  BY DEF IsFold
<1>2. ASSUME NEW i \in Nat, i \in P PROVE i + 1 \in P
  <2> SUFFICES ASSUME i + 1 <= k PROVE f[i + 1] = g[i + 1]
    OBVIOUS
  <2>1. f[i] = g[i]
    BY <1>2
  <2>2. i + 1 \in 0..m /\ i + 1 \in 0..n /\ i + 1 \in 1..k /\ i + 1 # 0 /\ (i + 1) - 1 = i
    OBVIOUS
  <2>3. f[i + 1] = a[i + 1][f[i]] /\ g[i + 1] = b[i + 1][g[i]]
    BY <2>2 DEF IsFold
  <2> QED  BY <2>1, <2>2, <2>3
<1>3. k \in P
  <2> HIDE DEF P
  <2> QED  BY <1>1, <1>2, Induction
<1> QED  BY <1>3

\* Two recursions that begin alike and go on alike are the same.
Alike(f, g, n) == f[0] = g[0] /\ \A i \in 1..n : f[i - 1] = g[i - 1] => f[i] = g[i]

LEMMA SameRecursion ==
  ASSUME NEW n \in Nat, NEW f, NEW g, Alike(f, g, n)
  PROVE  \A i \in 0..n : f[i] = g[i]
<1> DEFINE P == {i \in Nat : i <= n => f[i] = g[i]}
<1>1. 0 \in P
  BY DEF Alike
<1>2. ASSUME NEW i \in Nat, i \in P PROVE i + 1 \in P
  <2>1. i + 1 <= n => i + 1 \in 1..n /\ (i + 1) - 1 = i /\ f[i] = g[i]
    BY <1>2
  <2>2. i + 1 <= n => f[i + 1] = g[i + 1]
    BY <2>1 DEF Alike
  <2> QED  BY <2>2
<1>3. Nat \subseteq P
  <2> HIDE DEF P
  <2> QED  BY <1>1, <1>2, Induction
<1> QED  BY <1>3

-----------------------------------------------------------------------------
(* Sequences. *)

\* Adding an element at the end, and taking the first one away.
LEMMA AppendLaw ==
  ASSUME NEW S, NEW s \in Seq(S), NEW x \in S
  PROVE  /\ Append(s, x) \in Seq(S) /\ Len(Append(s, x)) = Len(s) + 1 /\ DOMAIN s = 1..Len(s) /\ Len(s) \in Nat
         /\ DOMAIN Append(s, x) = 1..(Len(s) + 1)
         /\ \A i \in 1..Len(s) : Append(s, x)[i] = s[i]
         /\ Append(s, x)[Len(s) + 1] = x
OBVIOUS

\* The same of what is taken off the front.
LEMMA TailLaw ==
  ASSUME NEW S, NEW s \in Seq(S), s # <<>>
  PROVE  /\ Len(s) \in Nat \ {0} /\ DOMAIN s = 1..Len(s) /\ Head(s) = s[1] /\ Head(s) \in S
         /\ 1 \in DOMAIN s /\ Len(s) \in 1..Len(s)
         /\ Tail(s) \in Seq(S) /\ Len(Tail(s)) = Len(s) - 1 /\ DOMAIN Tail(s) = 1..(Len(s) - 1)
         /\ \A i \in 1..(Len(s) - 1) : i + 1 \in DOMAIN s /\ Tail(s)[i] = s[i + 1]
<1>1. Len(s) \in Nat /\ Len(s) # 0
  OBVIOUS
<1> QED  BY <1>1

\* An Append is not empty, whatever is appended.
LEMMA AppendedTo ==
  ASSUME NEW S, NEW s \in Seq(S), NEW x PROVE Append(s, x) # <<>>
<1>1. Len(Append(s, x)) = Len(s) + 1 /\ Len(s) \in Nat
  OBVIOUS
<1> QED  BY <1>1

\* Appending to the second of two sequences.
LEMMA ConcatAppend ==
  ASSUME NEW S, NEW a \in Seq(S), NEW b \in Seq(S), NEW e \in S
  PROVE  a \o Append(b, e) = (a \o b) \o <<e>>
<1>1. Append(b, e) = b \o <<e>> /\ <<e>> \in Seq(S)
  BY AppendIsConcat
<1>2. (a \o b) \o <<e>> = a \o (b \o <<e>>)
  BY <1>1, ConcatAssociative
<1> QED  BY <1>1, <1>2

\* Concatenation is associative, of three sequences.
LEMMA Regroup ==
  ASSUME NEW S, NEW a \in Seq(S), NEW b \in Seq(S), NEW c \in Seq(S)
  PROVE  /\ a \o b \in Seq(S) /\ a \o (b \o c) \in Seq(S)
         /\ a \o (b \o c) = (a \o b) \o c
<1>1. (a \o b) \o c = a \o (b \o c)
  BY ConcatAssociative
<1>2. a \o b \in Seq(S) /\ b \o c \in Seq(S)
  BY ConcatProperties
<1>3. a \o (b \o c) \in Seq(S)
  BY <1>2, ConcatProperties
<1> QED  BY <1>1, <1>2, <1>3

\* A set that has the empty sequence, and with each sequence all that are one
\* element longer, has all.
LEMMA SeqInduction ==
  ASSUME NEW S, NEW P, <<>> \in P,
         \A s \in Seq(S), e \in S : s \in P => Append(s, e) \in P
  PROVE  Seq(S) \subseteq P
<1> DEFINE L == {n \in Nat : \A s \in Seq(S) : Len(s) = n => s \in P}
<1>1. 0 \in L
  <2>1. \A s \in Seq(S) : Len(s) = 0 => s = <<>>
    BY EmptySeq
  <2> QED  BY <2>1
<1>2. ASSUME NEW n \in Nat, n \in L PROVE n + 1 \in L
  <2> SUFFICES ASSUME NEW s \in Seq(S), Len(s) = n + 1 PROVE s \in P
    OBVIOUS
  <2> DEFINE front == SubSeq(s, 1, n)
  <2>1. s[n + 1] \in S /\ front \in Seq(S) /\ Len(front) = n /\ \A i \in 1..n : front[i] = s[i]
    OBVIOUS
  <2> HIDE DEF front
  <2>2. Append(front, s[n + 1]) = s
    <3>1. /\ Append(front, s[n + 1]) \in Seq(S) /\ Len(Append(front, s[n + 1])) = n + 1
          /\ \A i \in 1..n : Append(front, s[n + 1])[i] = s[i]
          /\ Append(front, s[n + 1])[n + 1] = s[n + 1]
      BY <2>1, AppendLaw
    <3>2. \A i \in 1..(n + 1) : i \in 1..n \/ i = n + 1
      OBVIOUS
    <3>3. \A i \in 1..Len(s) : Append(front, s[n + 1])[i] = s[i]
      BY <3>1, <3>2
    <3> QED  BY <3>1, <3>3, SeqEqual
  <2>3. front \in P
    BY <1>2, <2>1
  <2>4. Append(front, s[n + 1]) \in P
    BY <2>1, <2>3
  <2> QED  BY <2>2, <2>4
<1>3. Nat \subseteq L
  <2> HIDE DEF L
  <2> QED  BY <1>1, <1>2, Induction
<1>4. ASSUME NEW s \in Seq(S) PROVE s \in P
  <2>1. Len(s) \in Nat
    OBVIOUS
  <2> QED  BY <1>3, <2>1
<1> QED  BY <1>4

-----------------------------------------------------------------------------
(* What is in a sequence, and in which order.                              *)

Occurs(x, s) == \E k \in DOMAIN s : s[k] = x

\* Each b has an a before it; no a comes after a b.
Precedes(a, b, s) == \A k \in DOMAIN s : s[k] = b => \E j \in DOMAIN s : j < k /\ s[j] = a
NoneAfter(a, b, s) == \A j, k \in DOMAIN s : s[j] = a /\ s[k] = b => j < k

\* One more element at the end.
LEMMA OneMore ==
  ASSUME NEW S, NEW s \in Seq(S), NEW e \in S
  PROVE  /\ Append(s, e) \in Seq(S)
         /\ \A x : Occurs(x, Append(s, e)) <=> Occurs(x, s) \/ x = e
         /\ \A a, b : Precedes(a, b, Append(s, e)) <=> Precedes(a, b, s) /\ (e = b => Occurs(a, s))
         /\ \A a, b : NoneAfter(a, b, s) /\ e # a => NoneAfter(a, b, Append(s, e))
<1> DEFINE n == Len(s)
           t == Append(s, e)
<1>1. /\ n \in Nat /\ DOMAIN s = 1..n /\ DOMAIN t = 1..(n + 1) /\ t \in Seq(S)
      /\ (\A i \in 1..n : t[i] = s[i]) /\ t[n + 1] = e
  BY AppendLaw
<1> HIDE DEF n, t
<1>2. /\ \A i \in 1..(n + 1) : i \in 1..n \/ i = n + 1
      /\ \A i \in 1..n : i \in 1..(n + 1) /\ i < n + 1 /\ ~(n + 1 < i)
      /\ n + 1 \in 1..(n + 1) /\ ~(n + 1 < n + 1)
  BY <1>1
<1>3. ASSUME NEW x PROVE Occurs(x, t) <=> Occurs(x, s) \/ x = e
  BY <1>1, <1>2 DEF Occurs
<1>4. ASSUME NEW a, NEW b PROVE Precedes(a, b, t) <=> Precedes(a, b, s) /\ (e = b => Occurs(a, s))
  <2>1. ASSUME Precedes(a, b, t) PROVE Precedes(a, b, s)
    BY <1>1, <1>2, <2>1 DEF Precedes
  <2>2. ASSUME Precedes(a, b, t), e = b PROVE Occurs(a, s)
    <3>1. PICK j \in 1..(n + 1) : j < n + 1 /\ t[j] = a
      BY <1>1, <1>2, <2>2 DEF Precedes
    <3> QED  BY <1>1, <1>2, <3>1 DEF Occurs
  <2>3. ASSUME Precedes(a, b, s), e = b => Occurs(a, s) PROVE Precedes(a, b, t)
    <3>1. ASSUME NEW k \in 1..(n + 1), t[k] = b PROVE \E j \in 1..(n + 1) : j < k /\ t[j] = a
      <4>1. CASE k \in 1..n
        <5>1. PICK j \in 1..n : j < k /\ s[j] = a
          BY <1>1, <2>3, <3>1, <4>1 DEF Precedes
        <5> QED  BY <1>1, <1>2, <5>1
      <4>2. CASE k = n + 1
        <5>1. PICK j \in 1..n : s[j] = a
          BY <1>1, <2>3, <3>1, <4>2 DEF Occurs
        <5> QED  BY <1>1, <1>2, <4>2, <5>1
      <4> QED  BY <1>2, <4>1, <4>2
    <3> QED  BY <1>1, <3>1 DEF Precedes
  <2> QED  BY <2>1, <2>2, <2>3
<1>5. ASSUME NEW a, NEW b, NoneAfter(a, b, s), e # a PROVE NoneAfter(a, b, t)
  <2>1. ASSUME NEW j \in 1..(n + 1), NEW k \in 1..(n + 1), t[j] = a, t[k] = b PROVE j < k
    <3>1. j \in 1..n
      BY <1>1, <1>2, <1>5, <2>1
    <3> QED  BY <1>1, <1>2, <1>5, <2>1, <3>1 DEF NoneAfter
  <2> QED  BY <1>1, <2>1 DEF NoneAfter
<1> QED  BY <1>1, <1>3, <1>4, <1>5 DEF t

\* The first element is taken.
LEMMA OneLess ==
  ASSUME NEW S, NEW s \in Seq(S), s # <<>>
  PROVE  /\ Head(s) \in S /\ Tail(s) \in Seq(S)
         /\ \A x : Occurs(x, s) <=> Occurs(x, Tail(s)) \/ x = Head(s)
         /\ \A a, b : Precedes(a, b, s) => b # Head(s) /\ (a # Head(s) => Precedes(a, b, Tail(s)))
         /\ \A a, b : NoneAfter(a, b, s) => NoneAfter(a, b, Tail(s)) /\ (b = Head(s) => ~Occurs(a, s))
<1> DEFINE n == Len(s)
           t == Tail(s)
           h == Head(s)
<1>1. /\ n \in Nat \ {0} /\ DOMAIN s = 1..n /\ h = s[1] /\ h \in S /\ 1 \in 1..n
      /\ t \in Seq(S) /\ DOMAIN t = 1..(n - 1) /\ \A i \in 1..(n - 1) : i + 1 \in 1..n /\ t[i] = s[i + 1]
  BY TailLaw
<1> HIDE DEF n, t, h
<1>2. \A i \in 1..n : i = 1 \/ (i - 1 \in 1..(n - 1) /\ s[i] = t[i - 1])
  <2>1. ASSUME NEW i \in 1..n, i # 1 PROVE i - 1 \in 1..(n - 1) /\ s[i] = t[i - 1]
    <3>1. i - 1 \in 1..(n - 1) /\ (i - 1) + 1 = i
      BY <1>1, <2>1
    <3>2. t[i - 1] = s[(i - 1) + 1]
      BY <1>1, <3>1
    <3> QED  BY <3>1, <3>2
  <2> QED  BY <2>1
<1>3. ASSUME NEW x PROVE Occurs(x, s) <=> Occurs(x, t) \/ x = h
  BY <1>1, <1>2 DEF Occurs
<1>4. ASSUME NEW a, NEW b, Precedes(a, b, s) PROVE b # h /\ (a # h => Precedes(a, b, t))
  <2>1. b # h
    BY <1>1, <1>4 DEF Precedes
  <2>2. ASSUME a # h, NEW k \in 1..(n - 1), t[k] = b PROVE \E j \in 1..(n - 1) : j < k /\ t[j] = a
    <3>1. k + 1 \in 1..n /\ s[k + 1] = b
      BY <1>1, <2>2
    <3>2. PICK j \in 1..n : j < k + 1 /\ s[j] = a
      BY <1>1, <1>4, <3>1 DEF Precedes
    <3>3. j # 1
      BY <1>1, <2>2, <3>2
    <3>4. j - 1 \in 1..(n - 1) /\ t[j - 1] = a /\ j - 1 < k
      BY <1>1, <1>2, <3>2, <3>3
    <3> QED  BY <3>4
  <2> QED  BY <1>1, <2>1, <2>2 DEF Precedes
<1>5. ASSUME NEW a, NEW b, NoneAfter(a, b, s) PROVE NoneAfter(a, b, t) /\ (b = h => ~Occurs(a, s))
  <2>1. ASSUME NEW j \in 1..(n - 1), NEW k \in 1..(n - 1), t[j] = a, t[k] = b PROVE j < k
    <3>1. j + 1 \in 1..n /\ k + 1 \in 1..n /\ s[j + 1] = a /\ s[k + 1] = b
      BY <1>1, <2>1
    <3>2. j + 1 < k + 1
      BY <1>1, <1>5, <3>1 DEF NoneAfter
    <3> QED  BY <3>2
  <2>2. ASSUME b = h, NEW j \in 1..n, s[j] = a PROVE FALSE
    <3>1. j < 1
      BY <1>1, <1>5, <2>2 DEF NoneAfter
    <3> QED  BY <3>1
  <2> QED  BY <1>1, <2>1, <2>2 DEF NoneAfter, Occurs
<1> QED  BY <1>1, <1>3, <1>4, <1>5 DEF t, h

\* The elements of s that are in P, in their order.
Filtered(s, P) ==
  LET f[i \in 0..Len(s)] ==
        IF i = 0 THEN <<>> ELSE IF s[i] \in P THEN Append(f[i - 1], s[i]) ELSE f[i - 1]
  IN f[Len(s)]

\* Filtered() is the last value of a recursive function, which there is: the one the
\* CHOOSE of its definition takes.
LEMMA FilteredFold ==
  ASSUME NEW S, NEW P, NEW s \in Seq(S)
  PROVE  \E f \in [0..Len(s) -> Seq(S)] :
           /\ f[0] = <<>> /\ Filtered(s, P) = f[Len(s)]
           /\ \A i \in 1..Len(s) : f[i] = IF s[i] \in P THEN Append(f[i - 1], s[i]) ELSE f[i - 1]
<1> DEFINE Of(f) == [i \in 0..Len(s) |->
                       IF i = 0 THEN <<>> ELSE IF s[i] \in P THEN Append(f[i - 1], s[i]) ELSE f[i - 1]]
           of == CHOOSE f : f = Of(f)
           n == Len(s)
           A == Seq(S)
           step == [i \in 1..n |-> [x \in A |-> IF s[i] \in P THEN Append(x, s[i]) ELSE x]]
<1>1. n \in Nat /\ <<>> \in A /\ \A i \in 1..n : s[i] \in S /\ i \in 0..n /\ i # 0 /\ i - 1 \in 0..n
  OBVIOUS
<1>2. step \in [1..n -> [A -> A]]
  BY <1>1
<1>3. PICK f \in [0..n -> A] : IsFold(f, n, <<>>, step)
  <2> HIDE DEF n, A, step
  <2> QED  BY <1>1, <1>2, FoldExists
<1>4. \A i \in 0..n : f[i] = IF i = 0 THEN <<>> ELSE step[i][f[i - 1]]
  <2> HIDE DEF n, A, step
  <2> QED  BY <1>3 DEF IsFold
<1>5. ASSUME NEW i \in 1..n PROVE f[i] = IF s[i] \in P THEN Append(f[i - 1], s[i]) ELSE f[i - 1]
  <2>1. f[i - 1] \in A
    BY <1>1
  <2>2. f[i] = step[i][f[i - 1]]
    <3> HIDE DEF n, step
    <3> QED  BY <1>1, <1>4
  <2> HIDE DEF n, A
  <2> QED  BY <2>1, <2>2
<1>6. f[0] = <<>>
  <2> HIDE DEF n, step
  <2>1. 0 \in 0..n
    BY <1>1
  <2> QED  BY <1>4, <2>1
<1>7. f = Of(f)
  <2>1. \A i \in 0..n : i = 0 \/ i \in 1..n
    OBVIOUS
  <2>2. \A i \in 0..n : f[i] = Of(f)[i]
    BY <1>5, <1>6, <2>1
  <2> QED  BY <2>2
<1>8. ASSUME NEW g, g = Of(g) PROVE g = f
  <2>1. \A i \in 0..n : g[i] = Of(g)[i]
    BY <1>8
  <2>2. g[0] = <<>>
    BY <1>1, <2>1
  <2>3. \A i \in 1..n : g[i] = IF s[i] \in P THEN Append(g[i - 1], s[i]) ELSE g[i - 1]
    BY <1>1, <2>1
  <2>4. g[0] = f[0]
    BY <1>6, <2>2
  <2>5. \A i \in 1..n : g[i - 1] = f[i - 1] => g[i] = f[i]
    BY <1>5, <2>3
  <2>6. \A i \in 0..n : g[i] = f[i]
    <3>1. Alike(g, f, n)
      BY <2>4, <2>5 DEF Alike
    <3> HIDE DEF n
    <3> QED  BY <1>1, <3>1, SameRecursion
  <2>7. g = [i \in 0..n |-> g[i]] /\ f = [i \in 0..n |-> f[i]]
    BY <1>8
  <2> QED  BY <2>6, <2>7
<1>9. Filtered(s, P) = of[Len(s)]
  BY DEF Filtered
<1>10. of = f
  BY <1>7, <1>8
<1> QED  BY <1>5, <1>6, <1>9, <1>10

\* What is kept of no elements, and of one more.
LEMMA FilteredNone ==
  ASSUME NEW P PROVE Filtered(<<>>, P) = <<>>
<1>1. <<>> \in Seq(Nat) /\ Len(<<>>) = 0
  OBVIOUS
<1>2. ASSUME NEW z \in Seq(Nat), Len(z) = 0 PROVE Filtered(z, P) = <<>>
  <2>1. PICK f : f[0] = <<>> /\ Filtered(z, P) = f[Len(z)]
    BY FilteredFold
  <2> QED  BY <1>2, <2>1
<1> QED  BY <1>1, <1>2

LEMMA FilteredType ==
  ASSUME NEW S, NEW P, NEW s \in Seq(S)
  PROVE  Filtered(s, P) \in Seq(S)
<1>1. Len(s) \in 0..Len(s)
  OBVIOUS
<1> QED  BY <1>1, FilteredFold

\* The function that keeps, element by element, those of s in P.
KeptBy(f, s, P, n) ==
  /\ f[0] = <<>> /\ Filtered(s, P) = f[n]
  /\ \A i \in 1..n : f[i] = IF s[i] \in P THEN Append(f[i - 1], s[i]) ELSE f[i - 1]

LEMMA FilteredSteps ==
  ASSUME NEW S, NEW P, NEW s \in Seq(S)
  PROVE  \E f : KeptBy(f, s, P, Len(s))
BY FilteredFold DEF KeptBy

LEMMA FilteredAppend ==
  ASSUME NEW S, NEW P, NEW s \in Seq(S), NEW e \in S
  PROVE  Filtered(Append(s, e), P) = IF e \in P THEN Append(Filtered(s, P), e) ELSE Filtered(s, P)
<1> DEFINE t == Append(s, e)
           n == Len(s)
<1>1. /\ t \in Seq(S) /\ Len(t) = n + 1 /\ n \in Nat /\ t[n + 1] = e /\ \A i \in 1..n : t[i] = s[i]
      /\ n + 1 \in 1..(n + 1) /\ (n + 1) - 1 = n /\ n \in 0..n /\ \A i \in 1..n : i \in 1..(n + 1)
  <2>1. t \in Seq(S) /\ Len(t) = n + 1 /\ n \in Nat /\ t[n + 1] = e /\ \A i \in 1..n : t[i] = s[i]
    BY AppendLaw
  <2> HIDE DEF t, n
  <2>2. n + 1 \in 1..(n + 1) /\ (n + 1) - 1 = n /\ n \in 0..n /\ \A i \in 1..n : i \in 1..(n + 1)
    BY <2>1
  <2> QED  BY <2>1, <2>2
<1> HIDE DEF t, n
<1>2. PICK f : KeptBy(f, s, P, n)
  BY FilteredSteps, Zenon DEF n
<1>3. PICK g : KeptBy(g, t, P, n + 1)
  BY <1>1, FilteredSteps, Zenon
<1>4. \A i \in 1..n : f[i - 1] = g[i - 1] => f[i] = g[i]
  BY <1>1, <1>2, <1>3 DEF KeptBy
<1>5. f[n] = g[n]
  <2>1. Alike(f, g, n)
    BY <1>2, <1>3, <1>4 DEF Alike, KeptBy
  <2> QED  BY <1>1, <2>1, SameRecursion
<1>6. g[n + 1] = IF e \in P THEN Append(g[n], e) ELSE g[n]
  BY <1>1, <1>3 DEF KeptBy
<1> QED  BY <1>2, <1>3, <1>5, <1>6 DEF t, KeptBy

\* Of one element, and of two sequences.
LEMMA FilteredOne ==
  ASSUME NEW S, NEW P, NEW e \in S
  PROVE  Filtered(<<e>>, P) = IF e \in P THEN <<e>> ELSE <<>>
<1>1. <<>> \in Seq(S)
  OBVIOUS
<1>2. Append(<<>>, e) = <<e>>
  OBVIOUS
<1>3. Filtered(<<>>, P) = <<>>
  BY FilteredNone, FilteredType, FilteredAppend
<1> DEFINE z == <<>>
<1>4. z = <<>>
  OBVIOUS
<1>5. z \in Seq(S)
  BY <1>1
<1> HIDE DEF z
<1>6. Filtered(Append(z, e), P) = IF e \in P THEN Append(Filtered(z, P), e) ELSE Filtered(z, P)
  BY <1>5, FilteredAppend
<1> QED  BY <1>2, <1>3, <1>4, <1>6

LEMMA FilteredConcat ==
  ASSUME NEW S, NEW P, NEW a \in Seq(S), NEW b \in Seq(S)
  PROVE  Filtered(a \o b, P) = Filtered(a, P) \o Filtered(b, P)
<1> DEFINE Q == {t \in Seq(S) : Filtered(a \o t, P) = Filtered(a, P) \o Filtered(t, P)}
<1>1. Filtered(a, P) \in Seq(S)
  BY FilteredNone, FilteredType, FilteredAppend
<1>2. <<>> \in Q
  <2>1. a \o <<>> = a /\ Filtered(a, P) \o <<>> = Filtered(a, P) /\ <<>> \in Seq(S)
    BY <1>1, ConcatEmptySeq, EmptySeq
  <2> QED  BY <2>1, FilteredNone, FilteredType, FilteredAppend
<1>3. ASSUME NEW t \in Seq(S), NEW e \in S, t \in Q PROVE Append(t, e) \in Q
  <2>1. Append(t, e) \in Seq(S) /\ a \o t \in Seq(S) /\ Filtered(t, P) \in Seq(S)
    <3>1. Append(t, e) \in Seq(S) /\ a \o t \in Seq(S)
      OBVIOUS
    <3> QED  BY <3>1, FilteredNone, FilteredType, FilteredAppend
  <2>2. a \o Append(t, e) = Append(a \o t, e)
    BY <2>1, ConcatAppend, AppendIsConcat
  <2>3. Filtered(a, P) \o Append(Filtered(t, P), e) = Append(Filtered(a, P) \o Filtered(t, P), e)
    <3>1. Filtered(a, P) \o Filtered(t, P) \in Seq(S)
      BY <1>1, <2>1
    <3> QED  BY <1>1, <2>1, <3>1, ConcatAppend, AppendIsConcat
  <2> DEFINE z == a \o t
  <2>4. Filtered(Append(z, e), P) = IF e \in P THEN Append(Filtered(z, P), e) ELSE Filtered(z, P)
    <3>1. z \in Seq(S)
      BY <2>1
    <3> HIDE DEF z
    <3> QED  BY <3>1, FilteredAppend
  <2>5. Filtered(Append(t, e), P) = IF e \in P THEN Append(Filtered(t, P), e) ELSE Filtered(t, P)
    BY FilteredNone, FilteredType, FilteredAppend
  <2>6. Filtered(a \o t, P) = Filtered(a, P) \o Filtered(t, P)
    BY <1>3
  <2>7. Filtered(a \o Append(t, e), P) = Filtered(a, P) \o Filtered(Append(t, e), P)
    BY <2>2, <2>3, <2>4, <2>5, <2>6
  <2> QED  BY <2>1, <2>7
<1>4. Seq(S) \subseteq Q
  <2> HIDE DEF Q
  <2> QED  BY <1>2, <1>3, SeqInduction
<1> QED  BY <1>4

\* ... of the first value first.
LEMMA FilteredHead ==
  ASSUME NEW S, NEW P, NEW s \in Seq(S), s # <<>>
  PROVE  /\ Head(s) \in S /\ Tail(s) \in Seq(S)
         /\ Head(s) \in P => Filtered(s, P) = <<Head(s)>> \o Filtered(Tail(s), P)
         /\ Head(s) \notin P => Filtered(s, P) = Filtered(Tail(s), P)
<1> DEFINE h == Head(s)
           t == Tail(s)
           o == <<h>>
<1>1. h \in S /\ t \in Seq(S)
  BY OneLess
<1>2. o \in Seq(S)
  BY <1>1
<1>3. s = o \o t
  OBVIOUS
<1>4. Filtered(o, P) = IF h \in P THEN o ELSE <<>>
  <2> HIDE DEF h
  <2> QED  BY <1>1, FilteredOne
<1>5. Filtered(t, P) \in Seq(S) /\ <<>> \o Filtered(t, P) = Filtered(t, P)
  <2> HIDE DEF t
  <2>1. Filtered(t, P) \in Seq(S)
    BY <1>1, FilteredType
  <2> QED  BY <2>1, ConcatEmptySeq
<1>6. Filtered(o \o t, P) = Filtered(o, P) \o Filtered(t, P)
  <2> HIDE DEF o, t
  <2> QED  BY <1>1, <1>2, FilteredConcat
<1>7. h \in P => Filtered(s, P) = o \o Filtered(t, P)
  <2> HIDE DEF h, t, o
  <2> QED  BY <1>3, <1>4, <1>6
<1>8. h \notin P => Filtered(s, P) = Filtered(t, P)
  <2> HIDE DEF h, t, o
  <2> QED  BY <1>3, <1>4, <1>5, <1>6
<1> QED  BY <1>1, <1>7, <1>8

\* Keeping twice is keeping what both keep.
LEMMA FilteredTwice ==
  ASSUME NEW S, NEW P, NEW R, NEW s \in Seq(S)
  PROVE  Filtered(Filtered(s, P), R) = Filtered(s, P \cap R)
<1> DEFINE Q == {t \in Seq(S) : Filtered(Filtered(t, P), R) = Filtered(t, P \cap R)}
<1>1. <<>> \in Q
  BY EmptySeq, FilteredNone, FilteredType, FilteredAppend
<1>2. ASSUME NEW t \in Seq(S), NEW e \in S, t \in Q PROVE Append(t, e) \in Q
  <2>1. /\ Append(t, e) \in Seq(S) /\ Filtered(t, P) \in Seq(S)
        /\ Filtered(Append(t, e), P) = IF e \in P THEN Append(Filtered(t, P), e) ELSE Filtered(t, P)
        /\ Filtered(Append(t, e), P \cap R) =
             IF e \in P \cap R THEN Append(Filtered(t, P \cap R), e) ELSE Filtered(t, P \cap R)
    <3>1. Append(t, e) \in Seq(S)
      OBVIOUS
    <3> QED  BY <3>1, FilteredNone, FilteredType, FilteredAppend
  <2>2. Filtered(Append(Filtered(t, P), e), R) =
          IF e \in R THEN Append(Filtered(Filtered(t, P), R), e) ELSE Filtered(Filtered(t, P), R)
    BY <2>1, FilteredNone, FilteredType, FilteredAppend
  <2>3. Filtered(Filtered(t, P), R) = Filtered(t, P \cap R)
    BY <1>2
  <2>4. Filtered(Filtered(Append(t, e), P), R) = Filtered(Append(t, e), P \cap R)
    <3>1. e \in P \cap R <=> e \in P /\ e \in R
      OBVIOUS
    <3>2. CASE e \in P
      BY <2>1, <2>2, <2>3, <3>1, <3>2
    <3>3. CASE e \notin P
      BY <2>1, <2>3, <3>1, <3>3
    <3> QED  BY <3>2, <3>3
  <2> QED  BY <2>1, <2>4
<1>3. Seq(S) \subseteq Q
  <2> HIDE DEF Q
  <2> QED  BY <1>1, <1>2, SeqInduction
<1>4. s \in Q
  <2> HIDE DEF Q
  <2> QED  BY <1>3
<1> QED  BY <1>4

\* Of a sequence that has none, and of one that has nothing else.
NoneIn(s, P) == \A i \in 1..Len(s) : s[i] \notin P
AllIn(s, P) == \A i \in 1..Len(s) : s[i] \in P

LEMMA FilteredElements ==
  ASSUME NEW S, NEW P, NEW s \in Seq(S)
  PROVE  /\ NoneIn(s, P) => Filtered(s, P) = <<>>
         /\ AllIn(s, P) => Filtered(s, P) = s
         /\ AllIn(Filtered(s, P), P)
<1> DEFINE Q == {t \in Seq(S) : /\ NoneIn(t, P) => Filtered(t, P) = <<>>
                                /\ AllIn(t, P) => Filtered(t, P) = t
                                /\ AllIn(Filtered(t, P), P)}
<1>1. <<>> \in Q
  <2>1. <<>> \in Seq(S) /\ Len(<<>>) = 0 /\ Filtered(<<>>, P) = <<>>
    BY FilteredNone, FilteredType, FilteredAppend
  <2> QED  BY <2>1 DEF NoneIn, AllIn
<1>2. ASSUME NEW t \in Seq(S), NEW e \in S, t \in Q PROVE Append(t, e) \in Q
  <2>1. /\ Append(t, e) \in Seq(S) /\ Filtered(t, P) \in Seq(S)
        /\ Filtered(Append(t, e), P) = IF e \in P THEN Append(Filtered(t, P), e) ELSE Filtered(t, P)
    <3>1. Append(t, e) \in Seq(S)
      OBVIOUS
    <3> HIDE DEF Q
    <3> QED  BY <3>1, FilteredNone, FilteredType, FilteredAppend
  <2>2. ASSUME NEW u \in Seq(S)
        PROVE  /\ NoneIn(Append(u, e), P) <=> NoneIn(u, P) /\ e \notin P
               /\ AllIn(Append(u, e), P) <=> AllIn(u, P) /\ e \in P
    <3>1. /\ Len(u) \in Nat /\ Len(Append(u, e)) = Len(u) + 1
          /\ \A i \in 1..Len(u) : Append(u, e)[i] = u[i]
          /\ Append(u, e)[Len(u) + 1] = e
      BY AppendLaw
    <3>2. /\ \A i \in 1..(Len(u) + 1) : i \in 1..Len(u) \/ i = Len(u) + 1
          /\ Len(u) + 1 \in 1..(Len(u) + 1) /\ \A i \in 1..Len(u) : i \in 1..(Len(u) + 1)
      BY <3>1
    <3> QED  BY <3>1, <3>2 DEF NoneIn, AllIn
  <2>3. /\ NoneIn(t, P) => Filtered(t, P) = <<>>
        /\ AllIn(t, P) => Filtered(t, P) = t
        /\ AllIn(Filtered(t, P), P)
    BY <1>2
  <2>4. /\ NoneIn(Append(t, e), P) <=> NoneIn(t, P) /\ e \notin P
        /\ AllIn(Append(t, e), P) <=> AllIn(t, P) /\ e \in P
    BY <2>2
  <2>5. AllIn(Append(Filtered(t, P), e), P) <=> AllIn(Filtered(t, P), P) /\ e \in P
    BY <2>1, <2>2
  <2>6. AllIn(Filtered(Append(t, e), P), P)
    BY <2>1, <2>3, <2>5
  <2> QED  BY <2>1, <2>3, <2>4, <2>6
<1>3. Seq(S) \subseteq Q
  <2> HIDE DEF Q
  <2> QED  BY <1>1, <1>2, SeqInduction
<1>4. s \in Q
  <2> HIDE DEF Q
  <2> QED  BY <1>3
<1> QED  BY <1>4

\* What is filtered are elements that there are.
LEMMA FilteredAre ==
  ASSUME NEW S, NEW P, NEW s \in Seq(S), NEW i \in 1..Len(Filtered(s, P))
  PROVE  Filtered(s, P)[i] \in P /\ \E k \in 1..Len(s) : Filtered(s, P)[i] = s[k]
<1> DEFINE E == {s[k] : k \in 1..Len(s)}
<1>1. AllIn(s, E)
  BY DEF AllIn
<1>2. Filtered(s, E) = s
  <2> HIDE DEF E
  <2> QED  BY <1>1, FilteredElements
<1>3. Filtered(s, P) = Filtered(s, E \cap P)
  <2> HIDE DEF E
  <2> QED  BY <1>2, FilteredTwice
<1>4. AllIn(Filtered(s, P), P) /\ AllIn(Filtered(s, E \cap P), E \cap P)
  <2> HIDE DEF E
  <2> QED  BY FilteredElements
<1>5. Filtered(s, P)[i] \in P /\ Filtered(s, P)[i] \in E
  <2> HIDE DEF E
  <2> QED  BY <1>3, <1>4 DEF AllIn
<1> QED  BY <1>5

\* No element twice: what is filtered of such a sequence is one too, and a stretch
\* of it is taken out by leaving out its elements.
Distinct(s) == \A i, j \in 1..Len(s) : s[i] = s[j] => i = j

LEMMA FilteredDistinct ==
  ASSUME NEW S, NEW P, NEW s \in Seq(S), Distinct(s)
  PROVE  Distinct(Filtered(s, P))
<1> DEFINE Q == {t \in Seq(S) : Distinct(t) => Distinct(Filtered(t, P))}
<1>1. <<>> \in Q
  <2>1. <<>> \in Seq(S) /\ Len(<<>>) = 0 /\ Filtered(<<>>, P) = <<>>
    BY FilteredNone
  <2> QED  BY <2>1 DEF Distinct
<1>2. ASSUME NEW t \in Seq(S), NEW e \in S, t \in Q PROVE Append(t, e) \in Q
  <2>1. /\ Append(t, e) \in Seq(S) /\ Len(Append(t, e)) = Len(t) + 1 /\ Len(t) \in Nat
        /\ \A i \in 1..Len(t) : Append(t, e)[i] = t[i] /\ i \in 1..(Len(t) + 1)
        /\ Append(t, e)[Len(t) + 1] = e /\ Len(t) + 1 \in 1..(Len(t) + 1)
    BY AppendLaw
  <2>2. ASSUME Distinct(Append(t, e)) PROVE Distinct(Filtered(Append(t, e), P))
    <3>1. Distinct(t) /\ \A k \in 1..Len(t) : t[k] # e
      BY <2>1, <2>2 DEF Distinct
    <3> DEFINE f == Filtered(t, P)
    <3>2. f \in Seq(S) /\ Distinct(f) /\ \A i \in 1..Len(f) : f[i] # e
      <4>1. f \in Seq(S)
        BY FilteredType
      <4>2. \A i \in 1..Len(f) : f[i] # e
        BY <3>1, FilteredAre, SMTT(30)
      <4> QED  BY <1>2, <3>1, <4>1, <4>2
    <3>3. Filtered(Append(t, e), P) = IF e \in P THEN Append(f, e) ELSE f
      BY FilteredAppend
    <3>4. Distinct(Append(f, e))
      <4> HIDE DEF f
      <4>1. /\ Len(Append(f, e)) = Len(f) + 1 /\ Len(f) \in Nat
            /\ \A i \in 1..Len(f) : Append(f, e)[i] = f[i]
            /\ Append(f, e)[Len(f) + 1] = e
        BY <3>2, AppendLaw
      <4>2. \A i \in 1..(Len(f) + 1) : i \in 1..Len(f) \/ i = Len(f) + 1
        BY <4>1
      <4> QED  BY <3>2, <4>1, <4>2 DEF Distinct
    <3> QED  BY <3>2, <3>3, <3>4
  <2> QED  BY <2>1, <2>2
<1>3. Seq(S) \subseteq Q
  <2> HIDE DEF Q
  <2> QED  BY <1>1, <1>2, SeqInduction
<1>4. s \in Q
  <2> HIDE DEF Q
  <2> QED  BY <1>3
<1> QED  BY <1>4

Joined(u, v, w) == (u \o v) \o w

Members(s) == {s[i] : i \in 1..Len(s)}

LEMMA JoinedMiddle ==
  ASSUME NEW S, NEW u \in Seq(S), NEW v \in Seq(S), NEW w \in Seq(S), NEW m \in Members(v)
  PROVE  m \in Members(Joined(u, v, w))
<1>1. PICK i \in 1..Len(v) : m = v[i]
  BY DEF Members
<1>2. /\ Len(u) \in Nat /\ Len(v) \in Nat /\ Len(w) \in Nat
      /\ Len(Joined(u, v, w)) = Len(u) + Len(v) + Len(w)
  BY DEF Joined
<1>3. Len(u) + i \in 1..Len(Joined(u, v, w)) /\ Joined(u, v, w)[Len(u) + i] = v[i]
  BY <1>2 DEF Joined
<1> QED  BY <1>1, <1>3 DEF Members

LEMMA TakenOut ==
  ASSUME NEW S, NEW u \in Seq(S), NEW v \in Seq(S), NEW w \in Seq(S),
         NEW P, P = S \ Members(v), Distinct(Joined(u, v, w))
  PROVE  Filtered(Joined(u, v, w), P) = Joined(u, <<>>, w)
<1> DEFINE W == (u \o v) \o w
<1>0. Joined(u, v, w) = W
  BY DEF Joined
<1>1. /\ Len(u) \in Nat /\ Len(v) \in Nat /\ Len(w) \in Nat /\ u \o v \in Seq(S)
      /\ Len(u \o v) = Len(u) + Len(v) /\ Len(W) = Len(u) + Len(v) + Len(w)
  OBVIOUS
<1>2. /\ \A i \in 1..Len(u) : W[i] = u[i] /\ i \in 1..Len(W)
      /\ \A i \in 1..Len(v) : W[Len(u) + i] = v[i] /\ Len(u) + i \in 1..Len(W)
      /\ \A i \in 1..Len(w) : W[(Len(u) + Len(v)) + i] = w[i] /\ (Len(u) + Len(v)) + i \in 1..Len(W)
  BY <1>1
<1>3. \A i, j \in 1..Len(W) : W[i] = W[j] => i = j
  BY <1>0 DEF Distinct
<1> HIDE DEF W
<1>4. AllIn(u, P)
  <2>1. ASSUME NEW i \in 1..Len(u), NEW j \in 1..Len(v) PROVE u[i] # v[j]
    BY <1>1, <1>2, <1>3
  <2>2. \A i \in 1..Len(u) : u[i] \in S
    OBVIOUS
  <2> QED  BY <2>1, <2>2 DEF AllIn, Members
<1>5. AllIn(w, P)
  <2>1. ASSUME NEW i \in 1..Len(w), NEW j \in 1..Len(v) PROVE w[i] # v[j]
    BY <1>1, <1>2, <1>3
  <2>2. \A i \in 1..Len(w) : w[i] \in S
    OBVIOUS
  <2> QED  BY <2>1, <2>2 DEF AllIn, Members
<1>6. NoneIn(v, P)
  BY DEF NoneIn, Members
<1>7. Filtered(u, P) = u /\ Filtered(v, P) = <<>> /\ Filtered(w, P) = w
  BY <1>4, <1>5, <1>6, FilteredElements
<1> DEFINE y == u \o v
<1>8. /\ Filtered(y, P) = Filtered(u, P) \o Filtered(v, P)
      /\ Filtered(y \o w, P) = Filtered(y, P) \o Filtered(w, P)
  <2>1. \A a, b \in Seq(S) : Filtered(a \o b, P) = Filtered(a, P) \o Filtered(b, P)
    BY FilteredConcat
  <2> QED  BY <1>1, <2>1
<1>9. u \o <<>> = u /\ Joined(u, <<>>, w) = u \o w
  BY ConcatEmptySeq DEF Joined
<1> HIDE DEF y
<1>10. Filtered(y \o w, P) = u \o w
  BY <1>7, <1>8, <1>9
<1> QED  BY <1>0, <1>9, <1>10 DEF y, W

\* Four sequences one after the other, and what may be moved from one to the
\* next.
Line(a, b, c, d) == ((a \o b) \o c) \o d
Four(S, a, b, c, d) == a \in Seq(S) /\ b \in Seq(S) /\ c \in Seq(S) /\ d \in Seq(S)

LEMMA LineMoves ==
  ASSUME NEW S, NEW a, NEW b, NEW c, NEW d, Four(S, a, b, c, d)
  PROVE  /\ Line(a \o b, <<>>, c, d) = Line(a, b, c, d)
         /\ Line(a, c, <<>>, d) = Line(a, <<>>, c, d)
<1>0. a \in Seq(S) /\ b \in Seq(S) /\ c \in Seq(S) /\ d \in Seq(S)
  BY DEF Four
<1>1. a \o b \in Seq(S) /\ a \o c \in Seq(S)
  BY <1>0, Regroup
<1>2. a \o <<>> = a /\ (a \o b) \o <<>> = a \o b /\ (a \o c) \o <<>> = a \o c
  BY <1>0, <1>1, ConcatEmptySeq
<1> QED  BY <1>2 DEF Line

LEMMA LineTakes ==
  ASSUME NEW S, NEW a, NEW b, NEW c, NEW d, NEW e \in S, Four(S, a, b, c, d)
  PROVE  Line(a, b, Append(c, e), d) = Line(a, b, c, <<e>> \o d)
<1>0. a \in Seq(S) /\ b \in Seq(S)
  BY DEF Four
<1>1. c \in Seq(S)
  BY DEF Four
<1>2. d \in Seq(S)
  BY DEF Four
<1> DEFINE x == a \o b
           o == <<e>>
<1>3. x \in Seq(S)
  BY <1>0, Regroup
<1>4. o \in Seq(S) /\ Append(c, e) = c \o o
  BY <1>1
<1> HIDE DEF x, o
<1> DEFINE y == x \o c
<1>5. y \in Seq(S)
  BY <1>1, <1>3, Regroup
<1>6. x \o (c \o o) = y \o o
  BY <1>1, <1>3, <1>4, Regroup
<1>7. (y \o o) \o d = y \o (o \o d)
  <2> HIDE DEF y
  <2> QED  BY <1>2, <1>4, <1>5, Regroup
<1> QED  BY <1>4, <1>6, <1>7 DEF Line, x, o

LEMMA AppendRegroup ==
  ASSUME NEW S, NEW a \in Seq(S), NEW b \in Seq(S), NEW e \in S
  PROVE  a \o Append(b, e) = Append(a \o b, e)
OBVIOUS

LEMMA LineAppend ==
  ASSUME NEW S, NEW a, NEW b, NEW c, NEW d, NEW e \in S, Four(S, a, b, c, d)
  PROVE  Line(a, b, c, Append(d, e)) = Append(Line(a, b, c, d), e)
<1>0. a \in Seq(S) /\ b \in Seq(S) /\ c \in Seq(S) /\ d \in Seq(S)
  BY DEF Four
<1> DEFINE y == (a \o b) \o c
<1>1. y \in Seq(S)
  BY <1>0
<1>2. y \o Append(d, e) = Append(y \o d, e)
  <2> HIDE DEF y
  <2> QED  BY <1>0, <1>1, AppendRegroup
<1> QED  BY <1>2 DEF Line

LEMMA LineJoined ==
  ASSUME NEW S, NEW a, NEW b, NEW c, NEW d, Four(S, a, b, c, d)
  PROVE  /\ Line(a, b, c, d) = Joined(a, b, c \o d)
         /\ Line(a, b, c, d) = Joined(a, b \o c, d)
         /\ Line(a, <<>>, c, d) = Joined(a, c, d)
         /\ Line(a, <<>>, <<>>, d) = Joined(a, <<>>, d)
<1>0. a \in Seq(S) /\ b \in Seq(S) /\ c \in Seq(S) /\ d \in Seq(S)
  BY DEF Four
<1> DEFINE x == a \o b
<1>1. x \in Seq(S) /\ b \o c \in Seq(S)
  BY <1>0, ConcatProperties
<1>2. x \o (c \o d) = (x \o c) \o d
  <2> HIDE DEF x
  <2> QED  BY <1>0, <1>1, Regroup, SMTT(30)
<1>3. a \o (b \o c) = x \o c
  BY <1>0, Regroup, SMTT(30)
<1>4. a \o <<>> = a
  BY <1>0, ConcatEmptySeq
<1> QED  BY <1>2, <1>3, <1>4 DEF Line, Joined

LEMMA MembersConcat ==
  ASSUME NEW S, NEW a \in Seq(S), NEW b \in Seq(S)
  PROVE  Members(a \o b) = Members(a) \cup Members(b)
<1>1. Len(a) \in Nat /\ Len(b) \in Nat /\ Len(a \o b) = Len(a) + Len(b)
  OBVIOUS
<1>2. ASSUME NEW m \in Members(a) PROVE m \in Members(a \o b)
  <2>1. PICK i \in 1..Len(a) : m = a[i]
    BY DEF Members
  <2>2. i \in 1..Len(a \o b) /\ (a \o b)[i] = a[i]
    BY <1>1
  <2> QED  BY <2>1, <2>2 DEF Members
<1>3. ASSUME NEW m \in Members(b) PROVE m \in Members(a \o b)
  <2>1. PICK i \in 1..Len(b) : m = b[i]
    BY DEF Members
  <2>2. Len(a) + i \in 1..Len(a \o b) /\ (a \o b)[Len(a) + i] = b[i]
    BY <1>1
  <2> QED  BY <2>1, <2>2 DEF Members
<1>4. ASSUME NEW m \in Members(a \o b) PROVE m \in Members(a) \cup Members(b)
  <2>1. PICK i \in 1..Len(a \o b) : m = (a \o b)[i]
    BY DEF Members
  <2>2. CASE i <= Len(a)
    <3>1. i \in 1..Len(a) /\ m = a[i]
      BY <1>1, <2>1, <2>2
    <3> QED  BY <3>1 DEF Members
  <2>3. CASE ~(i <= Len(a))
    <3>1. i - Len(a) \in 1..Len(b) /\ m = b[i - Len(a)]
      BY <1>1, <2>1, <2>3
    <3> QED  BY <3>1 DEF Members
  <2> QED  BY <2>2, <2>3
<1> QED  BY <1>2, <1>3, <1>4
-----------------------------------------------------------------------------
(* What FlattenSeq() of the community modules is: a recursion over 1..n.     *)

Flattened(s) ==
  IF Len(s) = 0 THEN s
  ELSE LET flat[i \in 1..Len(s)] == IF i = 1 THEN s[i] ELSE flat[i - 1] \o s[i] IN flat[Len(s)]

\* A recursion over 1..n that begins with the first of its sequences.
Joins(h, s, n) == h = [i \in 1..n |-> IF i = 1 THEN s[i] ELSE h[i - 1] \o s[i]]

LEMMA JoinsOnce ==
  ASSUME NEW n \in Nat, NEW s, NEW g, NEW h, Joins(g, s, n), Joins(h, s, n)
  PROVE  g = h
<1>1. /\ \A i \in 1..n : g[i] = IF i = 1 THEN s[i] ELSE g[i - 1] \o s[i]
      /\ \A i \in 1..n : h[i] = IF i = 1 THEN s[i] ELSE h[i - 1] \o s[i]
  BY DEF Joins
<1> DEFINE P == {i \in Nat : i \in 1..n => g[i] = h[i]}
<1>2. 0 \in P
  OBVIOUS
<1>3. ASSUME NEW i \in Nat, i \in P PROVE i + 1 \in P
  <2>1. (i + 1) - 1 = i /\ (i + 1 \in 1..n => i + 1 = 1 \/ i \in 1..n)
    OBVIOUS
  <2> QED  BY <1>1, <1>3, <2>1
<1>4. Nat \subseteq P
  <2> HIDE DEF P
  <2> QED  BY <1>2, <1>3, Induction
<1>5. \A i \in 1..n : g[i] = h[i]
  BY <1>4
<1>6. g = [i \in 1..n |-> g[i]] /\ h = [i \in 1..n |-> h[i]]
  BY DEF Joins
<1> QED  BY <1>5, <1>6

LEMMA FlattenedFold ==
  ASSUME NEW S, NEW s \in Seq(Seq(S))
  PROVE  \E f \in [0..Len(s) -> Seq(S)] :
           f[0] = <<>> /\ Flattened(s) = f[Len(s)] /\ \A i \in 1..Len(s) : f[i] = f[i - 1] \o s[i]
<1> DEFINE n == Len(s)
           A == Seq(S)
           step == [i \in 1..n |-> [x \in A |-> x \o s[i]]]
<1>1. n \in Nat /\ <<>> \in A /\ \A i \in 1..n : s[i] \in A /\ i \in 0..n /\ i # 0 /\ i - 1 \in 0..n /\ (i # 1 => i - 1 \in 1..n)
  OBVIOUS
<1>2. step \in [1..n -> [A -> A]]
  <2>1. ASSUME NEW i \in 1..n, NEW x \in A PROVE x \o s[i] \in A
    BY <1>1, ConcatProperties
  <2> HIDE DEF A, n
  <2> QED  BY <2>1
<1>3. PICK f \in [0..n -> A] : IsFold(f, n, <<>>, step)
  <2> HIDE DEF n, A, step
  <2> QED  BY <1>1, <1>2, FoldExists
<1>4. \A i \in 0..n : f[i] = IF i = 0 THEN <<>> ELSE step[i][f[i - 1]]
  <2> HIDE DEF n, A, step
  <2> QED  BY <1>3 DEF IsFold
<1>5. ASSUME NEW i \in 1..n PROVE f[i] = f[i - 1] \o s[i]
  <2>1. f[i - 1] \in A
    BY <1>1
  <2>2. f[i] = step[i][f[i - 1]]
    <3> HIDE DEF n, step
    <3> QED  BY <1>1, <1>4
  <2> HIDE DEF n, A
  <2> QED  BY <2>1, <2>2
<1>6. f[0] = <<>>
  <2> HIDE DEF n, step
  <2>1. 0 \in 0..n
    BY <1>1
  <2> QED  BY <1>4, <2>1
<1>7. Flattened(s) = f[n]
  <2>1. CASE n = 0
    BY <1>6, <2>1 DEF Flattened
  <2>2. CASE n # 0
    <3> DEFINE g == [i \in 1..n |-> f[i]]
               flat == CHOOSE h : h = [i \in 1..n |-> IF i = 1 THEN s[i] ELSE h[i - 1] \o s[i]]
    <3>1. Flattened(s) = flat[n]
      BY <2>2 DEF Flattened
    <3>2. Joins(g, s, n)
      <4>1. ASSUME NEW i \in 1..n PROVE g[i] = IF i = 1 THEN s[i] ELSE g[i - 1] \o s[i]
        <5>1. g[i] = f[i - 1] \o s[i] /\ s[i] \in A
          BY <1>1, <1>5
        <5>2. CASE i = 1
          <6>1. f[i - 1] = <<>> /\ <<>> \o s[i] = s[i]
            BY <1>6, <5>1, <5>2
          <6> HIDE DEF g, A
          <6> QED  BY <5>1, <5>2, <6>1
        <5>3. CASE i # 1
          <6>1. i - 1 \in 1..n /\ g[i - 1] = f[i - 1]
            BY <1>1, <5>3
          <6> HIDE DEF g, A
          <6> QED  BY <5>1, <5>3, <6>1
        <5> HIDE DEF g
        <5> QED  BY <5>2, <5>3
      <4>2. g = [i \in 1..n |-> g[i]]
        OBVIOUS
      <4> HIDE DEF g, n
      <4>3. [i \in 1..n |-> g[i]] = [i \in 1..n |-> IF i = 1 THEN s[i] ELSE g[i - 1] \o s[i]]
        BY <4>1
      <4> QED  BY <4>2, <4>3 DEF Joins
    <3>3. Joins(flat, s, n)
      <4>1. \E h : h = [i \in 1..n |-> IF i = 1 THEN s[i] ELSE h[i - 1] \o s[i]]
        <5> HIDE DEF g
        <5> QED  BY <3>2 DEF Joins
      <4> HIDE DEF n, g
      <4>2. flat = [i \in 1..n |-> IF i = 1 THEN s[i] ELSE flat[i - 1] \o s[i]]
        BY <4>1
      <4> HIDE DEF flat
      <4> QED  BY <4>2 DEF Joins
    <3>4. flat = g
      <4> HIDE DEF n, g, flat
      <4> QED  BY <1>1, <3>2, <3>3, JoinsOnce
    <3>5. g[n] = f[n]
      BY <1>1, <2>2
    <3> HIDE DEF g, flat
    <3> QED  BY <3>1, <3>4, <3>5
  <2> QED  BY <2>1, <2>2
<1> QED  BY <1>5, <1>6, <1>7

-----------------------------------------------------------------------------
(* Small changes at the end of a sequence.                                   *)

\* The same element, many times.
LEMMA SameMany ==
  ASSUME NEW S, NEW s \in Seq(S), NEW n \in Nat, NEW x \in S
  PROVE  s \o [i \in 1..n |-> x] \in Seq(S)
<1> DEFINE more == [i \in 1..n |-> x]
<1>1. more \in Seq(S)
  OBVIOUS
<1> HIDE DEF more
<1>2. s \o more \in Seq(S)
  BY <1>1
<1> QED  BY <1>2 DEF more

\* Nothing, one element, and what passes from one sequence to another.
LEMMA Appended ==
  ASSUME NEW S, NEW v \in Seq(S), NEW q \in Seq(S), NEW r \in S
  PROVE  /\ v \o q \o <<>> = v \o q /\ v \o q \o <<r>> = v \o Append(q, r)
         /\ v \o Append(q, r) \o <<>> = v \o Append(q, r)
         /\ q # <<>> => Append(v, Head(q)) \o Tail(q) = v \o q
         /\ v \o <<>> = v /\ v \o <<r>> = Append(v, r) /\ <<>> \o <<r>> = <<r>> /\ <<r>> \o <<>> = <<r>> /\ <<>> \o <<>> = <<>>
<1>1. v \o <<>> = v /\ v \o <<r>> = Append(v, r) /\ <<>> \o <<r>> = <<r>> /\ <<r>> \o <<>> = <<r>> /\ <<>> \o <<>> = <<>>
  OBVIOUS
<1>2. ASSUME NEW b \in Seq(S) PROVE v \o b \o <<>> = v \o b
  <2> DEFINE a == v \o b
  <2>1. a \in Seq(S)
    OBVIOUS
  <2> HIDE DEF a
  <2>2. a \o <<>> = a
    BY <2>1
  <2> QED  BY <2>2 DEF a
<1>3. v \o q \o <<r>> = v \o Append(q, r) /\ Append(q, r) \in Seq(S)
  OBVIOUS
<1>4. q # <<>> => Append(v, Head(q)) \o Tail(q) = v \o q
  OBVIOUS
<1> QED  BY <1>1, <1>2, <1>3, <1>4

\* Sequences of one value only.
LEMMA EmptyOf ==
  ASSUME NEW x, NEW s, s = <<>>
  PROVE  s \in Seq({x}) /\ Append(s, x) \in Seq({x})
<1>1. <<>> \in Seq({x}) /\ Append(<<>>, x) \in Seq({x})
  OBVIOUS
<1> QED  BY <1>1

LEMMA TailOf ==
  ASSUME NEW x, NEW s \in Seq({x}), s # <<>>
  PROVE  Head(s) = x /\ Tail(s) \in Seq({x})
<1>1. Head(s) \in {x} /\ Tail(s) \in Seq({x})
  OBVIOUS
<1> QED  BY <1>1

-----------------------------------------------------------------------------
(* How often a value occurs.                                                *)

Times(s, x) == Len(Filtered(s, {x}))

LEMMA TimesAppend ==
  ASSUME NEW S, NEW s \in Seq(S), NEW e \in S, NEW x
  PROVE  Times(s, x) \in Nat /\ Times(Append(s, e), x) = Times(s, x) + (IF e = x THEN 1 ELSE 0)
<1> DEFINE f == Filtered(s, {x})
<1>1. f \in Seq(S) /\ Filtered(Append(s, e), {x}) = IF e = x THEN Append(f, e) ELSE f
  <2>1. f \in Seq(S)
    BY FilteredType
  <2>2. Filtered(Append(s, e), {x}) = IF e \in {x} THEN Append(f, e) ELSE f
    BY FilteredAppend
  <2> QED  BY <2>1, <2>2
<1> HIDE DEF f
<1>2. Len(f) \in Nat /\ Len(Append(f, e)) = Len(f) + 1
  BY <1>1
<1> QED  BY <1>1, <1>2 DEF Times, f

\* It does not occur, or is somewhere.
LEMMA TimesLaw ==
  ASSUME NEW S, NEW s \in Seq(S), NEW x
  PROVE  Times(s, x) \in Nat /\ (Times(s, x) = 0 <=> \A i \in 1..Len(s) : s[i] # x)
<1> DEFINE Q == {t \in Seq(S) : Times(t, x) \in Nat /\ (Times(t, x) = 0 <=> \A i \in 1..Len(t) : t[i] # x)}
<1>1. <<>> \in Q
  BY EmptySeq, FilteredNone DEF Times
<1>2. ASSUME NEW t \in Seq(S), NEW e \in S, t \in Q PROVE Append(t, e) \in Q
  <2>1. /\ Append(t, e) \in Seq(S) /\ Len(Append(t, e)) = Len(t) + 1 /\ Len(t) \in Nat
        /\ \A i \in 1..Len(t) : Append(t, e)[i] = t[i]
        /\ Append(t, e)[Len(t) + 1] = e
    BY AppendLaw
  <2>2. Times(t, x) \in Nat /\ Times(Append(t, e), x) = Times(t, x) + (IF e = x THEN 1 ELSE 0)
    BY TimesAppend
  <2>3. Times(t, x) = 0 <=> \A i \in 1..Len(t) : t[i] # x
    BY <1>2
  <2>4. \A i \in 1..(Len(t) + 1) : i \in 1..Len(t) \/ i = Len(t) + 1
    BY <2>1
  <2>5. (\A i \in 1..(Len(t) + 1) : Append(t, e)[i] # x) <=> (\A i \in 1..Len(t) : t[i] # x) /\ e # x
    <3>1. \A i \in 1..Len(t) : i \in 1..(Len(t) + 1)
      BY <2>1
    <3>2. Len(t) + 1 \in 1..(Len(t) + 1)
      BY <2>1
    <3> QED  BY <2>1, <2>4, <3>1, <3>2
  <2>6. Times(Append(t, e), x) \in Nat /\ (Times(Append(t, e), x) = 0 <=> Times(t, x) = 0 /\ e # x)
    BY <2>2
  <2>7. Times(Append(t, e), x) = 0 <=> \A i \in 1..Len(Append(t, e)) : Append(t, e)[i] # x
    <3>1. Len(Append(t, e)) = Len(t) + 1
      BY <2>1
    <3> QED  BY <2>3, <2>5, <2>6, <3>1
  <2> QED  BY <2>1, <2>6, <2>7
<1>3. Seq(S) \subseteq Q
  <2> HIDE DEF Q
  <2> QED  BY <1>1, <1>2, SeqInduction
<1>4. s \in Q
  <2> HIDE DEF Q
  <2> QED  BY <1>3
<1> QED  BY <1>4

LEMMA TimesNone == ASSUME NEW x PROVE Times(<<>>, x) = 0
  BY EmptySeq, FilteredNone DEF Times

LEMMA TimesTail ==
  ASSUME NEW S, NEW s \in Seq(S), s # <<>>, NEW x
  PROVE  Times(s, x) = Times(Tail(s), x) + (IF Head(s) = x THEN 1 ELSE 0)
<1> DEFINE t == Tail(s)
           h == Head(s)
<1>1. t \in Seq(S) /\ h \in S
  BY FilteredHead
<1>2. Times(t, x) \in Nat /\ Filtered(t, {x}) \in Seq(S)
  <2> HIDE DEF t
  <2> QED  BY <1>1, TimesLaw, FilteredType
<1>3. CASE h = x
  <2>1. Filtered(s, {x}) = <<h>> \o Filtered(t, {x})
    BY <1>3, FilteredHead
  <2> HIDE DEF h, t
  <2>2. Len(<<h>> \o Filtered(t, {x})) = 1 + Len(Filtered(t, {x}))
    BY <1>1, <1>2
  <2>3. Times(s, x) = Times(t, x) + 1
    BY <1>2, <2>1, <2>2 DEF Times
  <2> QED  BY <1>3, <2>3 DEF h, t
<1>4. CASE h # x
  <2>1. Filtered(s, {x}) = Filtered(t, {x})
    BY <1>4, FilteredHead
  <2> HIDE DEF t
  <2>2. Times(s, x) = Times(t, x)
    BY <2>1 DEF Times
  <2> QED  BY <1>2, <1>4, <2>2 DEF t, h
<1> QED  BY <1>3, <1>4

\* What is kept occurs as often as before, and nothing else does.
LEMMA TimesFiltered ==
  ASSUME NEW S, NEW s \in Seq(S), NEW P, NEW x
  PROVE  Times(Filtered(s, P), x) = IF x \in P THEN Times(s, x) ELSE 0
<1>1. Filtered(Filtered(s, P), {x}) = Filtered(s, P \cap {x})
  BY FilteredTwice
<1>2. x \in P => P \cap {x} = {x}
  OBVIOUS
<1>3. x \notin P => Filtered(s, P \cap {x}) = <<>>
  BY FilteredElements DEF NoneIn
<1>4. Len(<<>>) = 0
  OBVIOUS
<1> QED  BY <1>1, <1>2, <1>3, <1>4 DEF Times
=============================================================================
