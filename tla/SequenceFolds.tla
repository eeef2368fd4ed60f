----------------------------- MODULE SequenceFolds -----------------------------
(***************************************************************************)
(* Folds over sequences, and induction over data.  The library's induction *)
(* theorems take a predicate as a parameter; here it is the set of what    *)
(* satisfies it, and a fold's operator is a constant of this module, which *)
(* an INSTANCE gives its meaning.                                          *)
(***************************************************************************)
EXTENDS Naturals, Sequences, SequencesExt, SequenceTheorems, WellFoundedInduction, TLAPS

CONSTANT Step(_, _)

Folded(base, seq) == FoldLeft(Step, base, seq)

-----------------------------------------------------------------------------
(***************************************************************************)
(* Induction.                                                              *)
(***************************************************************************)
Before == {pair \in Nat \X Nat : pair[1] < pair[2]}

\* A set with zero, and with the successor of each number in it, has them all.
LEMMA SetInduction ==
  ASSUME NEW S, 0 \in S, \A n \in Nat : n \in S => n + 1 \in S
  PROVE  Nat \subseteq S
<1> DEFINE T == Nat \ S
<1> SUFFICES ASSUME T # {} PROVE FALSE
  OBVIOUS
<1>1. IsWellFoundedOn(Before, Nat)
  BY NatLessThanWellFounded DEF OpToRel, Before
<1>2. PICK x \in T : \A y \in T : <<y, x>> \notin Before
  <2> HIDE DEF T
  <2>1. T \subseteq Nat
    BY DEF T
  <2> QED BY <1>1, <2>1, WFMin
<1>3. x # 0 /\ x - 1 \in Nat /\ x - 1 < x /\ x = (x - 1) + 1
  OBVIOUS
<1> QED BY <1>2, <1>3 DEF Before

\* The same with every smaller number to start from.
LEMMA StrongInduction ==
  ASSUME NEW S, \A n \in Nat : (\A m \in Nat : m < n => m \in S) => n \in S
  PROVE  Nat \subseteq S
<1> DEFINE T == {n \in Nat : \A m \in Nat : m < n => m \in S}
<1>1. 0 \in T
  OBVIOUS
<1>2. ASSUME NEW n \in Nat, n \in T PROVE n + 1 \in T
  <2>1. n \in S
    BY <1>2
  <2>2. \A m \in Nat : m < n + 1 => m < n \/ m = n
    OBVIOUS
  <2> QED BY <1>2, <2>1, <2>2
<1> HIDE DEF T
<1>3. Nat \subseteq T
  BY <1>1, <1>2, SetInduction
<1> QED BY <1>3 DEF T

\* A set with the empty sequence, and with each longer by one, has them all.
LEMMA SequenceInduction ==
  ASSUME NEW E, NEW S, <<>> \in S,
         \A t \in Seq(E) : \A c \in E : t \in S => Append(t, c) \in S
  PROVE  Seq(E) \subseteq S
<1> DEFINE N == {n \in Nat : \A t \in Seq(E) : Len(t) = n => t \in S}
<1>1. 0 \in N
  <2>1. \A t \in Seq(E) : Len(t) = 0 => t = <<>>
    OBVIOUS
  <2> QED BY <2>1
<1>2. ASSUME NEW n \in Nat, n \in N PROVE n + 1 \in N
  <2> SUFFICES ASSUME NEW t \in Seq(E), Len(t) = n + 1 PROVE t \in S
    OBVIOUS
  <2>1. t # <<>>
    OBVIOUS
  <2>2. PICK u \in Seq(E) : \E c \in E : t = Append(u, c)
    BY <2>1, SequenceEmptyOrAppend
  <2>3. PICK c \in E : t = Append(u, c)
    BY <2>2
  <2>4. Len(u) = n
    BY <2>3
  <2>5. u \in S
    BY <1>2, <2>4
  <2> QED BY <2>3, <2>5
<1> HIDE DEF N
<1>3. Nat \subseteq N
  BY <1>1, <1>2, SetInduction
<1>4. ASSUME NEW t \in Seq(E) PROVE t \in S
  <2>1. Len(t) \in Nat
    OBVIOUS
  <2> QED BY <1>3, <2>1 DEF N
<1> QED BY <1>4
-----------------------------------------------------------------------------
(***************************************************************************)
(* FoldLeft is the value at the whole domain of a function on the sets of  *)
(* indices, which takes the greatest index last.                           *)
(***************************************************************************)
Iter(it, base, seq, n) ==
  it = [s \in SUBSET (1..n) |->
          IF s = {} THEN base ELSE Step(it[s \ {Max(s)}], seq[Max(s)])]

Upto(it, n) == it[1..n]

\* Max is the element that is no smaller than any.
LEMMA MaxIs ==
  ASSUME NEW s \in SUBSET Nat, NEW m \in s, \A y \in s : m >= y
  PROVE  Max(s) = m
<1>1. \A x \in s : (\A y \in s : x >= y) => x = m
  <2> SUFFICES ASSUME NEW x \in s, \A y \in s : x >= y PROVE x = m
    OBVIOUS
  <2>1. x >= m /\ m >= x /\ x \in Nat /\ m \in Nat
    OBVIOUS
  <2> QED BY <2>1
<1>2. \E x \in s : \A y \in s : x >= y
  OBVIOUS
<1> QED BY <1>1, <1>2 DEF Max

\* The greatest of the first numbers.
LEMMA MaxOfFirst == \A n \in Nat : Max(1..(n + 1)) = n + 1
<1> SUFFICES ASSUME NEW n \in Nat PROVE Max(1..(n + 1)) = n + 1
  OBVIOUS
<1>1. 1..(n + 1) \in SUBSET Nat /\ n + 1 \in 1..(n + 1) /\ \A y \in 1..(n + 1) : n + 1 >= y
  OBVIOUS
<1> QED BY <1>1, MaxIs

\* A set of numbers up to n that is not empty has a greatest one.
LEMMA MaxExists ==
  ASSUME NEW n \in Nat
  PROVE  \A s \in SUBSET (1..n) : s # {} => Max(s) \in s /\ \A y \in s : Max(s) >= y
<1> DEFINE S == {k \in Nat : \A s \in SUBSET (1..k) : s # {} => \E x \in s : \A y \in s : x >= y}
<1>1. 0 \in S
  <2>1. 1..0 = {}
    OBVIOUS
  <2> QED BY <2>1
<1>2. ASSUME NEW k \in Nat, k \in S PROVE k + 1 \in S
  <2> SUFFICES ASSUME NEW s \in SUBSET (1..(k + 1)), s # {}
               PROVE  \E x \in s : \A y \in s : x >= y
    OBVIOUS
  <2>1. CASE k + 1 \in s
    BY <2>1
  <2>2. CASE k + 1 \notin s
    <3>1. s \in SUBSET (1..k)
      BY <2>2
    <3> QED BY <1>2, <3>1
  <2> QED BY <2>1, <2>2
<1> HIDE DEF S
<1>3. Nat \subseteq S
  BY <1>1, <1>2, SetInduction
<1>4. \A s \in SUBSET (1..n) : s # {} => \E x \in s : \A y \in s : x >= y
  BY <1>3 DEF S
<1> QED BY <1>4 DEF Max

\* There is such a function.
LEMMA IterExists ==
  ASSUME NEW base, NEW seq, NEW n \in Nat
  PROVE  \E it : Iter(it, base, seq, n)
<1> DEFINE S == {k \in Nat : \E it : Iter(it, base, seq, k)}
<1>1. 0 \in S
  <2>1. Iter([s \in SUBSET (1..0) |-> base], base, seq, 0)
    BY DEF Iter
  <2> QED BY <2>1
<1>2. ASSUME NEW k \in Nat, k \in S PROVE k + 1 \in S
  <2>1. PICK it : Iter(it, base, seq, k)
    BY <1>2
  <2> DEFINE new == [s \in SUBSET (1..(k + 1)) |->
                       IF k + 1 \in s THEN Step(it[s \ {k + 1}], seq[k + 1]) ELSE it[s]]
  <2>2. Iter(new, base, seq, k + 1)
    <3> SUFFICES ASSUME NEW s \in SUBSET (1..(k + 1))
                 PROVE  new[s] = IF s = {} THEN base ELSE Step(new[s \ {Max(s)}], seq[Max(s)])
      BY Zenon DEF Iter
    <3>1. CASE k + 1 \in s
      <4>1. Max(s) = k + 1
        <5>1. s \in SUBSET Nat /\ \A y \in s : k + 1 >= y
          OBVIOUS
        <5> QED BY <3>1, <5>1, MaxIs
      <4>2. s \ {k + 1} \in SUBSET (1..(k + 1)) /\ k + 1 \notin s \ {k + 1}
        OBVIOUS
      <4>3. new[s \ {k + 1}] = it[s \ {k + 1}]
        BY <4>2
      <4> QED BY <4>1, <4>3, <3>1
    <3>2. CASE k + 1 \notin s
      <4>1. s \subseteq 1..k
        BY <3>2
      <4>2. s # {} => Max(s) \in s
        BY <4>1, MaxExists
      <4> DEFINE less == s \ {Max(s)}
      <4>3. less \in SUBSET (1..(k + 1)) /\ k + 1 \notin less
        BY <3>2
      <4>4. new[s] = it[s]
        BY <3>2
      <4>5. new[less] = it[less]
        <5> HIDE DEF less
        <5> QED BY <4>3
      <4>6. it[s] = IF s = {} THEN base ELSE Step(it[less], seq[Max(s)])
        BY <2>1, <4>1 DEF Iter
      <4> QED BY <4>4, <4>5, <4>6
    <3> QED BY <3>1, <3>2
  <2> HIDE DEF new
  <2> QED BY <2>2
<1> HIDE DEF S
<1>3. Nat \subseteq S
  BY <1>1, <1>2, SetInduction
<1> QED BY <1>3 DEF S

\* FoldLeft is its value at the whole domain.
LEMMA FoldedIsIter ==
  ASSUME NEW base, NEW seq, NEW n \in Nat, DOMAIN seq = 1..n
  PROVE  \E it : Iter(it, base, seq, n) /\ Folded(base, seq) = Upto(it, n)
<1> DEFINE it0 == CHOOSE it : Iter(it, base, seq, n)
<1>1. Iter(it0, base, seq, n)
  BY IterExists
<1>2. Folded(base, seq) = Upto(it0, n)
  BY DEF Folded, FoldLeft, MapThenFoldSet, Iter, Upto
<1> QED BY <1>1, <1>2

\* The next value comes from the one before.
LEMMA IterStep ==
  ASSUME NEW base, NEW seq, NEW m \in Nat, NEW it, Iter(it, base, seq, m),
         NEW k \in Nat, k + 1 <= m
  PROVE  Upto(it, k + 1) = Step(Upto(it, k), seq[k + 1])
<1>1. /\ 1..(k + 1) \in SUBSET (1..m) /\ 1..(k + 1) # {}
      /\ (1..(k + 1)) \ {k + 1} = 1..k
  OBVIOUS
<1>2. Max(1..(k + 1)) = k + 1
  BY MaxOfFirst
<1> QED BY <1>1, <1>2 DEF Iter, Upto

\* Sequences that begin alike have the same value there.
LEMMA IterUnique ==
  ASSUME NEW base, NEW long, NEW short, NEW m \in Nat, NEW n \in Nat, n <= m,
         \A i \in 1..n : short[i] = long[i],
         NEW i1, Iter(i1, base, long, m), NEW i2, Iter(i2, base, short, n)
  PROVE  Upto(i1, n) = Upto(i2, n)
<1> DEFINE S == {k \in Nat : k <= n => Upto(i1, k) = Upto(i2, k)}
<1>1. 0 \in S
  BY DEF Iter, Upto
<1>2. ASSUME NEW k \in Nat, k \in S PROVE k + 1 \in S
  <2> SUFFICES ASSUME k + 1 <= n PROVE Upto(i1, k + 1) = Upto(i2, k + 1)
    OBVIOUS
  <2>1. Upto(i1, k) = Upto(i2, k) /\ k + 1 <= m /\ short[k + 1] = long[k + 1]
    BY <1>2
  <2> HIDE DEF S
  <2>2. Upto(i1, k + 1) = Step(Upto(i1, k), long[k + 1])
    BY <2>1, IterStep
  <2>3. Upto(i2, k + 1) = Step(Upto(i2, k), short[k + 1])
    BY IterStep
  <2> QED BY <2>1, <2>2, <2>3
<1> HIDE DEF S
<1>3. Nat \subseteq S
  BY <1>1, <1>2, SetInduction
<1> QED BY <1>3 DEF S

-----------------------------------------------------------------------------
(***************************************************************************)
(* What a fold is, of nothing, of one element more, and of two parts.      *)
(***************************************************************************)
LEMMA FoldedEmpty == \A base : Folded(base, <<>>) = base
<1> SUFFICES ASSUME NEW base PROVE Folded(base, <<>>) = base
  OBVIOUS
<1>1. PICK it : Iter(it, base, <<>>, 0) /\ Folded(base, <<>>) = Upto(it, 0)
  <2>1. DOMAIN <<>> = 1..0
    OBVIOUS
  <2> QED BY <2>1, FoldedIsIter, Zenon
<1> QED BY <1>1 DEF Iter, Upto

LEMMA FoldedAppend ==
  ASSUME NEW E, NEW base, NEW t \in Seq(E), NEW c \in E
  PROVE  Folded(base, Append(t, c)) = Step(Folded(base, t), c)
<1> DEFINE n == Len(t)
           u == Append(t, c)
<1>1. /\ n \in Nat /\ n + 1 \in Nat /\ n <= n + 1 /\ n + 1 <= n + 1
      /\ DOMAIN t = 1..n /\ DOMAIN u = 1..(n + 1)
      /\ u[n + 1] = c /\ \A i \in 1..n : t[i] = u[i]
  OBVIOUS
<1> HIDE DEF n, u
<1>2. PICK i1 : Iter(i1, base, u, n + 1) /\ Folded(base, u) = Upto(i1, n + 1)
  BY <1>1, FoldedIsIter
<1>3. PICK i2 : Iter(i2, base, t, n) /\ Folded(base, t) = Upto(i2, n)
  BY <1>1, FoldedIsIter
<1>4. Upto(i1, n) = Upto(i2, n)
  BY <1>1, <1>2, <1>3, IterUnique
<1>5. Upto(i1, n + 1) = Step(Upto(i1, n), u[n + 1])
  BY <1>1, <1>2, IterStep
<1> QED BY <1>1, <1>2, <1>3, <1>4, <1>5 DEF u

LEMMA FoldedOne == \A base, c : Folded(base, <<c>>) = Step(base, c)
<1> SUFFICES ASSUME NEW base, NEW c PROVE Folded(base, <<c>>) = Step(base, c)
  OBVIOUS
<1> DEFINE none == <<>>
           E == {c}
<1>1. none \in Seq(E) /\ c \in E
  OBVIOUS
<1>2. Folded(base, none) = base
  BY FoldedEmpty
<1>3. Append(none, c) = <<c>>
  OBVIOUS
<1> HIDE DEF none, E
<1>4. Folded(base, Append(none, c)) = Step(Folded(base, none), c)
  BY <1>1, FoldedAppend
<1> QED BY <1>2, <1>3, <1>4, Zenon

LEMMA FoldedConcat ==
  ASSUME NEW E, NEW base, NEW s \in Seq(E)
  PROVE  \A t \in Seq(E) : Folded(base, s \o t) = Folded(Folded(base, s), t)
<1> DEFINE S == {t \in Seq(E) : Folded(base, s \o t) = Folded(Folded(base, s), t)}
<1>1. <<>> \in S
  <2>1. s \o <<>> = s /\ <<>> \in Seq(E)
    OBVIOUS
  <2> QED BY <2>1, FoldedEmpty
<1>2. ASSUME NEW t \in Seq(E), NEW c \in E, t \in S PROVE Append(t, c) \in S
  <2> DEFINE u == s \o t
  <2>1. u \in Seq(E) /\ s \o Append(t, c) = Append(u, c) /\ Append(t, c) \in Seq(E)
    OBVIOUS
  <2> HIDE DEF u
  <2>2. Folded(base, Append(u, c)) = Step(Folded(base, u), c)
    BY <2>1, FoldedAppend
  <2>3. Folded(Folded(base, s), Append(t, c)) = Step(Folded(Folded(base, s), t), c)
    BY FoldedAppend
  <2> QED BY <1>2, <2>1, <2>2, <2>3 DEF u
<1> HIDE DEF S
<1>3. Seq(E) \subseteq S
  BY <1>1, <1>2, SequenceInduction
<1> QED BY <1>3 DEF S

\* One step from the front.
LEMMA FoldedFront ==
  ASSUME NEW E, NEW base, NEW c \in E, NEW t \in Seq(E)
  PROVE  Folded(base, <<c>> \o t) = Folded(Step(base, c), t)
<1> DEFINE one == <<c>>
<1>1. one \in Seq(E) /\ Folded(base, one) = Step(base, c)
  BY FoldedOne
<1> HIDE DEF one
<1>2. Folded(base, one \o t) = Folded(Folded(base, one), t)
  BY <1>1, FoldedConcat
<1> QED BY <1>1, <1>2 DEF one

\* What every step keeps, the fold keeps.
LEMMA FoldedIn ==
  ASSUME NEW E, NEW T, NEW base \in T, \A x \in T : \A c \in E : Step(x, c) \in T
  PROVE  \A t \in Seq(E) : Folded(base, t) \in T
<1> DEFINE S == {t \in Seq(E) : Folded(base, t) \in T}
<1>1. <<>> \in S
  <2>1. <<>> \in Seq(E)
    OBVIOUS
  <2> QED BY <2>1, FoldedEmpty
<1>2. ASSUME NEW t \in Seq(E), NEW c \in E, t \in S PROVE Append(t, c) \in S
  <2>1. Folded(base, Append(t, c)) = Step(Folded(base, t), c) /\ Append(t, c) \in Seq(E)
    BY FoldedAppend
  <2> QED BY <1>2, <2>1
<1> HIDE DEF S
<1>3. Seq(E) \subseteq S
  BY <1>1, <1>2, SequenceInduction
<1> QED BY <1>3 DEF S

\* A set of numbers that is not empty has a least one.
LEMMA MinExists ==
  ASSUME NEW s \in SUBSET Nat, s # {}
  PROVE  Min(s) \in s /\ \A y \in s : Min(s) <= y
<1> DEFINE S == {n \in Nat : n \in s => \E x \in s : \A y \in s : x <= y}
<1>1. ASSUME NEW n \in Nat, \A m \in Nat : m < n => m \in S PROVE n \in S
  <2> SUFFICES ASSUME n \in s PROVE \E x \in s : \A y \in s : x <= y
    OBVIOUS
  <2>1. CASE \E m \in s : m < n
    BY <1>1, <2>1
  <2>2. CASE ~\E m \in s : m < n
    BY <2>2
  <2> QED BY <2>1, <2>2
<1> HIDE DEF S
<1>2. Nat \subseteq S
  BY <1>1, StrongInduction
<1>3. \E x \in s : \A y \in s : x <= y
  BY <1>2 DEF S
<1> QED BY <1>3 DEF Min

LEMMA MinIs ==
  ASSUME NEW s \in SUBSET Nat, NEW m \in s, \A y \in s : m <= y
  PROVE  Min(s) = m
<1>1. Min(s) \in s /\ \A y \in s : Min(s) <= y
  BY MinExists
<1>2. Min(s) <= m /\ m <= Min(s) /\ Min(s) \in Nat /\ m \in Nat
  BY <1>1
<1> QED BY <1>2
=============================================================================
