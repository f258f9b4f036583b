--------------------------- MODULE SequenceLemmas ---------------------------
(***************************************************************************)
(* Facts about sequences, for the proofs about the modules that keep       *)
(* queues, packages and bytes in them.                                     *)
(***************************************************************************)
EXTENDS Integers, Sequences, SequencesExt, FiniteSetTheorems, SequenceTheorems, TLAPS

LEMMA HeadAt ==
  ASSUME NEW S, NEW s \in Seq(S), s # <<>>
  PROVE  Head(s) = s[1]
OBVIOUS

LEMMA HeadAndTail ==
  ASSUME NEW S, NEW s \in Seq(S), s # <<>>
  PROVE  s = <<Head(s)>> \o Tail(s)
<1> DEFINE h == Head(s)
           t == Tail(s)
           y == <<h>> \o t
<1>1. /\ h \in S /\ t \in Seq(S) /\ Len(t) = Len(s) - 1 /\ Len(s) \in Nat
      /\ \A i \in 1 .. Len(t) : t[i] = s[i + 1]
  BY HeadTailProperties
<1>2. h = s[1]
  BY HeadAt
<1> HIDE DEF h, t
<1>3. /\ y \in Seq(S) /\ Len(y) = Len(s) /\ y[1] = h
      /\ \A i \in 1 .. Len(t) : y[i + 1] = t[i]
  BY <1>1
<1> HIDE DEF y
<1>4. \A i \in 1 .. Len(s) : s[i] = y[i]
  <2> SUFFICES ASSUME NEW i \in 1 .. Len(s) PROVE s[i] = y[i]
    OBVIOUS
  <2>1. i = 1 \/ (i - 1 \in 1 .. Len(t) /\ (i - 1) + 1 = i)
    BY <1>1
  <2> QED BY <1>1, <1>2, <1>3, <2>1
<1>5. s = y
  BY <1>3, <1>4, SeqEqual
<1> QED BY <1>5 DEF y, h, t

LEMMA ToSetIn ==
  ASSUME NEW S, NEW s \in Seq(S)
  PROVE  /\ ToSet(s) \subseteq S
         /\ s = <<>> <=> ToSet(s) = {}
BY DEF ToSet

LEMMA ToSetEmpty == ToSet(<<>>) = {} /\ IsInjective(<<>>)
BY DEF ToSet, IsInjective

\* An element is at some position, and what is at a position is an element.
LEMMA ToSetAt ==
  ASSUME NEW S, NEW s \in Seq(S)
  PROVE  /\ \A x \in ToSet(s) : \E i \in 1 .. Len(s) : s[i] = x
         /\ \A i \in 1 .. Len(s) : s[i] \in ToSet(s)
BY DEF ToSet

LEMMA ToSetAppend ==
  ASSUME NEW S, NEW s \in Seq(S), NEW x \in S
  PROVE  ToSet(Append(s, x)) = ToSet(s) \cup {x}
<1> DEFINE r == Append(s, x)
<1>1. /\ DOMAIN s = 1 .. Len(s)
      /\ DOMAIN r = 1 .. Len(s) + 1
      /\ \A i \in 1 .. Len(s) : r[i] = s[i]
      /\ r[Len(s) + 1] = x
      /\ Len(s) \in Nat
  OBVIOUS
<1> HIDE DEF r
<1>2. ToSet(r) \subseteq ToSet(s) \cup {x}
  BY <1>1 DEF ToSet
<1>3. ToSet(s) \subseteq ToSet(r)
  BY <1>1 DEF ToSet
<1>4. x \in ToSet(r)
  BY <1>1 DEF ToSet
<1> QED BY <1>2, <1>3, <1>4 DEF r

LEMMA ToSetTail ==
  ASSUME NEW S, NEW s \in Seq(S), s # <<>>
  PROVE  /\ ToSet(s) = ToSet(Tail(s)) \cup {Head(s)}
         /\ Head(s) \in S /\ Tail(s) \in Seq(S)
<1> DEFINE r == Tail(s)
<1>1. /\ r \in Seq(S) /\ Head(s) \in S
      /\ DOMAIN s = 1 .. Len(s)
      /\ DOMAIN r = 1 .. Len(s) - 1
      /\ \A i \in 1 .. Len(s) - 1 : r[i] = s[i + 1]
      /\ Head(s) = s[1]
      /\ Len(s) \in Nat /\ Len(s) > 0
  OBVIOUS
<1> HIDE DEF r
<1>2. ASSUME NEW x \in ToSet(s), x # Head(s)
      PROVE  x \in ToSet(r)
  <2>1. PICK i \in 1 .. Len(s) : x = s[i]
    BY <1>1 DEF ToSet
  <2>2. i - 1 \in 1 .. Len(s) - 1 /\ r[i - 1] = x
    BY <1>1, <1>2, <2>1
  <2> QED BY <1>1, <2>2 DEF ToSet
<1>3. ASSUME NEW x \in ToSet(r)
      PROVE  x \in ToSet(s)
  <2>1. PICK i \in 1 .. Len(s) - 1 : x = s[i + 1]
    BY <1>1 DEF ToSet
  <2>2. i + 1 \in 1 .. Len(s)
    BY <1>1
  <2> QED BY <1>1, <2>1, <2>2 DEF ToSet
<1>4. Head(s) \in ToSet(s)
  BY <1>1 DEF ToSet
<1> QED BY <1>1, <1>2, <1>3, <1>4 DEF r

\* A sequence that has no element twice stays so when a new one is appended.
LEMMA InjectiveAppend ==
  ASSUME NEW S, NEW s \in Seq(S), IsInjective(s), NEW x \in S, x \notin ToSet(s)
  PROVE  IsInjective(Append(s, x))
<1> DEFINE r == Append(s, x)
<1>1. /\ DOMAIN s = 1 .. Len(s)
      /\ DOMAIN r = 1 .. Len(s) + 1
      /\ \A i \in 1 .. Len(s) : r[i] = s[i]
      /\ r[Len(s) + 1] = x
      /\ Len(s) \in Nat
  OBVIOUS
<1> HIDE DEF r
<1> QED BY <1>1 DEF IsInjective, ToSet, r

LEMMA InjectiveTail ==
  ASSUME NEW S, NEW s \in Seq(S), IsInjective(s), s # <<>>
  PROVE  IsInjective(Tail(s)) /\ Head(s) \notin ToSet(Tail(s))
<1> DEFINE r == Tail(s)
<1>1. /\ r \in Seq(S)
      /\ DOMAIN s = 1 .. Len(s)
      /\ DOMAIN r = 1 .. Len(s) - 1
      /\ \A i \in 1 .. Len(s) - 1 : r[i] = s[i + 1]
      /\ Head(s) = s[1]
      /\ Len(s) \in Nat /\ Len(s) > 0
  OBVIOUS
<1> HIDE DEF r
<1>2. IsInjective(r)
  <2>1. ASSUME NEW i \in 1 .. Len(s) - 1, NEW j \in 1 .. Len(s) - 1, r[i] = r[j]
        PROVE  i = j
    <3>1. i + 1 \in DOMAIN s /\ j + 1 \in DOMAIN s /\ s[i + 1] = s[j + 1]
      BY <1>1, <2>1
    <3>2. i + 1 = j + 1
      BY <3>1 DEF IsInjective
    <3> QED BY <3>2
  <2> QED BY <1>1, <2>1 DEF IsInjective
<1>3. ASSUME NEW x \in ToSet(r)
      PROVE  x # Head(s)
  <2>1. PICK i \in 1 .. Len(s) - 1 : x = s[i + 1]
    BY <1>1 DEF ToSet
  <2>2. i + 1 \in 1 .. Len(s) /\ i + 1 # 1
    BY <1>1
  <2> QED BY <1>1, <2>1, <2>2 DEF IsInjective
<1> QED BY <1>2, <1>3 DEF r

------------------------------------------------------------------------------
(* Induction, over the set of the numbers it is shown for.                 *)

LEMMA SetInduction ==
  ASSUME NEW S, 0 \in S, \A n \in Nat : n \in S => n + 1 \in S
  PROVE  Nat \subseteq S
<1> SUFFICES ASSUME NEW t \in Nat, t \notin S PROVE FALSE
  OBVIOUS
<1> DEFINE U == {n \in 0 .. t : n \notin S}
           W == {0 .. n : n \in U}
           F == FiniteSubsetsOf(0 .. t)
           R == StrictSubsetOrdering(0 .. t)
<1>1. IsFiniteSet(0 .. t)
  BY FS_Interval
<1>2. IsWellFoundedOn(R, F)
  BY <1>1, FS_StrictSubsetOrderingWellFounded
<1>3. W \subseteq F
  BY <1>1, FS_Subset DEF FiniteSubsetsOf
<1>4. W # {}
  OBVIOUS
<1>5. PICK w \in W : \A v \in W : ~(<<v, w>> \in R)
  <2> HIDE DEF R, F, W
  <2> QED BY <1>2, <1>3, <1>4, WFMin
<1>6. PICK n \in U : w = 0 .. n
  OBVIOUS
<1>7. n - 1 \in U
  OBVIOUS
<1>8. 0 .. (n - 1) \in W /\ <<0 .. (n - 1), w>> \in R
  BY <1>6, <1>7 DEF StrictSubsetOrdering
<1> QED BY <1>5, <1>8

\* A set of numbers has a least one.
LEMMA LeastNumber ==
  ASSUME NEW T \in SUBSET Nat, T # {}
  PROVE  \E n \in T : \A m \in T : n <= m
<1> SUFFICES ASSUME \A n \in T : \E m \in T : m < n PROVE FALSE
  OBVIOUS
<1> DEFINE S == {n \in Nat : \A m \in T : n <= m}
<1>1. 0 \in S
  OBVIOUS
<1>2. ASSUME NEW n \in S PROVE n + 1 \in S
  OBVIOUS
<1>3. Nat \subseteq S
  <2> HIDE DEF S
  <2> QED BY <1>1, <1>2, SetInduction
<1>4. PICK t \in T : TRUE
  OBVIOUS
<1>5. t + 1 \in S
  BY <1>3
<1> QED BY <1>5
------------------------------------------------------------------------------
(* What is computed step by step.  The steps are a function of numbers and *)
(* not an operator, so that these lemmas are about any computation.        *)

\* Element 0 is b, and each other what f makes of the one before.
Computes(h, T, b, n, f) ==
  /\ h \in [0 .. n -> T]
  /\ h[0] = b
  /\ \A i \in 1 .. n : h[i] = f[i][h[i - 1]]

LEMMA Iterate ==
  ASSUME NEW T, NEW b \in T, NEW n \in Nat, NEW f \in [1 .. n -> [T -> T]]
  PROVE  \E h : Computes(h, T, b, n, f)
<1> DEFINE Upto(k, h) == h[0] = b /\ \A i \in 1 .. k : h[i] = f[i][h[i - 1]]
           S == {k \in Nat : k <= n => \E h \in [0 .. k -> T] : Upto(k, h)}
<1>1. 0 \in S
  <2> DEFINE h == [i \in {0} |-> b]
  <2>1. h \in [0 .. 0 -> T] /\ Upto(0, h)
    OBVIOUS
  <2> QED BY <2>1
<1>2. ASSUME NEW k \in Nat, k \in S PROVE k + 1 \in S
  <2> SUFFICES ASSUME k + 1 <= n PROVE \E h \in [0 .. k + 1 -> T] : Upto(k + 1, h)
    OBVIOUS
  <2>1. PICK h \in [0 .. k -> T] : Upto(k, h)
    BY <1>2
  <2> DEFINE g == [i \in 0 .. k + 1 |-> IF i <= k THEN h[i] ELSE f[k + 1][h[k]]]
  <2>2. h[k] \in T /\ k + 1 \in 1 .. n
    BY <2>1
  <2>3. f[k + 1][h[k]] \in T
    BY <2>2
  <2>4. g \in [0 .. k + 1 -> T]
    BY <2>1, <2>3
  <2>5. /\ \A i \in 0 .. k : g[i] = h[i]
        /\ g[k + 1] = f[k + 1][h[k]]
    OBVIOUS
  <2> HIDE DEF g
  <2>6. ASSUME NEW i \in 1 .. k + 1 PROVE g[i] = f[i][g[i - 1]]
    <3>1. CASE i <= k
      <4>1. i \in 1 .. k /\ i \in 0 .. k /\ i - 1 \in 0 .. k
        BY <3>1
      <4> QED BY <2>1, <2>5, <4>1
    <3>2. CASE i = k + 1
      <4>1. k \in 0 .. k /\ i - 1 = k
        BY <3>2
      <4> QED BY <2>5, <3>2, <4>1
    <3> QED BY <3>1, <3>2
  <2>7. g[0] = b
    BY <2>1, <2>5
  <2> QED BY <2>4, <2>6, <2>7
<1>3. Nat \subseteq S
  <2> HIDE DEF S
  <2> QED BY <1>1, <1>2, SetInduction
<1> QED BY <1>3 DEF Computes

\* g and h start alike, and a step from the same value leads to the same value.
SameSteps(n, g, h) ==
  /\ g[0] = h[0]
  /\ \A i \in 1 .. n : g[i - 1] = h[i - 1] => g[i] = h[i]

\* There is one such computation.
LEMMA IterateOnce ==
  ASSUME NEW n \in Nat, NEW g, NEW h, SameSteps(n, g, h)
  PROVE  \A i \in 0 .. n : g[i] = h[i]
<1> USE DEF SameSteps
<1> DEFINE S == {i \in Nat : i <= n => g[i] = h[i]}
<1>1. 0 \in S
  OBVIOUS
<1>2. ASSUME NEW i \in Nat, i \in S PROVE i + 1 \in S
  <2> SUFFICES ASSUME i + 1 <= n PROVE g[i + 1] = h[i + 1]
    OBVIOUS
  <2>1. i + 1 \in 1 .. n /\ (i + 1) - 1 = i /\ g[i] = h[i]
    BY <1>2
  <2> QED BY <2>1
<1>3. Nat \subseteq S
  <2> HIDE DEF S
  <2> QED BY <1>1, <1>2, SetInduction
<1> QED BY <1>3

\* A step that goes on for ever: w[n] is b after n steps.
LEMMA IterateAlways ==
  ASSUME NEW T, NEW b \in T, NEW step \in [T -> T]
  PROVE  \E w \in [Nat -> T] : w[0] = b /\ \A n \in Nat : w[n + 1] = step[w[n]]
<1> DEFINE Good(n, h) == h \in [0 .. n -> T] /\ h[0] = b /\ \A i \in 1 .. n : h[i] = step[h[i - 1]]
           g == [n \in Nat |-> CHOOSE h : Good(n, h)]
           w == [n \in Nat |-> g[n][n]]
<1>1. ASSUME NEW n \in Nat PROVE \E h : Good(n, h)
  <2> DEFINE f == [i \in 1 .. n |-> step]
  <2>1. f \in [1 .. n -> [T -> T]] /\ \A i \in 1 .. n : f[i] = step
    OBVIOUS
  <2> HIDE DEF f
  <2>2. PICK h : Computes(h, T, b, n, f)
    BY <2>1, Iterate
  <2>3. Good(n, h)
    BY <2>1, <2>2 DEF Computes
  <2> QED BY <2>3
<1>2. ASSUME NEW n \in Nat PROVE Good(n, g[n])
  <2>1. g[n] = CHOOSE h : Good(n, h)
    OBVIOUS
  <2> HIDE DEF Good, g
  <2> QED BY <1>1, <2>1
<1> HIDE DEF g
<1>3. w \in [Nat -> T] /\ \A n \in Nat : w[n] = g[n][n]
  <2>1. ASSUME NEW n \in Nat PROVE g[n][n] \in T
    BY <1>2
  <2> QED BY <2>1
<1>4. w[0] = b
  BY <1>2, <1>3
<1>5. ASSUME NEW n \in Nat PROVE w[n + 1] = step[w[n]]
  <2>1. Good(n, g[n]) /\ Good(n + 1, g[n + 1])
    BY <1>2
  <2> DEFINE x == g[n + 1]
             y == g[n]
  <2>2. SameSteps(n, x, y)
    <3>1. x[0] = y[0]
      BY <2>1
    <3>2. ASSUME NEW i \in 1 .. n, x[i - 1] = y[i - 1] PROVE x[i] = y[i]
      <4>1. i \in 1 .. n + 1
        OBVIOUS
      <4> QED BY <2>1, <3>2, <4>1
    <3> QED BY <3>1, <3>2 DEF SameSteps
  <2>3. n \in 0 .. n /\ n + 1 \in 1 .. n + 1 /\ (n + 1) - 1 = n
    OBVIOUS
  <2>4. x[n] = y[n]
    <3> HIDE DEF x, y
    <3>1. \A i \in 0 .. n : x[i] = y[i]
      BY <2>2, IterateOnce
    <3> QED BY <2>3, <3>1
  <2>5. x[n + 1] = step[x[n]]
    BY <2>1, <2>3
  <2> QED BY <1>3, <2>4, <2>5
<1> HIDE DEF w
<1> QED BY <1>3, <1>4, <1>5

\* A sequence without repetition is no longer than there are elements.
LEMMA InjectiveLength ==
  ASSUME NEW S, IsFiniteSet(S), NEW s \in Seq(S), IsInjective(s)
  PROVE  Len(s) <= Cardinality(S)
<1>1. s \in Injection(1 .. Len(s), S)
  BY DEF Injection, IsInjective
<1>2. Cardinality(1 .. Len(s)) <= Cardinality(S)
  BY <1>1, FS_Injection
<1>3. Cardinality(1 .. Len(s)) = Len(s)
  <2> DEFINE n == Len(s)
  <2>1. n \in Nat
    OBVIOUS
  <2> HIDE DEF n
  <2>2. Cardinality(1 .. n) = n
    BY <2>1, FS_Interval
  <2> QED BY <2>2 DEF n
<1> QED BY <1>2, <1>3

\* The orders of the elements of a set.
LEMMA SetToSeqsIs ==
  ASSUME NEW S, IsFiniteSet(S), NEW q \in SetToSeqs(S)
  PROVE  /\ q \in Seq(S) /\ IsInjective(q)
         /\ \A x \in S : \E k \in 1 .. Len(q) : q[k] = x
<1> DEFINE n == Cardinality(S)
<1>1. n \in Nat
  BY FS_CardinalityType
<1>2. q \in [1 .. n -> S] /\ \A i, j \in 1 .. n : i # j => q[i] # q[j]
  BY DEF SetToSeqs
<1>3. q \in Seq(S) /\ Len(q) = n
  BY <1>1, <1>2
<1>4. q \in Injection(1 .. n, S)
  BY <1>2 DEF Injection, IsInjective
<1>5. Cardinality(1 .. n) = Cardinality(S)
  BY <1>1, FS_Interval
<1>6. q \in Surjection(1 .. n, S)
  <2> HIDE DEF n
  <2> QED BY <1>4, <1>5, FS_Injection
<1>7. \A x \in S : \E k \in 1 .. n : q[k] = x
  BY <1>6 DEF Surjection
<1>8. IsInjective(q)
  BY <1>2, <1>3 DEF IsInjective
<1> QED BY <1>3, <1>7, <1>8

\* The start of the pieces of q, put together: h[i] is the first i pieces.
PutTogether(q, h) == h[0] = <<>> /\ \A i \in 1 .. Len(q) : h[i] = h[i - 1] \o q[i]

LEMMA Join == \A S : \A u, v, w \in Seq(S) : (u \o v) \o w = u \o (v \o w)
BY ConcatAssociative

LEMMA CanPutTogether ==
  ASSUME NEW S, NEW q \in Seq(Seq(S))
  PROVE  \E h \in [0 .. Len(q) -> Seq(S)] : PutTogether(q, h)
<1> DEFINE n == Len(q)
           f == [i \in 1 .. n |-> [t \in Seq(S) |-> t \o q[i]]]
<1>1. n \in Nat /\ \A i \in 1 .. n : q[i] \in Seq(S)
  OBVIOUS
<1>2. <<>> \in Seq(S)
  OBVIOUS
<1>3. f \in [1 .. n -> [Seq(S) -> Seq(S)]]
  <2>1. \A i \in 1 .. n : \A t \in Seq(S) : t \o q[i] \in Seq(S)
    BY <1>1, ConcatProperties
  <2> QED BY <2>1
<1>4. \A i \in 1 .. n : \A t \in Seq(S) : f[i][t] = t \o q[i]
  OBVIOUS
<1> HIDE DEF f, n
<1>5. PICK h \in [0 .. n -> Seq(S)] : h[0] = <<>> /\ \A i \in 1 .. n : h[i] = f[i][h[i - 1]]
  <2>1. \E h : Computes(h, Seq(S), <<>>, n, f)
    BY <1>1, <1>2, <1>3, Iterate
  <2> QED BY <2>1 DEF Computes
<1>6. ASSUME NEW i \in 1 .. n PROVE h[i] = h[i - 1] \o q[i]
  <2>1. i - 1 \in 0 .. n
    BY <1>1
  <2> QED BY <1>4, <1>5, <2>1
<1> QED BY <1>5, <1>6 DEF PutTogether, n

LEMMA FlattenIs ==
  ASSUME NEW S, NEW q \in Seq(Seq(S)), NEW h \in [0 .. Len(q) -> Seq(S)], PutTogether(q, h)
  PROVE  FlattenSeq(q) = h[Len(q)]
<1> DEFINE n == Len(q)
           f == CHOOSE f : f = [i \in 1 .. n |-> IF i = 1 THEN q[i] ELSE f[i - 1] \o q[i]]
<1>1. /\ n \in Nat /\ \A i \in 1 .. n : q[i] \in Seq(S)
      /\ h[0] = <<>> /\ \A i \in 1 .. n : h[i] = h[i - 1] \o q[i]
  BY DEF PutTogether
<1>2. CASE n = 0
  <2>1. q = <<>>
    BY <1>2
  <2> QED BY <1>1, <1>2, <2>1 DEF FlattenSeq
<1>3. CASE n # 0
  <2>1. FlattenSeq(q) = f[n]
    BY <1>3 DEF FlattenSeq
  <2>2. h[1] = q[1]
    <3>1. 1 \in 1 .. n /\ 1 - 1 = 0
      BY <1>1, <1>3
    <3>2. h[1] = <<>> \o q[1]
      BY <1>1, <3>1
    <3>3. q[1] \in Seq(S)
      BY <1>1, <3>1
    <3> QED BY <3>2, <3>3
  <2> DEFINE g == [i \in 1 .. n |-> h[i]]
  <2>3. g = [i \in 1 .. n |-> IF i = 1 THEN q[i] ELSE g[i - 1] \o q[i]]
    <3>1. ASSUME NEW i \in 1 .. n PROVE g[i] = IF i = 1 THEN q[i] ELSE g[i - 1] \o q[i]
      <4>1. CASE i = 1
        BY <2>2, <4>1
      <4>2. CASE i # 1
        <5>1. i - 1 \in 1 .. n
          BY <1>1, <4>2
        <5> QED BY <1>1, <4>2, <5>1
      <4> QED BY <4>1, <4>2
    <3> QED BY <3>1
  <2>4. f = [i \in 1 .. n |-> IF i = 1 THEN q[i] ELSE f[i - 1] \o q[i]]
    <3> HIDE DEF g
    <3> QED BY <2>3
  <2> HIDE DEF f
  <2> DEFINE e == [i \in 0 .. n |-> IF i = 0 THEN <<>> ELSE f[i]]
  <2>5. ASSUME NEW i \in 1 .. n, e[i - 1] = h[i - 1] PROVE e[i] = h[i]
    <3>1. e[i] = f[i] /\ i - 1 \in 0 .. n
      BY <1>1
    <3>2. CASE i = 1
      <4>1. f[i] = q[1]
        BY <2>4, <3>2
      <4> QED BY <2>2, <3>1, <3>2, <4>1
    <3>3. CASE i # 1
      <4>1. f[i] = f[i - 1] \o q[i]
        BY <2>4, <3>3
      <4>2. e[i - 1] = f[i - 1]
        BY <3>1, <3>3
      <4> QED BY <1>1, <2>5, <3>1, <4>1, <4>2
    <3> QED BY <3>2, <3>3
  <2>6. e[0] = h[0]
    BY <1>1
  <2>7. e[n] = f[n]
    BY <1>1, <1>3
  <2> HIDE DEF e
  <2>8. \A i \in 0 .. n : e[i] = h[i]
    <3>1. \A i \in 1 .. n : e[i - 1] = h[i - 1] => e[i] = h[i]
      BY <2>5
    <3>2. n \in Nat
      BY <1>1
    <3> HIDE DEF n
    <3>3. SameSteps(n, e, h)
      BY <2>6, <3>1 DEF SameSteps
    <3> QED BY <3>2, <3>3, IterateOnce
  <2> QED BY <1>1, <2>1, <2>7, <2>8
<1> QED BY <1>2, <1>3

LEMMA FlattenType ==
  ASSUME NEW S, NEW q \in Seq(Seq(S))
  PROVE  FlattenSeq(q) \in Seq(S)
<1>1. PICK h \in [0 .. Len(q) -> Seq(S)] : PutTogether(q, h)
  BY CanPutTogether
<1>2. FlattenSeq(q) = h[Len(q)]
  BY <1>1, FlattenIs
<1>3. Len(q) \in 0 .. Len(q)
  OBVIOUS
<1> QED BY <1>1, <1>2, <1>3

LEMMA FlattenEmpty == FlattenSeq(<<>>) = <<>>
BY DEF FlattenSeq

\* A piece at the end.
LEMMA FlattenAppend ==
  ASSUME NEW S, NEW q \in Seq(Seq(S)), NEW x \in Seq(S)
  PROVE  FlattenSeq(Append(q, x)) = FlattenSeq(q) \o x
<1> DEFINE n == Len(q)
           r == Append(q, x)
<1>1. /\ n \in Nat /\ Len(r) = n + 1 /\ r[n + 1] = x /\ \A i \in 1 .. n : r[i] = q[i]
      /\ r \in Seq(Seq(S))
  BY AppendProperties
<1> HIDE DEF r
<1>2. PICK h \in [0 .. n -> Seq(S)] : PutTogether(q, h)
  BY CanPutTogether
<1> DEFINE g == [i \in 0 .. n + 1 |-> IF i <= n THEN h[i] ELSE h[n] \o x]
<1>3. h[n] \in Seq(S) /\ h[n] \o x \in Seq(S)
  <2>1. n \in 0 .. n
    BY <1>1
  <2>2. h[n] \in Seq(S)
    BY <1>2, <2>1
  <2> QED BY <2>2, ConcatProperties
<1>4. g \in [0 .. n + 1 -> Seq(S)]
  BY <1>2, <1>3
<1>5. (\A i \in 0 .. n : g[i] = h[i]) /\ g[n + 1] = h[n] \o x
  BY <1>1
<1> HIDE DEF g
<1>6. ASSUME NEW i \in 1 .. n + 1 PROVE g[i] = g[i - 1] \o r[i]
  <2>1. CASE i <= n
    <3>1. i \in 0 .. n /\ i - 1 \in 0 .. n /\ i \in 1 .. n
      BY <1>1, <2>1
    <3> QED BY <1>1, <1>2, <1>5, <3>1 DEF PutTogether
  <2>2. CASE i = n + 1
    <3>1. i - 1 = n /\ n \in 0 .. n
      BY <1>1, <2>2
    <3> QED BY <1>1, <1>5, <2>2, <3>1
  <2> QED BY <1>1, <2>1, <2>2
<1>7. PutTogether(r, g)
  BY <1>1, <1>2, <1>5, <1>6 DEF PutTogether
<1>8. FlattenSeq(r) = g[n + 1]
  BY <1>1, <1>4, <1>7, FlattenIs
<1>9. FlattenSeq(q) = h[n]
  BY <1>2, FlattenIs
<1> QED BY <1>5, <1>8, <1>9 DEF r

\* A piece at the start.
LEMMA FlattenCons ==
  ASSUME NEW S, NEW q \in Seq(Seq(S)), NEW x \in Seq(S)
  PROVE  FlattenSeq(<<x>> \o q) = x \o FlattenSeq(q)
<1> DEFINE n == Len(q)
           r == <<x>> \o q
<1>1. /\ n \in Nat /\ Len(r) = n + 1 /\ r[1] = x /\ \A i \in 2 .. n + 1 : r[i] = q[i - 1]
      /\ r \in Seq(Seq(S))
  OBVIOUS
<1> HIDE DEF r
<1>2. PICK h \in [0 .. n -> Seq(S)] : PutTogether(q, h)
  BY CanPutTogether
<1> DEFINE g == [i \in 0 .. n + 1 |-> IF i = 0 THEN <<>> ELSE x \o h[i - 1]]
<1>3. ASSUME NEW i \in 1 .. n + 1 PROVE x \o h[i - 1] \in Seq(S)
  <2>1. i - 1 \in 0 .. n
    BY <1>1
  <2>2. h[i - 1] \in Seq(S)
    BY <1>2, <2>1
  <2> QED BY <2>2, ConcatProperties
<1>4. g \in [0 .. n + 1 -> Seq(S)]
  BY <1>1, <1>3
<1>5. g[0] = <<>> /\ \A i \in 1 .. n + 1 : g[i] = x \o h[i - 1]
  BY <1>1
<1> HIDE DEF g
<1>6. ASSUME NEW i \in 1 .. n + 1 PROVE g[i] = g[i - 1] \o r[i]
  <2>1. CASE i = 1
    <3>1. g[i] = x \o <<>> /\ g[i - 1] = <<>> /\ r[i] = x
      <4>1. 1 \in 1 .. n + 1 /\ 1 - 1 = 0
        BY <1>1
      <4>2. h[0] = <<>>
        BY <1>2 DEF PutTogether
      <4> QED BY <1>1, <1>5, <2>1, <4>1, <4>2
    <3>2. x \o <<>> = <<>> \o x
      BY ConcatEmptySeq
    <3> QED BY <3>1, <3>2
  <2>2. CASE i # 1
    <3>1. i \in 2 .. n + 1 /\ i - 1 \in 1 .. n /\ i - 1 \in 1 .. n + 1 /\ (i - 1) - 1 \in 0 .. n
      BY <1>1, <2>2
    <3>2. g[i] = x \o h[i - 1] /\ g[i - 1] = x \o h[(i - 1) - 1] /\ r[i] = q[i - 1]
      BY <1>1, <1>5, <3>1
    <3>3. h[i - 1] = h[(i - 1) - 1] \o q[i - 1]
      BY <1>2, <3>1 DEF PutTogether
    <3> DEFINE a == h[(i - 1) - 1]
               b == q[i - 1]
    <3>4. a \in Seq(S) /\ b \in Seq(S)
      <4>1. h[(i - 1) - 1] \in Seq(S)
        BY <1>2, <3>1
      <4>2. q[i - 1] \in Seq(S)
        BY <3>1
      <4> QED BY <4>1, <4>2
    <3> HIDE DEF a, b
    <3>5. x \o (a \o b) = (x \o a) \o b
      <4>1. x \in Seq(S) /\ a \in Seq(S) /\ b \in Seq(S)
        BY <3>4
      <4>2. (x \o a) \o b = x \o (a \o b)
        BY <4>1, ConcatAssociative, SMTT(30)
      <4> QED BY <4>2
    <3> QED BY <3>2, <3>3, <3>5 DEF a, b
  <2> QED BY <2>1, <2>2
<1>7. PutTogether(r, g)
  BY <1>1, <1>5, <1>6 DEF PutTogether
<1>8. FlattenSeq(r) = g[n + 1]
  BY <1>1, <1>4, <1>7, FlattenIs
<1>9. FlattenSeq(q) = h[n]
  BY <1>2, FlattenIs
<1>10. g[n + 1] = x \o h[n]
  <2>1. n + 1 \in 1 .. n + 1 /\ (n + 1) - 1 = n
    BY <1>1
  <2> QED BY <1>5, <2>1
<1> QED BY <1>8, <1>9, <1>10 DEF r

\* What f makes of each element of c, put together.
Pieces(f, c) == [i \in DOMAIN c |-> f[c[i]]]
Spread(f, c) == FlattenSeq(Pieces(f, c))

LEMMA SpreadPieces ==
  ASSUME NEW D, NEW S, NEW f \in [D -> Seq(S)], NEW c \in Seq(D)
  PROVE  Pieces(f, c) \in Seq(Seq(S))
<1>1. DOMAIN c = 1 .. Len(c) /\ Len(c) \in Nat /\ \A i \in 1 .. Len(c) : f[c[i]] \in Seq(S)
  OBVIOUS
<1>2. Pieces(f, c) \in [1 .. Len(c) -> Seq(S)]
  BY <1>1 DEF Pieces
<1> DEFINE g == Pieces(f, c)
           n == Len(c)
<1>3. g \in [1 .. n -> Seq(S)] /\ n \in Nat
  BY <1>1, <1>2
<1> HIDE DEF g, n
<1>4. g \in Seq(Seq(S))
  BY <1>3
<1> QED BY <1>4 DEF g

LEMMA SpreadType ==
  ASSUME NEW D, NEW S, NEW f \in [D -> Seq(S)], NEW c \in Seq(D)
  PROVE  Spread(f, c) \in Seq(S)
BY SpreadPieces, FlattenType DEF Spread

LEMMA SpreadEmpty == \A f : Spread(f, <<>>) = <<>>
<1> TAKE f
<1>1. Pieces(f, <<>>) = <<>>
  BY DEF Pieces
<1> QED BY <1>1, FlattenEmpty DEF Spread

LEMMA SpreadAppend ==
  ASSUME NEW D, NEW S, NEW f \in [D -> Seq(S)], NEW c \in Seq(D), NEW x \in D
  PROVE  Spread(f, Append(c, x)) = Spread(f, c) \o f[x]
<1> DEFINE q == Pieces(f, c)
           d == Append(c, x)
           r == Pieces(f, d)
<1>1. q \in Seq(Seq(S)) /\ Len(q) = Len(c) /\ f[x] \in Seq(S) /\ Len(c) \in Nat
  <2>1. q \in Seq(Seq(S))
    BY SpreadPieces
  <2>2. DOMAIN q = 1 .. Len(c)
    BY DEF Pieces
  <2>3. f[x] \in Seq(S) /\ Len(c) \in Nat
    OBVIOUS
  <2> HIDE DEF q
  <2> QED BY <2>1, <2>2, <2>3
<1>2. d \in Seq(D) /\ Len(d) = Len(c) + 1 /\ d[Len(c) + 1] = x /\ \A i \in 1 .. Len(c) : d[i] = c[i]
  BY AppendProperties
<1> HIDE DEF d
<1>3. r \in Seq(Seq(S)) /\ Len(r) = Len(c) + 1
  <2>1. r \in Seq(Seq(S))
    BY <1>2, SpreadPieces
  <2>2. DOMAIN r = 1 .. Len(c) + 1
    BY <1>2 DEF Pieces
  <2> HIDE DEF r
  <2> QED BY <1>1, <2>1, <2>2
<1>4. \A i \in 1 .. Len(c) + 1 : r[i] = f[d[i]]
  <2>1. DOMAIN d = 1 .. Len(c) + 1
    BY <1>2
  <2> QED BY <2>1 DEF Pieces
<1>5. \A i \in 1 .. Len(c) : q[i] = f[c[i]]
  BY DEF Pieces
<1> HIDE DEF q, d, r
<1>6. /\ Append(q, f[x]) \in Seq(Seq(S)) /\ Len(Append(q, f[x])) = Len(c) + 1
      /\ Append(q, f[x])[Len(c) + 1] = f[x]
      /\ \A i \in 1 .. Len(c) : Append(q, f[x])[i] = q[i]
  BY <1>1, AppendProperties
<1>7. \A i \in 1 .. Len(c) + 1 : r[i] = Append(q, f[x])[i]
  <2> SUFFICES ASSUME NEW i \in 1 .. Len(c) + 1 PROVE r[i] = Append(q, f[x])[i]
    OBVIOUS
  <2>1. i \in 1 .. Len(c) \/ i = Len(c) + 1
    BY <1>1
  <2> QED BY <1>2, <1>4, <1>5, <1>6, <2>1, ZenonT(30)
<1>8. r = Append(q, f[x])
  BY <1>3, <1>6, <1>7, SeqEqual
<1>9. FlattenSeq(r) = FlattenSeq(q) \o f[x]
  BY <1>1, <1>8, FlattenAppend
<1> QED BY <1>9 DEF Spread, d, q, r

LEMMA SpreadCons ==
  ASSUME NEW D, NEW S, NEW f \in [D -> Seq(S)], NEW c \in Seq(D), NEW x \in D
  PROVE  Spread(f, <<x>> \o c) = f[x] \o Spread(f, c)
<1> DEFINE q == Pieces(f, c)
           d == <<x>> \o c
           r == Pieces(f, d)
<1>1. q \in Seq(Seq(S)) /\ Len(q) = Len(c) /\ f[x] \in Seq(S) /\ Len(c) \in Nat
  <2>1. q \in Seq(Seq(S))
    BY SpreadPieces
  <2>2. DOMAIN q = 1 .. Len(c)
    BY DEF Pieces
  <2>3. f[x] \in Seq(S) /\ Len(c) \in Nat
    OBVIOUS
  <2> HIDE DEF q
  <2> QED BY <2>1, <2>2, <2>3
<1>2. /\ d \in Seq(D) /\ Len(d) = Len(c) + 1 /\ d[1] = x
      /\ \A i \in 2 .. Len(c) + 1 : d[i] = c[i - 1]
  OBVIOUS
<1> HIDE DEF d
<1>3. r \in Seq(Seq(S)) /\ Len(r) = Len(c) + 1
  <2>1. r \in Seq(Seq(S))
    BY <1>2, SpreadPieces
  <2>2. DOMAIN r = 1 .. Len(c) + 1
    BY <1>2 DEF Pieces
  <2> HIDE DEF r
  <2> QED BY <1>1, <2>1, <2>2
<1>4. \A i \in 1 .. Len(c) + 1 : r[i] = f[d[i]]
  <2>1. DOMAIN d = 1 .. Len(c) + 1
    BY <1>2
  <2> QED BY <2>1 DEF Pieces
<1>5. \A i \in 1 .. Len(c) : q[i] = f[c[i]]
  BY DEF Pieces
<1> DEFINE e == <<f[x]>> \o q
<1>6. /\ e \in Seq(Seq(S)) /\ Len(e) = Len(c) + 1 /\ e[1] = f[x]
      /\ \A i \in 2 .. Len(c) + 1 : e[i] = q[i - 1]
  <2> HIDE DEF q
  <2> QED BY <1>1
<1> HIDE DEF q, d, r, e
<1>7. \A i \in 1 .. Len(c) + 1 : r[i] = e[i]
  <2> SUFFICES ASSUME NEW i \in 1 .. Len(c) + 1 PROVE r[i] = e[i]
    OBVIOUS
  <2>1. i = 1 \/ (i \in 2 .. Len(c) + 1 /\ i - 1 \in 1 .. Len(c))
    BY <1>1
  <2> QED BY <1>2, <1>4, <1>5, <1>6, <2>1
<1>8. r = e
  BY <1>3, <1>6, <1>7, SeqEqual
<1>9. FlattenSeq(r) = f[x] \o FlattenSeq(q)
  BY <1>1, <1>8, FlattenCons DEF e
<1> QED BY <1>9 DEF Spread, d, q, r

\* The start of what is put together in two ways.
TwoWays(a, b, c, d) == a \o b = c \o d

LEMMA SplitOff ==
  ASSUME NEW S, NEW a \in Seq(S), NEW b \in Seq(S), NEW c \in Seq(S), NEW d \in Seq(S),
         TwoWays(a, b, c, d), Len(c) <= Len(a)
  PROVE  /\ SubSeq(a, 1, Len(c)) = c
         /\ SubSeq(a, Len(c) + 1, Len(a)) \in Seq(S)
         /\ SubSeq(a, Len(c) + 1, Len(a)) \o b = d
<1> USE DEF TwoWays
<1> DEFINE m == Len(c)
           n == Len(a)
           k == Len(b)
           l == Len(d)
           w == a \o b
           e == SubSeq(a, m + 1, n)
           v == e \o b
<1>1. m \in Nat /\ n \in Nat /\ m <= n /\ k \in Nat /\ l \in Nat
  OBVIOUS
<1>2. Len(w) = n + k /\ \A i \in 1 .. n + k : w[i] = IF i <= n THEN a[i] ELSE b[i - n]
  OBVIOUS
<1>3. Len(w) = m + l /\ \A i \in 1 .. m + l : w[i] = IF i <= m THEN c[i] ELSE d[i - m]
  OBVIOUS
<1>4. SubSeq(a, 1, m) \in Seq(S) /\ Len(SubSeq(a, 1, m)) = m /\ \A i \in 1 .. m : SubSeq(a, 1, m)[i] = a[i]
  OBVIOUS
<1>5. /\ e \in Seq(S) /\ Len(e) = n - m
      /\ \A i \in 1 .. n - m : e[i] = a[i + m]
  <2>1. m + 1 \in 1 .. n + 1 /\ \A i \in m + 1 .. n : a[i] \in S
    BY <1>1
  <2> QED BY <1>1, <2>1, SubSeqProperties
<1> HIDE DEF e
<1>6. /\ v \in Seq(S) /\ Len(v) = (n - m) + k
      /\ \A i \in 1 .. (n - m) + k : v[i] = IF i <= n - m THEN e[i] ELSE b[i - (n - m)]
  <2>1. e \in Seq(S) /\ b \in Seq(S) /\ k = Len(b) /\ Len(e) = n - m
    BY <1>5
  <2>2. v \in Seq(S) /\ Len(v) = (n - m) + k
    BY <2>1, ConcatProperties
  <2>3. \A i \in 1 .. Len(e) + Len(b) : v[i] = IF i <= Len(e) THEN e[i] ELSE b[i - Len(e)]
    BY <2>1, ConcatProperties
  <2> QED BY <2>1, <2>2, <2>3
<1> HIDE DEF m, n, k, l, v, w
<1>7. \A i \in 1 .. m : a[i] = c[i]
  <2> SUFFICES ASSUME NEW i \in 1 .. m PROVE a[i] = c[i]
    OBVIOUS
  <2>1. i \in 1 .. n + k /\ i \in 1 .. m + l /\ i <= n /\ i <= m
    BY <1>1
  <2> QED BY <1>2, <1>3, <2>1
<1>8. SubSeq(a, 1, m) = c
  BY <1>4, <1>7, SeqEqual DEF m
<1>9. (n - m) + k = l
  BY <1>1, <1>2, <1>3
<1>10. \A i \in 1 .. l : v[i] = d[i]
  <2> SUFFICES ASSUME NEW i \in 1 .. l PROVE v[i] = d[i]
    OBVIOUS
  <2>1. i + m \in 1 .. n + k /\ i + m \in 1 .. m + l /\ ~(i + m <= m) /\ (i + m) - m = i
    BY <1>1, <1>9
  <2>2. d[i] = w[i + m]
    BY <1>3, <2>1
  <2>3. CASE i <= n - m
    <3>1. i + m <= n /\ i \in 1 .. n - m /\ i \in 1 .. (n - m) + k
      BY <1>1, <1>9, <2>3
    <3> QED BY <1>2, <1>5, <1>6, <2>1, <2>2, <2>3, <3>1
  <2>4. CASE ~(i <= n - m)
    <3>1. ~(i + m <= n) /\ (i + m) - n = i - (n - m) /\ i \in 1 .. (n - m) + k
      BY <1>1, <1>9, <2>4
    <3> QED BY <1>2, <1>6, <2>1, <2>2, <2>4, <3>1
  <2> QED BY <2>3, <2>4
<1>11. v = d
  BY <1>6, <1>9, <1>10, SeqEqual DEF l
<1> QED BY <1>5, <1>8, <1>11 DEF m, n, e, v

LEMMA SplitRest ==
  ASSUME NEW S, NEW w \in Seq(S), NEW c \in Seq(S), NEW d \in Seq(S), w = c \o d
  PROVE  SubSeq(w, 1, Len(c)) = c /\ SubSeq(w, Len(c) + 1, Len(w)) = d
<1> DEFINE z == <<>>
<1>1. z \in Seq(S) /\ TwoWays(w, z, c, d) /\ Len(c) <= Len(w)
  BY ConcatProperties, ConcatEmptySeq DEF TwoWays
<1> HIDE DEF z
<1>2. /\ SubSeq(w, 1, Len(c)) = c /\ SubSeq(w, Len(c) + 1, Len(w)) \in Seq(S)
      /\ SubSeq(w, Len(c) + 1, Len(w)) \o z = d
  <2>1. \A x, y, u, v \in Seq(S) :
          TwoWays(x, y, u, v) /\ Len(u) <= Len(x) =>
            /\ SubSeq(x, 1, Len(u)) = u /\ SubSeq(x, Len(u) + 1, Len(x)) \in Seq(S)
            /\ SubSeq(x, Len(u) + 1, Len(x)) \o y = v
    BY SplitOff
  <2> QED BY <1>1, <2>1
<1> QED BY <1>2, ConcatEmptySeq DEF z

LEMMA PrefixOfConcat ==
  ASSUME NEW S, NEW a \in Seq(S), NEW b \in Seq(S)
  PROVE  IsPrefix(a, a \o b)
<1>1. Len(a) \in Nat /\ Len(b) \in Nat /\ a \o b \in Seq(S) /\ Len(a \o b) = Len(a) + Len(b)
      /\ \A i \in 1 .. Len(a) : (a \o b)[i] = a[i]
  OBVIOUS
<1> DEFINE w == a \o b
<1>2. SubSeq(w, 1, Len(a)) = a
  <2> HIDE DEF w
  <2> QED BY <1>1 DEF w
<1>3. SubSeq(a, 1, Len(a)) = a
  OBVIOUS
<1> QED BY <1>1, <1>2, <1>3 DEF IsPrefix

\* What is cut off one side of two.
LEMMA CutInside ==
  ASSUME NEW S, NEW a \in Seq(S), NEW b \in Seq(S), NEW n \in 0 .. Len(a)
  PROVE  /\ SubSeq(a, 1, n) \in Seq(S) /\ SubSeq(a, n + 1, Len(a)) \in Seq(S)
         /\ IsPrefix(SubSeq(a, 1, n), a \o b)
         /\ SubSeq(a \o b, n + 1, Len(a \o b)) = SubSeq(a, n + 1, Len(a)) \o b
<1> DEFINE m == Len(a)
           c == SubSeq(a, 1, n)
           e == SubSeq(a, n + 1, m)
           w == a \o b
<1>1. m \in Nat /\ n \in Nat /\ n <= m /\ \A i \in 1 .. m : a[i] \in S
  OBVIOUS
<1>2. c \in Seq(S) /\ Len(c) = n
  <2>1. \A i \in 1 .. n : a[i] \in S
    BY <1>1
  <2> QED BY <1>1, <2>1, SubSeqProperties
<1>3. e \in Seq(S)
  <2>1. \A i \in n + 1 .. m : a[i] \in S
    BY <1>1
  <2> QED BY <1>1, <2>1, SubSeqProperties
<1>4. c \o e = a
  <2>1. 1 \in 1 .. m + 1 /\ n \in 1 - 1 .. m /\ m \in n .. m
    BY <1>1
  <2>2. c \o e = SubSeq(a, 1, m)
    BY <2>1, ConcatAdjacentSubSeq
  <2> QED BY <2>2, SubSeqFull
<1> HIDE DEF c, e
<1>5. w = c \o (e \o b)
  <2>1. (c \o e) \o b = c \o (e \o b)
    <3>1. c \in Seq(S) /\ e \in Seq(S) /\ b \in Seq(S)
      BY <1>2, <1>3
    <3> QED BY <3>1, ConcatAssociative
  <2> QED BY <1>4, <2>1
<1>6. w \in Seq(S) /\ e \o b \in Seq(S) /\ Len(w) = m + Len(b) /\ Len(b) \in Nat
  BY <1>3, ConcatProperties
<1>7. IsPrefix(c, w)
  BY <1>2, <1>5, <1>6, PrefixOfConcat
<1>8. SubSeq(w, n + 1, Len(w)) = e \o b
  <2> HIDE DEF w, m
  <2>1. w \in Seq(S) /\ c \in Seq(S) /\ e \o b \in Seq(S)
    BY <1>2, <1>6
  <2> DEFINE r == e \o b
  <2>2. w = c \o r /\ r \in Seq(S)
    BY <1>5, <2>1
  <2> HIDE DEF r
  <2>3. SubSeq(w, 1, Len(c)) = c /\ SubSeq(w, Len(c) + 1, Len(w)) = r
    BY <2>1, <2>2, SplitRest
  <2> QED BY <1>2, <2>3 DEF r
<1> QED BY <1>2, <1>3, <1>7, <1>8 DEF c, e

------------------------------------------------------------------------------
(* How often an element is in a sequence.                                  *)

At(s, x) == {i \in DOMAIN s : s[i] = x}
Count(s, x) == Cardinality(At(s, x))

LEMMA CountType ==
  ASSUME NEW S, NEW s \in Seq(S), NEW x
  PROVE  IsFiniteSet(At(s, x)) /\ Count(s, x) \in Nat
<1>1. At(s, x) \subseteq 1 .. Len(s) /\ IsFiniteSet(1 .. Len(s))
  BY FS_Interval DEF At
<1> QED BY <1>1, FS_Subset, FS_CardinalityType DEF Count

LEMMA CountEmpty == \A x : Count(<<>>, x) = 0
<1>1. \A x : At(<<>>, x) = {}
  BY DEF At
<1> QED BY <1>1, FS_EmptySet DEF Count

LEMMA CountAppend ==
  ASSUME NEW S, NEW s \in Seq(S), NEW y \in S, NEW x
  PROVE  Count(Append(s, y), x) = Count(s, x) + IF y = x THEN 1 ELSE 0
<1> DEFINE r == Append(s, y)
           n == Len(s) + 1
<1>1. /\ DOMAIN r = 1 .. n /\ DOMAIN s = 1 .. n - 1 /\ n \in Nat /\ n >= 1
      /\ \A i \in 1 .. n - 1 : r[i] = s[i]
      /\ r[n] = y
  OBVIOUS
<1> HIDE DEF r, n
<1>2. IsFiniteSet(At(s, x)) /\ n \notin At(s, x) /\ Count(s, x) \in Nat
  <2>1. n \notin At(s, x)
    BY <1>1 DEF At
  <2> QED BY <2>1, CountType
<1>3. CASE y = x
  <2>1. At(r, x) \subseteq At(s, x) \cup {n}
    BY <1>1 DEF At
  <2>2. At(s, x) \cup {n} \subseteq At(r, x)
    BY <1>1, <1>3 DEF At
  <2>3. Cardinality(At(s, x) \cup {n}) = Cardinality(At(s, x)) + 1
    BY <1>2, FS_AddElement
  <2>4. At(r, x) = At(s, x) \cup {n}
    BY <2>1, <2>2
  <2>5. Count(r, x) = Count(s, x) + 1
    BY <2>3, <2>4 DEF Count
  <2> QED BY <1>3, <2>5 DEF r
<1>4. CASE y # x
  <2>1. At(r, x) = At(s, x)
    BY <1>1, <1>4 DEF At
  <2>2. Count(r, x) = Count(s, x)
    BY <2>1 DEF Count
  <2> QED BY <1>2, <1>4, <2>2 DEF r
<1> QED BY <1>3, <1>4

LEMMA CountTail ==
  ASSUME NEW S, NEW s \in Seq(S), s # <<>>, NEW x
  PROVE  Count(s, x) = Count(Tail(s), x) + IF Head(s) = x THEN 1 ELSE 0
<1> DEFINE r == Tail(s)
           n == Len(s)
           later == At(s, x) \ {1}
<1>1. /\ r \in Seq(S) /\ n \in Nat /\ n >= 1
      /\ DOMAIN s = 1 .. n /\ DOMAIN r = 1 .. n - 1
      /\ \A i \in 1 .. n - 1 : r[i] = s[i + 1]
      /\ Head(s) = s[1]
  OBVIOUS
<1> HIDE DEF r, n
<1>2. IsFiniteSet(At(s, x)) /\ IsFiniteSet(At(r, x)) /\ Count(s, x) \in Nat /\ Count(r, x) \in Nat
  BY <1>1, CountType
<1>3. IsFiniteSet(later)
  BY <1>2, FS_Subset
<1>4. Cardinality(At(r, x)) = Cardinality(later)
  <2> DEFINE f == [i \in At(r, x) |-> i + 1]
  <2>1. f \in Bijection(At(r, x), later)
    <3>1. \A i \in At(r, x) : i + 1 \in later
      BY <1>1 DEF At
    <3>2. \A j \in later : j - 1 \in At(r, x) /\ f[j - 1] = j
      <4> SUFFICES ASSUME NEW j \in later PROVE j - 1 \in At(r, x) /\ f[j - 1] = j
        OBVIOUS
      <4>1. j \in 1 .. n /\ s[j] = x /\ j # 1
        BY <1>1 DEF At
      <4>2. j - 1 \in 1 .. n - 1 /\ (j - 1) + 1 = j
        BY <1>1, <4>1
      <4>3. r[j - 1] = s[j]
        BY <1>1, <4>2
      <4>4. j - 1 \in At(r, x)
        BY <1>1, <4>1, <4>2, <4>3 DEF At
      <4> QED BY <4>2, <4>4
    <3>3. \A i, j \in At(r, x) : f[i] = f[j] => i = j
      BY <1>1 DEF At
    <3>4. f \in [At(r, x) -> later]
      BY <3>1
    <3> QED BY <3>2, <3>3, <3>4 DEF Bijection, Injection, Surjection, IsInjective
  <2> HIDE DEF f, later
  <2>2. ExistsBijection(At(r, x), later)
    BY <2>1 DEF ExistsBijection
  <2> QED BY <1>2, <2>2, FS_Bijection
<1>5. CASE Head(s) = x
  <2>1. 1 \in At(s, x)
    BY <1>1, <1>5 DEF At
  <2>2. Cardinality(later) = Cardinality(At(s, x)) - 1
    BY <1>2, <2>1, FS_RemoveElement
  <2>3. Count(s, x) = Count(r, x) + 1
    BY <1>2, <1>4, <2>2 DEF Count
  <2> QED BY <1>5, <2>3 DEF r
<1>6. CASE Head(s) # x
  <2>1. later = At(s, x)
    BY <1>1, <1>6 DEF At
  <2>2. Count(s, x) = Count(r, x)
    BY <1>4, <2>1 DEF Count
  <2> QED BY <1>2, <1>6, <2>2 DEF r
<1> QED BY <1>5, <1>6

\* A function on S that is computed from what is deeper, D deep at most: step
\* gives the values of a function from those of a function.
Deepens(S, T, D, depth, step) ==
  /\ depth \in [S -> 0 .. D] /\ step \in [[S -> T] -> [S -> T]]
  /\ \A f, g \in [S -> T] : \A p \in S :
       (\A q \in S : depth[q] > depth[p] => f[q] = g[q]) => step[f][p] = step[g][p]

LEMMA ComputedFromDeeper ==
  ASSUME NEW S, NEW T, T # {}, NEW D \in Nat, NEW depth, NEW step, Deepens(S, T, D, depth, step)
  PROVE  \E f \in [S -> T] : f = step[f]
<1> USE DEF Deepens
<1> DEFINE Good(n) == \E f \in [S -> T] : \A p \in S : depth[p] + n > D => f[p] = step[f][p]
           N == {n \in Nat : Good(n)}
<1>1. 0 \in N
  <2>1. PICK t \in T : TRUE
    OBVIOUS
  <2> DEFINE f == [p \in S |-> t]
  <2>2. f \in [S -> T] /\ \A p \in S : ~(depth[p] + 0 > D)
    OBVIOUS
  <2> HIDE DEF f
  <2> QED BY <2>2
<1>2. ASSUME NEW n \in Nat, n \in N PROVE n + 1 \in N
  <2>1. PICK f \in [S -> T] : \A p \in S : depth[p] + n > D => f[p] = step[f][p]
    BY <1>2
  <2> DEFINE g == step[f]
  <2>2. g \in [S -> T]
    OBVIOUS
  <2>3. ASSUME NEW p \in S, depth[p] + (n + 1) > D PROVE g[p] = step[g][p]
    <3>1. ASSUME NEW q \in S, depth[q] > depth[p] PROVE f[q] = g[q]
      <4>1. depth[q] + n > D
        BY <2>3, <3>1
      <4> QED BY <2>1, <4>1
    <3> HIDE DEF g
    <3>2. step[f][p] = step[g][p]
      BY <2>2, <3>1
    <3> QED BY <3>2 DEF g
  <2> HIDE DEF g
  <2>4. Good(n + 1)
    BY <2>2, <2>3
  <2> QED BY <2>4
<1>3. Nat \subseteq N
  <2> HIDE DEF N
  <2> QED BY <1>1, <1>2, SetInduction
<1>4. D + 1 \in N
  BY <1>3
<1>5. PICK f \in [S -> T] : \A p \in S : depth[p] + (D + 1) > D => f[p] = step[f][p]
  BY <1>4
<1>6. \A p \in S : f[p] = step[f][p]
  BY <1>5
<1> DEFINE g == step[f]
<1>7. g \in [S -> T] /\ \A p \in S : f[p] = g[p]
  BY <1>6
<1> HIDE DEF g
<1>8. f = g
  BY <1>7
<1> QED BY <1>8 DEF g
==============================================================================
