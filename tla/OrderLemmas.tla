----------------------------- MODULE OrderLemmas -----------------------------
(***************************************************************************)
(* Lemmas about lists of numbers in increasing order, which the proofs      *)
(* about inboxes and event logs share.  What would need an induction is     *)
(* shown of a least counterexample.                                         *)
(***************************************************************************)
EXTENDS Ordering, FiniteSetTheorems, WellFoundedInduction, SequenceTheorems, TLAPS

\* A function on an initial segment of the naturals is a sequence.
LEMMA FcnIsSeq ==
  ASSUME NEW S, NEW n \in Nat, NEW f \in [1 .. n -> S]
  PROVE  f \in Seq(S) /\ Len(f) = n /\ DOMAIN f = 1 .. n
<1>1. f \in Seq(S)
  BY SeqDef
<1> QED
  BY <1>1, LenProperties

\* A set of naturals that is not empty has a least element.
LEMMA LeastNat ==
  ASSUME NEW T \in SUBSET Nat, T # {}
  PROVE  \E m \in T : \A y \in T : m <= y
<1>1. PICK m \in T : \A y \in T : ~ (<<y, m>> \in OpToRel(<, Nat))
  BY WFMin, NatLessThanWellFounded
<1>2. \A y \in T : ~ (y < m)
  BY <1>1 DEF OpToRel
<1> QED
  BY <1>2

\* f lists the n elements of S in increasing order.
Sorted(f, n, S) == /\ f \in [1 .. n -> S]
                   /\ \A i, j \in 1 .. n : i < j => f[i] < f[j]
                   /\ \A x \in S : \E i \in 1 .. n : f[i] = x

\* Every finite set of naturals can be listed so: one without such a list, and
\* with the fewest elements, would have one by putting its least element first.
LEMMA SortedExists ==
  ASSUME NEW S \in SUBSET Nat, IsFiniteSet(S)
  PROVE  \E f : Sorted(f, Cardinality(S), S)
<1> DEFINE Bad == {n \in Nat : \E R \in SUBSET Nat : /\ IsFiniteSet(R) /\ Cardinality(R) = n
                                                     /\ ~ \E f : Sorted(f, n, R)}
<1>1. ASSUME Bad # {} PROVE FALSE
  <2>1. PICK n \in Bad : \A m \in Bad : n <= m
    BY <1>1, LeastNat
  <2>2. PICK R \in SUBSET Nat : /\ IsFiniteSet(R) /\ Cardinality(R) = n
                                /\ ~ \E f : Sorted(f, n, R)
    OBVIOUS
  <2>3. R # {}
    <3>1. ASSUME R = {} PROVE FALSE
      <4>1. n = 0
        BY <2>2, <3>1, FS_EmptySet
      <4>2. Sorted([i \in 1 .. 0 |-> 0], 0, {})
        BY DEF Sorted
      <4> QED
        BY <2>2, <3>1, <4>1, <4>2
    <3> QED
      BY <3>1
  <2>4. PICK x \in R : \A y \in R : x <= y
    BY <2>3, LeastNat
  <2>5. /\ IsFiniteSet(R \ {x}) /\ Cardinality(R \ {x}) = n - 1 /\ n - 1 \in Nat
    <3>1. IsFiniteSet(R \ {x}) /\ Cardinality(R \ {x}) = n - 1
      BY <2>2, FS_RemoveElement
    <3> QED
      BY <3>1, FS_CardinalityType
  <2>6. PICK g : Sorted(g, n - 1, R \ {x})
    BY <2>1, <2>5
  <2> DEFINE f == [i \in 1 .. n |-> IF i = 1 THEN x ELSE g[i - 1]]
  <2>7. f \in [1 .. n -> R]
    BY <2>5, <2>6 DEF Sorted
  <2>8. \A i, j \in 1 .. n : i < j => f[i] < f[j]
    <3> SUFFICES ASSUME NEW i \in 1 .. n, NEW j \in 1 .. n, i < j PROVE f[i] < f[j]
      OBVIOUS
    <3>1. j # 1 /\ f[j] = g[j - 1] /\ j - 1 \in 1 .. n - 1
      BY <2>5
    <3>2. g[j - 1] \in R \ {x}
      BY <2>6, <3>1 DEF Sorted
    <3>3. CASE i = 1
      <4>1. f[i] = x
        BY <3>3
      <4>2. x \in Nat /\ g[j - 1] \in Nat /\ x <= g[j - 1] /\ x # g[j - 1]
        BY <2>4, <3>2
      <4>3. x < g[j - 1]
        BY <4>2
      <4> QED
        BY <3>1, <4>1, <4>3
    <3>4. CASE i # 1
      <4>1. i - 1 \in 1 .. n - 1 /\ f[i] = g[i - 1] /\ i - 1 < j - 1
        BY <2>5, <3>4
      <4> QED
        BY <2>6, <3>1, <4>1 DEF Sorted
    <3> QED
      BY <3>3, <3>4
  <2>9. ASSUME NEW y \in R PROVE \E i \in 1 .. n : f[i] = y
    <3>1. CASE y = x
      BY <2>5, <3>1
    <3>2. CASE y # x
      <4>1. PICK i \in 1 .. n - 1 : g[i] = y
        BY <2>6, <3>2 DEF Sorted
      <4>2. i + 1 \in 1 .. n /\ f[i + 1] = y
        BY <2>5, <4>1
      <4> QED
        BY <4>2
    <3> QED
      BY <3>1, <3>2
  <2>10. Sorted(f, n, R)
    <3> HIDE DEF f
    <3> QED
      BY <2>7, <2>8, <2>9 DEF Sorted
  <2> QED
    BY <2>2, <2>10
<1> QED
  BY <1>1, FS_CardinalityType

\* InOrder lists all rows it is given, each once, in sequence order.
LEMMA InOrderIsSorted ==
  ASSUME NEW S \in SUBSET Nat, IsFiniteSet(S)
  PROVE  Sorted(InOrder(S), Cardinality(S), S)
<1> DEFINE n == Cardinality(S)
           P(q) == q \in [1..n -> S] /\ \A i, j \in 1 .. n : i < j => q[i] < q[j]
<1>0. n \in Nat
  BY FS_CardinalityType
<1>1. \E q : P(q)
  BY SortedExists DEF Sorted
<1>2. P(InOrder(S))
  BY <1>1 DEF InOrder
<1>3. \A x \in S : \E i \in 1 .. n : InOrder(S)[i] = x
  <2> DEFINE q == InOrder(S)
  <2>0. /\ q \in [1 .. n -> S]
        /\ \A i, j \in 1 .. n : i < j => q[i] < q[j]
    BY <1>2
  <2>1. q \in Injection(1 .. n, S)
    <3> HIDE DEF q
    <3>1. \A i, j \in 1 .. n : q[i] = q[j] => i = j
      <4> SUFFICES ASSUME NEW i \in 1 .. n, NEW j \in 1 .. n, q[i] = q[j] PROVE i = j
        OBVIOUS
      <4>1. q[i] \in Nat /\ q[j] \in Nat
        BY <2>0
      <4>2. ~(i < j) /\ ~(j < i)
        BY <2>0, <4>1
      <4> QED
        BY <1>0, <4>2
    <3> QED
      BY <2>0, <3>1 DEF Injection, IsInjective
  <2>2. IsFiniteSet(1 .. n) /\ Cardinality(1 .. n) = n
    BY <1>0, FS_Interval
  <2>3. q \in Surjection(1 .. n, S)
    <3> HIDE DEF q
    <3> QED
      BY <2>1, <2>2, FS_Injection
  <2> QED
    BY <2>3 DEF Surjection
<1> QED
  BY <1>2, <1>3 DEF Sorted

\* There is only one such list: at the first place where two differ, the smaller
\* of the two numbers stood earlier in the other list.
LEMMA SortedIsUnique ==
  ASSUME NEW S \in SUBSET Nat, NEW n \in Nat, NEW f, NEW g, Sorted(f, n, S), Sorted(g, n, S)
  PROVE  f = g
<1> DEFINE Differ == {i \in 1 .. n : f[i] # g[i]}
<1>0. /\ f \in [1 .. n -> S] /\ g \in [1 .. n -> S]
      /\ \A i \in 1 .. n : f[i] \in S /\ g[i] \in S /\ f[i] \in Nat /\ g[i] \in Nat
      /\ \A i, j \in 1 .. n : i < j => f[i] < f[j] /\ g[i] < g[j]
      /\ \A x \in S : (\E i \in 1 .. n : f[i] = x) /\ (\E i \in 1 .. n : g[i] = x)
  BY DEF Sorted
<1>1. ASSUME Differ # {} PROVE FALSE
  <2>1. PICK m \in Differ : \A y \in Differ : m <= y
    <3>1. Differ \in SUBSET Nat
      OBVIOUS
    <3> HIDE DEF Differ
    <3> QED
      BY <1>1, <3>1, LeastNat
  <2>2. m \in 1 .. n /\ f[m] # g[m]
    OBVIOUS
  <2>3. \A i \in 1 .. n : i < m => f[i] = g[i]
    BY <2>1
  <2>4. CASE f[m] < g[m]
    <3>1. PICK j \in 1 .. n : g[j] = f[m]
      BY <1>0, <2>2
    <3>2. ~ (j < m)
      BY <1>0, <2>2, <2>3, <3>1
    <3>3. ~ (m < j) /\ j # m
      <4>1. m < j => g[m] < g[j]
        BY <1>0, <2>2
      <4>2. g[m] \in Nat /\ f[m] \in Nat
        BY <1>0, <2>2
      <4> QED
        BY <2>2, <2>4, <3>1, <4>1, <4>2
    <3> QED
      BY <2>2, <3>2, <3>3
  <2>5. CASE g[m] < f[m]
    <3>1. PICK j \in 1 .. n : f[j] = g[m]
      BY <1>0, <2>2
    <3>2. ~ (j < m)
      BY <1>0, <2>2, <2>3, <3>1
    <3>3. ~ (m < j) /\ j # m
      <4>1. m < j => f[m] < f[j]
        BY <1>0, <2>2
      <4>2. f[m] \in Nat /\ g[m] \in Nat
        BY <1>0, <2>2
      <4> QED
        BY <2>2, <2>5, <3>1, <4>1, <4>2
    <3> QED
      BY <2>2, <3>2, <3>3
  <2> QED
    BY <1>0, <2>2, <2>4, <2>5
<1>2. \A i \in 1 .. n : f[i] = g[i]
  BY <1>1
<1> QED
  BY <1>0, <1>2

\* A number above all others comes last.
LEMMA InOrderAppends ==
  ASSUME NEW S \in SUBSET Nat, IsFiniteSet(S), NEW m \in Nat, \A x \in S : x < m
  PROVE  /\ Cardinality(S) \in Nat
         /\ InOrder(S \cup {m}) =
              [i \in 1 .. Cardinality(S) + 1 |->
                 IF i = Cardinality(S) + 1 THEN m ELSE InOrder(S)[i]]
<1> DEFINE n == Cardinality(S)
           g == InOrder(S)
           h == [i \in 1 .. n + 1 |-> IF i = n + 1 THEN m ELSE g[i]]
           T == S \cup {m}
<1>1. n \in Nat /\ m \notin S /\ Sorted(g, n, S)
  BY FS_CardinalityType, InOrderIsSorted
<1>2. IsFiniteSet(T) /\ Cardinality(T) = n + 1 /\ T \in SUBSET Nat
  BY <1>1, FS_AddElement
<1>3. Sorted(InOrder(T), n + 1, T)
  BY <1>2, InOrderIsSorted
<1> HIDE DEF n, g
<1>4. Sorted(h, n + 1, T)
  <2>1. h \in [1 .. n + 1 -> T]
    BY <1>1 DEF Sorted
  <2>2. ASSUME NEW i \in 1 .. n + 1, NEW j \in 1 .. n + 1, i < j PROVE h[i] < h[j]
    <3>1. i \in 1 .. n /\ h[i] = g[i] /\ g[i] \in S
      BY <1>1, <2>2 DEF Sorted
    <3>2. CASE j = n + 1
      BY <3>1, <3>2
    <3>3. CASE j # n + 1
      <4>1. j \in 1 .. n /\ h[j] = g[j]
        BY <1>1, <3>3
      <4> QED
        BY <1>1, <2>2, <3>1, <4>1 DEF Sorted
    <3> QED
      BY <3>2, <3>3
  <2>3. ASSUME NEW x \in T PROVE \E i \in 1 .. n + 1 : h[i] = x
    <3>1. CASE x = m
      BY <1>1, <3>1
    <3>2. CASE x \in S
      <4>1. PICK i \in 1 .. n : g[i] = x
        BY <1>1, <3>2 DEF Sorted
      <4>2. i \in 1 .. n + 1 /\ h[i] = x
        BY <1>1, <4>1
      <4> QED
        BY <4>2
    <3> QED
      BY <3>1, <3>2
  <2> HIDE DEF h
  <2> QED
    BY <2>1, <2>2, <2>3 DEF Sorted
<1>5. InOrder(T) = h
  <2> HIDE DEF h, T
  <2> QED
    BY <1>1, <1>2, <1>3, <1>4, SortedIsUnique
<1> QED
  BY <1>1, <1>5 DEF n, g

\* n increasing numbers out of the n that follow a are those n in their order:
\* neither a least one can be too small nor a last one too large.
LEMMA IncreasingCounts ==
  ASSUME NEW a \in Nat, NEW n \in Nat, NEW f \in [1 .. n -> a + 1 .. a + n],
         \A i, j \in 1 .. n : i < j => f[i] < f[j]
  PROVE  \A i \in 1 .. n : f[i] = a + i
<1>0. \A i \in 1 .. n : f[i] \in Nat /\ a + 1 <= f[i] /\ f[i] <= a + n
  OBVIOUS
<1>1. \A i \in 1 .. n : ~ (f[i] < a + i)
  <2> DEFINE Low == {i \in 1 .. n : f[i] < a + i}
  <2>1. ASSUME Low # {} PROVE FALSE
    <3>1. PICK m \in Low : \A y \in Low : m <= y
      <4>1. Low \in SUBSET Nat
        OBVIOUS
      <4> HIDE DEF Low
      <4> QED
        BY <2>1, <4>1, LeastNat
    <3>2. m \in 1 .. n /\ f[m] < a + m
      OBVIOUS
    <3>3. m # 1
      BY <1>0, <3>2
    <3>4. m - 1 \in 1 .. n /\ ~ (m <= m - 1)
      BY <3>2, <3>3
    <3>5. ~ (f[m - 1] < a + (m - 1))
      BY <3>1, <3>4
    <3>6. f[m - 1] < f[m]
      BY <3>2, <3>4
    <3> QED
      BY <1>0, <3>2, <3>4, <3>5, <3>6
  <2> QED
    BY <2>1
<1>2. \A i \in 1 .. n : ~ (f[i] > a + i)
  <2> DEFINE High == {k \in 0 .. n - 1 : f[n - k] > a + (n - k)}
  <2>1. ASSUME High # {} PROVE FALSE
    <3>1. PICK m \in High : \A y \in High : m <= y
      <4>1. High \in SUBSET Nat
        OBVIOUS
      <4> HIDE DEF High
      <4> QED
        BY <2>1, <4>1, LeastNat
    <3>2. m \in 0 .. n - 1 /\ n - m \in 1 .. n /\ f[n - m] > a + (n - m)
      OBVIOUS
    <3>3. m # 0
      <4>1. ASSUME m = 0 PROVE FALSE
        <5>1. n - m = n /\ n \in 1 .. n
          BY <3>2, <4>1
        <5> QED
          BY <1>0, <3>2, <5>1
      <4> QED
        BY <4>1
    <3>4. m - 1 \in 0 .. n - 1 /\ ~ (m <= m - 1)
      BY <3>2, <3>3
    <3>5. n - (m - 1) = (n - m) + 1 /\ (n - m) + 1 \in 1 .. n
      BY <3>2, <3>3
    <3>6. ~ (f[(n - m) + 1] > a + ((n - m) + 1))
      BY <3>1, <3>4, <3>5
    <3>7. f[n - m] < f[(n - m) + 1]
      BY <3>2, <3>5
    <3> QED
      BY <1>0, <3>2, <3>5, <3>6, <3>7
  <2>2. ASSUME NEW i \in 1 .. n, f[i] > a + i PROVE FALSE
    <3>1. n - i \in 0 .. n - 1 /\ n - (n - i) = i
      OBVIOUS
    <3>2. n - i \in High
      BY <2>2, <3>1
    <3> QED
      BY <2>1, <3>2
  <2> QED
    BY <2>2
<1> QED
  BY <1>0, <1>1, <1>2

=============================================================================
