-------------------------- MODULE SuperstepProofs --------------------------
(***************************************************************************)
(* Theorems about the executor, for every graph, mode of durability and    *)
(* number of runs, deliveries and faults.                                  *)
(***************************************************************************)
EXTENDS Superstep, OrderLemmas

-----------------------------------------------------------------------------
(* Lists.                                                                   *)

\* A sequence, of whatever it holds.
IsList(s) == s \in Seq(ToSet(s))

LEMMA ListOf ==
  ASSUME NEW S, NEW s \in Seq(S)
  PROVE  IsList(s) /\ ToSet(s) \subseteq S
<1>1. Len(s) \in Nat /\ s \in [1 .. Len(s) -> S] /\ DOMAIN s = 1 .. Len(s)
  OBVIOUS
<1>2. s \in [1 .. Len(s) -> ToSet(s)]
  BY <1>1 DEF ToSet
<1>3. s \in Seq(ToSet(s))
  BY <1>1, <1>2, FcnIsSeq
<1> QED
  BY <1>1, <1>3 DEF IsList, ToSet

LEMMA ListAppend ==
  ASSUME NEW s, IsList(s), NEW x
  PROVE  /\ IsList(Append(s, x)) /\ ToSet(Append(s, x)) = ToSet(s) \cup {x}
         /\ Len(s) \in Nat /\ DOMAIN s = 1 .. Len(s) /\ DOMAIN Append(s, x) = 1 .. Len(s) + 1
         /\ Append(s, x)[Len(s) + 1] = x /\ Len(Append(s, x)) = Len(s) + 1
         /\ \A i \in 1 .. Len(s) : Append(s, x)[i] = s[i]
<1> DEFINE S == ToSet(s) \cup {x}
           t == Append(s, x)
<1>1. s \in Seq(S) /\ Len(s) \in Nat /\ DOMAIN s = 1 .. Len(s)
  <2>1. s \in Seq(ToSet(s)) /\ Len(s) \in Nat /\ DOMAIN s = 1 .. Len(s)
    BY DEF IsList
  <2>2. s \in [1 .. Len(s) -> S]
    BY <2>1
  <2> QED
    BY <2>1, <2>2, FcnIsSeq
<1>2. /\ t \in Seq(S) /\ Len(t) = Len(s) + 1 /\ t[Len(s) + 1] = x
      /\ \A i \in 1 .. Len(s) : t[i] = s[i]
      /\ DOMAIN t = 1 .. Len(s) + 1
  BY <1>1, AppendProperties
<1>3. IsList(t)
  BY <1>2, ListOf
<1>4. ToSet(t) = ToSet(s) \cup {x}
  <2>1. ASSUME NEW i \in DOMAIN t PROVE t[i] \in ToSet(s) \cup {x}
    BY <1>1, <1>2, <2>1 DEF ToSet
  <2>2. ASSUME NEW i \in DOMAIN s PROVE s[i] \in ToSet(t)
    BY <1>1, <1>2, <2>2 DEF ToSet
  <2>3. x \in ToSet(t)
    <3>1. Len(s) + 1 \in DOMAIN t
      BY <1>1, <1>2
    <3> QED
      BY <1>2, <3>1 DEF ToSet
  <2> HIDE DEF t
  <2> QED
    BY <2>1, <2>2, <2>3 DEF ToSet
<1> QED
  BY <1>1, <1>2, <1>3, <1>4

LEMMA ListTail ==
  ASSUME NEW s, IsList(s), s # <<>>
  PROVE  /\ IsList(Tail(s)) /\ Len(s) \in Nat \ {0} /\ DOMAIN s = 1 .. Len(s)
         /\ Len(Tail(s)) = Len(s) - 1 /\ DOMAIN Tail(s) = 1 .. Len(s) - 1
         /\ Head(s) = s[1] /\ \A i \in 1 .. Len(s) - 1 : Tail(s)[i] = s[i + 1]
         /\ ToSet(s) = ToSet(Tail(s)) \cup {Head(s)}
<1> DEFINE t == Tail(s)
<1>1. s \in Seq(ToSet(s)) /\ Len(s) \in Nat \ {0} /\ DOMAIN s = 1 .. Len(s)
  BY EmptySeq DEF IsList
<1>2. /\ t \in Seq(ToSet(s)) /\ Len(t) = Len(s) - 1 /\ Head(s) = s[1]
      /\ \A i \in 1 .. Len(s) - 1 : t[i] = s[i + 1]
  BY <1>1, HeadTailProperties
<1>3. DOMAIN t = 1 .. Len(s) - 1
  BY <1>2
<1>4. IsList(t)
  BY <1>2, ListOf
<1>5. ToSet(s) = ToSet(t) \cup {Head(s)}
  <2>1. ASSUME NEW i \in DOMAIN s PROVE s[i] \in ToSet(t) \cup {Head(s)}
    <3>1. CASE i = 1
      BY <1>2, <3>1
    <3>2. CASE i # 1
      <4>1. i - 1 \in DOMAIN t /\ t[i - 1] = s[i]
        BY <1>1, <1>2, <1>3, <3>2
      <4> QED
        BY <4>1 DEF ToSet
    <3> QED
      BY <3>1, <3>2
  <2>2. ASSUME NEW i \in DOMAIN t PROVE t[i] \in ToSet(s)
    <3>1. i + 1 \in DOMAIN s /\ t[i] = s[i + 1]
      BY <1>1, <1>2, <1>3
    <3> QED
      BY <3>1 DEF ToSet
  <2>3. Head(s) \in ToSet(s)
    BY <1>1, <1>2 DEF ToSet
  <2> HIDE DEF t
  <2> QED
    BY <2>1, <2>2, <2>3 DEF ToSet
<1> QED
  BY <1>1, <1>2, <1>3, <1>4, <1>5

\* The unfolding of Among, up to the n-th element.
Picked(S, list, n, f) ==
  f = [i \in 0 .. n |-> IF i = 0 THEN <<>>
                        ELSE IF list[i] \in S THEN Append(f[i - 1], list[i]) ELSE f[i - 1]]

\* Among picks the elements in S one after the other.
LEMMA AmongSteps ==
  ASSUME NEW S, NEW list, IsList(list)
  PROVE  \E f : /\ Among(S, list) = f[Len(list)] /\ f[0] = <<>>
                /\ \A i \in 1 .. Len(list) :
                       f[i] = IF list[i] \in S THEN Append(f[i - 1], list[i]) ELSE f[i - 1]
<1> DEFINE n == Len(list)
<1>1. n \in Nat /\ DOMAIN list = 1 .. n /\ \A i \in 1 .. n : list[i] \in ToSet(list)
  BY DEF IsList, ToSet
<1>2. ASSUME NEW m \in Nat PROVE \E f : Picked(S, list, m, f)
  <2> DEFINE Bad == {k \in Nat : ~ \E f : Picked(S, list, k, f)}
  <2>1. ASSUME Bad # {} PROVE FALSE
    <3>1. PICK k \in Bad : \A j \in Bad : k <= j
      BY <2>1, LeastNat
    <3>2. CASE k = 0
      <4>1. Picked(S, list, k, [i \in 0 .. 0 |-> <<>>])
        BY <3>2 DEF Picked
      <4> QED
        BY <3>1, <4>1
    <3>3. CASE k # 0
      <4>1. k - 1 \in Nat /\ k - 1 \notin Bad /\ k \in Nat
        <5>1. k \in Nat
          BY <3>1
        <5>2. k - 1 \in Nat /\ ~ (k <= k - 1)
          BY <3>3, <5>1
        <5> HIDE DEF Bad
        <5> QED
          BY <3>1, <5>1, <5>2
      <4>2. PICK g : Picked(S, list, k - 1, g)
        BY <4>1
      <4> DEFINE x == IF list[k] \in S THEN Append(g[k - 1], list[k]) ELSE g[k - 1]
                 f == [i \in 0 .. k |-> IF i = k THEN x ELSE g[i]]
      <4>3. ASSUME NEW i \in 0 .. k
            PROVE  f[i] = IF i = 0 THEN <<>>
                          ELSE IF list[i] \in S THEN Append(f[i - 1], list[i]) ELSE f[i - 1]
        <5>1. CASE i = k
          <6>1. f[i] = x /\ f[k - 1] = g[k - 1]
            <7>1. k \in 0 .. k /\ k - 1 \in 0 .. k /\ k - 1 # k
              BY <4>1
            <7> HIDE DEF x
            <7> QED
              BY <5>1, <7>1
          <6> QED
            BY <3>3, <5>1, <6>1
        <5>2. CASE i # k
          <6>1. i \in 0 .. k - 1 /\ f[i] = g[i] /\ (i # 0 => i - 1 \in 0 .. k /\ f[i - 1] = g[i - 1])
            <7> HIDE DEF x
            <7> QED
              BY <4>1, <5>2
          <6>2. g[i] = IF i = 0 THEN <<>>
                       ELSE IF list[i] \in S THEN Append(g[i - 1], list[i]) ELSE g[i - 1]
            BY <4>2, <6>1 DEF Picked
          <6> QED
            BY <6>1, <6>2
        <5> QED
          BY <5>1, <5>2
      <4>4. f = [i \in 0 .. k |-> IF i = 0 THEN <<>>
                    ELSE IF list[i] \in S THEN Append(f[i - 1], list[i]) ELSE f[i - 1]]
        BY <4>3
      <4>5. Picked(S, list, k, f)
        BY <4>4 DEF Picked
      <4> QED
        BY <3>1, <4>5
    <3> QED
      BY <3>2, <3>3
  <2> QED
    BY <2>1
<1> DEFINE f == CHOOSE f : Picked(S, list, n, f)
<1>3. Among(S, list) = f[n]
  BY Zenon DEF Among, Picked
<1>4. Picked(S, list, n, f)
  BY <1>1, <1>2
<1> HIDE DEF f
<1>5. /\ f[0] = <<>>
      /\ \A i \in 1 .. n : f[i] = IF list[i] \in S THEN Append(f[i - 1], list[i]) ELSE f[i - 1]
  <2>1. 0 \in 0 .. n /\ \A i \in 1 .. n : i \in 0 .. n /\ i # 0
    BY <1>1
  <2> QED
    BY <1>4, <2>1 DEF Picked
<1> QED
  BY <1>3, <1>5

\* What Among leaves: elements of S, and none only if there is none.
LEMMA AmongFits ==
  ASSUME NEW S, NEW list, IsList(list)
  PROVE  /\ Among(S, list) \in Seq(S \cap ToSet(list))
         /\ Among(S, list) = <<>> <=> S \cap ToSet(list) = {}
<1> DEFINE n == Len(list)
           E == S \cap ToSet(list)
<1>1. n \in Nat /\ DOMAIN list = 1 .. n /\ \A i \in 1 .. n : list[i] \in ToSet(list)
  BY DEF IsList, ToSet
<1>3. PICK f : /\ Among(S, list) = f[n] /\ f[0] = <<>>
               /\ \A i \in 1 .. n : f[i] = IF list[i] \in S THEN Append(f[i - 1], list[i]) ELSE f[i - 1]
  BY AmongSteps
<1>5. /\ f[0] = <<>>
      /\ \A i \in 1 .. n : f[i] = IF list[i] \in S THEN Append(f[i - 1], list[i]) ELSE f[i - 1]
  BY <1>3
<1> DEFINE Good(k) == /\ f[k] \in Seq(E)
                      /\ f[k] = <<>> <=> \A i \in 1 .. k : list[i] \notin S
           Bad == {k \in 0 .. n : ~ Good(k)}
<1>6. ASSUME Bad # {} PROVE FALSE
  <2>1. Bad \in SUBSET Nat
    BY <1>1
  <2>2. PICK k \in Bad : \A j \in Bad : k <= j
    BY <1>6, <2>1, LeastNat
  <2>3. k \in 0 .. n /\ ~ Good(k)
    BY <2>2
  <2>4. CASE k = 0
    <3>1. Good(0)
      BY <1>5
    <3> QED
      BY <2>3, <2>4, <3>1
  <2>5. CASE k # 0
    <3>1. k \in 1 .. n /\ k - 1 \in 0 .. n
      BY <1>1, <2>3, <2>5
    <3>2. Good(k - 1)
      <4>1. ~ (k <= k - 1)
        BY <1>1, <3>1
      <4>2. k - 1 \notin Bad
        BY <2>2, <4>1
      <4> QED
        BY <3>1, <4>2
    <3>3. f[k] = IF list[k] \in S THEN Append(f[k - 1], list[k]) ELSE f[k - 1]
      BY <1>5, <3>1
    <3>4. CASE list[k] \in S
      <4>1. f[k] = Append(f[k - 1], list[k]) /\ list[k] \in E
        BY <1>1, <3>1, <3>3, <3>4
      <4>2. f[k] \in Seq(E) /\ Len(f[k]) = Len(f[k - 1]) + 1
        BY <3>2, <4>1, AppendProperties
      <4>3. f[k] # <<>>
        BY <3>2, <4>2
      <4>4. k \in 1 .. k
        BY <1>1, <3>1
      <4> QED
        BY <2>3, <3>4, <4>2, <4>3, <4>4
    <3>5. CASE list[k] \notin S
      <4>1. \A i \in 1 .. k : i \in 1 .. k - 1 \/ i = k
        BY <1>1, <3>1
      <4>2. \A i \in 1 .. k - 1 : i \in 1 .. k
        BY <1>1, <3>1
      <4> QED
        BY <2>3, <3>2, <3>3, <3>5, <4>1, <4>2
    <3> QED
      BY <3>4, <3>5
  <2> QED
    BY <2>4, <2>5
<1>7. Good(n)
  BY <1>1, <1>6
<1>8. E = {} <=> \A i \in 1 .. n : list[i] \notin S
  BY <1>1 DEF ToSet
<1> QED
  BY <1>3, <1>7, <1>8

\* A list that names each thing once.
IsOnce(list) == \A i, j \in DOMAIN list : list[i] = list[j] => i = j

\* Among names each thing once if the list does.
LEMMA AmongOnce ==
  ASSUME NEW S, NEW list, IsList(list), IsOnce(list)
  PROVE  IsOnce(Among(S, list))
<1> DEFINE n == Len(list)
<1>1. n \in Nat /\ DOMAIN list = 1 .. n
  BY DEF IsList
<1>2. PICK f : /\ Among(S, list) = f[n] /\ f[0] = <<>>
               /\ \A i \in 1 .. n : f[i] = IF list[i] \in S THEN Append(f[i - 1], list[i]) ELSE f[i - 1]
  BY AmongSteps
<1> DEFINE UpTo(k) == {list[i] : i \in 1 .. k}
           Good(k) == f[k] \in Seq(UpTo(k)) /\ IsOnce(f[k])
           Bad == {k \in 0 .. n : ~ Good(k)}
<1>3. ASSUME Bad # {} PROVE FALSE
  <2>1. Bad \in SUBSET Nat
    BY <1>1
  <2>2. PICK k \in Bad : \A j \in Bad : k <= j
    BY <1>3, <2>1, LeastNat
  <2>3. k \in 0 .. n /\ ~ Good(k)
    BY <2>2
  <2>4. CASE k = 0
    <3>1. f[0] \in Seq(UpTo(0)) /\ DOMAIN f[0] = {}
      BY <1>2
    <3> QED
      BY <2>3, <2>4, <3>1 DEF IsOnce
  <2>5. CASE k # 0
    <3>1. k \in 1 .. n /\ k - 1 \in 0 .. n /\ k \in Nat
      BY <1>1, <2>3, <2>5
    <3>2. Good(k - 1)
      <4>1. ~ (k <= k - 1)
        BY <1>1, <3>1
      <4>2. k - 1 \notin Bad
        BY <2>2, <4>1
      <4> QED
        BY <3>1, <4>2
    <3>3. UpTo(k) = UpTo(k - 1) \cup {list[k]} /\ list[k] \notin UpTo(k - 1)
      <4>1. \A i \in 1 .. k : i \in 1 .. k - 1 \/ i = k
        BY <3>1
      <4>2. \A i \in 1 .. k - 1 : i \in 1 .. k /\ i \in DOMAIN list /\ i # k
        BY <1>1, <3>1
      <4>3. k \in 1 .. k /\ k \in DOMAIN list
        BY <1>1, <3>1
      <4> QED
        BY <4>1, <4>2, <4>3 DEF IsOnce
    <3> DEFINE g == f[k - 1]
               m == Len(g)
    <3>4. /\ m \in Nat /\ DOMAIN g = 1 .. m /\ g \in [1 .. m -> UpTo(k)] /\ IsOnce(g)
          /\ \A i \in 1 .. m : g[i] # list[k]
      <4> HIDE DEF UpTo
      <4>1. g \in Seq(UpTo(k - 1)) /\ IsOnce(g)
        BY <3>2
      <4> QED
        BY <3>3, <4>1
    <3>5. g \in Seq(UpTo(k))
      <4> HIDE DEF UpTo, g
      <4> QED
        BY <3>4, FcnIsSeq
    <3>6. CASE list[k] \in S
      <4>1. f[k] = Append(g, list[k])
        BY <1>2, <3>1, <3>6
      <4>2. PICK h : h = f[k]
        OBVIOUS
      <4>3. h = Append(g, list[k]) /\ list[k] \in UpTo(k)
        BY <3>3, <4>1, <4>2
      <4> HIDE DEF UpTo, g, m
      <4>4. /\ h \in Seq(UpTo(k)) /\ DOMAIN h = 1 .. m + 1 /\ h[m + 1] = list[k]
            /\ \A i \in 1 .. m : h[i] = g[i]
        BY <3>4, <3>5, <4>3, AppendProperties DEF m
      <4>5. ASSUME NEW i \in 1 .. m + 1, NEW j \in 1 .. m + 1, h[i] = h[j] PROVE i = j
        <5>1. (i \in 1 .. m \/ i = m + 1) /\ (j \in 1 .. m \/ j = m + 1)
          BY <3>4
        <5> QED
          BY <3>4, <4>4, <4>5, <5>1 DEF IsOnce
      <4>6. Good(k)
        BY <4>2, <4>4, <4>5 DEF IsOnce
      <4> QED
        BY <2>3, <4>6
    <3>7. CASE list[k] \notin S
      <4>1. f[k] = g
        BY <1>2, <3>1, <3>7
      <4> HIDE DEF UpTo, g
      <4>2. Good(k)
        BY <3>4, <3>5, <4>1
      <4> QED
        BY <2>3, <4>2
    <3> QED
      BY <3>6, <3>7
  <2> QED
    BY <2>4, <2>5
<1>4. IsOnce(f[n])
  <2>1. n \in 0 .. n
    BY <1>1
  <2> HIDE DEF Good
  <2>2. Good(n)
    BY <1>3, <2>1
  <2> QED
    BY <2>2 DEF Good
<1> QED
  BY <1>2, <1>4

\* The unfolding of FlattenSeq, up to the n-th of the sequences.
Flattened(seqs, n, f) == f = [i \in 1 .. n |-> IF i = 1 THEN seqs[i] ELSE f[i - 1] \o seqs[i]]

\* Sequences put one behind the other are a sequence of their elements.
LEMMA FlattenFits ==
  ASSUME NEW S, NEW seqs \in Seq(Seq(S))
  PROVE  FlattenSeq(seqs) \in Seq(S)
<1> DEFINE n == Len(seqs)
<1>1. n \in Nat /\ DOMAIN seqs = 1 .. n /\ \A i \in 1 .. n : seqs[i] \in Seq(S)
  OBVIOUS
<1>2. ASSUME NEW m \in Nat PROVE \E f : Flattened(seqs, m, f)
  <2> DEFINE Bad == {k \in Nat : ~ \E f : Flattened(seqs, k, f)}
  <2>1. ASSUME Bad # {} PROVE FALSE
    <3>1. PICK k \in Bad : \A j \in Bad : k <= j
      BY <2>1, LeastNat
    <3>2. CASE k \in {0, 1}
      <4>1. Flattened(seqs, k, [i \in 1 .. k |-> seqs[i]])
        BY <3>2 DEF Flattened
      <4> QED
        BY <3>1, <4>1
    <3>3. CASE k \notin {0, 1}
      <4>1. k - 1 \in Nat /\ k - 1 \notin Bad /\ k \in Nat
        <5>1. k \in Nat
          BY <3>1
        <5>2. k - 1 \in Nat /\ ~ (k <= k - 1)
          BY <3>3, <5>1
        <5> HIDE DEF Bad
        <5> QED
          BY <3>1, <5>1, <5>2
      <4>2. PICK g : Flattened(seqs, k - 1, g)
        BY <4>1
      <4> DEFINE f == [i \in 1 .. k |-> IF i = k THEN g[k - 1] \o seqs[k] ELSE g[i]]
      <4>3. ASSUME NEW i \in 1 .. k
            PROVE  f[i] = IF i = 1 THEN seqs[i] ELSE f[i - 1] \o seqs[i]
        <5>1. CASE i = k
          <6>1. f[i] = g[k - 1] \o seqs[k] /\ f[k - 1] = g[k - 1]
            <7>1. k \in 1 .. k /\ k - 1 \in 1 .. k /\ k - 1 # k
              BY <4>1, <3>3
            <7> QED
              BY <5>1, <7>1
          <6> QED
            BY <3>3, <5>1, <6>1
        <5>2. CASE i # k
          <6>1. i \in 1 .. k - 1 /\ f[i] = g[i] /\ (i # 1 => i - 1 \in 1 .. k /\ f[i - 1] = g[i - 1])
            BY <4>1, <5>2
          <6>2. g[i] = IF i = 1 THEN seqs[i] ELSE g[i - 1] \o seqs[i]
            BY <4>2, <6>1 DEF Flattened
          <6> QED
            BY <6>1, <6>2
        <5> QED
          BY <5>1, <5>2
      <4>4. f = [i \in 1 .. k |-> IF i = 1 THEN seqs[i] ELSE f[i - 1] \o seqs[i]]
        BY <4>3
      <4>5. Flattened(seqs, k, f)
        BY <4>4 DEF Flattened
      <4> QED
        BY <3>1, <4>5
    <3> QED
      BY <3>2, <3>3
  <2> QED
    BY <2>1
<1>3. CASE n = 0
  <2>1. FlattenSeq(seqs) = seqs /\ seqs = <<>>
    BY <1>3 DEF FlattenSeq
  <2> QED
    BY <2>1
<1>4. CASE n # 0
  <2> DEFINE f == CHOOSE f : Flattened(seqs, n, f)
  <2>1. FlattenSeq(seqs) = f[n]
    BY <1>4, Zenon DEF FlattenSeq, Flattened
  <2>2. Flattened(seqs, n, f)
    BY <1>1, <1>2
  <2> HIDE DEF f
  <2> DEFINE Bad == {k \in Nat : k \in 1 .. n /\ f[k] \notin Seq(S)}
  <2>3. ASSUME Bad # {} PROVE FALSE
    <3>1. PICK k \in Bad : \A j \in Bad : k <= j
      BY <2>3, LeastNat
    <3>2. f[k] = IF k = 1 THEN seqs[k] ELSE f[k - 1] \o seqs[k]
      BY <2>2, <3>1 DEF Flattened
    <3>3. CASE k = 1
      BY <1>1, <3>1, <3>2, <3>3
    <3>4. CASE k # 1
      <4>1. k - 1 \in Nat /\ k - 1 \in 1 .. n /\ k - 1 \notin Bad /\ k \in 1 .. n
        BY <1>1, <3>1, <3>4
      <4>2. f[k - 1] \in Seq(S) /\ seqs[k] \in Seq(S)
        BY <1>1, <4>1
      <4>3. f[k - 1] \o seqs[k] \in Seq(S)
        BY <4>2, ConcatProperties
      <4> QED
        BY <3>1, <3>2, <3>4, <4>3
    <3> QED
      BY <3>3, <3>4
  <2>4. n \in 1 .. n
    BY <1>1, <1>4
  <2> QED
    BY <1>1, <2>1, <2>3, <2>4
<1> QED
  BY <1>3, <1>4

-----------------------------------------------------------------------------
(* Counting in a log.                                                       *)

LEMMA CountFits ==
  ASSUME NEW S, NEW log \in Seq(S), NEW x
  PROVE  Count(log, x) \in Nat /\ IsFiniteSet({i \in DOMAIN log : log[i] = x})
<1>1. IsFiniteSet(DOMAIN log)
  BY FS_Interval
<1>2. IsFiniteSet({i \in DOMAIN log : log[i] = x})
  BY <1>1, FS_Subset
<1> QED
  BY <1>2, FS_CardinalityType DEF Count

LEMMA CountAppend ==
  ASSUME NEW S, NEW log \in Seq(S), NEW x, NEW y \in S
  PROVE  Count(Append(log, y), x) = Count(log, x) + (IF y = x THEN 1 ELSE 0)
<1> DEFINE A == {i \in DOMAIN log : log[i] = x}
           more == Append(log, y)
           B == {i \in DOMAIN more : more[i] = x}
<1>1. /\ Len(log) \in Nat /\ DOMAIN log = 1 .. Len(log) /\ DOMAIN more = 1 .. Len(log) + 1
      /\ more[Len(log) + 1] = y /\ \A i \in 1 .. Len(log) : more[i] = log[i]
  BY AppendProperties
<1>2. IsFiniteSet(A) /\ Count(log, x) = Cardinality(A) /\ Cardinality(A) \in Nat
  BY CountFits DEF Count
<1>3. Count(more, x) = Cardinality(B)
  BY DEF Count
<1>4. CASE y = x
  <2>1. Len(log) + 1 \notin A /\ B = A \cup {Len(log) + 1}
    <3> HIDE DEF more
    <3> QED
      BY <1>1, <1>4
  <2>2. Cardinality(A \cup {Len(log) + 1}) = Cardinality(A) + 1
    <3> HIDE DEF A
    <3> QED
      BY <1>2, <2>1, FS_AddElement
  <2> QED
    BY <1>2, <1>3, <1>4, <2>1, <2>2
<1>5. CASE y # x
  <2>1. B = A
    <3> HIDE DEF more
    <3> QED
      BY <1>1, <1>5
  <2> HIDE DEF A, B
  <2> QED
    BY <1>2, <1>3, <1>5, <2>1
<1> QED
  BY <1>4, <1>5

LEMMA CountConcat ==
  ASSUME NEW S, NEW log \in Seq(S), NEW more \in Seq(S), NEW x,
         \A i \in DOMAIN more : more[i] # x
  PROVE  Count(log \o more, x) = Count(log, x)
<1> DEFINE both == log \o more
<1>1. /\ Len(log) \in Nat /\ DOMAIN log = 1 .. Len(log) /\ Len(more) \in Nat
      /\ DOMAIN more = 1 .. Len(more) /\ DOMAIN both = 1 .. Len(log) + Len(more)
      /\ \A i \in 1 .. Len(log) + Len(more) :
            both[i] = IF i <= Len(log) THEN log[i] ELSE more[i - Len(log)]
  BY ConcatProperties
<1>2. {i \in DOMAIN both : both[i] = x} = {i \in DOMAIN log : log[i] = x}
  <2> HIDE DEF both
  <2>1. ASSUME NEW i \in DOMAIN both, both[i] = x PROVE i \in DOMAIN log /\ log[i] = x
    <3>1. CASE i <= Len(log)
      BY <1>1, <2>1, <3>1
    <3>2. CASE ~ (i <= Len(log))
      <4>1. i - Len(log) \in DOMAIN more /\ both[i] = more[i - Len(log)]
        BY <1>1, <3>2
      <4> QED
        BY <2>1, <4>1
    <3> QED
      BY <3>1, <3>2
  <2>2. ASSUME NEW i \in DOMAIN log PROVE i \in DOMAIN both /\ both[i] = log[i]
    BY <1>1, <2>2
  <2> QED
    BY <2>1, <2>2
<1> QED
  BY <1>2 DEF Count

LEMMA TasksAppend ==
  ASSUME NEW S, NEW log \in Seq(S), NEW y \in S \cap {INPUT, EDIT}
  PROVE  TasksIn(log) \in Int /\ TasksIn(Append(log, y)) = TasksIn(log)
<1>1. Len(log) \in Nat /\ Len(Append(log, y)) = Len(log) + 1
  OBVIOUS
<1>2. Count(log, INPUT) \in Nat /\ Count(log, EDIT) \in Nat
  BY CountFits
<1>3. /\ Count(Append(log, y), INPUT) = Count(log, INPUT) + (IF y = INPUT THEN 1 ELSE 0)
      /\ Count(Append(log, y), EDIT) = Count(log, EDIT) + (IF y = EDIT THEN 1 ELSE 0)
  BY CountAppend
<1>4. INPUT # EDIT
  BY DEF INPUT, EDIT
<1> QED
  BY <1>1, <1>2, <1>3, <1>4 DEF TasksIn

LEMMA TasksConcat ==
  ASSUME NEW S, NEW log \in Seq(S), NEW more \in Seq(S),
         \A i \in DOMAIN more : more[i] \notin {INPUT, EDIT}
  PROVE  TasksIn(log) \in Int /\ TasksIn(log \o more) = TasksIn(log) + Len(more)
<1>1. Len(log) \in Nat /\ Len(more) \in Nat /\ Len(log \o more) = Len(log) + Len(more)
  BY ConcatProperties
<1>2. Count(log, INPUT) \in Nat /\ Count(log, EDIT) \in Nat
  BY CountFits
<1>3. Count(log \o more, INPUT) = Count(log, INPUT) /\ Count(log \o more, EDIT) = Count(log, EDIT)
  BY CountConcat
<1> QED
  BY <1>1, <1>2, <1>3 DEF TasksIn

LEMMA TasksOfNone == TasksIn(<<>>) = 0
<1>1. Count(<<>>, INPUT) = 0 /\ Count(<<>>, EDIT) = 0
  <2>1. \A x : {i \in DOMAIN <<>> : <<>>[i] = x} = {}
    OBVIOUS
  <2> QED
    BY <2>1, FS_EmptySet DEF Count
<1> QED
  BY <1>1 DEF TasksIn

-----------------------------------------------------------------------------
(* What is planned.                                                         *)

Names(g) == ToSet(g.nodes)

\* Runs of a graph g, without looking at the setup in force.
OffOf(g, names, sends) ==
  IF names \ g.deferred # {} \/ sends # <<>> THEN names \cap g.deferred ELSE {}
TasksOf(g, names, sends) ==
  LET order == Among(names \ OffOf(g, names, sends), g.nodes)
  IN  [i \in 1 .. Len(order) |-> <<order[i], 0>>] \o [i \in 1 .. Len(sends) |-> <<sends[i], i>>]
PlanOf(g, names, sends) == LogOf(TasksOf(g, names, sends))

\* What compile() has checked of a graph.
IsGraph(g) ==
  /\ IsList(g.nodes) /\ IsOnce(g.nodes)
  /\ {START, INPUT, EDIT} \cap Names(g) = {} /\ g.entry \subseteq Names(g)
  /\ \A n \in {START} \cup Names(g) : \A r \in g.routes[n] :
        r.names \subseteq Names(g) /\ r.sends \in Seq(Names(g))
  /\ g.durability \in {"sync", "async", "exit"}
  /\ g.inputs \in Nat \ {0}

LEMMA SetupsAreGraphs == \A g \in Setups : IsGraph(g)
  BY SuperstepAssumption DEF IsGraph, IsList, IsOnce, Names

LEMMA RunsOfSetup == \A names, sends : Runs(names, sends) = TasksOf(setup, names, sends)
  BY DEF Runs, TasksOf, PlanTasks, InPlanOrder, PutOff, OffOf, NodeSeq, Deferred

\* There is nothing to run.
Nothing(names, sends) == names = {} /\ sends = <<>>

LEMMA TasksFit ==
  ASSUME NEW g, IsGraph(g), NEW names \in SUBSET Names(g), NEW sends \in Seq(Names(g))
  PROVE  /\ TasksOf(g, names, sends) \in Seq(Names(g) \X Nat)
         /\ PlanOf(g, names, sends) \in Seq(Names(g))
         /\ Len(PlanOf(g, names, sends)) = Len(TasksOf(g, names, sends))
         /\ PlanOf(g, names, sends) = <<>> <=> Nothing(names, sends)
         /\ TasksOf(g, names, sends) = <<>> <=> Nothing(names, sends)
<1> DEFINE put == OffOf(g, names, sends)
           order == Among(names \ put, g.nodes)
           one == [i \in 1 .. Len(order) |-> <<order[i], 0>>]
           two == [i \in 1 .. Len(sends) |-> <<sends[i], i>>]
           T == Names(g) \X Nat
<1>1. order \in Seq(Names(g)) /\ (order = <<>> <=> names \ put = {})
  <2>1. order \in Seq((names \ put) \cap ToSet(g.nodes))
    BY AmongFits DEF IsGraph
  <2>2. order = <<>> <=> (names \ put) \cap ToSet(g.nodes) = {}
    BY AmongFits DEF IsGraph
  <2>3. (names \ put) \cap ToSet(g.nodes) = names \ put /\ names \ put \subseteq Names(g)
    BY DEF Names
  <2> HIDE DEF order, put
  <2>4. order \in Seq(names \ put) /\ Len(order) \in Nat
    BY <2>1, <2>3
  <2>5. order \in [1 .. Len(order) -> Names(g)]
    BY <2>4, <2>3
  <2> QED
    BY <2>2, <2>3, <2>4, <2>5, FcnIsSeq
<1>2. names = {} /\ sends = <<>> <=> names \ put = {} /\ sends = <<>>
  BY DEF OffOf
<1> HIDE DEF put, order
<1>3. Len(order) \in Nat /\ Len(sends) \in Nat
  BY <1>1
<1>4. one \in [1 .. Len(order) -> T] /\ two \in [1 .. Len(sends) -> T]
  BY <1>1, <1>3
<1> HIDE DEF one, two
<1>5. one \in Seq(T) /\ two \in Seq(T) /\ Len(one) = Len(order) /\ Len(two) = Len(sends)
  BY <1>3, <1>4, FcnIsSeq
<1> HIDE DEF T
<1>6. one \o two \in Seq(T) /\ Len(one \o two) = Len(order) + Len(sends)
  <2>1. one \o two \in Seq(T) /\ Len(one \o two) = Len(one) + Len(two)
    BY <1>5, ConcatProperties
  <2> QED
    BY <1>5, <2>1
<1>7. TasksOf(g, names, sends) = one \o two
  BY DEF TasksOf, one, two, order, put
<1>8. Len(order) + Len(sends) = 0 <=> names = {} /\ sends = <<>>
  <2>1. Len(order) = 0 <=> order = <<>>
    BY <1>1, EmptySeq
  <2>2. Len(sends) = 0 <=> sends = <<>>
    BY EmptySeq
  <2> QED
    BY <1>1, <1>2, <1>3, <2>1, <2>2
<1> DEFINE tasks == TasksOf(g, names, sends)
<1>9. tasks \in Seq(T) /\ Len(tasks) = Len(order) + Len(sends) /\ DOMAIN tasks = 1 .. Len(tasks)
  BY <1>6, <1>7
<1>10. tasks = <<>> <=> Len(tasks) = 0
  BY <1>9, EmptySeq
<1> HIDE DEF tasks
<1> DEFINE log == LogOf(tasks)
<1>11. log \in [1 .. Len(tasks) -> Names(g)]
  BY <1>9 DEF LogOf, T
<1>12. log \in Seq(Names(g)) /\ Len(log) = Len(tasks)
  <2> HIDE DEF log
  <2> QED
    BY <1>9, <1>11, FcnIsSeq
<1>13. log = <<>> <=> Len(log) = 0
  <2> HIDE DEF log
  <2> QED
    BY <1>12, EmptySeq
<1> QED
  BY <1>8, <1>9, <1>10, <1>12, <1>13 DEF PlanOf, tasks, T, Nothing

\* What is put off stays put off.
LEMMA PutOffOnce ==
  ASSUME NEW g, NEW names, NEW sends
  PROVE  TasksOf(g, names \ OffOf(g, names, sends), sends) = TasksOf(g, names, sends)
<1> DEFINE put == OffOf(g, names, sends)
<1>1. (names \ put) \ OffOf(g, names \ put, sends) = names \ put
  BY DEF OffOf
<1> HIDE DEF put
<1> QED
  BY <1>1 DEF TasksOf, put

-----------------------------------------------------------------------------
(* Types.                                                                   *)

Stages == {"plan", "run", "gathered", "pausing", "route", "exit", "close"}
Kinds == {"before", "pause", "loop", "exit", "edit", "overtaken"}
States(g) == [log : Seq(Names(g) \cup {INPUT, EDIT}), q : Nat]

IsCheckpoint(g, c) ==
  /\ c = [id |-> c.id, parent |-> c.parent, state |-> c.state, next |-> c.next,
          sends |-> c.sends, asks |-> c.asks, skip |-> c.skip, joins |-> c.joins,
          deferred |-> c.deferred, resume |-> c.resume, kind |-> c.kind]
  /\ c.id \in Nat \ {0} /\ c.state \in States(g) /\ c.kind \in Kinds
  /\ c.next \subseteq Names(g) /\ c.sends \in Seq(Names(g)) /\ c.deferred \subseteq Names(g)

AreCheckpoints(g, list) == IsList(list) /\ \A c \in ToSet(list) : IsCheckpoint(g, c)

IsExecution(g, e) ==
  /\ e = [pc |-> e.pc, outcome |-> e.outcome, state |-> e.state, next |-> e.next,
          sends |-> e.sends, plan |-> e.plan, outs |-> e.outs, parent |-> e.parent,
          base |-> e.base, joins |-> e.joins, deferred |-> e.deferred, resume |-> e.resume,
          skip |-> e.skip, steps |-> e.steps, queue |-> e.queue, stop |-> e.stop,
          pauses |-> e.pauses]
  /\ e.pc \in Stages /\ e.state \in States(g) /\ e.parent \in Nat
  /\ e.next \subseteq Names(g) /\ e.sends \in Seq(Names(g)) /\ e.deferred \subseteq Names(g)
  /\ e.plan \in Seq(Names(g) \X Nat)
  /\ AreCheckpoints(g, e.queue) /\ (g.durability # "async" => e.queue = <<>>)

IsRun(r) ==
  /\ r = [n |-> r.n, kind |-> r.kind, to |-> r.to, status |-> r.status, attempt |-> r.attempt]
  /\ r.n \in Nat \ {0} /\ r.kind \in {"input", "resume"}

TypeInv ==
  /\ setup \in Setups /\ ids \in Nat
  /\ IsRun(run)
  /\ AreCheckpoints(setup, ckpts)
  /\ ex # Off => IsExecution(setup, ex)

-----------------------------------------------------------------------------
(* What the actions do, field by field.                                     *)

LEMMA SetupStays == ASSUME [Next]_vars PROVE setup' = setup
  BY DEF vars, Next, Delivery, Faults, Start, StopAtLoopHead, Plan, InterruptBefore, TaskReturns,
         TaskInterrupts, TaskStops, TaskRaises, Gather, RaiseFailure, PauseSave, PausePut, Merge,
         RouteAndSave, Complete, WriterStep, Close, StepTimesOut, WriterFails, Crash, Cancel, Fork,
         SubmitInput, SubmitResume, Quiescent

LEMMA LoadedFits ==
  ASSUME TypeInv
  PROVE  /\ Loaded.state \in States(setup) /\ Loaded.id \in Nat
         /\ Loaded.next \subseteq Names(setup) /\ Loaded.sends \in Seq(Names(setup))
         /\ Loaded.deferred \subseteq Names(setup)
         /\ ckpts = <<>> => /\ Loaded.id = None /\ Loaded.state = [log |-> <<>>, q |-> 0]
                            /\ Loaded.next = {} /\ Loaded.sends = <<>> /\ Loaded.asks = <<>>
         /\ ckpts # <<>> => /\ Loaded = Latest /\ Latest \in ToSet(ckpts) /\ Loaded.id # None
                            /\ Len(ckpts) \in DOMAIN ckpts
<1>1. CASE ckpts = <<>>
  BY <1>1 DEF Loaded, States, None
<1>2. CASE ckpts # <<>>
  <2>1. Len(ckpts) \in DOMAIN ckpts
    BY <1>2, ListTail DEF TypeInv, AreCheckpoints
  <2>2. Latest \in ToSet(ckpts)
    BY <2>1 DEF Latest, ToSet
  <2>3. IsCheckpoint(setup, Latest)
    BY <2>2 DEF TypeInv, AreCheckpoints
  <2>4. Loaded = Latest
    BY <1>2 DEF Loaded
  <2> QED
    BY <1>2, <2>1, <2>2, <2>3, <2>4 DEF IsCheckpoint, None
<1> QED
  BY <1>1, <1>2

LEMMA AppliedFits ==
  ASSUME TypeInv
  PROVE  /\ Applied.state \in States(setup)
         /\ run.kind = "input" => /\ Applied.state.log = Append(Loaded.state.log, INPUT)
                                  /\ Applied.state.q = run.n
         /\ run.kind # "input" => Applied.state = Loaded.state
<1>1. Loaded.state \in States(setup) /\ run.n \in Nat
  BY LoadedFits DEF TypeInv, IsRun
<1> DEFINE S == Names(setup) \cup {INPUT, EDIT}
<1>2. Loaded.state.log \in Seq(S) /\ INPUT \in S
  BY <1>1 DEF States
<1>3. Append(Loaded.state.log, INPUT) \in Seq(S)
  <2> HIDE DEF S
  <2> QED
    BY <1>2
<1> QED
  BY <1>1, <1>3 DEF Applied, AppendInput, States

\* The tasks a delivery may start with.
Begins(from) ==
  /\ from.names \subseteq Names(setup) /\ from.sends \in Seq(Names(setup))
  /\ \/ NeedsEntry /\ from \in EntryTasks
     \/ ~NeedsEntry /\ from.names = Loaded.next /\ from.sends = Loaded.sends

LEMMA StartTasksFit ==
  ASSUME TypeInv, NEW from \in StartTasks
  PROVE  Begins(from)
<1>1. IsGraph(setup)
  BY SetupsAreGraphs DEF TypeInv
<1>2. CASE NeedsEntry
  <2>1. PICK r \in RoutesOf(START) : from = [names |-> Entry \cup r.names, sends |-> r.sends]
    BY <1>2 DEF StartTasks, EntryTasks
  <2>2. r.names \subseteq Names(setup) /\ r.sends \in Seq(Names(setup))
    <3>1. r = NoRoute \/ r \in setup.routes[START]
      BY DEF RoutesOf, Routes
    <3>2. <<>> \in Seq(Names(setup))
      OBVIOUS
    <3>3. CASE r \in setup.routes[START]
      BY <1>1, <3>3 DEF IsGraph
    <3>4. CASE r = NoRoute
      <4>1. r.names = {} /\ r.sends = <<>>
        BY <3>4 DEF NoRoute
      <4> QED
        BY <3>2, <4>1
    <3> QED
      BY <3>1, <3>3, <3>4
  <2>3. from \in EntryTasks
    BY <1>2 DEF StartTasks
  <2> QED
    BY <1>1, <1>2, <2>1, <2>2, <2>3 DEF Begins, IsGraph, Entry
<1>3. CASE ~NeedsEntry
  BY <1>3, LoadedFits DEF StartTasks, Begins
<1> QED
  BY <1>2, <1>3

LEMMA StartFacts ==
  ASSUME TypeInv, Start
  PROVE  \E from :
           /\ Begins(from)
           /\ ex = Off /\ IsExecution(setup, ex') /\ ex' # Off
           /\ ex'.queue = <<>> /\ ex'.plan = <<>> /\ ex'.state = Applied.state
           /\ ex'.next = from.names /\ ex'.sends = from.sends
           /\ ex'.joins = Loaded.joins /\ ex'.deferred = Loaded.deferred
           /\ ex'.base = IF Loaded.id = None THEN <<INPUT, Stamp(Applied.state)>> ELSE <<Loaded.id>>
           /\ ex'.pauses = Cardinality({i \in DOMAIN ckpts : Parked(ckpts[i])})
           /\ ex'.pc \in {"plan", "close"}
           /\ ex'.pc = "plan" => /\ from.names # {} \/ from.sends # <<>>
                                 /\ ckpts = <<>> => run.kind = "input"
           /\ run'.n = run.n /\ run'.kind = run.kind /\ run'.status = "running" /\ IsRun(run')
           /\ shown' = {}
<1>1. PICK from \in StartTasks :
        ex' = IF ckpts = <<>> /\ run.kind = "resume"
              THEN Execution("close", "failed", from)
              ELSE IF Loaded.asks # <<>> /\ run.kind # "resume"
              THEN Execution("close", "paused", from)
              ELSE IF from.names = {} /\ from.sends = <<>>
              THEN Execution("close", "done", from)
              ELSE Execution("plan", "none", from)
  BY DEF Start
<1>2. Begins(from)
  BY StartTasksFit
<1>3. PICK pc, outcome :
        /\ pc \in {"plan", "close"} /\ ex' = Execution(pc, outcome, from)
        /\ pc = "plan" => /\ from.names # {} \/ from.sends # <<>>
                          /\ ~(ckpts = <<>> /\ run.kind = "resume")
  BY <1>1
<1>4. IsList(<<>>) /\ ToSet(<<>>) = {}
  <2>1. <<>> \in Seq({}) /\ ToSet(<<>>) = {}
    BY DEF ToSet
  <2> QED
    BY <2>1 DEF IsList
<1>5. /\ Loaded.id \in Nat /\ Loaded.deferred \subseteq Names(setup)
      /\ Applied.state \in States(setup)
  BY LoadedFits, AppliedFits
<1>6. IsExecution(setup, ex')
  <2>1. /\ ex'.pc \in Stages /\ ex'.state = Applied.state /\ ex'.parent = Loaded.id
        /\ ex'.next = from.names /\ ex'.sends = from.sends /\ ex'.deferred = Loaded.deferred
        /\ ex'.plan = <<>> /\ ex'.queue = <<>>
    BY <1>3 DEF Execution, Stages
  <2>2. <<>> \in Seq(Names(setup) \X Nat) /\ AreCheckpoints(setup, <<>>)
    BY <1>4 DEF AreCheckpoints
  <2>3. ex' = [pc |-> ex'.pc, outcome |-> ex'.outcome, state |-> ex'.state, next |-> ex'.next,
          sends |-> ex'.sends, plan |-> ex'.plan, outs |-> ex'.outs, parent |-> ex'.parent,
          base |-> ex'.base, joins |-> ex'.joins, deferred |-> ex'.deferred, resume |-> ex'.resume,
          skip |-> ex'.skip, steps |-> ex'.steps, queue |-> ex'.queue, stop |-> ex'.stop,
          pauses |-> ex'.pauses]
    BY <1>3 DEF Execution
  <2>4. setup.durability # "async" => ex'.queue = <<>>
    BY <2>1
  <2> QED
    BY <1>2, <1>5, <2>1, <2>2, <2>3, <2>4 DEF IsExecution, Begins
<1>7. ex' # Off
  <2>1. ex'.pc # "off"
    BY <1>6 DEF IsExecution, Stages
  <2> QED
    BY <2>1 DEF Off
<1>8. run' = [run EXCEPT !.status = "running", !.attempt = @ + 1] /\ ex = Off /\ shown' = {}
  BY DEF Start
<1>9. run'.n = run.n /\ run'.kind = run.kind /\ run'.status = "running" /\ IsRun(run')
  BY <1>8 DEF TypeInv, IsRun
<1>10. run.kind \in {"input", "resume"}
  BY DEF TypeInv, IsRun
<1> QED
  BY <1>2, <1>3, <1>6, <1>7, <1>8, <1>9, <1>10 DEF Execution

LEMMA ExecutionIsOn ==
  ASSUME TypeInv, ex.pc # "off"
  PROVE  ex # Off /\ IsExecution(setup, ex)
  BY DEF TypeInv, Off

\* An execution is on where its stage is one.
LEMMA OnWithStage ==
  ASSUME NEW g, NEW e, IsExecution(g, e)
  PROVE  e # Off /\ e.pc # "off"
<1>1. e.pc # "off"
  BY DEF IsExecution, Stages
<1> QED
  BY <1>1 DEF Off

\* The fields that a step of the execution leaves alone, by and large.
Keeps(e) ==
  /\ e.state = ex.state /\ e.base = ex.base /\ e.queue = ex.queue /\ e.pauses = ex.pauses

LEMMA StopFacts ==
  ASSUME IsExecution(setup, ex), NEW outcome, NEW e, e = Stopping(outcome)
  PROVE  /\ IsExecution(setup, e) /\ Keeps(e) /\ e.pc = "close" /\ e.outcome = outcome
         /\ e.parent = ex.parent /\ e.next = ex.next /\ e.sends = ex.sends /\ e.plan = ex.plan
  BY DEF IsExecution, Keeps, Stages, Stopping

LEMMA PlanFacts ==
  ASSUME TypeInv, Plan
  PROVE  /\ ex.pc = "plan" /\ IsExecution(setup, ex) /\ IsExecution(setup, ex') /\ Keeps(ex')
         /\ ex'.pc = "run" /\ ex'.plan = TasksOf(setup, ex.next, ex.sends)
         /\ ex'.outs = FoundOutcomes /\ ex'.sends = ex.sends
         /\ ex'.next = ex.next \ OffOf(setup, ex.next, ex.sends) /\ ex'.joins = ex.joins
         /\ ex'.deferred = ex.deferred \cup OffOf(setup, ex.next, ex.sends)
<1>1. ex.pc = "plan" /\ IsExecution(setup, ex) /\ IsGraph(setup)
  BY ExecutionIsOn, SetupsAreGraphs DEF Plan, Looping, TypeInv
<1>2. Planned = TasksOf(setup, ex.next, ex.sends)
  BY RunsOfSetup DEF Planned
<1>3. TasksOf(setup, ex.next, ex.sends) \in Seq(Names(setup) \X Nat)
  BY <1>1, TasksFit DEF IsExecution
<1>4. PutOff(ex.next, ex.sends) = OffOf(setup, ex.next, ex.sends)
  BY DEF PutOff, OffOf, Deferred
<1>5. OffOf(setup, ex.next, ex.sends) \subseteq ex.next
  BY DEF OffOf
<1> DEFINE put == OffOf(setup, ex.next, ex.sends)
           tasks == TasksOf(setup, ex.next, ex.sends)
<1>6. ex' = [ex EXCEPT !.pc = "run", !.plan = tasks, !.outs = FoundOutcomes, !.skip = {},
                       !.next = @ \ put, !.deferred = Deferring]
  BY <1>2, <1>4 DEF Plan
<1>7. Deferring \subseteq Names(setup)
  BY <1>1, <1>4, <1>5 DEF Deferring, IsExecution
<1> HIDE DEF put, tasks
<1>8. /\ ex'.pc = "run" /\ ex'.plan = tasks /\ ex'.outs = FoundOutcomes /\ ex'.next = ex.next \ put
      /\ ex'.sends = ex.sends /\ Keeps(ex') /\ ex'.deferred = Deferring /\ ex'.parent = ex.parent
      /\ ex'.joins = ex.joins
      /\ ex' = [pc |-> ex'.pc, outcome |-> ex'.outcome, state |-> ex'.state, next |-> ex'.next,
          sends |-> ex'.sends, plan |-> ex'.plan, outs |-> ex'.outs, parent |-> ex'.parent,
          base |-> ex'.base, joins |-> ex'.joins, deferred |-> ex'.deferred, resume |-> ex'.resume,
          skip |-> ex'.skip, steps |-> ex'.steps, queue |-> ex'.queue, stop |-> ex'.stop,
          pauses |-> ex'.pauses]
  BY <1>1, <1>6 DEF IsExecution, Keeps
<1>9. IsExecution(setup, ex')
  BY <1>1, <1>3, <1>7, <1>8 DEF IsExecution, Keeps, Stages, tasks
<1> QED
  BY <1>1, <1>4, <1>8, <1>9 DEF put, tasks, Deferring

LEMMA DecideFacts ==
  ASSUME TypeInv, ex.pc = "run", NEW t \in Undecided, NEW o, Decide(t, o)
  PROVE  /\ IsExecution(setup, ex) /\ IsExecution(setup, ex') /\ Keeps(ex')
         /\ ex'.pc = "run" /\ ex'.plan = ex.plan /\ ex'.next = ex.next /\ ex'.sends = ex.sends
         /\ t \in ToSet(ex.plan) /\ t \notin DOMAIN ex.outs
         /\ DOMAIN ex'.outs = DOMAIN ex.outs \cup {t} /\ ex'.outs[t] = o
         /\ \A u \in DOMAIN ex.outs : ex'.outs[u] = ex.outs[u]
         /\ ex'.joins = ex.joins /\ ex'.deferred = ex.deferred
<1>1. IsExecution(setup, ex)
  BY ExecutionIsOn
<1>2. t \in ToSet(ex.plan) /\ t \notin DOMAIN ex.outs
  BY DEF Undecided
<1> DEFINE outs == [u \in DOMAIN ex.outs \cup {t} |-> IF u = t THEN o ELSE ex.outs[u]]
<1>3. ex' = [ex EXCEPT !.outs = outs]
  BY <1>1 DEF Decide, IsExecution
<1>4. /\ DOMAIN outs = DOMAIN ex.outs \cup {t} /\ outs[t] = o
      /\ \A u \in DOMAIN ex.outs : outs[u] = ex.outs[u]
  BY <1>2
<1> HIDE DEF outs
<1>5. /\ IsExecution(setup, ex') /\ Keeps(ex') /\ ex'.outs = outs
      /\ ex'.pc = ex.pc /\ ex'.plan = ex.plan /\ ex'.next = ex.next /\ ex'.sends = ex.sends
      /\ ex'.joins = ex.joins /\ ex'.deferred = ex.deferred
  BY <1>1, <1>3 DEF IsExecution, Keeps
<1> QED
  BY <1>1, <1>2, <1>4, <1>5

LEMMA GatherFacts ==
  ASSUME TypeInv, Gather
  PROVE  /\ ex.pc = "run" /\ IsExecution(setup, ex) /\ IsExecution(setup, ex') /\ Keeps(ex')
         /\ ex'.pc = "gathered" /\ ex'.plan = ex.plan /\ ex'.next = ex.next
         /\ ex'.sends = ex.sends /\ ex'.outs = ex.outs /\ ToSet(ex.plan) \subseteq DOMAIN ex.outs
         /\ ex'.joins = ex.joins /\ ex'.deferred = ex.deferred
<1>1. IsExecution(setup, ex)
  BY ExecutionIsOn DEF Gather
<1> QED
  BY <1>1 DEF Gather, IsExecution, Keeps, Stages, Undecided

\* One task or several: a log of nodes.
LEMMA LogFits ==
  ASSUME NEW S, NEW plan \in Seq(S \X Nat)
  PROVE  LogOf(plan) \in Seq(S) /\ Len(LogOf(plan)) = Len(plan) /\ DOMAIN LogOf(plan) = DOMAIN plan
<1>1. Len(plan) \in Nat /\ DOMAIN plan = 1 .. Len(plan) /\ \A i \in 1 .. Len(plan) : plan[i][1] \in S
  OBVIOUS
<1>2. LogOf(plan) \in [1 .. Len(plan) -> S]
  BY <1>1 DEF LogOf
<1> QED
  BY <1>1, <1>2, FcnIsSeq

LEMMA MergeFacts ==
  ASSUME TypeInv, Merge
  PROVE  /\ ex.pc = "gathered" /\ IsExecution(setup, ex) /\ IsExecution(setup, ex')
         /\ ex'.pc = "route" /\ ex'.plan = ex.plan /\ ex'.queue = ex.queue
         /\ ex'.base = ex.base /\ ex'.pauses = ex.pauses
         /\ ex'.joins = ex.joins /\ ex'.deferred = ex.deferred /\ ex'.outs = ex.outs
         /\ ex'.state.log = ex.state.log \o LogOf(ex.plan) /\ ex'.state.q = ex.state.q
         /\ shown' = {ex'.state}
<1>1. IsExecution(setup, ex) /\ ex.pc = "gathered"
  BY ExecutionIsOn DEF Merge
<1> DEFINE S == Names(setup) \cup {INPUT, EDIT}
           merged == [ex.state EXCEPT !.log = @ \o LogOf(ex.plan)]
<1>2. ex.state \in [log : Seq(S), q : Nat]
  BY <1>1 DEF IsExecution, States
<1>3. LogOf(ex.plan) \in Seq(S)
  <2>1. LogOf(ex.plan) \in Seq(Names(setup))
    BY <1>1, LogFits DEF IsExecution
  <2>2. LogOf(ex.plan) \in [1 .. Len(LogOf(ex.plan)) -> S] /\ Len(LogOf(ex.plan)) \in Nat
    BY <2>1
  <2> QED
    BY <2>2, FcnIsSeq
<1>4. ex.state.log \o LogOf(ex.plan) \in Seq(S)
  <2> HIDE DEF S
  <2> QED
    BY <1>2, <1>3, ConcatProperties
<1>5. /\ merged \in [log : Seq(S), q : Nat] /\ merged.q = ex.state.q
      /\ merged.log = ex.state.log \o LogOf(ex.plan)
  <2> HIDE DEF S
  <2> QED
    BY <1>2, <1>4
<1>6. ex' = [ex EXCEPT !.pc = "route", !.state = merged] /\ shown' = {merged}
  BY DEF Merge
<1>7. merged \in States(setup)
  BY <1>5 DEF States
<1> HIDE DEF merged
<1>8. /\ ex'.pc = "route" /\ ex'.plan = ex.plan /\ ex'.queue = ex.queue /\ ex'.state = merged
      /\ ex'.base = ex.base /\ ex'.pauses = ex.pauses /\ IsExecution(setup, ex')
      /\ ex'.joins = ex.joins /\ ex'.deferred = ex.deferred /\ ex'.outs = ex.outs
  BY <1>1, <1>6, <1>7 DEF IsExecution, Stages
<1> QED
  BY <1>1, <1>5, <1>6, <1>8

\* A checkpoint with a new id is saved, or queued for the writer.
Saves(c) ==
  /\ IsCheckpoint(setup, c) /\ c.id = ids + 1 /\ ids' = ids + 1
  /\ setup.durability = "async" => ckpts' = ckpts /\ ex'.queue = Append(ex.queue, c)
  /\ setup.durability # "async" => ckpts' = Append(ckpts, c) /\ ex'.queue = ex.queue

LEMMA SaveFacts ==
  ASSUME TypeInv, NEW c, IsCheckpoint(setup, c), c.id = ids + 1,
         NEW e, IsExecution(setup, e), e.queue = ex.queue, Save(c, e)
  PROVE  /\ Saves(c) /\ IsExecution(setup, ex') /\ AreCheckpoints(setup, ckpts')
         /\ ex'.pc = e.pc /\ ex'.outcome = e.outcome /\ ex'.state = e.state
         /\ ex'.base = e.base /\ ex'.pauses = e.pauses /\ ex'.parent = e.parent
         /\ ex'.next = e.next /\ ex'.sends = e.sends /\ ex'.plan = e.plan /\ ex'.outs = e.outs
         /\ ex'.joins = e.joins /\ ex'.deferred = e.deferred
<1>1. AreCheckpoints(setup, ckpts) /\ AreCheckpoints(setup, e.queue)
  BY DEF TypeInv, IsExecution
<1>2. CASE setup.durability = "async"
  <2> DEFINE q == Append(e.queue, c)
  <2>1. ckpts' = ckpts /\ ids' = ids + 1 /\ ex' = [e EXCEPT !.queue = q]
    BY <1>2 DEF Save, Durability, IsExecution
  <2>2. AreCheckpoints(setup, q)
    BY <1>1, ListAppend DEF AreCheckpoints
  <2>3. q = Append(ex.queue, c)
    OBVIOUS
  <2> HIDE DEF q
  <2>4. IsExecution(setup, ex') /\ ex'.queue = q
    BY <1>2, <2>1, <2>2 DEF IsExecution
  <2>5. Saves(c)
    BY <1>2, <2>1, <2>3, <2>4 DEF Saves
  <2> QED
    BY <1>1, <2>1, <2>4, <2>5 DEF IsExecution
<1>3. CASE setup.durability # "async"
  <2>1. ckpts' = Append(ckpts, c) /\ ids' = ids + 1 /\ ex' = e
    BY <1>3 DEF Save, Durability
  <2>2. AreCheckpoints(setup, ckpts')
    BY <1>1, <2>1, ListAppend DEF AreCheckpoints
  <2>3. Saves(c)
    BY <1>3, <2>1 DEF Saves
  <2> QED
    BY <2>1, <2>2, <2>3
<1> QED
  BY <1>2, <1>3

\* A new checkpoint of the execution, with tasks that are nodes.
Draws(c, names, sends, kind) ==
  /\ IsCheckpoint(setup, c) /\ c.id = ids + 1 /\ c.state = ex.state /\ c.deferred = ex.deferred
  /\ c.next = names /\ c.sends = sends /\ c.kind = kind /\ c.asks = <<>> /\ c.skip = {}
  /\ c.joins = ex.joins

LEMMA CheckpointFits ==
  ASSUME TypeInv, IsExecution(setup, ex), NEW names \in SUBSET Names(setup),
         NEW sends \in Seq(Names(setup)), NEW kind \in Kinds,
         NEW c, c = Checkpoint(ex.state, names, sends, kind)
  PROVE  Draws(c, names, sends, kind)
  BY DEF Checkpoint, IsCheckpoint, IsExecution, TypeInv, Draws

LEMMA InterruptFacts ==
  ASSUME TypeInv, InterruptBefore
  PROVE  /\ ex.pc = "plan" /\ IsExecution(setup, ex)
         /\ IsExecution(setup, ex') /\ AreCheckpoints(setup, ckpts')
         /\ ex'.pc = "close" /\ ex'.state = ex.state
         /\ \E c : /\ Saves(c) /\ c.state = ex.state /\ Parked(c) /\ c.kind = "before"
                   /\ c.next = ex.next \ OffOf(setup, ex.next, ex.sends) /\ c.sends = ex.sends
                   /\ c.deferred = ex.deferred \cup OffOf(setup, ex.next, ex.sends)
                   /\ c.joins = ex.joins
<1>1. ex.pc = "plan" /\ IsExecution(setup, ex)
  BY ExecutionIsOn DEF InterruptBefore, Looping
<1>2. PutOff(ex.next, ex.sends) = OffOf(setup, ex.next, ex.sends)
  BY DEF PutOff, OffOf, Deferred
<1>3. OffOf(setup, ex.next, ex.sends) \subseteq ex.next
  BY DEF OffOf
<1> DEFINE names == ex.next \ OffOf(setup, ex.next, ex.sends)
<1>4. PICK plain, c, e : /\ plain = Checkpoint(ex.state, names, ex.sends, "before")
                         /\ c = [plain EXCEPT !.skip = Held, !.deferred = Deferring]
                         /\ e = Stopping("paused")
  BY Zenon
<1>5. Save(c, e) /\ Held # {}
  BY <1>2, <1>4 DEF InterruptBefore
<1>6. names \subseteq Names(setup) /\ Deferring \subseteq Names(setup) /\ ex.sends \in Seq(Names(setup))
  BY <1>1, <1>2, <1>3 DEF Deferring, IsExecution
<1> HIDE DEF names
<1>7. Draws(plain, names, ex.sends, "before")
  <2>1. names \in SUBSET Names(setup) /\ ex.sends \in Seq(Names(setup)) /\ "before" \in Kinds
    BY <1>6 DEF Kinds
  <2>2. plain = Checkpoint(ex.state, names, ex.sends, "before")
    BY <1>4
  <2> QED
    BY <1>1, <2>1, <2>2, CheckpointFits
<1>8. /\ IsCheckpoint(setup, c) /\ c.id = ids + 1 /\ c.state = ex.state /\ c.skip = Held
      /\ c.next = names /\ c.sends = ex.sends /\ c.kind = "before" /\ c.joins = ex.joins
      /\ c.deferred = Deferring
  BY <1>4, <1>6, <1>7 DEF IsCheckpoint, Draws
<1>9. IsExecution(setup, e) /\ Keeps(e) /\ e.pc = "close"
  BY <1>1, <1>4, StopFacts
<1>10. /\ Saves(c) /\ IsExecution(setup, ex') /\ AreCheckpoints(setup, ckpts')
       /\ ex'.pc = e.pc /\ ex'.state = e.state
  BY <1>5, <1>8, <1>9, SaveFacts DEF Keeps
<1>11. Parked(c)
  BY <1>5, <1>8 DEF Parked
<1> QED
  BY <1>1, <1>2, <1>8, <1>9, <1>10, <1>11 DEF names, Keeps, Deferring

LEMMA PauseSaveFacts ==
  ASSUME TypeInv, PauseSave
  PROVE  /\ ex.pc = "gathered" /\ IsExecution(setup, ex)
         /\ IsExecution(setup, ex') /\ AreCheckpoints(setup, ckpts')
         /\ ex'.pc = "pausing" /\ ex'.state = ex.state /\ ex'.plan = ex.plan /\ ex'.outs = ex.outs
         /\ \E c : /\ Saves(c) /\ c.state = ex.state /\ Parked(c) /\ c.kind = "pause"
                   /\ c.next = ex.next /\ c.sends = ex.sends /\ ex'.parent = c.id
                   /\ c.joins = ex.joins /\ c.deferred = ex.deferred
<1>1. ex.pc = "gathered" /\ IsExecution(setup, ex)
  BY ExecutionIsOn DEF PauseSave
<1>2. PICK plain, c, e, asks :
        /\ asks = Among(OutcomesOf("ask"), ex.plan)
        /\ plain = Checkpoint(ex.state, ex.next, ex.sends, "pause")
        /\ c = [plain EXCEPT !.asks = asks]
        /\ e = [ex EXCEPT !.pc = "pausing", !.parent = ids + 1]
  OBVIOUS
<1>3. Save(c, e) /\ OutcomesOf("ask") # {}
  BY <1>2 DEF PauseSave
<1>4. asks # <<>>
  <2>1. IsList(ex.plan)
    BY <1>1, ListOf DEF IsExecution
  <2>2. OutcomesOf("ask") \cap ToSet(ex.plan) # {}
    BY <1>3 DEF OutcomesOf
  <2> QED
    BY <1>2, <2>1, <2>2, AmongFits
<1>5. Draws(plain, ex.next, ex.sends, "pause")
  <2>1. ex.next \in SUBSET Names(setup) /\ ex.sends \in Seq(Names(setup)) /\ "pause" \in Kinds
    BY <1>1 DEF Kinds, IsExecution
  <2>2. plain = Checkpoint(ex.state, ex.next, ex.sends, "pause")
    BY <1>2
  <2> QED
    BY <1>1, <2>1, <2>2, CheckpointFits
<1>6. /\ IsCheckpoint(setup, c) /\ c.id = ids + 1 /\ c.state = ex.state /\ c.asks = asks
      /\ c.next = ex.next /\ c.sends = ex.sends /\ c.kind = "pause"
      /\ c.joins = ex.joins /\ c.deferred = ex.deferred
  BY <1>2, <1>5 DEF IsCheckpoint, Draws
<1>7. /\ IsExecution(setup, e) /\ e.pc = "pausing" /\ e.state = ex.state /\ e.plan = ex.plan
      /\ e.outs = ex.outs /\ e.parent = ids + 1 /\ e.queue = ex.queue
  <2>1. ids + 1 \in Nat
    BY DEF TypeInv
  <2> QED
    BY <1>1, <1>2, <2>1 DEF IsExecution, Stages
<1>8. /\ Saves(c) /\ IsExecution(setup, ex') /\ AreCheckpoints(setup, ckpts')
      /\ ex'.pc = e.pc /\ ex'.state = e.state /\ ex'.plan = e.plan /\ ex'.outs = e.outs
      /\ ex'.parent = e.parent
  BY <1>3, <1>6, <1>7, SaveFacts
<1>9. Parked(c)
  BY <1>4, <1>6 DEF Parked
<1> QED
  BY <1>1, <1>6, <1>7, <1>8, <1>9

LEMMA PausePutFacts ==
  ASSUME TypeInv, PausePut
  PROVE  /\ ex.pc = "pausing" /\ IsExecution(setup, ex) /\ IsExecution(setup, ex')
         /\ ex'.pc = "close" /\ Keeps(ex') /\ ex.queue = <<>>
<1>1. ex.pc = "pausing" /\ IsExecution(setup, ex) /\ ex.queue = <<>> /\ ex' = Stopping("paused")
  BY ExecutionIsOn DEF PausePut
<1> QED
  BY <1>1, StopFacts

\* What is sent is in a set that all that is chosen is sent from.
LEMMA SendsFit ==
  ASSUME TypeInv, NEW S, NEW choice, \A n \in Completed : choice[n].sends \in Seq(S)
  PROVE  SendsOf(choice) \in Seq(S)
<1>1. IsGraph(setup)
  BY SetupsAreGraphs DEF TypeInv
<1> DEFINE order == Among(Completed, NodeSeq)
           lists == [i \in DOMAIN order |-> choice[order[i]].sends]
<1>2. order \in Seq(Completed \cap ToSet(NodeSeq))
  BY <1>1, AmongFits DEF IsGraph, NodeSeq
<1>3. Len(order) \in Nat /\ DOMAIN order = 1 .. Len(order) /\ \A i \in DOMAIN order : order[i] \in Completed
  <2> HIDE DEF order
  <2> QED
    BY <1>2
<1> HIDE DEF order
<1>4. lists \in [1 .. Len(order) -> Seq(S)]
  BY <1>3
<1> HIDE DEF lists
<1>5. lists \in Seq(Seq(S))
  BY <1>3, <1>4, FcnIsSeq
<1>6. FlattenSeq(lists) \in Seq(S)
  BY <1>5, FlattenFits
<1> QED
  BY <1>6 DEF SendsOf, InPlanOrder, order, lists

\* The next superstep's tasks are nodes, whatever the conditional edges choose.
LEMMA NextTasksFit ==
  ASSUME TypeInv, IsExecution(setup, ex), NEW choice,
         \A n \in Completed : choice[n] \in RoutesOf(n)
  PROVE  NextTasks(choice).names \subseteq Names(setup) /\ NextTasks(choice).sends \in Seq(Names(setup))
<1>1. IsGraph(setup)
  BY SetupsAreGraphs DEF TypeInv
<1>2. Completed \subseteq Names(setup)
  BY DEF Completed, TaskNames, IsExecution
<1>3. \A n \in Completed : choice[n].sends \in Seq(Names(setup))
  <2> TAKE n \in Completed
  <2>1. choice[n] = NoRoute \/ choice[n] \in setup.routes[n]
    BY DEF RoutesOf, Routes
  <2>2. CASE choice[n] = NoRoute
    <3>1. choice[n].sends = <<>> /\ <<>> \in Seq(Names(setup))
      BY <2>2 DEF NoRoute
    <3> QED
      BY <3>1
  <2>3. CASE choice[n] \in setup.routes[n]
    BY <1>1, <1>2, <2>3 DEF IsGraph
  <2> QED
    BY <2>1, <2>2, <2>3
<1> QED
  BY <1>3, SendsFit DEF NextTasks, NodeSet, NodeSeq, Names

LEMMA AdvanceFacts ==
  ASSUME IsExecution(setup, ex), NEW c, IsCheckpoint(setup, c), NEW next, NEW e, e = Advance(next, c)
  PROVE  /\ IsExecution(setup, e) /\ e.queue = ex.queue /\ e.state = ex.state /\ e.pauses = ex.pauses
         /\ e.next = c.next /\ e.sends = c.sends /\ e.plan = <<>>
         /\ e.joins = Progress /\ e.deferred = c.deferred
         /\ setup.durability # "exit" => e.base = <<c.id>>
         /\ e.pc \in {"plan", "exit", "close"}
         /\ e.pc = "plan" => c.next # {} \/ c.sends # <<>>
         /\ e.pc = "exit" => c.next = {} /\ c.sends = <<>>
         /\ e.pc = "close" => setup.after # {}
<1>1. PICK d : d = [ex EXCEPT !.next = c.next, !.sends = c.sends, !.joins = Progress,
                        !.resume = {}, !.deferred = c.deferred, !.plan = <<>>, !.outs = <<>>,
                        !.parent = IF Durability = "exit" THEN @ ELSE c.id,
                        !.base = IF Durability = "exit" THEN @ ELSE <<c.id>>,
                        !.steps = @ + 1]
  OBVIOUS
<1>2. <<>> \in Seq(Names(setup) \X Nat) /\ c.id \in Nat
  BY DEF IsCheckpoint
<1>3. /\ IsExecution(setup, d) /\ d.queue = ex.queue /\ d.state = ex.state /\ d.pauses = ex.pauses
      /\ d.next = c.next /\ d.sends = c.sends /\ d.plan = <<>>
      /\ d.joins = Progress /\ d.deferred = c.deferred
      /\ setup.durability # "exit" => d.base = <<c.id>>
  BY <1>1, <1>2 DEF IsExecution, IsCheckpoint, Durability
<1>4. e = IF Completed \cap After # {} THEN [d EXCEPT !.pc = "close", !.outcome = "paused"]
          ELSE IF c.next = {} /\ c.sends = <<>> THEN [d EXCEPT !.pc = "exit"]
          ELSE [d EXCEPT !.pc = "plan"]
  BY <1>1, Zenon DEF Advance
<1>5. CASE Completed \cap After # {}
  <2>1. e = [d EXCEPT !.pc = "close", !.outcome = "paused"] /\ setup.after # {}
    BY <1>4, <1>5 DEF After
  <2> QED
    BY <1>3, <2>1 DEF IsExecution, Stages
<1>6. CASE Completed \cap After = {} /\ c.next = {} /\ c.sends = <<>>
  <2>1. e = [d EXCEPT !.pc = "exit"]
    BY <1>4, <1>6
  <2> QED
    BY <1>3, <1>6, <2>1 DEF IsExecution, Stages
<1>7. CASE Completed \cap After = {} /\ ~(c.next = {} /\ c.sends = <<>>)
  <2>1. e = [d EXCEPT !.pc = "plan"]
    BY <1>4, <1>7
  <2> QED
    BY <1>3, <1>7, <2>1 DEF IsExecution, Stages
<1> QED
  BY <1>5, <1>6, <1>7

\* What is as it was where nothing is saved.
SavesNothing == ckpts' = ckpts /\ ids' = ids /\ ex'.queue = ex.queue

\* What is scheduled once the tasks of a superstep are merged.
Schedules(choice, next, x) ==
  /\ \A n \in Completed : choice[n] \in RoutesOf(n)
  /\ next = NextTasks(choice) /\ x.sends = next.sends /\ x.joins = Progress
  /\ x.next = IF Woken(next) THEN ex.deferred ELSE next.names
  /\ x.deferred = IF Woken(next) THEN {} ELSE ex.deferred
Scheduled(x) == \E choice, next : Schedules(choice, next, x)

LEMMA RouteFacts ==
  ASSUME TypeInv, RouteAndSave
  PROVE  /\ ex.pc = "route" /\ IsExecution(setup, ex)
         /\ IsExecution(setup, ex') /\ AreCheckpoints(setup, ckpts')
         /\ ex'.pc \in {"plan", "exit", "close"} /\ ex'.state = ex.state /\ ex'.pauses = ex.pauses
         /\ ex'.pc = "close" => setup.after # {}
         /\ ex'.pc = "plan" => ex'.next # {} \/ ex'.sends # <<>>
         /\ ex'.pc = "exit" => ex'.next = {} /\ ex'.sends = <<>>
         /\ setup.durability = "exit" => SavesNothing
         /\ Scheduled(ex')
         /\ setup.durability # "exit" =>
              \E c : /\ Saves(c) /\ c.state = ex.state /\ ~Parked(c) /\ c.kind = "loop"
                     /\ ex'.next = c.next /\ ex'.sends = c.sends /\ ex'.base = <<c.id>>
                     /\ Scheduled(c)
<1>1. ex.pc = "route" /\ IsExecution(setup, ex)
  BY ExecutionIsOn DEF RouteAndSave
<1>2. PICK choice, next, names, plain, c, e :
        /\ \A n \in Completed : choice[n] \in RoutesOf(n)
        /\ next = NextTasks(choice)
        /\ names = IF Woken(next) THEN ex.deferred ELSE next.names
        /\ plain = Checkpoint(ex.state, names, next.sends, "loop")
        /\ c = [plain EXCEPT !.joins = Progress, !.resume = {},
                             !.deferred = IF Woken(next) THEN {} ELSE @]
        /\ e = Advance(next, c)
        /\ IF Durability = "exit" THEN ex' = e /\ UNCHANGED <<ckpts, ids>> ELSE Save(c, e)
  BY Zenon DEF RouteAndSave
<1>3. next.names \subseteq Names(setup) /\ next.sends \in Seq(Names(setup))
  BY <1>1, <1>2, NextTasksFit
<1>4. names \in SUBSET Names(setup)
  BY <1>1, <1>2, <1>3 DEF IsExecution
<1>5. Draws(plain, names, next.sends, "loop")
  <2>1. "loop" \in Kinds /\ plain = Checkpoint(ex.state, names, next.sends, "loop")
    BY <1>2 DEF Kinds
  <2> QED
    BY <1>1, <1>3, <1>4, <2>1, CheckpointFits
<1>6. /\ IsCheckpoint(setup, c) /\ c.id = ids + 1 /\ c.state = ex.state /\ c.kind = "loop"
      /\ c.asks = <<>> /\ c.skip = {} /\ Schedules(choice, next, c)
  <2>1. PICK deferred : deferred = IF Woken(next) THEN {} ELSE plain.deferred
    OBVIOUS
  <2>2. deferred \subseteq Names(setup)
    BY <1>5, <2>1 DEF Draws, IsCheckpoint
  <2>3. c = [plain EXCEPT !.joins = Progress, !.resume = {}, !.deferred = deferred]
    BY <1>2, <1>5, <2>1 DEF Draws, IsCheckpoint
  <2>4. /\ IsCheckpoint(setup, c) /\ c.id = ids + 1 /\ c.state = ex.state /\ c.kind = "loop"
        /\ c.asks = <<>> /\ c.skip = {} /\ c.joins = Progress /\ c.deferred = deferred
        /\ c.next = names /\ c.sends = next.sends
    BY <1>5, <2>2, <2>3 DEF Draws, IsCheckpoint
  <2>5. plain.deferred = ex.deferred
    BY <1>5 DEF Draws
  <2> QED
    BY <1>2, <2>1, <2>4, <2>5 DEF Schedules
<1>7. ~Parked(c)
  BY <1>6 DEF Parked
<1>8. /\ IsExecution(setup, e) /\ e.queue = ex.queue /\ e.state = ex.state /\ e.pauses = ex.pauses
      /\ e.next = c.next /\ e.sends = c.sends /\ e.plan = <<>>
      /\ e.joins = Progress /\ e.deferred = c.deferred
      /\ setup.durability # "exit" => e.base = <<c.id>>
      /\ e.pc \in {"plan", "exit", "close"}
      /\ e.pc = "plan" => c.next # {} \/ c.sends # <<>>
      /\ e.pc = "exit" => c.next = {} /\ c.sends = <<>>
      /\ e.pc = "close" => setup.after # {}
  <2>1. e = Advance(next, c)
    BY <1>2
  <2> QED
    BY <1>1, <1>6, <2>1, AdvanceFacts
<1>11. Scheduled(c) /\ Schedules(choice, next, e)
  BY <1>6, <1>8 DEF Scheduled, Schedules
<1>9. CASE setup.durability = "exit"
  <2>1. ex' = e /\ ckpts' = ckpts /\ ids' = ids
    BY <1>2, <1>9 DEF Durability
  <2> QED
    BY <1>1, <1>8, <1>9, <1>11, <2>1 DEF SavesNothing, TypeInv, Scheduled
<1>10. CASE setup.durability # "exit"
  <2>1. Save(c, e)
    BY <1>2, <1>10 DEF Durability
  <2>2. /\ Saves(c) /\ IsExecution(setup, ex') /\ AreCheckpoints(setup, ckpts')
        /\ ex'.pc = e.pc /\ ex'.state = e.state /\ ex'.base = e.base /\ ex'.pauses = e.pauses
        /\ ex'.next = e.next /\ ex'.sends = e.sends
        /\ ex'.joins = e.joins /\ ex'.deferred = e.deferred
    BY <1>6, <1>8, <2>1, SaveFacts
  <2>3. Scheduled(ex')
    BY <1>11, <2>2 DEF Scheduled, Schedules
  <2> QED
    BY <1>1, <1>6, <1>7, <1>8, <1>10, <1>11, <2>2, <2>3
<1> QED
  BY <1>9, <1>10

LEMMA CompleteFacts ==
  ASSUME TypeInv, Complete
  PROVE  /\ ex.pc = "exit" /\ IsExecution(setup, ex)
         /\ IsExecution(setup, ex') /\ AreCheckpoints(setup, ckpts')
         /\ ex'.pc = "close" /\ ex'.state = ex.state
         /\ setup.durability # "exit" => SavesNothing
         /\ setup.durability = "exit" =>
              \E c : /\ Saves(c) /\ c.state = ex.state /\ c.kind = "exit" /\ c.next = {}
                     /\ c.sends = <<>> /\ c.joins = NoProgress /\ c.deferred = {}
<1>1. ex.pc = "exit" /\ IsExecution(setup, ex)
  BY ExecutionIsOn DEF Complete
<1>2. PICK plain, c, e :
        /\ plain = Checkpoint(ex.state, {}, <<>>, "exit")
        /\ c = [plain EXCEPT !.joins = NoProgress, !.deferred = {}, !.resume = {}]
        /\ e = Stopping("done")
        /\ IF Durability = "exit" THEN Save(c, e) ELSE ex' = e /\ UNCHANGED <<ckpts, ids>>
  BY Zenon DEF Complete
<1>3. Draws(plain, {}, <<>>, "exit")
  <2>1. /\ "exit" \in Kinds /\ {} \in SUBSET Names(setup) /\ <<>> \in Seq(Names(setup))
        /\ plain = Checkpoint(ex.state, {}, <<>>, "exit")
    BY <1>2 DEF Kinds
  <2> QED
    BY <1>1, <2>1, CheckpointFits
<1>4. /\ IsCheckpoint(setup, c) /\ c.id = ids + 1 /\ c.state = ex.state /\ c.kind = "exit"
      /\ c.next = {} /\ c.sends = <<>> /\ c.joins = NoProgress /\ c.deferred = {}
  BY <1>2, <1>3 DEF IsCheckpoint, Draws
<1>5. IsExecution(setup, e) /\ Keeps(e) /\ e.pc = "close"
  BY <1>1, <1>2, StopFacts
<1>6. CASE setup.durability = "exit"
  <2>1. Save(c, e)
    BY <1>2, <1>6 DEF Durability
  <2>2. /\ Saves(c) /\ IsExecution(setup, ex') /\ AreCheckpoints(setup, ckpts')
        /\ ex'.pc = e.pc /\ ex'.state = e.state
    BY <1>4, <1>5, <2>1, SaveFacts DEF Keeps
  <2> QED
    BY <1>1, <1>4, <1>5, <1>6, <2>2 DEF Keeps
<1>7. CASE setup.durability # "exit"
  <2>1. ex' = e /\ ckpts' = ckpts /\ ids' = ids
    BY <1>2, <1>7 DEF Durability
  <2> QED
    BY <1>1, <1>5, <1>7, <2>1 DEF SavesNothing, TypeInv, Keeps
<1> QED
  BY <1>6, <1>7

LEMMA WriterFacts ==
  ASSUME TypeInv, WriterStep
  PROVE  /\ ex # Off /\ IsExecution(setup, ex) /\ setup.durability = "async"
         /\ IsExecution(setup, ex') /\ AreCheckpoints(setup, ckpts')
         /\ ex.queue # <<>> /\ ckpts' = Append(ckpts, Head(ex.queue)) /\ ex'.queue = Tail(ex.queue)
         /\ ex'.pc = ex.pc /\ ex'.outcome = ex.outcome /\ ex'.state = ex.state
         /\ ex'.base = ex.base /\ ex'.pauses = ex.pauses /\ ex'.parent = ex.parent
         /\ ex'.next = ex.next /\ ex'.sends = ex.sends /\ ex'.plan = ex.plan /\ ex'.outs = ex.outs
         /\ ex'.joins = ex.joins /\ ex'.deferred = ex.deferred
<1>1. ex # Off /\ IsExecution(setup, ex) /\ ex.queue # <<>> /\ AreCheckpoints(setup, ckpts)
  BY DEF WriterStep, TypeInv
<1>2. PICK q : q = Tail(ex.queue)
  OBVIOUS
<1>3. ckpts' = Append(ckpts, Head(ex.queue)) /\ ex' = [ex EXCEPT !.queue = q]
  BY <1>1, <1>2 DEF WriterStep, IsExecution
<1>4. /\ AreCheckpoints(setup, ex.queue) /\ setup.durability = "async"
      /\ IsCheckpoint(setup, Head(ex.queue)) /\ AreCheckpoints(setup, q)
  <2>1. AreCheckpoints(setup, ex.queue) /\ setup.durability = "async"
    BY <1>1 DEF IsExecution
  <2> QED
    BY <1>1, <1>2, <2>1, ListTail DEF AreCheckpoints
<1>5. AreCheckpoints(setup, ckpts')
  BY <1>1, <1>3, <1>4, ListAppend DEF AreCheckpoints
<1>6. /\ IsExecution(setup, ex') /\ ex'.queue = q
      /\ ex'.pc = ex.pc /\ ex'.outcome = ex.outcome /\ ex'.state = ex.state
      /\ ex'.base = ex.base /\ ex'.pauses = ex.pauses /\ ex'.parent = ex.parent
      /\ ex'.next = ex.next /\ ex'.sends = ex.sends /\ ex'.plan = ex.plan /\ ex'.outs = ex.outs
      /\ ex'.joins = ex.joins /\ ex'.deferred = ex.deferred
  BY <1>1, <1>3, <1>4 DEF IsExecution
<1> QED
  BY <1>1, <1>2, <1>3, <1>4, <1>5, <1>6

LEMMA WriterFailsFacts ==
  ASSUME TypeInv, WriterFails
  PROVE  /\ ex # Off /\ IsExecution(setup, ex) /\ IsExecution(setup, ex')
         /\ ex'.queue = <<>> /\ ex'.pc = "close" /\ ex'.outcome \in {"retry", "dead_letter"}
         /\ ex'.state = ex.state /\ ckpts' = ckpts /\ ids' = ids /\ writes' = writes /\ effects' = effects
         /\ shown' = shown /\ run' = run
<1>1. ex # Off /\ IsExecution(setup, ex)
  BY DEF WriterFails, TypeInv
<1>2. PICK e : e = Stopping(Redeliver) /\ ex' = [e EXCEPT !.queue = <<>>]
  BY DEF WriterFails
<1>3. IsExecution(setup, e) /\ e.pc = "close" /\ e.outcome = Redeliver /\ e.state = ex.state
  BY <1>1, <1>2, StopFacts DEF Keeps
<1>4. AreCheckpoints(setup, <<>>)
  <2>1. <<>> \in Seq({}) /\ ToSet(<<>>) = {}
    BY DEF ToSet
  <2> QED
    BY <2>1 DEF AreCheckpoints, IsList
<1>5. /\ IsExecution(setup, ex') /\ ex'.queue = <<>> /\ ex'.pc = "close"
      /\ ex'.outcome = Redeliver /\ ex'.state = ex.state
  BY <1>2, <1>3, <1>4 DEF IsExecution
<1>6. Redeliver \in {"retry", "dead_letter"}
  BY DEF Redeliver
<1> QED
  BY <1>1, <1>5, <1>6 DEF WriterFails, stored, history

LEMMA CancelFacts ==
  ASSUME TypeInv, Cancel
  PROVE  /\ ex # Off /\ IsExecution(setup, ex) /\ IsExecution(setup, ex')
         /\ ex'.queue = ex.queue
         /\ ex'.pc = ex.pc /\ ex'.outcome = ex.outcome /\ ex'.state = ex.state
         /\ ex'.base = ex.base /\ ex'.pauses = ex.pauses /\ ex'.parent = ex.parent
         /\ ex'.next = ex.next /\ ex'.sends = ex.sends /\ ex'.plan = ex.plan /\ ex'.outs = ex.outs
         /\ ex'.joins = ex.joins /\ ex'.deferred = ex.deferred
<1>1. ex # Off /\ IsExecution(setup, ex) /\ ex' = [ex EXCEPT !.stop = TRUE]
  BY DEF Cancel, TypeInv
<1> QED
  BY <1>1 DEF IsExecution

LEMMA ForkFacts ==
  ASSUME TypeInv, NEW i \in DOMAIN ckpts, Fork(i)
  PROVE  /\ setup.forks /\ AreCheckpoints(setup, ckpts')
         /\ \E c : /\ IsCheckpoint(setup, c) /\ c.id = ids + 1 /\ ids' = ids + 1
                   /\ ckpts' = Append(ckpts, c)
                   /\ c.kind = IF ex = Off THEN "edit" ELSE "overtaken"
                   /\ c.state.log = Append(ckpts[i].state.log, EDIT)
                   /\ c.state.q = ckpts[i].state.q
                   /\ c.next = ckpts[i].next /\ c.sends = ckpts[i].sends
                   /\ c.joins = ckpts[i].joins /\ c.deferred = ckpts[i].deferred
<1>1. IsCheckpoint(setup, ckpts[i]) /\ AreCheckpoints(setup, ckpts)
  BY DEF TypeInv, AreCheckpoints, ToSet
<1>2. PICK b, s, k, c :
        /\ b = ckpts[i] /\ s = [b.state EXCEPT !.log = Append(@, EDIT)]
        /\ k = IF ex = Off THEN "edit" ELSE "overtaken"
        /\ c = [b EXCEPT !.id = ids + 1, !.parent = b.id, !.state = s, !.kind = k]
  BY Zenon
<1>3. ckpts' = Append(ckpts, c)
  <2>1. c = [ckpts[i] EXCEPT !.id = ids + 1, !.parent = ckpts[i].id, !.state.log = Append(@, EDIT),
                             !.kind = IF ex = Off THEN "edit" ELSE "overtaken"]
    BY <1>1, <1>2 DEF IsCheckpoint
  <2> QED
    BY <2>1 DEF Fork
<1> DEFINE S == Names(setup) \cup {INPUT, EDIT}
<1>4. b.state \in [log : Seq(S), q : Nat] /\ EDIT \in S
  BY <1>1, <1>2 DEF IsCheckpoint, States
<1>5. s \in [log : Seq(S), q : Nat] /\ s.log = Append(b.state.log, EDIT) /\ s.q = b.state.q
  <2> HIDE DEF S
  <2>1. Append(b.state.log, EDIT) \in Seq(S)
    BY <1>4
  <2> QED
    BY <1>2, <1>4, <2>1
<1>6. s \in States(setup) /\ k \in Kinds
  BY <1>2, <1>5 DEF States, Kinds
<1>7. /\ IsCheckpoint(setup, c) /\ c.id = ids + 1 /\ c.kind = k /\ c.state = s
      /\ c.next = b.next /\ c.sends = b.sends /\ c.joins = b.joins /\ c.deferred = b.deferred
  <2>1. /\ IsCheckpoint(setup, b) /\ ids + 1 \in Nat \ {0}
        /\ c = [b EXCEPT !.id = ids + 1, !.parent = b.id, !.state = s, !.kind = k]
    BY <1>1, <1>2 DEF TypeInv
  <2> QED
    BY <1>6, <2>1 DEF IsCheckpoint
<1>8. AreCheckpoints(setup, ckpts')
  BY <1>1, <1>3, <1>7, ListAppend DEF AreCheckpoints
<1>9. ids' = ids + 1 /\ setup.forks
  BY DEF Fork, Forks
<1>10. /\ c.kind = IF ex = Off THEN "edit" ELSE "overtaken"
       /\ c.state.log = Append(ckpts[i].state.log, EDIT) /\ c.state.q = ckpts[i].state.q
       /\ c.next = ckpts[i].next /\ c.sends = ckpts[i].sends
       /\ c.joins = ckpts[i].joins /\ c.deferred = ckpts[i].deferred
  BY <1>2, <1>5, <1>7
<1> QED
  BY <1>3, <1>7, <1>8, <1>9, <1>10

-----------------------------------------------------------------------------
(* The invariance of the types.                                             *)

Decides(t) == TaskReturns(t) \/ TaskInterrupts(t) \/ TaskStops(t) \/ TaskRaises(t)

LEMMA StepCases ==
  ASSUME Next
  PROVE  \/ Start \/ StopAtLoopHead \/ Plan \/ InterruptBefore \/ Gather \/ RaiseFailure
         \/ PauseSave \/ PausePut \/ Merge \/ RouteAndSave \/ Complete \/ WriterStep \/ Close
         \/ StepTimesOut \/ WriterFails \/ Crash \/ Cancel \/ SubmitInput \/ SubmitResume
         \/ UNCHANGED vars
         \/ \E t \in ToSet(ex.plan) : ex # Off /\ Decides(t)
         \/ \E i \in DOMAIN ckpts : Fork(i)
<1>1. CASE \E t \in Tasks : TaskReturns(t) \/ TaskInterrupts(t) \/ TaskStops(t) \/ TaskRaises(t)
  BY <1>1 DEF Decides, Tasks
<1> QED
  BY <1>1 DEF Next, Delivery, Faults, Quiescent

\* A step that only stops the delivery.
Stops ==
  /\ ex # Off /\ ckpts' = ckpts /\ ids' = ids /\ run' = run /\ shown' = shown
  /\ effects' = effects /\ asked' = asked
  /\ IsExecution(setup, ex) /\ IsExecution(setup, ex') /\ ex'.pc = "close" /\ Keeps(ex')

LEMMA StopsFacts ==
  ASSUME TypeInv, StopAtLoopHead \/ StepTimesOut \/ RaiseFailure \/ PausePut
  PROVE  /\ Stops /\ ex.pc \in {"plan", "run", "gathered", "pausing"}
         /\ ex'.outcome \in {"done", "paused"} => ex.pc = "pausing"
         /\ ~PausePut => writes' = writes
<1>1. PICK outcome : ex' = Stopping(outcome) /\ (outcome \in {"done", "paused"} => ex.pc = "pausing")
  BY DEF StopAtLoopHead, StepTimesOut, RaiseFailure, PausePut, Redeliver
<1>2. /\ ex.pc \in {"plan", "run", "gathered", "pausing"}
      /\ ckpts' = ckpts /\ ids' = ids /\ run' = run /\ shown' = shown
      /\ effects' = effects /\ asked' = asked /\ (~PausePut => writes' = writes)
  BY DEF StopAtLoopHead, StepTimesOut, RaiseFailure, PausePut, stored, history
<1>3. ex # Off /\ IsExecution(setup, ex)
  BY <1>2, ExecutionIsOn
<1>4. IsExecution(setup, ex') /\ Keeps(ex') /\ ex'.pc = "close" /\ ex'.outcome = outcome
  BY <1>1, <1>3, StopFacts
<1> QED
  BY <1>1, <1>2, <1>3, <1>4 DEF Stops

LEMMA DecidesFacts ==
  ASSUME TypeInv, NEW t \in ToSet(ex.plan), ex # Off, Decides(t)
  PROVE  /\ ex.pc = "run" /\ IsExecution(setup, ex) /\ IsExecution(setup, ex') /\ Keeps(ex')
         /\ ex'.pc = "run" /\ ex'.plan = ex.plan /\ ex'.next = ex.next /\ ex'.sends = ex.sends
         /\ t \in ToSet(ex.plan) /\ t \notin DOMAIN ex.outs
         /\ DOMAIN ex'.outs = DOMAIN ex.outs \cup {t} /\ ex'.outs[t].from = Stamp(ex.state)
         /\ \A u \in DOMAIN ex.outs : ex'.outs[u] = ex.outs[u]
         /\ ex'.joins = ex.joins /\ ex'.deferred = ex.deferred
         /\ ex'.outs[t].goto \in {{}} \cup Gotos[t[1]]
         /\ ckpts' = ckpts /\ ids' = ids /\ run' = run /\ shown' = shown
         /\ writes' = writes /\ asked' = asked
         /\ \/ effects' = effects
            \/ effects' = effects \cup {[key |-> KeyOf(t), task |-> t, from |-> Stamp(ex.state),
                                         pauses |-> ex.pauses, delivery |-> <<run.n, run.attempt>>]}
<1>1. ex.pc = "run" /\ t \in Undecided
  BY DEF Decides, TaskReturns, TaskInterrupts, TaskStops, TaskRaises
<1>2. PICK kind, goto :
        /\ goto \in {{}} \cup Gotos[t[1]]
        /\ Decide(t, [kind |-> kind, from |-> Stamp(ex.state), goto |-> goto])
  BY DEF Decides, TaskReturns, TaskInterrupts, TaskStops, TaskRaises
<1>3. PICK o : o = [kind |-> kind, from |-> Stamp(ex.state), goto |-> goto]
  OBVIOUS
<1>4. /\ IsExecution(setup, ex) /\ IsExecution(setup, ex') /\ Keeps(ex')
      /\ ex'.pc = "run" /\ ex'.plan = ex.plan /\ ex'.next = ex.next /\ ex'.sends = ex.sends
      /\ t \in ToSet(ex.plan) /\ t \notin DOMAIN ex.outs
      /\ DOMAIN ex'.outs = DOMAIN ex.outs \cup {t} /\ ex'.outs[t] = o
      /\ \A u \in DOMAIN ex.outs : ex'.outs[u] = ex.outs[u]
      /\ ex'.joins = ex.joins /\ ex'.deferred = ex.deferred
  <2>1. Decide(t, o)
    BY <1>2, <1>3
  <2> QED
    BY <1>1, <2>1, DecideFacts
<1>5. /\ ckpts' = ckpts /\ ids' = ids /\ run' = run /\ shown' = shown
      /\ writes' = writes /\ asked' = asked
      /\ \/ effects' = effects
         \/ effects' = effects \cup {[key |-> KeyOf(t), task |-> t, from |-> Stamp(ex.state),
                                      pauses |-> ex.pauses, delivery |-> <<run.n, run.attempt>>]}
  BY DEF Decides, TaskReturns, TaskInterrupts, TaskStops, TaskRaises, stored, history
<1> QED
  BY <1>1, <1>2, <1>3, <1>4, <1>5

\* A step that no stored list, no execution and no published state changes.
Elsewhere ==
  /\ ckpts' = ckpts /\ ids' = ids /\ writes' = writes /\ effects' = effects /\ shown' = shown

LEMMA CloseFacts ==
  ASSUME TypeInv, Close
  PROVE  /\ Elsewhere /\ IsRun(run') /\ asked' = asked
         /\ ex # Off /\ IsExecution(setup, ex) /\ ex' = Off /\ ex.pc = "close" /\ ex.queue = <<>>
         /\ run'.status = IF ex.outcome = "retry" THEN "pending" ELSE ex.outcome
         /\ run'.kind = run.kind /\ run'.n = run.n
<1>1. ex.pc = "close" /\ run' = [run EXCEPT !.status = IF ex.outcome = "retry" THEN "pending" ELSE ex.outcome]
  BY DEF Close
<1>2. ex # Off /\ IsExecution(setup, ex)
  BY <1>1, ExecutionIsOn
<1>3. Elsewhere /\ asked' = asked /\ ex' = Off /\ ex.queue = <<>>
  BY DEF Close, Elsewhere, stored, history
<1> QED
  BY <1>1, <1>2, <1>3 DEF TypeInv, IsRun

LEMMA CrashFacts ==
  ASSUME TypeInv, Crash
  PROVE  /\ Elsewhere /\ IsRun(run') /\ asked' = asked /\ ex # Off /\ ex' = Off
         /\ run'.status \in {"pending", "dead_letter"}
         /\ run'.kind = run.kind /\ run'.n = run.n
<1>1. PICK status \in {"pending", "dead_letter"} : run' = [run EXCEPT !.status = status]
  BY DEF Crash
<1>2. Elsewhere /\ asked' = asked /\ ex # Off /\ ex' = Off
  BY DEF Crash, Elsewhere, stored, history
<1> QED
  BY <1>1, <1>2 DEF TypeInv, IsRun

LEMMA SubmitFacts ==
  ASSUME TypeInv, SubmitInput \/ SubmitResume
  PROVE  /\ Elsewhere /\ IsRun(run') /\ ex' = ex /\ run'.status = "pending"
         /\ SubmitInput \/ run'.kind = "resume"
         /\ \E a : asked' = Append(asked, a)
<1> DEFINE Submits(kind, to) ==
             /\ run' = [n |-> run.n + 1, kind |-> kind, to |-> to, status |-> "pending",
                        attempt |-> 0]
             /\ kind = "resume" \/ (kind = "input" /\ SubmitInput)
<1>1. PICK kind, to : Submits(kind, to)
  <2>1. CASE SubmitInput
    <3>1. Submits("input", NoTask)
      BY <2>1 DEF SubmitInput
    <3> QED
      BY <3>1
  <2>2. CASE SubmitResume
    <3>1. PICK to : run' = [n |-> run.n + 1, kind |-> "resume", to |-> to, status |-> "pending",
                            attempt |-> 0]
      BY <2>2 DEF SubmitResume
    <3>2. Submits("resume", to)
      BY <3>1
    <3> QED
      BY <3>2
  <2> QED
    BY <2>1, <2>2
<1>2. Elsewhere /\ ex' = ex
  BY DEF SubmitInput, SubmitResume, Elsewhere, stored
<1>3. \E a : asked' = Append(asked, a)
  BY DEF SubmitInput, SubmitResume
<1> QED
  BY <1>1, <1>2, <1>3 DEF TypeInv, IsRun

LEMMA TypeStep ==
  ASSUME TypeInv, [Next]_vars
  PROVE  TypeInv'
<1> DEFINE New == /\ ids' \in Nat /\ IsRun(run') /\ AreCheckpoints(setup, ckpts')
                  /\ (ex' # Off => IsExecution(setup, ex'))
<1>1. SUFFICES New
  BY SetupStays DEF TypeInv
<1>2. ids \in Nat /\ IsRun(run) /\ AreCheckpoints(setup, ckpts) /\ (ex # Off => IsExecution(setup, ex))
  BY DEF TypeInv
<1>3. \A c : Saves(c) => ids' \in Nat
  BY <1>2 DEF Saves
<1>4. CASE Start
  <2>1. ckpts' = ckpts /\ ids' = ids
    BY <1>4 DEF Start, stored
  <2> QED
    BY <1>2, <1>4, <2>1, StartFacts
<1>5. CASE StopAtLoopHead \/ StepTimesOut \/ RaiseFailure \/ PausePut
  BY <1>2, <1>5, StopsFacts DEF Stops
<1>6. CASE Plan
  <2>1. ckpts' = ckpts /\ ids' = ids /\ run' = run
    BY <1>6 DEF Plan, stored
  <2> QED
    BY <1>2, <1>6, <2>1, PlanFacts
<1>7. CASE Gather
  <2>1. ckpts' = ckpts /\ ids' = ids /\ run' = run
    BY <1>7 DEF Gather
  <2> QED
    BY <1>2, <1>7, <2>1, GatherFacts
<1>8. CASE Merge
  <2>1. ckpts' = ckpts /\ ids' = ids /\ run' = run
    BY <1>8 DEF Merge, stored
  <2> QED
    BY <1>2, <1>8, <2>1, MergeFacts
<1>9. CASE InterruptBefore
  <2>1. run' = run
    BY <1>9 DEF InterruptBefore
  <2> QED
    BY <1>2, <1>3, <1>9, <2>1, InterruptFacts
<1>10. CASE PauseSave
  <2>1. run' = run
    BY <1>10 DEF PauseSave
  <2> QED
    BY <1>2, <1>3, <1>10, <2>1, PauseSaveFacts
<1>11. CASE RouteAndSave
  <2>1. run' = run
    BY <1>11 DEF RouteAndSave
  <2> QED
    BY <1>2, <1>3, <1>11, <2>1, RouteFacts DEF SavesNothing
<1>12. CASE Complete
  <2>1. run' = run
    BY <1>12 DEF Complete
  <2> QED
    BY <1>2, <1>3, <1>12, <2>1, CompleteFacts DEF SavesNothing
<1>13. CASE WriterStep
  <2>1. ids' = ids /\ run' = run
    BY <1>13 DEF WriterStep
  <2> QED
    BY <1>2, <1>13, <2>1, WriterFacts
<1>14. CASE WriterFails
  BY <1>2, <1>14, WriterFailsFacts
<1>15. CASE Cancel
  <2>1. ckpts' = ckpts /\ ids' = ids /\ run' = run
    BY <1>15 DEF Cancel, stored
  <2> QED
    BY <1>2, <1>15, <2>1, CancelFacts
<1>16. CASE Close
  BY <1>2, <1>16, CloseFacts DEF Elsewhere
<1>17. CASE Crash
  BY <1>2, <1>17, CrashFacts DEF Elsewhere
<1>18. CASE SubmitInput \/ SubmitResume
  BY <1>2, <1>18, SubmitFacts DEF Elsewhere
<1>19. CASE UNCHANGED vars
  BY <1>2, <1>19 DEF vars
<1>20. CASE \E t \in ToSet(ex.plan) : ex # Off /\ Decides(t)
  BY <1>2, <1>20, DecidesFacts
<1>21. CASE \E i \in DOMAIN ckpts : Fork(i)
  <2>1. PICK i \in DOMAIN ckpts : Fork(i)
    BY <1>21
  <2>2. ex' = ex /\ run' = run
    BY <2>1 DEF Fork
  <2> QED
    BY <1>2, <2>1, <2>2, ForkFacts
<1> HIDE DEF New
<1> QED
  BY <1>4, <1>5, <1>6, <1>7, <1>8, <1>9, <1>10, <1>11, <1>12, <1>13, <1>14, <1>15, <1>16, <1>17,
     <1>18, <1>19, <1>20, <1>21, StepCases

THEOREM TypeInvariance == Spec => []TypeInv
<1>1. Init => TypeInv
  <2> SUFFICES ASSUME Init PROVE TypeInv
    OBVIOUS
  <2>1. <<>> \in Seq({}) /\ ToSet(<<>>) = {}
    BY DEF ToSet
  <2> QED
    BY <2>1 DEF Init, TypeInv, IsRun, AreCheckpoints, IsList
<1>2. TypeInv /\ [Next]_vars => TypeInv'
  BY TypeStep
<1> QED
  BY <1>1, <1>2, PTL DEF Spec

-----------------------------------------------------------------------------
(* Stored results.                                                          *)

\* What is stored under the base checkpoint for a task of the plan was found when the
\* superstep was planned: the task is decided.
StoredInv ==
  ex.pc = "run" =>
    \A w \in writes : w.base = ex.base /\ w.task \in ToSet(ex.plan) => w.task \in DOMAIN ex.outs

\* The actions by which a delivery is running its tasks, and all others.
LEMMA RunningSteps ==
  ASSUME TypeInv, [Next]_vars, ex'.pc = "run"
  PROVE  \/ Plan
         \/ ex # Off /\ \E t \in ToSet(ex.plan) : Decides(t)
         \/ /\ ex.pc = "run" /\ ex'.plan = ex.plan /\ ex'.base = ex.base /\ ex'.outs = ex.outs
            /\ writes' = writes /\ effects' = effects
<1> DEFINE Same == /\ ex.pc = "run" /\ ex'.plan = ex.plan /\ ex'.base = ex.base
                   /\ ex'.outs = ex.outs /\ writes' = writes /\ effects' = effects
<1> SUFFICES ASSUME ~Plan, ~(ex # Off /\ \E t \in ToSet(ex.plan) : Decides(t))
             PROVE  Same
  OBVIOUS
<1>1. Off.pc # "run"
  BY DEF Off
<1>2. CASE ex' = ex /\ writes' = writes /\ effects' = effects
  BY <1>2
<1>3. CASE WriterStep
  BY <1>3, WriterFacts DEF WriterStep, history
<1>4. CASE Cancel
  BY <1>4, CancelFacts DEF Cancel, stored, history
<1>5. CASE UNCHANGED vars \/ SubmitInput \/ SubmitResume
  <2>1. ex' = ex /\ writes' = writes /\ effects' = effects
    BY <1>5, SubmitFacts DEF vars, Elsewhere
  <2> QED
    BY <1>2, <2>1
<1>6. CASE \E i \in DOMAIN ckpts : Fork(i)
  <2>1. ex' = ex /\ writes' = writes /\ effects' = effects
    BY <1>6 DEF Fork, history
  <2> QED
    BY <1>2, <2>1
<1>7. ASSUME Start \/ InterruptBefore \/ Gather \/ PauseSave \/ Merge \/ RouteAndSave \/ Complete
             \/ StopAtLoopHead \/ StepTimesOut \/ RaiseFailure \/ PausePut \/ WriterFails
      PROVE  FALSE
  <2>1. ex'.pc # "run"
    BY <1>7, StartFacts, InterruptFacts, GatherFacts, PauseSaveFacts, MergeFacts, RouteFacts,
       CompleteFacts, StopsFacts, WriterFailsFacts DEF Stops
  <2> QED
    BY <2>1
<1>8. ASSUME Close \/ Crash PROVE FALSE
  BY <1>1, <1>8, CloseFacts, CrashFacts
<1> HIDE DEF Same
<1> QED
  BY <1>3, <1>4, <1>5, <1>6, <1>7, <1>8, StepCases

LEMMA StoredStep ==
  ASSUME TypeInv, StoredInv, [Next]_vars
  PROVE  StoredInv'
<1> SUFFICES ASSUME ex'.pc = "run", NEW w \in writes', w.base = ex'.base, w.task \in ToSet(ex'.plan)
             PROVE  w.task \in DOMAIN ex'.outs
  BY DEF StoredInv
<1>1. CASE Plan
  <2>1. /\ ex'.plan = TasksOf(setup, ex.next, ex.sends) /\ ex'.outs = FoundOutcomes
        /\ ex'.base = ex.base
    BY <1>1, PlanFacts DEF Keeps
  <2>2. writes' = writes /\ Planned = TasksOf(setup, ex.next, ex.sends)
    BY <1>1, RunsOfSetup DEF Plan, stored, Planned
  <2>3. w \in {v \in WritesUnder(ex.base) : v.task \in ToSet(Planned)}
    BY <2>1, <2>2 DEF WritesUnder
  <2> QED
    BY <2>1, <2>3 DEF FoundOutcomes
<1>2. CASE ex # Off /\ \E t \in ToSet(ex.plan) : Decides(t)
  BY <1>2, DecidesFacts DEF Keeps, StoredInv
<1>3. CASE /\ ex.pc = "run" /\ ex'.plan = ex.plan /\ ex'.base = ex.base /\ ex'.outs = ex.outs
           /\ writes' = writes
  BY <1>3 DEF StoredInv
<1> QED
  BY <1>1, <1>2, <1>3, RunningSteps

\* Only a task that returns adds to what tasks have done.
LEMMA EffectSteps ==
  ASSUME TypeInv, [Next]_vars
  PROVE  \/ effects' = effects
         \/ ex # Off /\ \E t \in ToSet(ex.plan) : Decides(t)
<1>1. CASE Start \/ InterruptBefore \/ Gather \/ PauseSave \/ Merge \/ RouteAndSave \/ Complete
           \/ Plan \/ WriterStep \/ Cancel
  BY <1>1 DEF Start, InterruptBefore, Gather, PauseSave, Merge, RouteAndSave, Complete, Plan,
              WriterStep, Cancel, history
<1>2. CASE StopAtLoopHead \/ StepTimesOut \/ RaiseFailure \/ PausePut
  BY <1>2, StopsFacts DEF Stops
<1>3. CASE WriterFails
  BY <1>3, WriterFailsFacts
<1>4. CASE Close \/ Crash \/ SubmitInput \/ SubmitResume \/ UNCHANGED vars
  BY <1>4, CloseFacts, CrashFacts, SubmitFacts DEF Elsewhere, vars
<1>5. CASE \E i \in DOMAIN ckpts : Fork(i)
  BY <1>5 DEF Fork, history
<1> QED
  BY <1>1, <1>2, <1>3, <1>4, <1>5, StepCases DEF vars

LEMMA EffectsAreNew ==
  ASSUME TypeInv, StoredInv, [Next]_vars
  PROVE  \A e \in effects' \ effects : \A w \in writes : <<w.base, w.task>> # e.key
<1> SUFFICES ASSUME NEW e \in effects' \ effects, NEW w \in writes, <<w.base, w.task>> = e.key
             PROVE  FALSE
  OBVIOUS
<1>1. PICK t \in ToSet(ex.plan) : ex # Off /\ Decides(t)
  BY EffectSteps
<1>2. /\ ex.pc = "run" /\ t \notin DOMAIN ex.outs
      /\ e = [key |-> KeyOf(t), task |-> t, from |-> Stamp(ex.state),
              pauses |-> ex.pauses, delivery |-> <<run.n, run.attempt>>]
  BY <1>1, DecidesFacts
<1>3. w.base = ex.base /\ w.task = t
  BY <1>2 DEF KeyOf
<1> QED
  BY <1>1, <1>2, <1>3 DEF StoredInv

\* Claim: a task whose result is stored under its base checkpoint is not executed again, over
\* crashes, redeliveries and pauses.
THEOREM ResultsAreServed == Spec => StoredResultIsNotRecomputed
<1>1. Init => StoredInv
  BY DEF Init, StoredInv, Off
<1>2. TypeInv /\ StoredInv /\ [Next]_vars => StoredInv'
  BY StoredStep
<1>3. TypeInv /\ StoredInv /\ [Next]_vars =>
        [\A e \in effects' \ effects : \A w \in writes : <<w.base, w.task>> # e.key]_vars
  BY EffectsAreNew
<1> QED
  BY <1>1, <1>2, <1>3, TypeInvariance, PTL DEF Spec, StoredResultIsNotRecomputed

-----------------------------------------------------------------------------
(* What is saved of what was shown.                                         *)

\* The checkpoints that are saved or will be unless the worker is lost.
Queue == IF ex = Off THEN <<>> ELSE ex.queue
Known == ToSet(ckpts) \cup ToSet(Queue)

LEMMA NothingInNone == IsList(<<>>) /\ ToSet(<<>>) = {}
<1>1. <<>> \in Seq({}) /\ ToSet(<<>>) = {}
  BY DEF ToSet
<1> QED
  BY <1>1 DEF IsList

LEMMA KnownSaves ==
  ASSUME TypeInv, ex # Off, ex' # Off, NEW c, Saves(c)
  PROVE  Known' = Known \cup {c}
<1>1. IsList(ckpts) /\ IsList(ex.queue)
  BY DEF TypeInv, AreCheckpoints, IsExecution
<1>2. CASE setup.durability = "async"
  <2>1. ckpts' = ckpts /\ ex'.queue = Append(ex.queue, c)
    BY <1>2 DEF Saves
  <2>2. ToSet(Append(ex.queue, c)) = ToSet(ex.queue) \cup {c}
    BY <1>1, ListAppend
  <2> QED
    BY <2>1, <2>2 DEF Known, Queue
<1>3. CASE setup.durability # "async"
  <2>1. ckpts' = Append(ckpts, c) /\ ex'.queue = ex.queue
    BY <1>3 DEF Saves
  <2>2. ToSet(Append(ckpts, c)) = ToSet(ckpts) \cup {c}
    BY <1>1, ListAppend
  <2> QED
    BY <2>1, <2>2 DEF Known, Queue
<1> QED
  BY <1>2, <1>3

LEMMA KnownWriter ==
  ASSUME TypeInv, WriterStep
  PROVE  Known' = Known /\ ex # Off /\ ex' # Off
<1>1. /\ ex # Off /\ IsExecution(setup, ex) /\ IsExecution(setup, ex') /\ ex.queue # <<>>
      /\ ckpts' = Append(ckpts, Head(ex.queue)) /\ ex'.queue = Tail(ex.queue)
  BY WriterFacts
<1>2. IsList(ckpts) /\ IsList(ex.queue)
  BY <1>1 DEF TypeInv, AreCheckpoints, IsExecution
<1>3. ToSet(ckpts') = ToSet(ckpts) \cup {Head(ex.queue)}
  BY <1>1, <1>2, ListAppend
<1>4. ToSet(ex.queue) = ToSet(ex'.queue) \cup {Head(ex.queue)}
  BY <1>1, <1>2, ListTail
<1>5. ex' # Off
  BY <1>1, OnWithStage
<1> QED
  BY <1>1, <1>3, <1>4, <1>5 DEF Known, Queue

LEMMA KnownFork ==
  ASSUME TypeInv, NEW c, ckpts' = Append(ckpts, c), ex' = ex
  PROVE  Known' = Known \cup {c}
<1>1. ToSet(ckpts') = ToSet(ckpts) \cup {c}
  BY ListAppend DEF TypeInv, AreCheckpoints
<1> QED
  BY <1>1 DEF Known, Queue

\* A pause under EXIT in front of which nothing is saved.
PausesUnsaved == Durability = "exit" /\ After # {}

Committed ==
  \/ ex.pc \in {"plan", "run", "gathered", "exit"} /\ setup.durability # "exit"
  \/ ex.pc = "pausing"
  \/ ex.pc = "close" /\ ex.outcome \in {"done", "paused"} /\ ~PausesUnsaved
  \/ ex = Off /\ run.status \in {"done", "paused"} /\ ~PausesUnsaved

\* While a delivery goes on, what it published is its state; but for the step between merge
\* and save, that state is saved or queued.
ShownInv ==
  /\ ex # Off => shown \subseteq {ex.state}
  /\ Committed => \A s \in shown : \E c \in Known : c.state = s

LEMMA ShownStays ==
  ASSUME ShownInv, Known \subseteq Known', shown' = shown, Committed' => Committed,
         ex' # Off => ex # Off /\ ex'.state = ex.state
  PROVE  ShownInv'
  BY DEF ShownInv

LEMMA ShownSaved ==
  ASSUME TypeInv, ShownInv, ex # Off, ex' # Off, NEW c, Saves(c), c.state = ex.state,
         shown' = shown, ex'.state = ex.state
  PROVE  ShownInv'
<1>1. c \in Known'
  BY KnownSaves
<1> QED
  BY <1>1 DEF ShownInv

LEMMA ShownStep ==
  ASSUME TypeInv, ShownInv, [Next]_vars
  PROVE  ShownInv'
<1>1. setup' = setup /\ PausesUnsaved' = PausesUnsaved
  BY SetupStays DEF PausesUnsaved, Durability, After
<1>2. Off.pc = "off"
  BY DEF Off
<1>3. ASSUME ex # Off, ex' # Off, Keeps(ex') \/ (ex'.state = ex.state /\ ex'.queue = ex.queue),
             ckpts' = ckpts, shown' = shown, Committed' => Committed
      PROVE  ShownInv'
  <2>1. Known' = Known
    BY <1>3 DEF Known, Queue, Keeps
  <2> QED
    BY <1>3, <2>1, ShownStays DEF Keeps
<1>4. CASE Start
  <2>1. shown' = {}
    BY <1>4, StartFacts
  <2> QED
    BY <2>1 DEF ShownInv
<1>5. CASE StopAtLoopHead \/ StepTimesOut \/ RaiseFailure \/ PausePut
  <2>1. Stops /\ (ex'.outcome \in {"done", "paused"} => ex.pc = "pausing")
    BY <1>5, StopsFacts
  <2>2. ex' # Off
    BY <2>1, OnWithStage DEF Stops
  <2>3. Committed' => Committed
    BY <1>1, <2>1, <2>2 DEF Committed, Stops
  <2> QED
    BY <1>3, <2>1, <2>2, <2>3 DEF Stops
<1>6. CASE Plan \/ Gather
  <2>1. /\ ex.pc \in {"plan", "run"} /\ ex'.pc \in {"run", "gathered"} /\ Keeps(ex')
        /\ IsExecution(setup, ex) /\ IsExecution(setup, ex')
    BY <1>6, PlanFacts, GatherFacts
  <2>2. ckpts' = ckpts /\ shown' = shown
    BY <1>6 DEF Plan, Gather, stored, history
  <2>3. ex # Off /\ ex' # Off
    BY <2>1, OnWithStage
  <2>4. Committed' => Committed
    BY <1>1, <2>1, <2>3 DEF Committed
  <2> QED
    BY <1>3, <2>1, <2>2, <2>3, <2>4
<1>7. CASE Merge
  <2>1. /\ IsExecution(setup, ex') /\ ex'.pc = "route" /\ shown' = {ex'.state}
    BY <1>7, MergeFacts
  <2>2. ex' # Off
    BY <2>1, OnWithStage
  <2>3. ~Committed'
    BY <2>1, <2>2 DEF Committed
  <2> QED
    BY <2>1, <2>3 DEF ShownInv
<1>8. CASE InterruptBefore \/ PauseSave
  <2>1. PICK c : /\ Saves(c) /\ c.state = ex.state /\ ex'.state = ex.state
                 /\ IsExecution(setup, ex) /\ IsExecution(setup, ex')
    BY <1>8, InterruptFacts, PauseSaveFacts
  <2>2. shown' = shown
    BY <1>8 DEF InterruptBefore, PauseSave, history
  <2>3. ex # Off /\ ex' # Off
    BY <2>1, OnWithStage
  <2> QED
    BY <2>1, <2>2, <2>3, ShownSaved
<1>9. CASE RouteAndSave
  <2>1. /\ IsExecution(setup, ex) /\ IsExecution(setup, ex') /\ ex'.state = ex.state
        /\ ex'.pc \in {"plan", "exit", "close"} /\ (ex'.pc = "close" => setup.after # {})
    BY <1>9, RouteFacts
  <2>2. shown' = shown
    BY <1>9 DEF RouteAndSave, history
  <2>3. ex # Off /\ ex' # Off
    BY <2>1, OnWithStage
  <2>4. CASE setup.durability = "exit"
    <3>1. SavesNothing
      BY <1>9, <2>4, RouteFacts
    <3>2. ~Committed'
      BY <1>1, <2>1, <2>3, <2>4 DEF Committed, PausesUnsaved, Durability, After
    <3> QED
      BY <1>3, <2>1, <2>2, <2>3, <3>1, <3>2 DEF SavesNothing
  <2>5. CASE setup.durability # "exit"
    <3>1. PICK c : Saves(c) /\ c.state = ex.state
      BY <1>9, <2>5, RouteFacts
    <3> QED
      BY <2>1, <2>2, <2>3, <3>1, ShownSaved
  <2> QED
    BY <2>4, <2>5
<1>10. CASE Complete
  <2>1. /\ ex.pc = "exit" /\ IsExecution(setup, ex) /\ IsExecution(setup, ex')
        /\ ex'.state = ex.state /\ ex'.pc = "close"
    BY <1>10, CompleteFacts
  <2>2. shown' = shown
    BY <1>10 DEF Complete, history
  <2>3. ex # Off /\ ex' # Off
    BY <2>1, OnWithStage
  <2>4. CASE setup.durability # "exit"
    <3>1. SavesNothing
      BY <1>10, <2>4, CompleteFacts
    <3>2. Committed
      BY <2>1, <2>4 DEF Committed
    <3> QED
      BY <1>3, <2>1, <2>2, <2>3, <3>1, <3>2 DEF SavesNothing
  <2>5. CASE setup.durability = "exit"
    <3>1. PICK c : Saves(c) /\ c.state = ex.state
      BY <1>10, <2>5, CompleteFacts
    <3> QED
      BY <2>1, <2>2, <2>3, <3>1, ShownSaved
  <2> QED
    BY <2>4, <2>5
<1>11. CASE WriterStep
  <2>1. Known' = Known /\ ex # Off /\ ex' # Off
    BY <1>11, KnownWriter
  <2>2. ex'.pc = ex.pc /\ ex'.outcome = ex.outcome /\ ex'.state = ex.state
    BY <1>11, WriterFacts
  <2>3. shown' = shown /\ run' = run
    BY <1>11 DEF WriterStep, history
  <2>4. Committed' => Committed
    BY <1>1, <2>1, <2>2, <2>3 DEF Committed
  <2> QED
    BY <2>1, <2>2, <2>3, <2>4, ShownStays
<1>12. CASE WriterFails
  <2>1. /\ ex # Off /\ ex'.pc = "close" /\ ex'.outcome \in {"retry", "dead_letter"}
        /\ ex'.state = ex.state /\ shown' = shown /\ IsExecution(setup, ex')
    BY <1>12, WriterFailsFacts
  <2>2. ex' # Off
    BY <2>1, OnWithStage
  <2>3. ~Committed'
    BY <2>1, <2>2 DEF Committed
  <2> QED
    BY <2>1, <2>3 DEF ShownInv
<1>13. CASE Cancel
  <2>1. /\ ex # Off /\ IsExecution(setup, ex') /\ ex'.queue = ex.queue /\ ex'.pc = ex.pc
        /\ ex'.outcome = ex.outcome /\ ex'.state = ex.state
    BY <1>13, CancelFacts
  <2>2. ckpts' = ckpts /\ shown' = shown /\ run' = run
    BY <1>13 DEF Cancel, stored, history
  <2>3. ex' # Off
    BY <2>1, OnWithStage
  <2>4. Committed' => Committed
    BY <1>1, <2>1, <2>2, <2>3 DEF Committed
  <2> QED
    BY <1>3, <2>1, <2>2, <2>3, <2>4
<1>14. CASE Close
  <2>1. /\ Elsewhere /\ ex # Off /\ ex' = Off /\ ex.pc = "close" /\ ex.queue = <<>>
        /\ run'.status = IF ex.outcome = "retry" THEN "pending" ELSE ex.outcome
    BY <1>14, CloseFacts
  <2>2. Known' = Known
    BY <2>1 DEF Known, Queue, Elsewhere
  <2>3. Committed' => Committed
    BY <1>1, <1>2, <2>1 DEF Committed
  <2> QED
    BY <2>1, <2>2, <2>3, ShownStays DEF Elsewhere
<1>15. CASE Crash
  <2>1. ex' = Off /\ run'.status \in {"pending", "dead_letter"}
    BY <1>15, CrashFacts
  <2> QED
    BY <1>2, <2>1 DEF Committed, ShownInv
<1>16. CASE SubmitInput \/ SubmitResume
  <2>1. Elsewhere /\ ex' = ex /\ run'.status = "pending"
    BY <1>16, SubmitFacts
  <2>2. Known' = Known
    BY <2>1 DEF Known, Queue, Elsewhere
  <2>3. Committed' => Committed
    BY <1>1, <2>1 DEF Committed
  <2> QED
    BY <2>1, <2>2, <2>3, ShownStays DEF Elsewhere
<1>17. CASE UNCHANGED vars
  BY <1>1, <1>17, ShownStays DEF vars, Known, Queue, Committed
<1>18. CASE \E t \in ToSet(ex.plan) : ex # Off /\ Decides(t)
  <2>1. /\ ex # Off /\ ex.pc = "run" /\ ex'.pc = "run" /\ Keeps(ex') /\ IsExecution(setup, ex')
        /\ ckpts' = ckpts /\ shown' = shown
    BY <1>18, DecidesFacts
  <2>2. ex' # Off
    BY <2>1, OnWithStage
  <2>3. Committed' => Committed
    BY <1>1, <2>1, <2>2 DEF Committed
  <2> QED
    BY <1>3, <2>1, <2>2, <2>3
<1>19. CASE \E i \in DOMAIN ckpts : Fork(i)
  <2>1. PICK c : ckpts' = Append(ckpts, c)
    BY <1>19, ForkFacts
  <2>2. ex' = ex /\ run' = run /\ shown' = shown
    BY <1>19 DEF Fork, history
  <2>3. Known' = Known \cup {c}
    BY <2>1, <2>2, KnownFork
  <2>4. Committed' => Committed
    BY <1>1, <2>2 DEF Committed
  <2> QED
    BY <2>2, <2>3, <2>4, ShownStays
<1> QED
  BY <1>4, <1>5, <1>6, <1>7, <1>8, <1>9, <1>10, <1>11, <1>12, <1>13, <1>14, <1>15, <1>16, <1>17,
     <1>18, <1>19, StepCases DEF vars

LEMMA ShownIsSaved == ASSUME ShownInv PROVE OutcomeIsDurable
<1> SUFFICES ASSUME ex = Off, run.status \in {"done", "paused"}, ~PausesUnsaved, NEW s \in shown
             PROVE  s \in SavedStates
  BY DEF OutcomeIsDurable, PausesUnsaved
<1>1. PICK c \in Known : c.state = s
  BY DEF ShownInv, Committed
<1>2. c \in ToSet(ckpts)
  BY NothingInNone DEF Known, Queue
<1> QED
  BY <1>1, <1>2 DEF SavedStates, ToSet

-----------------------------------------------------------------------------
(* Edits between two runs.                                                  *)

Edits == {"edit", "overtaken"}

\* The i-th checkpoint is an edit made while nothing executed, and no edit follows it.
LastEdit(list, i) ==
  /\ i \in DOMAIN list /\ list[i].kind = "edit"
  /\ \A m \in (i + 1) .. Len(list) : list[m].kind \notin Edits

KeepsEdits(list, state) ==
  \A i \in DOMAIN list : LastEdit(list, i) => Count(state.log, EDIT) = Count(list[i].state.log, EDIT)

\* The latest edit is part of what executes and of what is to be saved.
QuietInv ==
  /\ QuietEditSurvives
  /\ ex # Off => KeepsEdits(ckpts, ex.state)
  /\ \A c \in ToSet(Queue) : c.kind \notin Edits /\ KeepsEdits(ckpts, c.state)

\* A checkpoint that is no edit of its own, and what was true of the list before.
LEMMA QuietAppend ==
  ASSUME IsList(ckpts), NEW c, ckpts' = Append(ckpts, c), c.kind \notin Edits,
         KeepsEdits(ckpts, c.state), QuietEditSurvives
  PROVE  QuietEditSurvives' /\ \A s : KeepsEdits(ckpts, s) => KeepsEdits(ckpts', s)
<1> DEFINE n == Len(ckpts)
<1>1. /\ n \in Nat /\ DOMAIN ckpts = 1 .. n /\ DOMAIN ckpts' = 1 .. n + 1 /\ Len(ckpts') = n + 1
      /\ ckpts'[n + 1] = c /\ \A i \in 1 .. n : ckpts'[i] = ckpts[i]
  BY ListAppend
<1>2. ASSUME NEW i \in DOMAIN ckpts', NEW k \in DOMAIN ckpts', i < k, ckpts'[i].kind = "edit",
             \A m \in (i + 1) .. k : ckpts'[m].kind \notin Edits
      PROVE  Count(ckpts'[k].state.log, EDIT) = Count(ckpts'[i].state.log, EDIT)
  <2>1. i \in 1 .. n /\ ckpts'[i] = ckpts[i]
    BY <1>1, <1>2
  <2>2. CASE k = n + 1
    <3>1. \A m \in (i + 1) .. n : ckpts[m].kind \notin Edits
      <4> TAKE m \in (i + 1) .. n
      <4>1. m \in (i + 1) .. k /\ m \in 1 .. n
        BY <1>1, <2>1, <2>2
      <4> QED
        BY <1>1, <1>2, <4>1
    <3>2. LastEdit(ckpts, i)
      BY <1>1, <1>2, <2>1, <3>1 DEF LastEdit
    <3> QED
      BY <1>1, <2>1, <2>2, <3>2 DEF KeepsEdits
  <2>3. CASE k # n + 1
    <3>1. k \in 1 .. n
      BY <1>1, <2>3
    <3>2. \A m \in (i + 1) .. k : ckpts[m].kind \notin Edits
      <4> TAKE m \in (i + 1) .. k
      <4>1. m \in 1 .. n
        BY <1>1, <2>1, <3>1
      <4> QED
        BY <1>1, <1>2, <4>1
    <3> QED
      BY <1>1, <1>2, <2>1, <3>1, <3>2 DEF QuietEditSurvives, Edits
  <2> QED
    BY <2>2, <2>3
<1>3. ASSUME NEW s, KeepsEdits(ckpts, s), NEW i \in DOMAIN ckpts', LastEdit(ckpts', i)
      PROVE  Count(s.log, EDIT) = Count(ckpts'[i].state.log, EDIT)
  <2>1. i # n + 1
    BY <1>1, <1>3 DEF LastEdit, Edits
  <2>2. i \in 1 .. n
    BY <1>1, <1>3, <2>1
  <2>3. \A m \in (i + 1) .. n : ckpts[m].kind \notin Edits
    <3> TAKE m \in (i + 1) .. n
    <3>1. m \in (i + 1) .. Len(ckpts') /\ m \in 1 .. n
      BY <1>1, <2>2
    <3> QED
      BY <1>1, <1>3, <3>1 DEF LastEdit
  <2>4. LastEdit(ckpts, i)
    BY <1>1, <1>3, <2>2, <2>3 DEF LastEdit
  <2> QED
    BY <1>1, <1>3, <2>2, <2>4 DEF KeepsEdits
<1> QED
  BY <1>2, <1>3 DEF QuietEditSurvives, KeepsEdits, Edits

\* An edit, whatever it continues: nothing after it is compared with an earlier one.
LEMMA QuietEdit ==
  ASSUME IsList(ckpts), NEW c, ckpts' = Append(ckpts, c), c.kind \in Edits, QuietEditSurvives
  PROVE  /\ QuietEditSurvives'
         /\ c.kind = "overtaken" => \A s : KeepsEdits(ckpts', s)
<1> DEFINE n == Len(ckpts)
<1>1. /\ n \in Nat /\ DOMAIN ckpts = 1 .. n /\ DOMAIN ckpts' = 1 .. n + 1 /\ Len(ckpts') = n + 1
      /\ ckpts'[n + 1] = c /\ \A i \in 1 .. n : ckpts'[i] = ckpts[i]
  BY ListAppend
<1>2. ASSUME NEW i \in DOMAIN ckpts', NEW k \in DOMAIN ckpts', i < k, ckpts'[i].kind = "edit",
             \A m \in (i + 1) .. k : ckpts'[m].kind \notin Edits
      PROVE  Count(ckpts'[k].state.log, EDIT) = Count(ckpts'[i].state.log, EDIT)
  <2>1. k # n + 1
    <3>1. k = n + 1 => k \in (i + 1) .. k
      BY <1>1, <1>2
    <3> QED
      BY <1>1, <1>2, <3>1
  <2>2. i \in 1 .. n /\ k \in 1 .. n
    BY <1>1, <1>2, <2>1
  <2>3. \A m \in (i + 1) .. k : ckpts[m].kind \notin Edits
    <3> TAKE m \in (i + 1) .. k
    <3>1. m \in 1 .. n
      BY <1>1, <2>2
    <3> QED
      BY <1>1, <1>2, <3>1
  <2> QED
    BY <1>1, <1>2, <2>2, <2>3 DEF QuietEditSurvives, Edits
<1>3. ASSUME c.kind = "overtaken", NEW i \in DOMAIN ckpts', LastEdit(ckpts', i) PROVE FALSE
  <2>1. i # n + 1
    BY <1>1, <1>3 DEF LastEdit
  <2>2. n + 1 \in (i + 1) .. Len(ckpts')
    BY <1>1, <1>3, <2>1
  <2> QED
    BY <1>1, <1>3, <2>2 DEF LastEdit
<1> QED
  BY <1>2, <1>3 DEF QuietEditSurvives, KeepsEdits, Edits

LEMMA QuietSaves ==
  ASSUME TypeInv, QuietInv, ex # Off, ex' # Off, NEW c, Saves(c), c.state = ex.state,
         c.kind \notin Edits, ex'.state = ex.state
  PROVE  QuietInv'
<1>1. IsList(ckpts) /\ IsList(ex.queue) /\ KeepsEdits(ckpts, ex.state) /\ QuietEditSurvives
  BY DEF TypeInv, AreCheckpoints, IsExecution, QuietInv
<1>2. \A d \in ToSet(ex.queue) : d.kind \notin Edits /\ KeepsEdits(ckpts, d.state)
  BY DEF QuietInv, Queue
<1>3. CASE setup.durability = "async"
  <2>1. ckpts' = ckpts /\ ex'.queue = Append(ex.queue, c)
    BY <1>3 DEF Saves
  <2>2. ToSet(ex'.queue) = ToSet(ex.queue) \cup {c}
    BY <1>1, <2>1, ListAppend
  <2> QED
    BY <1>1, <1>2, <2>1, <2>2 DEF QuietInv, Queue, QuietEditSurvives
<1>4. CASE setup.durability # "async"
  <2>1. ckpts' = Append(ckpts, c) /\ ex'.queue = ex.queue
    BY <1>4 DEF Saves
  <2>2. QuietEditSurvives' /\ \A s : KeepsEdits(ckpts, s) => KeepsEdits(ckpts', s)
    BY <1>1, <2>1, QuietAppend
  <2> QED
    BY <1>1, <1>2, <2>1, <2>2 DEF QuietInv, Queue
<1> QED
  BY <1>3, <1>4

LEMMA QuietStart ==
  ASSUME TypeInv, QuietEditSurvives
  PROVE  KeepsEdits(ckpts, Applied.state)
<1>1. CASE ckpts = <<>>
  BY <1>1 DEF KeepsEdits
<1>2. CASE ckpts # <<>>
  <2> DEFINE n == Len(ckpts)
  <2>1. /\ Loaded = ckpts[n] /\ n \in DOMAIN ckpts /\ Loaded.state \in States(setup)
    BY <1>2, LoadedFits DEF Latest
  <2>2. n \in Nat /\ DOMAIN ckpts = 1 .. n
    BY <1>2, ListTail DEF TypeInv, AreCheckpoints
  <2>3. Count(Applied.state.log, EDIT) = Count(Loaded.state.log, EDIT)
    <3>1. CASE run.kind = "input"
      <4> DEFINE S == Names(setup) \cup {INPUT, EDIT}
      <4>1. Applied.state.log = Append(Loaded.state.log, INPUT) /\ Loaded.state.log \in Seq(S)
        BY <2>1, <3>1, AppliedFits DEF States
      <4>2. INPUT \in S /\ INPUT # EDIT
        BY DEF INPUT, EDIT
      <4> HIDE DEF S
      <4>3. PICK log \in Seq(S) : log = Loaded.state.log
        BY <4>1
      <4>4. Count(Append(log, INPUT), EDIT) = Count(log, EDIT) + (IF INPUT = EDIT THEN 1 ELSE 0)
        BY <4>2, CountAppend
      <4>5. Count(log, EDIT) \in Nat
        BY CountFits
      <4> QED
        BY <4>1, <4>2, <4>3, <4>4, <4>5
    <3>2. CASE run.kind # "input"
      BY <3>2, AppliedFits
    <3> QED
      BY <3>1, <3>2
  <2>4. ASSUME NEW i \in DOMAIN ckpts, LastEdit(ckpts, i)
        PROVE  Count(Loaded.state.log, EDIT) = Count(ckpts[i].state.log, EDIT)
    <3>1. CASE i = n
      BY <2>1, <3>1
    <3>2. CASE i # n
      <4>1. i < n
        BY <2>2, <3>2
      <4> QED
        BY <2>1, <2>4, <4>1 DEF LastEdit, QuietEditSurvives, Edits
    <3> QED
      BY <3>1, <3>2
  <2> QED
    BY <2>3, <2>4 DEF KeepsEdits
<1> QED
  BY <1>1, <1>2

LEMMA QuietStep ==
  ASSUME TypeInv, QuietInv, [Next]_vars
  PROVE  QuietInv'
<1>1. IsList(ckpts) /\ QuietEditSurvives
  BY DEF TypeInv, AreCheckpoints, QuietInv
<1>2. ASSUME ckpts' = ckpts, ex' # Off => ex # Off /\ ex'.state = ex.state /\ ex'.queue = ex.queue
      PROVE  QuietInv'
  <2>1. ToSet(Queue') \subseteq ToSet(Queue)
    BY <1>2, NothingInNone DEF Queue
  <2> QED
    BY <1>2, <2>1 DEF QuietInv, QuietEditSurvives
<1>3. CASE Start
  <2>1. ckpts' = ckpts /\ ex'.state = Applied.state /\ ex'.queue = <<>>
    BY <1>3, StartFacts DEF Start, stored
  <2>2. KeepsEdits(ckpts, Applied.state)
    BY <1>1, QuietStart
  <2> QED
    BY <1>1, <2>1, <2>2, NothingInNone DEF QuietInv, QuietEditSurvives, Queue
<1>4. CASE StopAtLoopHead \/ StepTimesOut \/ RaiseFailure \/ PausePut
  BY <1>2, <1>4, StopsFacts DEF Stops, Keeps
<1>5. CASE Plan \/ Gather
  <2>1. Keeps(ex') /\ IsExecution(setup, ex)
    BY <1>5, PlanFacts, GatherFacts
  <2>2. ckpts' = ckpts
    BY <1>5 DEF Plan, Gather, stored
  <2> QED
    BY <1>2, <2>1, <2>2, OnWithStage DEF Keeps
<1>6. CASE Merge
  <2>1. /\ IsExecution(setup, ex) /\ IsExecution(setup, ex') /\ ex'.queue = ex.queue
        /\ ex'.state.log = ex.state.log \o LogOf(ex.plan)
    BY <1>6, MergeFacts
  <2>2. ckpts' = ckpts /\ ex # Off /\ ex' # Off
    BY <1>6, <2>1, OnWithStage DEF Merge, stored
  <2> DEFINE S == Names(setup) \cup {INPUT, EDIT}
  <2>3. PICK more, log : more = LogOf(ex.plan) /\ log = ex.state.log
    OBVIOUS
  <2>4. more \in Seq(Names(setup)) /\ log \in Seq(S)
    BY <2>1, <2>3, LogFits DEF IsExecution, States
  <2>5. IsGraph(setup)
    BY SetupsAreGraphs DEF TypeInv
  <2>6. /\ \A i \in DOMAIN more : more[i] \in Names(setup) /\ more[i] # EDIT
        /\ Len(more) \in Nat /\ DOMAIN more = 1 .. Len(more) /\ more \in [1 .. Len(more) -> S]
    BY <2>4, <2>5 DEF IsGraph
  <2> HIDE DEF S
  <2>7. more \in Seq(S)
    BY <2>6, FcnIsSeq
  <2>8. Count(log \o more, EDIT) = Count(log, EDIT)
    BY <2>4, <2>6, <2>7, CountConcat
  <2> QED
    BY <2>1, <2>2, <2>3, <2>8 DEF QuietInv, QuietEditSurvives, Queue, KeepsEdits
<1>7. CASE InterruptBefore \/ PauseSave
  <2>1. PICK c : /\ Saves(c) /\ c.state = ex.state /\ ex'.state = ex.state /\ c.kind \notin Edits
                 /\ IsExecution(setup, ex) /\ IsExecution(setup, ex')
    BY <1>7, InterruptFacts, PauseSaveFacts DEF Edits
  <2> QED
    BY <2>1, OnWithStage, QuietSaves
<1>8. CASE RouteAndSave \/ Complete
  <2>1. /\ IsExecution(setup, ex) /\ IsExecution(setup, ex') /\ ex'.state = ex.state
        /\ \/ SavesNothing
           \/ \E c : Saves(c) /\ c.state = ex.state /\ c.kind \notin Edits
    BY <1>8, RouteFacts, CompleteFacts DEF Edits
  <2>2. ex # Off /\ ex' # Off
    BY <2>1, OnWithStage
  <2>3. CASE SavesNothing
    BY <1>2, <2>1, <2>2, <2>3 DEF SavesNothing
  <2> QED
    BY <2>1, <2>2, <2>3, QuietSaves
<1>9. CASE WriterStep
  <2> DEFINE c == Head(ex.queue)
  <2>1. /\ ex # Off /\ IsExecution(setup, ex) /\ IsExecution(setup, ex') /\ ex.queue # <<>>
        /\ ckpts' = Append(ckpts, c) /\ ex'.queue = Tail(ex.queue) /\ ex'.state = ex.state
    BY <1>9, WriterFacts
  <2>2. ToSet(ex.queue) = ToSet(ex'.queue) \cup {c}
    BY <2>1, ListTail DEF IsExecution, AreCheckpoints
  <2> HIDE DEF c
  <2>3. c.kind \notin Edits /\ KeepsEdits(ckpts, c.state)
    BY <2>1, <2>2 DEF QuietInv, Queue
  <2>4. QuietEditSurvives' /\ \A s : KeepsEdits(ckpts, s) => KeepsEdits(ckpts', s)
    BY <1>1, <2>1, <2>3, QuietAppend
  <2>5. ex' # Off
    BY <2>1, OnWithStage
  <2> QED
    BY <2>1, <2>2, <2>4, <2>5 DEF QuietInv, Queue
<1>10. CASE WriterFails
  <2>1. ex # Off /\ ex'.queue = <<>> /\ ex'.state = ex.state /\ ckpts' = ckpts
    BY <1>10, WriterFailsFacts
  <2> QED
    BY <2>1, NothingInNone DEF QuietInv, QuietEditSurvives, Queue
<1>11. CASE Cancel
  <2>1. ckpts' = ckpts
    BY <1>11 DEF Cancel, stored
  <2> QED
    BY <1>2, <1>11, <2>1, CancelFacts
<1>12. CASE Close \/ Crash \/ SubmitInput \/ SubmitResume \/ UNCHANGED vars
  <2>1. ckpts' = ckpts /\ (ex' = Off \/ ex' = ex)
    BY <1>12, CloseFacts, CrashFacts, SubmitFacts DEF Elsewhere, vars
  <2> QED
    BY <1>2, <2>1
<1>13. CASE \E t \in ToSet(ex.plan) : ex # Off /\ Decides(t)
  BY <1>2, <1>13, DecidesFacts DEF Keeps
<1>14. CASE \E i \in DOMAIN ckpts : Fork(i)
  <2>1. PICK c : /\ ckpts' = Append(ckpts, c)
                 /\ c.kind = IF ex = Off THEN "edit" ELSE "overtaken"
    BY <1>14, ForkFacts
  <2>2. ex' = ex
    BY <1>14 DEF Fork
  <2>3. QuietEditSurvives' /\ (c.kind = "overtaken" => \A s : KeepsEdits(ckpts', s))
    BY <1>1, <2>1, QuietEdit DEF Edits
  <2> QED
    BY <2>1, <2>2, <2>3, NothingInNone DEF QuietInv, Queue
<1> QED
  BY <1>3, <1>4, <1>5, <1>6, <1>7, <1>8, <1>9, <1>10, <1>11, <1>12, <1>13, <1>14, StepCases DEF vars

\* Claim: what clients were told is part of the thread -- the final state of a run, and an
\* edit made between two runs -- whatever crashes, failed writes and redeliveries happen.
THEOREM CommittedSurvives == Spec => []CommittedStateSurvives
<1>1. Init => ShownInv /\ QuietInv
  <2> SUFFICES ASSUME Init PROVE ShownInv /\ QuietInv
    OBVIOUS
  <2>1. ex = Off /\ ckpts = <<>> /\ shown = {}
    BY DEF Init
  <2> QED
    BY <2>1, NothingInNone DEF ShownInv, QuietInv, QuietEditSurvives, Queue
<1>2. TypeInv /\ ShownInv /\ QuietInv /\ [Next]_vars => ShownInv' /\ QuietInv'
  BY ShownStep, QuietStep
<1>3. ShownInv /\ QuietInv => CommittedStateSurvives
  BY ShownIsSaved DEF QuietInv, CommittedStateSurvives
<1> QED
  BY <1>1, <1>2, <1>3, TypeInvariance, PTL DEF Spec

-----------------------------------------------------------------------------
(* The lineage.                                                             *)

RoutesFrom(g, name) == IF g.routes[name] = {} THEN {NoRoute} ELSE g.routes[name]
EntriesOf(g) == {PlanOf(g, g.entry \cup r.names, r.sends) : r \in RoutesFrom(g, START)}

\* A checkpoint as the contract sees it, and the last of a list of them.
Point(g, c) == [log |-> c.state.log, plan |-> PlanOf(g, c.next, c.sends)]
TipOf(g, list) == IF list = <<>> THEN [log |-> <<>>, plan |-> <<>>] ELSE Point(g, list[Len(list)])

Stimulates(tip, log) == log = tip.log \/ log = Append(tip.log, INPUT)
MayRun(g, tip, plan) == IF tip.plan = <<>> THEN plan \in EntriesOf(g) ELSE plan = tip.plan

\* A step of the contract from tip to point.
Follows(g, tip, point) ==
  \/ \E log, plan : Stimulates(tip, log) /\ MayRun(g, tip, plan) /\ point.log = log \o plan
  \/ Stimulates(tip, point.log) /\ MayRun(g, tip, point.plan)

LEMMA EntriesOfSetup == EntryPlans = EntriesOf(setup)
<1>1. \A names, sends : LogOf(Runs(names, sends)) = PlanOf(setup, names, sends)
  BY RunsOfSetup DEF PlanOf
<1>2. EntryTasks = {[names |-> setup.entry \cup r.names, sends |-> r.sends] : r \in RoutesFrom(setup, START)}
  BY DEF EntryTasks, RoutesOf, Routes, RoutesFrom, Entry
<1>3. ASSUME NEW plan PROVE plan \in EntryPlans <=> plan \in EntriesOf(setup)
  <2>1. plan \in EntryPlans <=> \E t \in EntryTasks : plan = PlanOf(setup, t.names, t.sends)
    BY <1>1 DEF EntryPlans
  <2>2. ASSUME NEW r \in RoutesFrom(setup, START)
        PROVE  \E t \in EntryTasks : PlanOf(setup, t.names, t.sends) =
                                        PlanOf(setup, setup.entry \cup r.names, r.sends)
    <3>1. PICK t : t = [names |-> setup.entry \cup r.names, sends |-> r.sends]
      OBVIOUS
    <3>2. t \in EntryTasks /\ t.names = setup.entry \cup r.names /\ t.sends = r.sends
      BY <1>2, <3>1
    <3> QED
      BY <3>2
  <2>3. ASSUME NEW t \in EntryTasks
        PROVE  \E r \in RoutesFrom(setup, START) : PlanOf(setup, t.names, t.sends) =
                                        PlanOf(setup, setup.entry \cup r.names, r.sends)
    <3>1. PICK r \in RoutesFrom(setup, START) : t = [names |-> setup.entry \cup r.names, sends |-> r.sends]
      BY <1>2
    <3>2. t.names = setup.entry \cup r.names /\ t.sends = r.sends
      BY <3>1
    <3> QED
      BY <3>2
  <2> QED
    BY <2>1, <2>2, <2>3 DEF EntriesOf
<1> QED
  BY <1>3

LEMMA EntriesStay == ASSUME setup' = setup PROVE EntryPlans' = EntryPlans
  BY DEF EntryPlans, EntryTasks, Runs, PlanTasks, InPlanOrder, NodeSeq, PutOff, Deferred, Entry,
         RoutesOf, Routes

LEMMA LineageOfSetup ==
  Lineage = IF Judged THEN [i \in DOMAIN ckpts |-> Point(setup, ckpts[i])] ELSE <<>>
<1>1. \A names, sends : LogOf(Runs(names, sends)) = PlanOf(setup, names, sends)
  BY RunsOfSetup DEF PlanOf
<1> QED
  BY <1>1 DEF Lineage, Point

LEMMA LineageNext ==
  ASSUME setup' = setup
  PROVE  Lineage' = IF Judged THEN [i \in DOMAIN ckpts' |-> Point(setup, ckpts'[i])] ELSE <<>>
<1>1. \A names, sends : LogOf(Runs(names, sends)) = PlanOf(setup, names, sends)
  BY RunsOfSetup DEF PlanOf
<1>2. Judged' = Judged
  BY DEF Judged, Durability, Forks
<1>3. Lineage' = IF Judged'
                 THEN [i \in DOMAIN ckpts' |-> [log |-> ckpts'[i].state.log,
                                 plan |-> LogOf(Runs(ckpts'[i].next, ckpts'[i].sends))]]
                 ELSE <<>>
  BY DEF Lineage, Runs, PlanTasks, InPlanOrder, NodeSeq, PutOff, Deferred
<1> QED
  BY <1>1, <1>2, <1>3 DEF Point

\* A checkpoint that follows the last one is a step of the contract.
LEMMA AppendIsStep ==
  ASSUME TypeInv, setup' = setup, Judged, NEW c, IsCheckpoint(setup, c),
         ckpts' = Append(ckpts, c), Follows(setup, TipOf(setup, ckpts), Point(setup, c))
  PROVE  Contract!ContractNext
<1> DEFINE n == Len(ckpts)
           tip == TipOf(setup, ckpts)
           point == Point(setup, c)
<1>1. /\ n \in Nat /\ DOMAIN ckpts = 1 .. n /\ DOMAIN ckpts' = 1 .. n + 1
      /\ ckpts'[n + 1] = c /\ \A i \in 1 .. n : ckpts'[i] = ckpts[i]
  BY ListAppend DEF TypeInv, AreCheckpoints
<1>2. PICK old, new : old = Lineage /\ new = Lineage'
  OBVIOUS
<1>3. old = [i \in 1 .. n |-> Point(setup, ckpts[i])]
  BY <1>1, <1>2, LineageOfSetup
<1>4. new = [i \in 1 .. n + 1 |-> IF i = n + 1 THEN point ELSE Point(setup, ckpts[i])]
  <2>1. new = [i \in 1 .. n + 1 |-> Point(setup, ckpts'[i])]
    BY <1>1, <1>2, LineageNext
  <2>2. \A i \in 1 .. n + 1 : ckpts'[i] = IF i = n + 1 THEN c ELSE ckpts[i]
    BY <1>1
  <2> QED
    BY <2>1, <2>2
<1>5. Contract!Tip = tip
  <2>1. CASE ckpts = <<>>
    <3>1. n = 0 /\ old = <<>>
      BY <1>3, <2>1
    <3> QED
      BY <1>2, <2>1, <3>1 DEF Contract!Tip, TipOf
  <2>2. CASE ckpts # <<>>
    <3>1. n \in 1 .. n /\ n # 0
      BY <1>1, <2>2, ListTail DEF TypeInv, AreCheckpoints
    <3>2. old # <<>> /\ Len(old) = n /\ old[n] = Point(setup, ckpts[n])
      <4>1. old[n] = Point(setup, ckpts[n])
        BY <1>3, <3>1
      <4>2. DOMAIN old = 1 .. n
        BY <1>3
      <4>3. Len(old) = n /\ old # <<>>
        BY <1>1, <3>1, <4>2, <1>3
      <4> QED
        BY <4>1, <4>3
    <3> QED
      BY <1>2, <2>2, <3>2 DEF Contract!Tip, TipOf
  <2> QED
    BY <2>1, <2>2
<1>6. Contract!SavesOne /\ Contract!Saved = point
  <2>1. Len(old) = n /\ Len(new) = n + 1 /\ new[n + 1] = point
    BY <1>1, <1>3, <1>4
  <2>2. SubSeq(new, 1, n) = old
    BY <1>1, <1>3, <1>4
  <2> QED
    BY <1>2, <2>1, <2>2 DEF Contract!SavesOne, Contract!Saved
<1>7. \A log : Stimulates(tip, log) <=> log \in Contract!Stimulated
  BY <1>5 DEF Stimulates, Contract!Stimulated
<1>8. \A plan : MayRun(setup, tip, plan) <=> plan \in Contract!Runnable
  BY <1>5, EntriesOfSetup DEF MayRun, Contract!Runnable
<1> HIDE DEF tip, point
<1>9. Follows(setup, tip, point)
  BY DEF tip, point
<1>10. Contract!CommitStep \/ Contract!PauseStep
  BY <1>6, <1>7, <1>8, <1>9 DEF Follows, Contract!CommitStep, Contract!PauseStep
<1>11. UNCHANGED EntryPlans
  BY EntriesStay
<1> QED
  BY <1>10, <1>11 DEF Contract!ContractNext

TipBefore(g, list, queue, j) == IF j = 1 THEN TipOf(g, list) ELSE Point(g, queue[j - 1])
LastTip(g, list, queue) == IF queue = <<>> THEN TipOf(g, list) ELSE Point(g, queue[Len(queue)])

\* Where an execution stands in the step of the contract that follows tip.
GoesOn(g, tip, e) ==
  /\ e.pc \in {"plan", "run", "gathered"} =>
        Stimulates(tip, e.state.log) /\ MayRun(g, tip, PlanOf(g, e.next, e.sends))
  /\ e.pc \in {"run", "gathered"} => LogOf(e.plan) = PlanOf(g, e.next, e.sends)
  /\ e.pc = "route" =>
        \E log, plan : Stimulates(tip, log) /\ MayRun(g, tip, plan) /\ e.state.log = log \o plan

QueueFollows(g, list, queue) ==
  \A j \in DOMAIN queue : Follows(g, TipBefore(g, list, queue, j), Point(g, queue[j]))

\* What is saved or queued is a lineage of the contract, and the delivery is about to add to it.
LineageInv ==
  Judged /\ ex # Off => /\ QueueFollows(setup, ckpts, ex.queue)
                        /\ GoesOn(setup, LastTip(setup, ckpts, ex.queue), ex)

\* A step of the contract, or none.
Contracted == [Contract!ContractNext]_<<Lineage, EntryPlans>>

LEMMA NothingSaved ==
  ASSUME TypeInv, setup' = setup, ckpts' = ckpts \/ ~Judged
  PROVE  Contracted
<1>1. EntryPlans' = EntryPlans
  BY EntriesStay
<1>2. Lineage' = Lineage
  BY LineageOfSetup, LineageNext
<1> QED
  BY <1>1, <1>2 DEF Contracted

LEMMA LineageSaves ==
  ASSUME TypeInv, LineageInv, setup' = setup, Judged, ex # Off, ex' # Off,
         NEW c, Saves(c), IsExecution(setup, ex'),
         Follows(setup, LastTip(setup, ckpts, ex.queue), Point(setup, c)),
         GoesOn(setup, Point(setup, c), ex')
  PROVE  LineageInv' /\ Contracted
<1>1. /\ IsList(ckpts) /\ IsList(ex.queue) /\ QueueFollows(setup, ckpts, ex.queue)
      /\ IsCheckpoint(setup, c)
  BY DEF TypeInv, AreCheckpoints, IsExecution, LineageInv, Saves
<1>2. SUFFICES /\ QueueFollows(setup, ckpts', ex'.queue)
               /\ LastTip(setup, ckpts', ex'.queue) = Point(setup, c)
               /\ Contracted
  BY DEF LineageInv
<1>3. CASE setup.durability = "async"
  <2> DEFINE m == Len(ex.queue)
  <2>1. ckpts' = ckpts /\ ex'.queue = Append(ex.queue, c)
    BY <1>3 DEF Saves
  <2>2. PICK queue : queue = ex'.queue
    OBVIOUS
  <2>3. /\ m \in Nat /\ DOMAIN ex.queue = 1 .. m /\ DOMAIN queue = 1 .. m + 1
        /\ Len(queue) = m + 1 /\ queue[m + 1] = c /\ \A i \in 1 .. m : queue[i] = ex.queue[i]
    BY <1>1, <2>1, <2>2, ListAppend
  <2>4. m = 0 <=> ex.queue = <<>>
    BY <1>1, EmptySeq DEF IsList
  <2> HIDE DEF m
  <2>5. ASSUME NEW j \in DOMAIN queue
        PROVE  Follows(setup, TipBefore(setup, ckpts, queue, j), Point(setup, queue[j]))
    <3>1. CASE j = m + 1
      <4>1. TipBefore(setup, ckpts, queue, j) = LastTip(setup, ckpts, ex.queue)
        <5>1. CASE m = 0
          BY <2>4, <3>1, <5>1 DEF TipBefore, LastTip
        <5>2. CASE m # 0
          <6>1. j # 1 /\ j - 1 = m /\ m \in 1 .. m
            BY <2>3, <3>1, <5>2
          <6>2. queue[j - 1] = ex.queue[m]
            BY <2>3, <6>1
          <6> QED
            BY <2>4, <5>2, <6>1, <6>2 DEF TipBefore, LastTip, m
        <5> QED
          BY <5>1, <5>2
      <4> QED
        BY <2>3, <3>1, <4>1
    <3>2. CASE j # m + 1
      <4>1. j \in 1 .. m /\ queue[j] = ex.queue[j] /\ (j # 1 => queue[j - 1] = ex.queue[j - 1])
        BY <2>3, <3>2
      <4>2. TipBefore(setup, ckpts, queue, j) = TipBefore(setup, ckpts, ex.queue, j)
        BY <4>1 DEF TipBefore
      <4> QED
        BY <1>1, <2>3, <4>1, <4>2 DEF QueueFollows
    <3> QED
      BY <3>1, <3>2
  <2>6. queue # <<>> /\ queue[Len(queue)] = c
    <3>1. Len(queue) \in DOMAIN queue
      BY <2>3
    <3> QED
      BY <2>3, <3>1
  <2>7. Contracted
    BY <2>1, NothingSaved
  <2> QED
    BY <2>1, <2>2, <2>5, <2>6, <2>7 DEF QueueFollows, LastTip
<1>4. CASE setup.durability # "async"
  <2>1. ckpts' = Append(ckpts, c) /\ ex'.queue = ex.queue
    BY <1>4 DEF Saves
  <2>2. ex.queue = <<>>
    BY <1>4 DEF TypeInv, IsExecution
  <2>3. LastTip(setup, ckpts, ex.queue) = TipOf(setup, ckpts)
    BY <2>2 DEF LastTip
  <2>4. Contracted
    BY <1>1, <2>1, <2>3, AppendIsStep DEF Contracted
  <2>5. ckpts' # <<>> /\ ckpts'[Len(ckpts')] = c
    <3>1. PICK list : list = ckpts'
      OBVIOUS
    <3>2. Len(list) = Len(ckpts) + 1 /\ list[Len(ckpts) + 1] = c /\ Len(ckpts) + 1 \in DOMAIN list
      <4>1. /\ Len(list) = Len(ckpts) + 1 /\ list[Len(ckpts) + 1] = c /\ Len(ckpts) \in Nat
            /\ DOMAIN list = 1 .. Len(ckpts) + 1
        BY <1>1, <2>1, <3>1, ListAppend
      <4> QED
        BY <4>1
    <3> QED
      BY <3>1, <3>2
  <2>6. TipOf(setup, ckpts') = Point(setup, c)
    BY <2>5 DEF TipOf
  <2>7. QueueFollows(setup, ckpts', ex'.queue)
    BY <2>1, <2>2 DEF QueueFollows
  <2> QED
    BY <2>1, <2>2, <2>4, <2>6, <2>7 DEF LastTip
<1> QED
  BY <1>3, <1>4

LEMMA LineageKeeps ==
  ASSUME TypeInv, LineageInv, setup' = setup, ckpts' = ckpts,
         Judged /\ ex' # Off => /\ ex # Off /\ ex'.queue = ex.queue
                                /\ GoesOn(setup, LastTip(setup, ckpts, ex.queue), ex')
  PROVE  LineageInv' /\ Contracted
<1>1. Judged' = Judged
  BY DEF Judged, Durability, Forks
<1>2. Contracted
  BY NothingSaved
<1> QED
  BY <1>1, <1>2 DEF LineageInv

\* The writer saves the first of the queue.
LEMMA LineageWriter ==
  ASSUME TypeInv, LineageInv, setup' = setup, Judged, WriterStep
  PROVE  LineageInv' /\ Contracted
<1> DEFINE c == Head(ex.queue)
<1>1. /\ ex # Off /\ IsExecution(setup, ex) /\ ex.queue # <<>>
      /\ ckpts' = Append(ckpts, c) /\ ex'.queue = Tail(ex.queue)
      /\ ex'.pc = ex.pc /\ ex'.state = ex.state /\ ex'.next = ex.next /\ ex'.sends = ex.sends
      /\ ex'.plan = ex.plan
  BY WriterFacts
<1>2. /\ IsList(ckpts) /\ IsList(ex.queue) /\ QueueFollows(setup, ckpts, ex.queue)
      /\ AreCheckpoints(setup, ex.queue)
  BY <1>1 DEF TypeInv, AreCheckpoints, IsExecution, LineageInv
<1>3. PICK rest : rest = ex'.queue
  OBVIOUS
<1> DEFINE m == Len(ex.queue)
<1>4. /\ m \in Nat \ {0} /\ DOMAIN ex.queue = 1 .. m /\ Len(rest) = m - 1
      /\ DOMAIN rest = 1 .. m - 1 /\ \A i \in 1 .. m - 1 : rest[i] = ex.queue[i + 1]
      /\ c = ex.queue[1] /\ IsList(rest) /\ IsCheckpoint(setup, c)
  BY <1>1, <1>2, <1>3, ListTail DEF AreCheckpoints
<1> HIDE DEF m, c
<1>5. 1 \in DOMAIN ex.queue
  BY <1>4
<1>6. Follows(setup, TipOf(setup, ckpts), Point(setup, c))
  BY <1>2, <1>4, <1>5 DEF QueueFollows, TipBefore
<1>7. Contracted
  BY <1>1, <1>4, <1>6, AppendIsStep DEF Contracted
<1>8. TipOf(setup, ckpts') = Point(setup, c)
  <2>1. PICK list : list = ckpts'
    OBVIOUS
  <2>2. /\ Len(list) = Len(ckpts) + 1 /\ list[Len(ckpts) + 1] = c /\ Len(ckpts) \in Nat
        /\ DOMAIN list = 1 .. Len(ckpts) + 1
    BY <1>1, <1>2, <2>1, ListAppend DEF c
  <2>3. list # <<>>
    BY <2>2
  <2> QED
    BY <2>1, <2>2, <2>3 DEF TipOf
<1>9. ASSUME NEW j \in DOMAIN rest
      PROVE  Follows(setup, TipBefore(setup, ckpts', rest, j), Point(setup, rest[j]))
  <2>1. j + 1 \in DOMAIN ex.queue /\ rest[j] = ex.queue[j + 1] /\ j + 1 # 1 /\ j + 1 - 1 = j
    BY <1>4
  <2>2. TipBefore(setup, ckpts', rest, j) = TipBefore(setup, ckpts, ex.queue, j + 1)
    <3>1. CASE j = 1
      BY <1>4, <1>8, <2>1, <3>1 DEF TipBefore
    <3>2. CASE j # 1
      <4>1. j - 1 \in 1 .. m - 1 /\ rest[j - 1] = ex.queue[j]
        <5>1. j - 1 \in 1 .. m - 1 /\ (j - 1) + 1 = j
          BY <1>4, <3>2
        <5> QED
          BY <1>4, <5>1
      <4>2. TipBefore(setup, ckpts', rest, j) = Point(setup, rest[j - 1])
        BY <3>2 DEF TipBefore
      <4>3. TipBefore(setup, ckpts, ex.queue, j + 1) = Point(setup, ex.queue[j])
        <5>1. PICK k : k = j + 1 /\ k # 1 /\ k - 1 = j
          BY <1>4
        <5>2. TipBefore(setup, ckpts, ex.queue, k) = Point(setup, ex.queue[k - 1])
          BY <5>1 DEF TipBefore
        <5> QED
          BY <5>1, <5>2
      <4> QED
        BY <4>1, <4>2, <4>3
    <3> QED
      BY <3>1, <3>2
  <2> QED
    BY <1>2, <2>1, <2>2 DEF QueueFollows
<1>10. LastTip(setup, ckpts', rest) = LastTip(setup, ckpts, ex.queue)
  <2>1. rest = <<>> <=> m = 1
    BY <1>4, EmptySeq DEF IsList
  <2>2. CASE m = 1
    BY <1>1, <1>4, <1>8, <2>1, <2>2 DEF LastTip, m
  <2>3. CASE m # 1
    <3>1. m - 1 \in 1 .. m - 1 /\ (m - 1) + 1 = m
      BY <1>4, <2>3
    <3>2. rest[Len(rest)] = ex.queue[m]
      BY <1>4, <3>1
    <3> QED
      BY <1>1, <2>1, <2>3, <3>2 DEF LastTip, m
  <2> QED
    BY <2>2, <2>3
<1>11. GoesOn(setup, LastTip(setup, ckpts, ex.queue), ex')
  <2>1. GoesOn(setup, LastTip(setup, ckpts, ex.queue), ex)
    BY <1>1 DEF LineageInv
  <2> QED
    BY <1>1, <2>1 DEF GoesOn
<1> QED
  BY <1>3, <1>7, <1>9, <1>10, <1>11 DEF LineageInv, QueueFollows

\* A delivery starts where the last checkpoint stopped, or at an entry.
LEMMA LineageStart ==
  ASSUME TypeInv, Start
  PROVE  GoesOn(setup, TipOf(setup, ckpts), ex')
<1>1. PICK from :
        /\ Begins(from) /\ ex'.state = Applied.state
        /\ ex'.next = from.names /\ ex'.sends = from.sends /\ ex'.pc \in {"plan", "close"}
        /\ ex'.pc = "plan" => /\ from.names # {} \/ from.sends # <<>>
                              /\ ckpts = <<>> => run.kind = "input"
  BY StartFacts
<1>2. SUFFICES ASSUME ex'.pc = "plan"
               PROVE  /\ Stimulates(TipOf(setup, ckpts), Applied.state.log)
                      /\ MayRun(setup, TipOf(setup, ckpts), PlanOf(setup, from.names, from.sends))
  BY <1>1 DEF GoesOn
<1> DEFINE tip == TipOf(setup, ckpts)
           idle == Loaded.next = {} /\ Loaded.sends = <<>>
<1>3. IsGraph(setup)
  BY SetupsAreGraphs DEF TypeInv
<1>4. tip.log = Loaded.state.log /\ (tip.plan = <<>> <=> idle)
      /\ (~idle => tip.plan = PlanOf(setup, Loaded.next, Loaded.sends))
  <2>1. CASE ckpts = <<>>
    BY <2>1, LoadedFits DEF TipOf
  <2>2. CASE ckpts # <<>>
    <3>1. tip = Point(setup, Loaded)
      BY <2>2, LoadedFits DEF TipOf, Latest
    <3>2. PlanOf(setup, Loaded.next, Loaded.sends) = <<>> <=> idle
      BY <1>3, LoadedFits, TasksFit DEF Nothing
    <3> QED
      BY <3>1, <3>2 DEF Point
  <2> QED
    BY <2>1, <2>2
<1>5. Stimulates(tip, Applied.state.log)
  BY <1>4, AppliedFits DEF Stimulates
<1>6. MayRun(setup, tip, PlanOf(setup, from.names, from.sends))
  <2>1. CASE idle
    <3>1. from \in EntryTasks
      BY <1>1, <1>2, <2>1 DEF Begins
    <3>2. PlanOf(setup, from.names, from.sends) \in EntryPlans
      BY <3>1, RunsOfSetup DEF EntryPlans, PlanOf
    <3> QED
      BY <1>4, <2>1, <3>2, EntriesOfSetup DEF MayRun
  <2>2. CASE ~idle
    <3>1. from.names = Loaded.next /\ from.sends = Loaded.sends
      BY <1>1, <2>2 DEF Begins, NeedsEntry
    <3> QED
      BY <1>4, <2>2, <3>1 DEF MayRun
  <2> QED
    BY <2>1, <2>2
<1> QED
  BY <1>5, <1>6

LEMMA LineageStep ==
  ASSUME TypeInv, LineageInv, [Next]_vars
  PROVE  LineageInv' /\ Contracted
<1>1. setup' = setup /\ IsGraph(setup) /\ (Judged' <=> Judged)
  BY SetupStays, SetupsAreGraphs DEF TypeInv, Judged, Durability, Forks
<1>2. CASE ~Judged
  BY <1>1, <1>2, NothingSaved DEF LineageInv
<1> SUFFICES ASSUME Judged PROVE LineageInv' /\ Contracted
  BY <1>2
<1>3. PICK tip : tip = LastTip(setup, ckpts, ex.queue)
  OBVIOUS
<1>4. ex # Off => GoesOn(setup, tip, ex)
  BY <1>3 DEF LineageInv
<1>5. CASE ckpts' = ckpts /\ ex' = Off
  BY <1>1, <1>5, LineageKeeps
<1>6. CASE ckpts' = ckpts /\ ex' = ex
  BY <1>1, <1>3, <1>4, <1>6, LineageKeeps
<1>7. CASE Start
  <2>1. /\ ex'.queue = <<>> /\ GoesOn(setup, TipOf(setup, ckpts), ex') /\ ckpts' = ckpts
    BY <1>7, LineageStart, StartFacts DEF Start, stored
  <2>2. Contracted
    BY <1>1, <2>1, NothingSaved
  <2> QED
    BY <1>1, <2>1, <2>2 DEF LineageInv, QueueFollows, LastTip
<1>8. CASE StopAtLoopHead \/ StepTimesOut \/ RaiseFailure \/ PausePut
  BY <1>1, <1>3, <1>8, StopsFacts, LineageKeeps DEF Stops, Keeps, GoesOn
<1>9. CASE Plan
  <2>1. /\ ex.pc = "plan" /\ IsExecution(setup, ex) /\ Keeps(ex')
        /\ ex'.pc = "run" /\ ex'.plan = TasksOf(setup, ex.next, ex.sends)
        /\ ex'.next = ex.next \ OffOf(setup, ex.next, ex.sends) /\ ex'.sends = ex.sends
    BY <1>9, PlanFacts
  <2>2. ckpts' = ckpts /\ ex # Off
    BY <1>9, <2>1, OnWithStage DEF Plan, stored
  <2>3. PlanOf(setup, ex'.next, ex'.sends) = PlanOf(setup, ex.next, ex.sends)
    BY <2>1, PutOffOnce DEF PlanOf
  <2>4. LogOf(ex'.plan) = PlanOf(setup, ex.next, ex.sends)
    BY <2>1 DEF PlanOf
  <2>5. GoesOn(setup, tip, ex')
    BY <1>4, <2>1, <2>2, <2>3, <2>4 DEF GoesOn, Keeps
  <2> QED
    BY <1>1, <1>3, <2>1, <2>2, <2>5, LineageKeeps DEF Keeps
<1>10. CASE Gather
  <2>1. /\ ex.pc = "run" /\ IsExecution(setup, ex) /\ Keeps(ex') /\ ex'.pc = "gathered"
        /\ ex'.plan = ex.plan /\ ex'.next = ex.next /\ ex'.sends = ex.sends
    BY <1>10, GatherFacts
  <2>2. ckpts' = ckpts /\ ex # Off
    BY <1>10, <2>1, OnWithStage DEF Gather
  <2>3. GoesOn(setup, tip, ex')
    BY <1>4, <2>1, <2>2 DEF GoesOn, Keeps
  <2> QED
    BY <1>1, <1>3, <2>1, <2>2, <2>3, LineageKeeps DEF Keeps
<1>11. CASE \E t \in ToSet(ex.plan) : ex # Off /\ Decides(t)
  <2>1. /\ ex.pc = "run" /\ ex # Off /\ Keeps(ex') /\ ex'.pc = "run" /\ ckpts' = ckpts
        /\ ex'.plan = ex.plan /\ ex'.next = ex.next /\ ex'.sends = ex.sends
    BY <1>11, DecidesFacts
  <2>2. GoesOn(setup, tip, ex')
    BY <1>4, <2>1 DEF GoesOn, Keeps
  <2> QED
    BY <1>1, <1>3, <2>1, <2>2, LineageKeeps DEF Keeps
<1>12. CASE Merge
  <2>1. /\ ex.pc = "gathered" /\ IsExecution(setup, ex) /\ ex'.pc = "route"
        /\ ex'.queue = ex.queue /\ ex'.state.log = ex.state.log \o LogOf(ex.plan)
    BY <1>12, MergeFacts
  <2>2. ckpts' = ckpts /\ ex # Off
    BY <1>12, <2>1, OnWithStage DEF Merge, stored
  <2>3. /\ Stimulates(tip, ex.state.log) /\ MayRun(setup, tip, LogOf(ex.plan))
    BY <1>4, <2>1, <2>2 DEF GoesOn
  <2>4. GoesOn(setup, tip, ex')
    BY <2>1, <2>3 DEF GoesOn
  <2> QED
    BY <1>1, <1>3, <2>1, <2>2, <2>4, LineageKeeps
<1>13. CASE InterruptBefore
  <2>1. PICK c : Saves(c) /\ c.state = ex.state /\ c.sends = ex.sends
                 /\ c.next = ex.next \ OffOf(setup, ex.next, ex.sends)
    BY <1>13, InterruptFacts
  <2>2. /\ ex.pc = "plan" /\ IsExecution(setup, ex) /\ IsExecution(setup, ex') /\ ex'.pc = "close"
    BY <1>13, InterruptFacts
  <2>3. ex # Off /\ ex' # Off
    BY <2>2, OnWithStage
  <2>4. PlanOf(setup, c.next, c.sends) = PlanOf(setup, ex.next, ex.sends)
    BY <2>1, PutOffOnce DEF PlanOf
  <2>5. Follows(setup, tip, Point(setup, c))
    BY <1>4, <2>1, <2>2, <2>3, <2>4 DEF GoesOn, Follows, Point
  <2>6. GoesOn(setup, Point(setup, c), ex')
    BY <2>2 DEF GoesOn
  <2> QED
    BY <1>1, <1>3, <2>1, <2>2, <2>3, <2>5, <2>6, LineageSaves
<1>14. CASE PauseSave
  <2>1. PICK c : Saves(c) /\ c.state = ex.state /\ c.sends = ex.sends /\ c.next = ex.next
    BY <1>14, PauseSaveFacts
  <2>2. /\ ex.pc = "gathered" /\ IsExecution(setup, ex) /\ IsExecution(setup, ex')
        /\ ex'.pc = "pausing"
    BY <1>14, PauseSaveFacts
  <2>3. ex # Off /\ ex' # Off
    BY <2>2, OnWithStage
  <2>4. Follows(setup, tip, Point(setup, c))
    BY <1>4, <2>1, <2>2, <2>3 DEF GoesOn, Follows, Point
  <2>5. GoesOn(setup, Point(setup, c), ex')
    BY <2>2 DEF GoesOn
  <2> QED
    BY <1>1, <1>3, <2>1, <2>2, <2>3, <2>4, <2>5, LineageSaves
<1>15. CASE RouteAndSave
  <2>1. PICK c : /\ Saves(c) /\ c.state = ex.state /\ ex'.next = c.next /\ ex'.sends = c.sends
    BY <1>15, RouteFacts DEF Judged, Durability
  <2>2. /\ ex.pc = "route" /\ IsExecution(setup, ex) /\ IsExecution(setup, ex')
        /\ ex'.pc \in {"plan", "exit", "close"} /\ ex'.state = ex.state
        /\ (ex'.pc = "plan" => ex'.next # {} \/ ex'.sends # <<>>)
    BY <1>15, RouteFacts
  <2>3. ex # Off /\ ex' # Off
    BY <2>2, OnWithStage
  <2>4. Follows(setup, tip, Point(setup, c))
    BY <1>4, <2>1, <2>2, <2>3 DEF GoesOn, Follows, Point
  <2>5. PlanOf(setup, c.next, c.sends) = <<>> <=> Nothing(c.next, c.sends)
    <3>1. IsCheckpoint(setup, c)
      BY <2>1 DEF Saves
    <3>2. c.next \in SUBSET Names(setup) /\ c.sends \in Seq(Names(setup))
      BY <3>1 DEF IsCheckpoint
    <3> QED
      BY <1>1, <3>2, TasksFit
  <2>6. GoesOn(setup, Point(setup, c), ex')
    BY <2>1, <2>2, <2>5 DEF GoesOn, Point, Stimulates, MayRun, Nothing
  <2> QED
    BY <1>1, <1>3, <2>1, <2>2, <2>3, <2>4, <2>6, LineageSaves
<1>16. CASE Complete
  <2>1. SavesNothing /\ IsExecution(setup, ex) /\ ex'.pc = "close"
    BY <1>16, CompleteFacts DEF Judged, Durability
  <2>2. GoesOn(setup, tip, ex')
    BY <2>1 DEF GoesOn
  <2> QED
    <3>1. ckpts' = ckpts /\ ex'.queue = ex.queue /\ ex # Off
      BY <2>1, OnWithStage DEF SavesNothing
    <3> QED
      BY <1>1, <1>3, <2>2, <3>1, LineageKeeps
<1>17. CASE WriterStep
  BY <1>1, <1>17, LineageWriter
<1>18. CASE WriterFails
  <2>1. ckpts' = ckpts /\ ex'.queue = <<>> /\ ex'.pc = "close"
    BY <1>18, WriterFailsFacts
  <2>2. Contracted
    BY <1>1, <2>1, NothingSaved
  <2> QED
    BY <1>1, <2>1, <2>2 DEF LineageInv, QueueFollows, GoesOn
<1>19. CASE Cancel
  <2>1. /\ ex # Off /\ ex'.queue = ex.queue /\ ex'.pc = ex.pc /\ ex'.state = ex.state
        /\ ex'.next = ex.next /\ ex'.sends = ex.sends /\ ex'.plan = ex.plan /\ ckpts' = ckpts
    BY <1>19, CancelFacts DEF Cancel, stored
  <2>2. GoesOn(setup, tip, ex')
    BY <1>4, <2>1 DEF GoesOn
  <2> QED
    BY <1>1, <1>3, <2>1, <2>2, LineageKeeps
<1>20. CASE Close \/ Crash \/ SubmitInput \/ SubmitResume \/ UNCHANGED vars
  BY <1>5, <1>6, <1>20, CloseFacts, CrashFacts, SubmitFacts DEF Elsewhere, vars
<1>21. ASSUME \E i \in DOMAIN ckpts : Fork(i) PROVE FALSE
  BY <1>21, ForkFacts DEF Judged, Forks
<1> QED
  BY <1>7, <1>8, <1>9, <1>10, <1>11, <1>12, <1>13, <1>14, <1>15, <1>16, <1>17, <1>18, <1>19,
     <1>20, <1>21, StepCases DEF vars

\* Claim: over every crash, redelivery, pause and retry, the checkpoints of a thread are the
\* result of atomic supersteps: each runs every pending task once in plan order, or none.
THEOREM SuperstepsAreAtomic == Spec => ImplementsContract
<1>1. Init => Contract!ContractInit /\ LineageInv
  <2> SUFFICES ASSUME Init PROVE Contract!ContractInit /\ LineageInv
    OBVIOUS
  <2>1. ckpts = <<>> /\ ex = Off
    BY DEF Init
  <2> QED
    BY <2>1, LineageOfSetup DEF Contract!ContractInit, LineageInv
<1>2. TypeInv /\ LineageInv /\ [Next]_vars => LineageInv' /\ [Contract!ContractNext]_<<Lineage, EntryPlans>>
  BY LineageStep DEF Contracted
<1> QED
  BY <1>1, <1>2, TypeInvariance, PTL DEF Spec, ImplementsContract, Contract!ContractSpec

-----------------------------------------------------------------------------
(* Checkpoints and their ids.                                               *)

\* A checkpoint with a new id: of the state that is executed, or continuing another one.
NewPoint(c) ==
  /\ c.id = ids + 1 /\ ids' = ids + 1 /\ Known' = Known \cup {c}
  /\ \/ ex # Off /\ ex.pc # "close" /\ c.state = ex.state
     \/ \E d \in Known : c.state.q = d.state.q

LEMMA KnownSteps ==
  ASSUME TypeInv, [Next]_vars
  PROVE  \/ Known' \subseteq Known /\ ids' = ids
         \/ \E c : NewPoint(c)
<1> DEFINE Fewer == Known' \subseteq Known /\ ids' = ids
           More == \E c : NewPoint(c)
<1> SUFFICES Fewer \/ More
  OBVIOUS
<1>1. ASSUME ckpts' = ckpts, ids' = ids, ToSet(Queue') \subseteq ToSet(Queue) PROVE Fewer
  BY <1>1 DEF Known
<1>2. CASE Start
  BY <1>1, <1>2, StartFacts, NothingInNone DEF Start, stored, Queue
<1>3. CASE StopAtLoopHead \/ StepTimesOut \/ RaiseFailure \/ PausePut
  BY <1>1, <1>3, StopsFacts, NothingInNone DEF Stops, Keeps, Queue
<1>4. CASE Plan \/ Gather \/ Merge \/ Cancel
  <2>1. ex'.queue = ex.queue /\ IsExecution(setup, ex)
    BY <1>4, PlanFacts, GatherFacts, MergeFacts, CancelFacts DEF Keeps
  <2>2. ckpts' = ckpts /\ ids' = ids /\ ex # Off
    BY <1>4, <2>1, OnWithStage DEF Plan, Gather, Merge, Cancel, stored
  <2> QED
    BY <1>1, <2>1, <2>2, NothingInNone DEF Queue
<1>5. CASE \E t \in ToSet(ex.plan) : ex # Off /\ Decides(t)
  BY <1>1, <1>5, DecidesFacts, NothingInNone DEF Keeps, Queue
<1>6. ASSUME NEW c, Saves(c), c.state = ex.state, IsExecution(setup, ex), ex.pc # "close",
             IsExecution(setup, ex')
      PROVE  More
  <2>1. ex # Off /\ ex' # Off
    BY <1>6, OnWithStage
  <2>2. Known' = Known \cup {c}
    BY <1>6, <2>1, KnownSaves
  <2> QED
    BY <1>6, <2>1, <2>2 DEF NewPoint, Saves
<1>7. CASE InterruptBefore \/ PauseSave
  <2>1. /\ IsExecution(setup, ex) /\ ex.pc # "close" /\ IsExecution(setup, ex')
        /\ \E c : Saves(c) /\ c.state = ex.state
    BY <1>7, InterruptFacts, PauseSaveFacts
  <2> QED
    BY <1>6, <2>1
<1>8. CASE RouteAndSave \/ Complete
  <2>1. /\ IsExecution(setup, ex) /\ ex.pc # "close" /\ IsExecution(setup, ex')
        /\ SavesNothing \/ \E c : Saves(c) /\ c.state = ex.state
    BY <1>8, RouteFacts, CompleteFacts
  <2>2. ex # Off
    BY <2>1, OnWithStage
  <2>3. CASE SavesNothing
    BY <1>1, <2>2, <2>3, NothingInNone DEF SavesNothing, Queue
  <2> QED
    BY <1>6, <2>1, <2>3
<1>9. CASE WriterStep
  BY <1>9, KnownWriter DEF WriterStep
<1>10. CASE WriterFails
  BY <1>1, <1>10, WriterFailsFacts, NothingInNone DEF Queue
<1>11. CASE Close \/ Crash \/ SubmitInput \/ SubmitResume \/ UNCHANGED vars
  <2>1. ckpts' = ckpts /\ ids' = ids /\ (ex' = Off \/ ex' = ex)
    BY <1>11, CloseFacts, CrashFacts, SubmitFacts DEF Elsewhere, vars
  <2> QED
    BY <1>1, <2>1, NothingInNone DEF Queue
<1>12. CASE \E i \in DOMAIN ckpts : Fork(i)
  <2>1. PICK i, c :
          /\ i \in DOMAIN ckpts /\ ckpts' = Append(ckpts, c) /\ c.id = ids + 1 /\ ids' = ids + 1
          /\ c.state.q = ckpts[i].state.q /\ ex' = ex
    BY <1>12, ForkFacts DEF Fork
  <2>2. ckpts[i] \in Known
    BY <2>1 DEF Known, ToSet
  <2> QED
    BY <2>1, <2>2, KnownFork DEF NewPoint
<1> HIDE DEF Fewer, More
<1> QED
  BY <1>2, <1>3, <1>4, <1>5, <1>7, <1>8, <1>9, <1>10, <1>11, <1>12, StepCases DEF vars

\* Ids are drawn once.
IdInv == \A c \in Known : c.id \in 1 .. ids /\ \A d \in Known : c.id = d.id => c = d

LEMMA IdStep ==
  ASSUME TypeInv, IdInv, [Next]_vars
  PROVE  IdInv'
<1>1. ids \in Nat
  BY DEF TypeInv
<1>2. PICK known, top : known = Known' /\ top = ids'
  OBVIOUS
<1>3. SUFFICES \A c \in known : c.id \in 1 .. top /\ \A d \in known : c.id = d.id => c = d
  BY <1>2 DEF IdInv
<1>4. CASE Known' \subseteq Known /\ ids' = ids
  BY <1>2, <1>4 DEF IdInv
<1>5. CASE \E c : NewPoint(c)
  <2>1. PICK c : c.id = ids + 1 /\ top = ids + 1 /\ known = Known \cup {c}
    BY <1>2, <1>5 DEF NewPoint
  <2>2. \A d \in Known : d.id \in 1 .. ids
    BY DEF IdInv
  <2>3. \A d \in Known : d.id \in 1 .. top /\ d.id # c.id
    BY <1>1, <2>1, <2>2
  <2>4. c.id \in 1 .. top
    BY <1>1, <2>1
  <2> QED
    BY <2>1, <2>3, <2>4 DEF IdInv
<1> QED
  BY <1>4, <1>5, KnownSteps

-----------------------------------------------------------------------------
(* A thread that takes one input.                                           *)

FirstInputInv ==
  MaxInputs = 1 =>
    /\ IsList(asked) /\ asked # <<>> /\ asked[1].n = NotAsked
    /\ run.kind = "input" => run.n = 1
    /\ \A c \in Known : c.state.q = 1
    /\ ex # Off /\ ex.pc # "close" => ex.state.q = 1

LEMMA NoSecondInput ==
  ASSUME FirstInputInv, MaxInputs = 1
  PROVE  ~SubmitInput
<1> DEFINE S == {k \in DOMAIN asked : asked[k].n = NotAsked}
<1>1. IsList(asked) /\ asked # <<>> /\ asked[1].n = NotAsked
  BY DEF FirstInputInv
<1>2. Len(asked) \in Nat \ {0} /\ DOMAIN asked = 1 .. Len(asked)
  BY <1>1, ListTail
<1>3. 1 \in S
  BY <1>1, <1>2
<1>4. IsFiniteSet(S)
  <2>1. IsFiniteSet(DOMAIN asked)
    BY <1>2, FS_Interval
  <2> QED
    BY <2>1, FS_Subset
<1> HIDE DEF S
<1>5. Cardinality(S) \in Nat /\ Cardinality(S) # 0
  BY <1>3, <1>4, FS_CardinalityType, FS_EmptySet
<1>6. ~(Cardinality(S) < 1)
  BY <1>5
<1> QED
  BY <1>6 DEF S, SubmitInput

\* Only a client changes what is asked for.
LEMMA RunSteps ==
  ASSUME TypeInv, [Next]_vars
  PROVE  \/ SubmitInput \/ SubmitResume
         \/ asked' = asked /\ run'.kind = run.kind /\ run'.n = run.n
<1>1. CASE Start
  BY <1>1, StartFacts DEF Start
<1>2. CASE StopAtLoopHead \/ StepTimesOut \/ RaiseFailure \/ PausePut
  BY <1>2, StopsFacts DEF Stops
<1>3. CASE \/ Plan \/ InterruptBefore \/ Gather \/ PauseSave \/ Merge \/ RouteAndSave \/ Complete
           \/ WriterStep \/ WriterFails \/ Cancel
  BY <1>3 DEF Plan, InterruptBefore, Gather, PauseSave, Merge, RouteAndSave, Complete, WriterStep,
              WriterFails, Cancel, history
<1>4. CASE Close \/ Crash
  BY <1>4, CloseFacts, CrashFacts
<1>5. CASE \E t \in ToSet(ex.plan) : ex # Off /\ Decides(t)
  BY <1>5, DecidesFacts
<1>6. CASE \E i \in DOMAIN ckpts : Fork(i)
  BY <1>6 DEF Fork, history
<1>7. CASE UNCHANGED vars
  BY <1>7 DEF vars
<1> QED
  BY <1>1, <1>2, <1>3, <1>4, <1>5, <1>6, <1>7, StepCases DEF vars

\* A delivery that goes on keeps the input it executes.
LEMMA StateSteps ==
  ASSUME TypeInv, [Next]_vars, ex' # Off, ex'.pc # "close", ~Start
  PROVE  ex # Off /\ ex.pc # "close" /\ ex'.state.q = ex.state.q
<1> DEFINE On == ex # Off /\ ex.pc # "close" /\ ex'.state.q = ex.state.q
<1> SUFFICES On
  OBVIOUS
<1>1. CASE Plan \/ Gather \/ Merge
  <2>1. IsExecution(setup, ex) /\ ex.pc # "close" /\ ex'.state.q = ex.state.q
    BY <1>1, PlanFacts, GatherFacts, MergeFacts DEF Keeps
  <2> QED
    BY <2>1, OnWithStage
<1>2. CASE \E t \in ToSet(ex.plan) : ex # Off /\ Decides(t)
  BY <1>2, DecidesFacts DEF Keeps
<1>3. CASE PauseSave \/ RouteAndSave
  <2>1. IsExecution(setup, ex) /\ ex.pc # "close" /\ ex'.state = ex.state
    BY <1>3, PauseSaveFacts, RouteFacts
  <2> QED
    BY <2>1, OnWithStage
<1>4. CASE WriterStep \/ Cancel
  BY <1>4, WriterFacts, CancelFacts
<1>5. CASE UNCHANGED vars \/ SubmitInput \/ SubmitResume
  BY <1>5, SubmitFacts DEF vars
<1>6. CASE \E i \in DOMAIN ckpts : Fork(i)
  BY <1>6 DEF Fork
<1>7. ASSUME \/ StopAtLoopHead \/ StepTimesOut \/ RaiseFailure \/ PausePut \/ InterruptBefore
             \/ Complete \/ WriterFails
      PROVE  FALSE
  BY <1>7, StopsFacts, InterruptFacts, CompleteFacts, WriterFailsFacts DEF Stops
<1>8. ASSUME Close \/ Crash PROVE FALSE
  BY <1>8, CloseFacts, CrashFacts
<1> HIDE DEF On
<1> QED
  BY <1>1, <1>2, <1>3, <1>4, <1>5, <1>6, <1>7, <1>8, StepCases DEF vars

LEMMA FirstInputStep ==
  ASSUME TypeInv, FirstInputInv, [Next]_vars
  PROVE  FirstInputInv'
<1>1. MaxInputs' = MaxInputs
  BY SetupStays DEF MaxInputs
<1>2. SUFFICES ASSUME MaxInputs = 1
               PROVE  /\ IsList(asked') /\ asked' # <<>> /\ asked'[1].n = NotAsked
                      /\ run'.kind = "input" => run'.n = 1
                      /\ \A c \in Known' : c.state.q = 1
                      /\ ex' # Off /\ ex'.pc # "close" => ex'.state.q = 1
  BY <1>1 DEF FirstInputInv
<1>3. /\ IsList(asked) /\ asked # <<>> /\ asked[1].n = NotAsked
      /\ run.kind = "input" => run.n = 1
      /\ \A c \in Known : c.state.q = 1
      /\ ex # Off /\ ex.pc # "close" => ex.state.q = 1
  BY <1>2 DEF FirstInputInv
<1>4. ~SubmitInput
  BY <1>2, NoSecondInput
<1>5. /\ IsList(asked') /\ asked' # <<>> /\ asked'[1].n = NotAsked
      /\ run'.kind = "input" => run'.n = 1
  <2>1. CASE SubmitResume
    <3>1. PICK a : asked' = Append(asked, a)
      BY <2>1, SubmitFacts
    <3>2. PICK more : more = asked'
      OBVIOUS
    <3>3. /\ IsList(more) /\ Len(asked) \in Nat /\ DOMAIN more = 1 .. Len(asked) + 1
          /\ \A i \in 1 .. Len(asked) : more[i] = asked[i]
      BY <1>3, <3>1, <3>2, ListAppend
    <3>4. 1 \in 1 .. Len(asked) /\ 1 \in DOMAIN more
      <4>1. Len(asked) # 0 /\ Len(asked) \in Nat
        BY <1>3, ListTail
      <4> QED
        BY <3>3, <4>1
    <3>5. more # <<>> /\ more[1].n = NotAsked
      BY <1>3, <3>3, <3>4
    <3>6. run'.kind # "input"
      BY <1>4, <2>1, SubmitFacts
    <3> QED
      BY <3>2, <3>3, <3>5, <3>6
  <2>2. CASE asked' = asked /\ run'.kind = run.kind /\ run'.n = run.n
    BY <1>3, <2>2
  <2> QED
    BY <1>4, <2>1, <2>2, RunSteps
<1>6. \A c \in Known' : c.state.q = 1
  <2>1. CASE Known' \subseteq Known
    BY <1>3, <2>1
  <2>2. CASE \E c : NewPoint(c)
    BY <1>3, <2>2 DEF NewPoint
  <2> QED
    BY <2>1, <2>2, KnownSteps
<1>7. ASSUME ex' # Off, ex'.pc # "close" PROVE ex'.state.q = 1
  <2>1. CASE Start
    <3>1. PICK from : /\ ex'.state = Applied.state
                      /\ ex'.pc \in {"plan", "close"}
                      /\ ex'.pc = "plan" => (ckpts = <<>> => run.kind = "input")
      BY <2>1, StartFacts
    <3>2. CASE run.kind = "input"
      BY <1>3, <3>1, <3>2, AppliedFits
    <3>3. CASE run.kind # "input"
      <4>1. ckpts # <<>> /\ ex'.state = Loaded.state
        BY <1>7, <3>1, <3>3, AppliedFits
      <4>2. Loaded \in Known
        BY <4>1, LoadedFits DEF Known
      <4> QED
        BY <1>3, <4>1, <4>2
    <3> QED
      BY <3>2, <3>3
  <2>2. CASE ~Start
    BY <1>3, <1>7, <2>2, StateSteps
  <2> QED
    BY <2>1, <2>2
<1> QED
  BY <1>5, <1>6, <1>7

-----------------------------------------------------------------------------
(* What results and effects are of.                                         *)

\* A base that was used with a state: that of an input on an empty thread, or a checkpoint
\* no other state has the id of.
DatedBase(known, top, base, from) ==
  \/ base = <<INPUT, from>>
  \/ \E n \in 1 .. top : base = <<n>> /\ \A c \in known : c.id = n => Stamp(c.state) = from

\* The base in use: its checkpoint is known.
HeldBase(known, base, from) ==
  base = <<INPUT, from>> \/ \E c \in known : base = <<c.id>> /\ Stamp(c.state) = from

LEMMA OneBase ==
  \A from, n, other, m : /\ <<INPUT, from>> # <<n>>
                         /\ <<INPUT, from>> = <<INPUT, other>> => from = other
                         /\ <<n>> = <<m>> => n = m
  OBVIOUS

LEMMA DatedMeets ==
  ASSUME NEW known, NEW top, NEW base, NEW from, DatedBase(known, top, base, from),
         NEW other, HeldBase(known, base, other)
  PROVE  from = other
<1>1. CASE base = <<INPUT, from>>
  BY <1>1, OneBase DEF HeldBase
<1>2. CASE \E n \in 1 .. top : base = <<n>> /\ \A c \in known : c.id = n => Stamp(c.state) = from
  <2>1. PICK n : base = <<n>> /\ \A c \in known : c.id = n => Stamp(c.state) = from
    BY <1>2
  <2>2. PICK c \in known : base = <<c.id>> /\ Stamp(c.state) = other
    BY <2>1, OneBase DEF HeldBase
  <2>3. c.id = n
    BY <2>1, <2>2
  <2> QED
    BY <2>1, <2>2, <2>3
<1> QED
  BY <1>1, <1>2 DEF DatedBase

LEMMA HeldIsDated ==
  ASSUME IdInv, NEW base, NEW from, HeldBase(Known, base, from)
  PROVE  DatedBase(Known, ids, base, from)
  BY DEF IdInv, HeldBase, DatedBase

LEMMA DatedStays ==
  ASSUME TypeInv, IdInv, [Next]_vars, NEW base, NEW from, DatedBase(Known, ids, base, from)
  PROVE  DatedBase(Known', ids', base, from)
<1>1. CASE base = <<INPUT, from>>
  BY <1>1 DEF DatedBase
<1>2. CASE \E n \in 1 .. ids : base = <<n>> /\ \A c \in Known : c.id = n => Stamp(c.state) = from
  <2>1. PICK n \in 1 .. ids : base = <<n>> /\ \A c \in Known : c.id = n => Stamp(c.state) = from
    BY <1>2
  <2>2. CASE Known' \subseteq Known /\ ids' = ids
    BY <2>1, <2>2 DEF DatedBase
  <2>3. CASE \E c : NewPoint(c)
    <3>1. PICK c : c.id = ids + 1 /\ ids' = ids + 1 /\ Known' = Known \cup {c}
      BY <2>3 DEF NewPoint
    <3>2. n \in 1 .. ids' /\ c.id # n
      BY <2>1, <3>1 DEF TypeInv
    <3> QED
      BY <2>1, <3>1, <3>2 DEF DatedBase
  <2> QED
    BY <2>2, <2>3, KnownSteps
<1> QED
  BY <1>1, <1>2 DEF DatedBase

\* The results of an execution are of its state, and its bases are that state's.
Fits(known, e) ==
  /\ e.pc \in {"plan", "run", "gathered"} => HeldBase(known, e.base, Stamp(e.state))
  /\ e.pc = "pausing" => HeldBase(known, <<e.parent>>, Stamp(e.state))
  /\ e.pc \in {"run", "gathered", "pausing"} =>
        \A t \in DOMAIN e.outs : e.outs[t].from = Stamp(e.state)
  /\ e.pc \in {"gathered", "pausing"} => ToSet(e.plan) \subseteq DOMAIN e.outs

\* Where bases move on, so do the results that are stored under them and the keys made of them.
BaseInv ==
  BasesMoveOn =>
    /\ \A w \in writes : DatedBase(Known, ids, w.base, w.from)
    /\ \A e \in effects : /\ e.key = <<e.key[1], e.task>>
                          /\ DatedBase(Known, ids, e.key[1], e.from)
    /\ \A e, f \in effects : e.key[1] = f.key[1] => e.from = f.from
    /\ ex # Off => Fits(Known, ex)

LEMMA HeldGrows ==
  ASSUME NEW known, NEW more, known \subseteq more, NEW base, NEW from, HeldBase(known, base, from)
  PROVE  HeldBase(more, base, from)
  BY DEF HeldBase

\* The state a delivery starts with is that of its base.
LEMMA StartFits ==
  ASSUME TypeInv, FirstInputInv, BasesMoveOn, Start
  PROVE  Fits(Known', ex')
<1>1. PICK from :
        /\ ex = Off /\ ex' # Off /\ ex'.queue = <<>> /\ ex'.state = Applied.state
        /\ ex'.base = IF Loaded.id = None THEN <<INPUT, Stamp(Applied.state)>> ELSE <<Loaded.id>>
        /\ ex'.pc \in {"plan", "close"}
        /\ ex'.pc = "plan" => (ckpts = <<>> => run.kind = "input")
  BY StartFacts
<1>2. SUFFICES ASSUME ex'.pc = "plan" PROVE HeldBase(Known', ex'.base, Stamp(ex'.state))
  BY <1>1 DEF Fits
<1>3. CASE Loaded.id = None
  BY <1>1, <1>3 DEF HeldBase
<1>4. CASE Loaded.id # None
  <2>1. ckpts # <<>>
    BY <1>4, LoadedFits
  <2>2. Loaded \in Known' /\ Loaded \in Known
    BY <1>1, <2>1, LoadedFits DEF Start, stored, Known
  <2>3. Loaded.state \in States(setup)
    BY LoadedFits
  <2>4. Stamp(Applied.state) = Stamp(Loaded.state)
    <3>1. CASE run.kind = "input"
      <4>1. run.n = 1 /\ Loaded.state.q = 1
        BY <2>2, <3>1 DEF FirstInputInv, BasesMoveOn
      <4> DEFINE S == Names(setup) \cup {INPUT, EDIT}
      <4>2. PICK log \in Seq(S) : log = Loaded.state.log
        BY <2>3 DEF States
      <4>4. INPUT \in S
        OBVIOUS
      <4> HIDE DEF S
      <4>3. TasksIn(Append(log, INPUT)) = TasksIn(log)
        BY <4>2, <4>4, TasksAppend
      <4> QED
        BY <3>1, <4>1, <4>2, <4>3, AppliedFits DEF Stamp
    <3>2. CASE run.kind # "input"
      BY <3>2, AppliedFits
    <3> QED
      BY <3>1, <3>2
  <2> QED
    BY <1>1, <1>4, <2>2, <2>4 DEF HeldBase
<1> QED
  BY <1>3, <1>4

\* What an earlier delivery stored under the base is of the state at hand.
LEMMA PlanFits ==
  ASSUME TypeInv, BaseInv, BasesMoveOn, Plan
  PROVE  Fits(Known', ex')
<1>1. /\ ex.pc = "plan" /\ IsExecution(setup, ex) /\ IsExecution(setup, ex') /\ Keeps(ex')
      /\ ex'.pc = "run" /\ ex'.outs = FoundOutcomes
  BY PlanFacts
<1>2. ex # Off /\ ex' # Off /\ ckpts' = ckpts
  BY <1>1, OnWithStage DEF Plan, stored
<1>3. Known' = Known
  BY <1>1, <1>2 DEF Known, Queue, Keeps
<1>4. HeldBase(Known, ex.base, Stamp(ex.state))
  BY <1>1, <1>2 DEF BaseInv, Fits
<1>5. ASSUME NEW t \in DOMAIN FoundOutcomes PROVE FoundOutcomes[t].from = Stamp(ex.state)
  <2> DEFINE found == {w \in WritesUnder(ex.base) : w.task \in ToSet(Planned)}
             w == CHOOSE w \in found : w.task = t
  <2>1. t \in {v.task : v \in found} /\ FoundOutcomes[t] = [kind |-> "ok", from |-> w.from, goto |-> w.goto]
    BY <1>5 DEF FoundOutcomes
  <2>2. w \in found
    BY <2>1
  <2> HIDE DEF w
  <2>3. w \in writes /\ w.base = ex.base
    BY <2>2 DEF WritesUnder
  <2>4. DatedBase(Known, ids, ex.base, w.from)
    BY <2>3 DEF BaseInv
  <2> QED
    BY <1>4, <2>1, <2>4, DatedMeets
<1> QED
  BY <1>1, <1>3, <1>4, <1>5 DEF Fits, Keeps

LEMMA SaveFits ==
  ASSUME TypeInv, IsExecution(setup, ex), IsExecution(setup, ex'), NEW c, Saves(c),
         c.state = ex.state, ex'.state = ex.state, NEW base, base = <<c.id>>
  PROVE  HeldBase(Known', base, Stamp(ex'.state))
<1>1. Known' = Known \cup {c}
  BY OnWithStage, KnownSaves
<1> QED
  BY <1>1 DEF HeldBase

LEMMA FitsStep ==
  ASSUME TypeInv, FirstInputInv, BaseInv, BasesMoveOn, [Next]_vars, ex' # Off
  PROVE  Fits(Known', ex')
<1>1. ex # Off => Fits(Known, ex)
  BY DEF BaseInv
<1>2. ASSUME ex # Off, Known \subseteq Known', ex'.pc = ex.pc, ex'.base = ex.base,
             ex'.parent = ex.parent, ex'.state = ex.state, ex'.outs = ex.outs, ex'.plan = ex.plan
      PROVE  Fits(Known', ex')
  BY <1>1, <1>2, HeldGrows DEF Fits
<1>3. CASE ex'.pc = "close"
  BY <1>3 DEF Fits
<1>4. CASE Start
  BY <1>4, StartFits
<1>5. CASE StopAtLoopHead \/ StepTimesOut \/ RaiseFailure \/ PausePut
  BY <1>3, <1>5, StopsFacts DEF Stops
<1>6. CASE Plan
  BY <1>6, PlanFits
<1>7. CASE \E t \in ToSet(ex.plan) : ex # Off /\ Decides(t)
  <2>1. PICK t \in ToSet(ex.plan) : ex # Off /\ Decides(t)
    BY <1>7
  <2>2. /\ ex.pc = "run" /\ Keeps(ex') /\ ex'.pc = "run" /\ ckpts' = ckpts
        /\ DOMAIN ex'.outs = DOMAIN ex.outs \cup {t} /\ ex'.outs[t].from = Stamp(ex.state)
        /\ \A u \in DOMAIN ex.outs : ex'.outs[u] = ex.outs[u]
    BY <2>1, DecidesFacts
  <2>3. Known' = Known
    BY <2>1, <2>2 DEF Known, Queue, Keeps
  <2> QED
    BY <1>1, <2>1, <2>2, <2>3 DEF Fits, Keeps
<1>8. CASE Gather
  <2>1. /\ ex.pc = "run" /\ IsExecution(setup, ex) /\ Keeps(ex') /\ ex'.pc = "gathered"
        /\ ex'.plan = ex.plan /\ ex'.outs = ex.outs /\ ToSet(ex.plan) \subseteq DOMAIN ex.outs
    BY <1>8, GatherFacts
  <2>2. ckpts' = ckpts /\ ex # Off
    BY <1>8, <2>1, OnWithStage DEF Gather
  <2>3. Known' = Known
    BY <2>1, <2>2 DEF Known, Queue, Keeps
  <2> QED
    BY <1>1, <2>1, <2>2, <2>3 DEF Fits, Keeps
<1>9. CASE Merge
  <2>1. ex'.pc = "route"
    BY <1>9, MergeFacts
  <2> QED
    BY <2>1 DEF Fits
<1>10. CASE InterruptBefore
  BY <1>3, <1>10, InterruptFacts
<1>11. CASE PauseSave
  <2>1. PICK c : Saves(c) /\ c.state = ex.state /\ ex'.parent = c.id
    BY <1>11, PauseSaveFacts
  <2>2. /\ ex.pc = "gathered" /\ IsExecution(setup, ex) /\ IsExecution(setup, ex')
        /\ ex'.pc = "pausing" /\ ex'.state = ex.state /\ ex'.plan = ex.plan /\ ex'.outs = ex.outs
    BY <1>11, PauseSaveFacts
  <2>3. HeldBase(Known', <<ex'.parent>>, Stamp(ex'.state))
    BY <2>1, <2>2, SaveFits
  <2> QED
    BY <1>1, <2>2, <2>3, OnWithStage DEF Fits
<1>12. CASE RouteAndSave
  <2>1. PICK c : Saves(c) /\ c.state = ex.state /\ ex'.base = <<c.id>>
    BY <1>12, RouteFacts DEF BasesMoveOn, Durability
  <2>2. /\ IsExecution(setup, ex) /\ IsExecution(setup, ex')
        /\ ex'.pc \in {"plan", "exit", "close"} /\ ex'.state = ex.state
    BY <1>12, RouteFacts
  <2>3. HeldBase(Known', ex'.base, Stamp(ex'.state))
    BY <2>1, <2>2, SaveFits
  <2> QED
    BY <2>2, <2>3 DEF Fits
<1>13. CASE Complete
  BY <1>3, <1>13, CompleteFacts
<1>14. CASE WriterStep
  BY <1>2, <1>14, WriterFacts, KnownWriter
<1>15. CASE WriterFails
  BY <1>3, <1>15, WriterFailsFacts
<1>16. CASE Cancel
  <2>1. ckpts' = ckpts
    BY <1>16 DEF Cancel, stored
  <2>2. Known' = Known
    BY <1>16, <2>1, CancelFacts DEF Known, Queue
  <2> QED
    BY <1>2, <1>16, <2>2, CancelFacts
<1>17. CASE Close \/ Crash
  BY <1>17, CloseFacts, CrashFacts
<1>18. CASE SubmitInput \/ SubmitResume \/ UNCHANGED vars
  <2>1. ckpts' = ckpts /\ ex' = ex
    BY <1>18, SubmitFacts DEF Elsewhere, vars
  <2>2. Known' = Known
    BY <2>1 DEF Known, Queue
  <2> QED
    BY <1>1, <2>1, <2>2
<1>19. CASE \E i \in DOMAIN ckpts : Fork(i)
  <2>1. PICK c : ckpts' = Append(ckpts, c) /\ ex' = ex
    BY <1>19, ForkFacts DEF Fork
  <2> QED
    BY <1>2, <2>1, KnownFork
<1> QED
  BY <1>4, <1>5, <1>6, <1>7, <1>8, <1>9, <1>10, <1>11, <1>12, <1>13, <1>14, <1>15, <1>16, <1>17,
     <1>18, <1>19, StepCases DEF vars

\* Results are saved by two actions, under the base or under the pause.
LEMMA WriteSteps ==
  ASSUME TypeInv, [Next]_vars
  PROVE  \/ writes' = writes
         \/ \E base : /\ writes' = PutWrites(base, OutcomesOf("ok"))
                      /\ \/ Gather /\ base = ex.base
                         \/ PausePut /\ base = <<ex.parent>>
<1>1. CASE Start \/ Plan \/ InterruptBefore \/ PauseSave \/ Merge \/ RouteAndSave \/ Complete
           \/ WriterStep \/ Cancel
  BY <1>1 DEF Start, Plan, InterruptBefore, PauseSave, Merge, RouteAndSave, Complete, WriterStep,
              Cancel, stored
<1>2. CASE StopAtLoopHead \/ StepTimesOut \/ RaiseFailure
  BY <1>2 DEF StopAtLoopHead, StepTimesOut, RaiseFailure, stored
<1>3. CASE WriterFails
  BY <1>3, WriterFailsFacts
<1>4. CASE Close \/ Crash \/ SubmitInput \/ SubmitResume \/ UNCHANGED vars
  BY <1>4, CloseFacts, CrashFacts, SubmitFacts DEF Elsewhere, vars
<1>5. CASE \E i \in DOMAIN ckpts : Fork(i)
  BY <1>5 DEF Fork
<1>6. CASE \E t \in ToSet(ex.plan) : ex # Off /\ Decides(t)
  BY <1>6, DecidesFacts
<1>7. CASE Gather \/ PausePut
  BY <1>7 DEF Gather, PausePut
<1> QED
  BY <1>1, <1>2, <1>3, <1>4, <1>5, <1>6, <1>7, StepCases DEF vars

\* What is saved is of the state that is executed, and the base is that state's.
LEMMA SavedResults ==
  ASSUME TypeInv, BaseInv, BasesMoveOn, [Next]_vars, NEW w \in writes', w \notin writes
  PROVE  HeldBase(Known, w.base, w.from)
<1>1. PICK base : /\ writes' = PutWrites(base, OutcomesOf("ok"))
                  /\ \/ Gather /\ base = ex.base
                     \/ PausePut /\ base = <<ex.parent>>
  BY WriteSteps
<1>2. PICK t \in OutcomesOf("ok") : w = [base |-> base, task |-> t, from |-> ex.outs[t].from,
                                         goto |-> ex.outs[t].goto]
  BY <1>1 DEF PutWrites
<1>3. w.base = base /\ w.from = ex.outs[t].from /\ t \in ToSet(ex.plan)
  BY <1>2 DEF OutcomesOf
<1>4. IsExecution(setup, ex) /\ ex # Off
  BY <1>1, GatherFacts, PausePutFacts, OnWithStage
<1>5. Fits(Known, ex)
  BY <1>4 DEF BaseInv
<1>6. CASE Gather
  <2>1. ex.pc = "run" /\ ToSet(ex.plan) \subseteq DOMAIN ex.outs
    BY <1>6, GatherFacts
  <2>2. base = ex.base
    BY <1>1, <1>6, <2>1, PausePutFacts
  <2> QED
    BY <1>3, <1>5, <2>1, <2>2 DEF Fits
<1>7. CASE PausePut
  <2>1. ex.pc = "pausing"
    BY <1>7, PausePutFacts
  <2>2. base = <<ex.parent>>
    BY <1>1, <1>7, <2>1, GatherFacts
  <2> QED
    BY <1>3, <1>5, <2>1, <2>2 DEF Fits
<1> QED
  BY <1>1, <1>6, <1>7

LEMMA BaseStep ==
  ASSUME TypeInv, IdInv, FirstInputInv, BaseInv, [Next]_vars
  PROVE  BaseInv'
<1>1. BasesMoveOn' = BasesMoveOn
  BY SetupStays DEF BasesMoveOn, Durability, MaxInputs
<1>2. SUFFICES ASSUME BasesMoveOn
               PROVE  /\ \A w \in writes' : DatedBase(Known', ids', w.base, w.from)
                      /\ \A e \in effects' : /\ e.key = <<e.key[1], e.task>>
                                             /\ DatedBase(Known', ids', e.key[1], e.from)
                      /\ \A e, f \in effects' : e.key[1] = f.key[1] => e.from = f.from
                      /\ ex' # Off => Fits(Known', ex')
  BY <1>1 DEF BaseInv
<1>3. ASSUME NEW w \in writes' PROVE DatedBase(Known', ids', w.base, w.from)
  <2>1. DatedBase(Known, ids, w.base, w.from)
    BY <1>2, SavedResults, HeldIsDated DEF BaseInv
  <2> QED
    BY <2>1, DatedStays
<1>4. /\ \A e \in effects : /\ e.key = <<e.key[1], e.task>>
                            /\ DatedBase(Known, ids, e.key[1], e.from)
      /\ \A e, f \in effects : e.key[1] = f.key[1] => e.from = f.from
  BY <1>2 DEF BaseInv
<1>5. ASSUME NEW e \in effects', e \notin effects
      PROVE  /\ e.key = <<e.key[1], e.task>> /\ HeldBase(Known, e.key[1], e.from)
             /\ \A f \in effects' \ effects : f.key[1] = e.key[1] /\ f.from = e.from
  <2>1. PICK t \in ToSet(ex.plan) : ex # Off /\ Decides(t)
    BY <1>5, EffectSteps
  <2>2. /\ ex.pc = "run"
        /\ effects' \subseteq effects \cup {[key |-> KeyOf(t), task |-> t, from |-> Stamp(ex.state),
                                             pauses |-> ex.pauses, delivery |-> <<run.n, run.attempt>>]}
    BY <2>1, DecidesFacts
  <2>3. \A f \in effects' \ effects : f.key = <<ex.base, t>> /\ f.task = t /\ f.from = Stamp(ex.state)
    BY <2>2 DEF KeyOf
  <2>4. HeldBase(Known, ex.base, Stamp(ex.state))
    BY <1>2, <2>1, <2>2 DEF BaseInv, Fits
  <2> QED
    BY <1>5, <2>3, <2>4
<1>6. \A e \in effects' : DatedBase(Known, ids, e.key[1], e.from) /\ e.key = <<e.key[1], e.task>>
  BY <1>4, <1>5, HeldIsDated
<1>7. ASSUME NEW e \in effects', NEW f \in effects', e.key[1] = f.key[1] PROVE e.from = f.from
  <2>1. CASE e \in effects /\ f \in effects
    BY <1>4, <1>7, <2>1
  <2>2. CASE e \notin effects /\ f \in effects
    BY <1>5, <1>6, <1>7, <2>2, DatedMeets
  <2>3. CASE e \in effects /\ f \notin effects
    BY <1>5, <1>6, <1>7, <2>3, DatedMeets
  <2>4. CASE e \notin effects /\ f \notin effects
    BY <1>5, <2>4
  <2> QED
    BY <2>1, <2>2, <2>3, <2>4
<1>8. ASSUME NEW e \in effects' PROVE DatedBase(Known', ids', e.key[1], e.from)
  BY <1>6, DatedStays
<1>9. ex' # Off => Fits(Known', ex')
  BY <1>2, FitsStep
<1> QED
  BY <1>3, <1>6, <1>7, <1>8, <1>9

LEMMA BasesFit ==
  ASSUME TypeInv, BaseInv
  PROVE  ResultsFitTheirSnapshot /\ KeyNamesOneActivation
<1>1. ASSUME ex.pc = "gathered", BasesMoveOn, NEW t \in OutcomesOf("ok")
      PROVE  ex.outs[t].from = Stamp(ex.state)
  <2>1. ex # Off /\ t \in ToSet(ex.plan)
    BY <1>1, ExecutionIsOn DEF OutcomesOf
  <2> QED
    BY <1>1, <2>1 DEF BaseInv, Fits
<1>2. ASSUME BasesMoveOn, NEW e \in effects, NEW f \in effects, e.key = f.key
      PROVE  e.task = f.task /\ e.from = f.from
  <2>1. e.key = <<e.key[1], e.task>> /\ f.key = <<f.key[1], f.task>>
    BY <1>2 DEF BaseInv
  <2>2. e.key[1] = f.key[1] /\ e.task = f.task
    BY <1>2, <2>1
  <2> QED
    BY <1>2, <2>2 DEF BaseInv
<1> QED
  BY <1>1, <1>2 DEF ResultsFitTheirSnapshot, KeyNamesOneActivation

-----------------------------------------------------------------------------
(* What moves with every checkpoint of an unforked thread: a superstep or a *)
(* pause.                                                                   *)

ParkedUpTo(list, n) == Cardinality({i \in 1 .. n : Parked(list[i])})
Mark(list, i) == TasksIn(list[i].state.log) + ParkedUpTo(list, i)
DoneIn(list) == IF list = <<>> THEN 0 ELSE TasksIn(list[Len(list)].state.log)

Marked(list) ==
  /\ \A i \in DOMAIN list : Mark(list, i) \in Nat \ {0}
  /\ \A i, k \in DOMAIN list : i < k => Mark(list, i) < Mark(list, k)

\* The key of an effect is made of the checkpoint its activation started from.
MadeOnInput(e) == e.key = <<<<INPUT, e.from>>, e.task>> /\ e.from.n = 0 /\ e.pauses = 0
MadeFrom(list, i, e) ==
  /\ e.key = <<<<list[i].id>>, e.task>> /\ e.from.n = TasksIn(list[i].state.log)
  /\ e.pauses = ParkedUpTo(list, i)
MadeAt(list, e) == MadeOnInput(e) \/ \E i \in DOMAIN list : MadeFrom(list, i, e)

LEMMA TasksInState ==
  ASSUME NEW g, NEW state \in States(g)
  PROVE  TasksIn(state.log) \in Int
<1> DEFINE S == Names(g) \cup {INPUT, EDIT}
<1>1. PICK log \in Seq(S) : log = state.log
  BY DEF States
<1>2. INPUT \in S \cap {INPUT, EDIT}
  OBVIOUS
<1> HIDE DEF S
<1> QED
  BY <1>1, <1>2, TasksAppend

LEMMA ParkedFits ==
  ASSUME NEW list, NEW n \in Nat
  PROVE  /\ ParkedUpTo(list, n) \in Nat /\ ParkedUpTo(list, 0) = 0
         /\ ParkedUpTo(list, n + 1) = ParkedUpTo(list, n) + (IF Parked(list[n + 1]) THEN 1 ELSE 0)
<1> DEFINE A(m) == {i \in 1 .. m : Parked(list[i])}
<1>1. IsFiniteSet(A(n))
  <2>1. IsFiniteSet(1 .. n)
    BY FS_Interval
  <2> QED
    BY <2>1, FS_Subset
<1>2. A(0) = {} /\ n + 1 \notin A(n)
  OBVIOUS
<1>3. A(n + 1) = IF Parked(list[n + 1]) THEN A(n) \cup {n + 1} ELSE A(n)
  OBVIOUS
<1>4. PICK a, b, m : a = A(n) /\ b = A(n + 1) /\ m = n + 1
  OBVIOUS
<1>5. Cardinality(A(0)) = 0
  BY <1>2, FS_EmptySet
<1>6. /\ Cardinality(a) \in Nat
      /\ Cardinality(b) = Cardinality(a) + (IF Parked(list[n + 1]) THEN 1 ELSE 0)
  <2>1. IsFiniteSet(a) /\ m \notin a /\ b = IF Parked(list[n + 1]) THEN a \cup {m} ELSE a
    BY <1>1, <1>2, <1>3, <1>4
  <2>2. Cardinality(a) \in Nat /\ Cardinality(a \cup {m}) = Cardinality(a) + 1
    BY <2>1, FS_CardinalityType, FS_AddElement
  <2> QED
    BY <2>1, <2>2
<1> HIDE DEF A
<1>7. Cardinality(A(n)) \in Nat /\ Cardinality(A(n + 1)) = Cardinality(A(n)) + (IF Parked(list[n + 1]) THEN 1 ELSE 0)
  BY <1>4, <1>6
<1> QED
  BY <1>5, <1>7 DEF A, ParkedUpTo

\* Only what is in the list up to there is counted.
LEMMA ParkedAlike ==
  ASSUME NEW list, NEW more, NEW n, \A i \in 1 .. n : more[i] = list[i]
  PROVE  ParkedUpTo(more, n) = ParkedUpTo(list, n)
<1>1. {i \in 1 .. n : Parked(more[i])} = {i \in 1 .. n : Parked(list[i])}
  OBVIOUS
<1> QED
  BY <1>1 DEF ParkedUpTo

LEMMA AppendMarked ==
  ASSUME NEW list, AreCheckpoints(setup, list), Marked(list), NEW c, IsCheckpoint(setup, c),
         \/ Parked(c) /\ TasksIn(c.state.log) = DoneIn(list)
         \/ ~Parked(c) /\ TasksIn(c.state.log) > DoneIn(list)
  PROVE  /\ Marked(Append(list, c)) /\ DoneIn(Append(list, c)) = TasksIn(c.state.log)
         /\ Append(list, c) # <<>> /\ Append(list, c)[Len(Append(list, c))] = c
         /\ ~Parked(c) => ParkedUpTo(Append(list, c), Len(Append(list, c))) = ParkedUpTo(list, Len(list))
         /\ \A e : MadeAt(list, e) => MadeAt(Append(list, c), e)
<1>1. PICK more, n : more = Append(list, c) /\ n = Len(list)
  OBVIOUS
<1>2. /\ n \in Nat /\ DOMAIN list = 1 .. n /\ DOMAIN more = 1 .. n + 1 /\ Len(more) = n + 1
      /\ more[n + 1] = c /\ \A i \in 1 .. n : more[i] = list[i]
  BY <1>1, ListAppend DEF AreCheckpoints
<1>3. more # <<>> /\ DoneIn(more) = TasksIn(c.state.log)
  <2>1. n + 1 \in DOMAIN more
    BY <1>2
  <2>2. more # <<>>
    BY <2>1
  <2> QED
    BY <1>2, <2>2 DEF DoneIn
<1>4. \A i \in 1 .. n : ParkedUpTo(more, i) = ParkedUpTo(list, i)
  BY <1>2, ParkedAlike
<1>5. ParkedUpTo(more, n) = ParkedUpTo(list, n)
  BY <1>2, ParkedAlike
<1>6. /\ ParkedUpTo(list, n) \in Nat
      /\ ParkedUpTo(more, n + 1) = ParkedUpTo(list, n) + (IF Parked(c) THEN 1 ELSE 0)
  BY <1>2, <1>5, ParkedFits
<1>7. \A i \in 1 .. n : Mark(more, i) = Mark(list, i)
  BY <1>2, <1>4 DEF Mark
<1>8. Mark(more, n + 1) = TasksIn(c.state.log) + ParkedUpTo(list, n) + (IF Parked(c) THEN 1 ELSE 0)
  <2>1. TasksIn(c.state.log) \in Int
    BY TasksInState DEF IsCheckpoint
  <2> QED
    BY <1>2, <1>6, <2>1 DEF Mark
<1>9. TasksIn(c.state.log) \in Int /\ DoneIn(list) \in Int
  <2>1. ASSUME list # <<>> PROVE list[n].state \in States(setup)
    <3>1. n \in DOMAIN list
      BY <1>1, <2>1, ListTail DEF AreCheckpoints
    <3> QED
      BY <3>1 DEF AreCheckpoints, IsCheckpoint, ToSet
  <2> QED
    BY <1>1, <2>1, TasksInState DEF IsCheckpoint, DoneIn
<1>10. Mark(more, n + 1) > DoneIn(list) + ParkedUpTo(list, n)
  BY <1>6, <1>8, <1>9
<1>11. \A i \in 1 .. n : Mark(more, i) < Mark(more, n + 1)
  <2>1. SUFFICES ASSUME NEW i \in 1 .. n PROVE Mark(list, i) < Mark(more, n + 1)
    BY <1>7
  <2>2. list # <<>> /\ n \in 1 .. n
    BY <1>2, <2>1
  <2>3. Mark(list, n) = DoneIn(list) + ParkedUpTo(list, n)
    BY <1>1, <2>2 DEF Mark, DoneIn
  <2>4. Mark(list, i) \in Nat /\ Mark(list, n) \in Nat /\ (i < n => Mark(list, i) < Mark(list, n))
    BY <1>2, <2>2 DEF Marked
  <2>5. i < n \/ i = n
    BY <1>2
  <2> QED
    BY <1>6, <1>8, <1>9, <1>10, <2>3, <2>4, <2>5
<1>12. Mark(more, n + 1) \in Nat \ {0}
  <2>1. CASE list = <<>>
    <3>1. DoneIn(list) = 0
      BY <2>1 DEF DoneIn
    <3> QED
      BY <1>6, <1>8, <1>9, <1>10, <3>1
  <2>2. CASE list # <<>>
    <3>1. n \in 1 .. n
      BY <1>1, <1>2, <2>2, ListTail DEF AreCheckpoints
    <3>2. Mark(more, n) \in Nat \ {0} /\ Mark(more, n) < Mark(more, n + 1)
      BY <1>2, <1>7, <1>11, <3>1 DEF Marked
    <3> QED
      BY <1>6, <1>8, <1>9, <3>2
  <2> QED
    BY <2>1, <2>2
<1>13. Marked(more)
  <2>1. ASSUME NEW i \in 1 .. n + 1 PROVE Mark(more, i) \in Nat \ {0}
    <3>1. i = n + 1 \/ i \in 1 .. n
      BY <1>2
    <3> QED
      BY <1>2, <1>7, <1>12, <3>1 DEF Marked
  <2>2. ASSUME NEW i \in 1 .. n + 1, NEW k \in 1 .. n + 1, i < k PROVE Mark(more, i) < Mark(more, k)
    <3>1. i \in 1 .. n /\ (k = n + 1 \/ k \in 1 .. n)
      BY <1>2, <2>2
    <3> QED
      BY <1>2, <1>7, <1>11, <2>2, <3>1 DEF Marked
  <2> QED
    BY <1>2, <2>1, <2>2 DEF Marked
<1>14. ASSUME NEW e, MadeAt(list, e) PROVE MadeAt(more, e)
  <2>1. CASE \E i \in DOMAIN list : MadeFrom(list, i, e)
    <3>1. PICK i \in 1 .. n : MadeFrom(list, i, e)
      BY <1>2, <2>1
    <3>2. MadeFrom(more, i, e) /\ i \in DOMAIN more
      BY <1>2, <1>4, <3>1 DEF MadeFrom
    <3> QED
      BY <3>2 DEF MadeAt
  <2> QED
    BY <1>14, <2>1 DEF MadeAt
<1>15. ~Parked(c) => ParkedUpTo(more, Len(more)) = ParkedUpTo(list, Len(list))
  BY <1>1, <1>2, <1>6
<1> QED
  BY <1>1, <1>2, <1>3, <1>13, <1>14, <1>15

\* Marks tell activations apart.
LEMMA OneMark ==
  ASSUME NEW list, Len(list) \in Nat, DOMAIN list = 1 .. Len(list), Marked(list),
         NEW e, NEW f, MadeAt(list, e), MadeAt(list, f), SameActivation(e, f),
         e.pauses = f.pauses
  PROVE  e.key = f.key
<1>1. e.task = f.task /\ e.from = f.from /\ e.pauses = f.pauses
  BY DEF SameActivation
<1>2. ASSUME NEW i \in DOMAIN list, NEW g, MadeFrom(list, i, g) PROVE ~(g.from.n = 0 /\ g.pauses = 0)
  BY <1>2 DEF MadeFrom, Marked, Mark
<1>3. CASE MadeOnInput(e) /\ MadeOnInput(f)
  BY <1>1, <1>3 DEF MadeOnInput
<1>4. CASE \E i, k \in DOMAIN list : MadeFrom(list, i, e) /\ MadeFrom(list, k, f)
  <2>1. PICK i \in DOMAIN list, k \in DOMAIN list : MadeFrom(list, i, e) /\ MadeFrom(list, k, f)
    BY <1>4
  <2>2. Mark(list, i) = Mark(list, k)
    BY <1>1, <2>1 DEF MadeFrom, Mark
  <2>3. Mark(list, i) \in Nat /\ ~(i < k) /\ ~(k < i)
    BY <2>2 DEF Marked
  <2>4. i = k
    BY <2>3
  <2> QED
    BY <1>1, <2>1, <2>4 DEF MadeFrom
<1>5. ~(MadeOnInput(e) /\ \E k \in DOMAIN list : MadeFrom(list, k, f))
  BY <1>1, <1>2 DEF MadeOnInput
<1>6. ~(MadeOnInput(f) /\ \E k \in DOMAIN list : MadeFrom(list, k, e))
  BY <1>1, <1>2 DEF MadeOnInput
<1> QED
  BY <1>3, <1>4, <1>5, <1>6 DEF MadeAt

\* The execution starts from the last checkpoint, and a superstep adds to what had run.
Base(list, e) == IF list = <<>> THEN <<INPUT, Stamp(e.state)>> ELSE <<list[Len(list)].id>>
Continues(list, e) ==
  /\ e.pc \in {"plan", "run", "gathered", "route"} => e.pauses = ParkedUpTo(list, Len(list))
  /\ e.pc \in {"plan", "run", "gathered"} =>
        e.base = Base(list, e) /\ TasksIn(e.state.log) = DoneIn(list)
  /\ e.pc = "plan" => ~Nothing(e.next, e.sends)
  /\ e.pc \in {"run", "gathered"} => e.plan # <<>>
  /\ e.pc = "route" => TasksIn(e.state.log) > DoneIn(list)

SavedInStep == Durability = "sync" /\ ~Forks

KeyInv ==
  SavedInStep =>
    /\ Marked(ckpts)
    /\ \A e \in effects : MadeAt(ckpts, e)
    /\ ex # Off => Continues(ckpts, ex)

LEMMA StartContinues ==
  ASSUME TypeInv, Start
  PROVE  Continues(ckpts, ex')
<1>1. PICK from :
        /\ ex'.state = Applied.state /\ ex'.next = from.names /\ ex'.sends = from.sends
        /\ ex'.base = IF Loaded.id = None THEN <<INPUT, Stamp(Applied.state)>> ELSE <<Loaded.id>>
        /\ ex'.pauses = Cardinality({i \in DOMAIN ckpts : Parked(ckpts[i])})
        /\ ex'.pc \in {"plan", "close"}
        /\ ex'.pc = "plan" => from.names # {} \/ from.sends # <<>>
  BY StartFacts
<1>2. Len(ckpts) \in Nat /\ DOMAIN ckpts = 1 .. Len(ckpts)
  BY DEF TypeInv, AreCheckpoints, IsList
<1>3. ex'.pauses = ParkedUpTo(ckpts, Len(ckpts))
  BY <1>1, <1>2 DEF ParkedUpTo
<1>4. ex'.base = Base(ckpts, ex')
  BY <1>1, LoadedFits DEF Base, Latest
<1>5. TasksIn(Loaded.state.log) = DoneIn(ckpts)
  BY LoadedFits, TasksOfNone DEF DoneIn, Latest
<1>6. TasksIn(ex'.state.log) = DoneIn(ckpts)
  <2>1. CASE run.kind = "input"
    <3> DEFINE S == Names(setup) \cup {INPUT, EDIT}
    <3>1. PICK log \in Seq(S) : log = Loaded.state.log
      BY LoadedFits DEF States
    <3>2. INPUT \in S
      OBVIOUS
    <3> HIDE DEF S
    <3>3. TasksIn(Append(log, INPUT)) = TasksIn(log)
      BY <3>1, <3>2, TasksAppend
    <3> QED
      BY <1>1, <1>5, <2>1, <3>1, <3>3, AppliedFits
  <2>2. CASE run.kind # "input"
    BY <1>1, <1>5, <2>2, AppliedFits
  <2> QED
    BY <2>1, <2>2
<1> QED
  BY <1>1, <1>3, <1>4, <1>6 DEF Continues, Nothing

LEMMA PlanContinues ==
  ASSUME TypeInv, Plan, Continues(ckpts, ex)
  PROVE  Continues(ckpts, ex')
<1>1. /\ ex.pc = "plan" /\ IsExecution(setup, ex) /\ Keeps(ex') /\ ex'.pc = "run"
      /\ ex'.plan = TasksOf(setup, ex.next, ex.sends)
  BY PlanFacts
<1>2. ~Nothing(ex.next, ex.sends)
  BY <1>1 DEF Continues
<1>3. IsGraph(setup) /\ ex.next \in SUBSET Names(setup) /\ ex.sends \in Seq(Names(setup))
  BY <1>1, SetupsAreGraphs DEF TypeInv, IsExecution
<1>4. ex'.plan # <<>>
  BY <1>1, <1>2, <1>3, TasksFit
<1> QED
  BY <1>1, <1>4 DEF Continues, Keeps, Base

LEMMA MergeContinues ==
  ASSUME TypeInv, Merge, Continues(ckpts, ex)
  PROVE  Continues(ckpts, ex')
<1>1. /\ ex.pc = "gathered" /\ IsExecution(setup, ex) /\ ex'.pc = "route"
      /\ ex'.pauses = ex.pauses /\ ex'.state.log = ex.state.log \o LogOf(ex.plan)
  BY MergeFacts
<1>2. /\ ex.plan # <<>> /\ ex.pauses = ParkedUpTo(ckpts, Len(ckpts))
      /\ TasksIn(ex.state.log) = DoneIn(ckpts)
  BY <1>1 DEF Continues
<1>3. IsGraph(setup)
  BY SetupsAreGraphs DEF TypeInv
<1> DEFINE N == Names(setup)
           S == N \cup {INPUT, EDIT}
<1>4. PICK plan \in Seq(N \X Nat) : plan = ex.plan
  BY <1>1 DEF IsExecution
<1>5. PICK log \in Seq(S) : log = ex.state.log
  BY <1>1 DEF IsExecution, States
<1>6. N \subseteq S /\ N \cap {INPUT, EDIT} = {}
  BY <1>3 DEF IsGraph
<1> HIDE DEF N, S
<1>7. LogOf(plan) \in Seq(N) /\ Len(LogOf(plan)) = Len(plan)
  BY LogFits
<1>8. Len(plan) \in Nat \ {0}
  BY <1>2, <1>4, EmptySeq
<1>9. PICK more \in Seq(N) : more = LogOf(plan)
  BY <1>7
<1>10. more \in Seq(S) /\ \A i \in DOMAIN more : more[i] \notin {INPUT, EDIT}
  BY <1>6
<1>11. TasksIn(log) \in Int /\ TasksIn(log \o more) = TasksIn(log) + Len(more)
  BY <1>10, TasksConcat
<1>12. TasksIn(ex'.state.log) > DoneIn(ckpts)
  BY <1>1, <1>2, <1>4, <1>5, <1>7, <1>8, <1>9, <1>11
<1> QED
  BY <1>1, <1>2, <1>12 DEF Continues

\* An execution of which only other fields change.
LEMMA ContinuesAlike ==
  ASSUME NEW list, NEW e, NEW d, Continues(list, e), d.pc = e.pc, d.state = e.state,
         d.base = e.base, d.pauses = e.pauses, d.next = e.next, d.sends = e.sends, d.plan = e.plan
  PROVE  Continues(list, d)
  BY DEF Continues, Base

LEMMA ContinuesClosed ==
  ASSUME NEW list, NEW e, e.pc \notin {"plan", "run", "gathered", "route"}
  PROVE  Continues(list, e)
  BY DEF Continues

\* What the step leaves of the invariant: nothing is saved.
Resting == ckpts' = ckpts /\ (ex' # Off => Continues(ckpts, ex'))

\* Or a checkpoint that is a superstep or a pause on.
Moving ==
  \E c : /\ IsCheckpoint(setup, c) /\ ckpts' = Append(ckpts, c)
         /\ \/ Parked(c) /\ TasksIn(c.state.log) = DoneIn(ckpts)
            \/ ~Parked(c) /\ TasksIn(c.state.log) > DoneIn(ckpts)
         /\ \/ ex'.pc \notin {"plan", "run", "gathered", "route"}
            \/ /\ ~Parked(c) /\ ex'.pc = "plan" /\ ~Nothing(ex'.next, ex'.sends)
               /\ ex'.pauses = ParkedUpTo(ckpts, Len(ckpts))
               /\ ex'.state = c.state /\ ex'.base = <<c.id>>

LEMMA ContinuesSteps ==
  ASSUME TypeInv, SavedInStep, ex # Off => Continues(ckpts, ex), [Next]_vars
  PROVE  Resting \/ Moving
<1>1. setup.durability = "sync" /\ ~setup.forks
  BY DEF SavedInStep, Durability, Forks
<1>2. ASSUME ckpts' = ckpts, ex'.pc = "close" PROVE Resting
  BY <1>2, ContinuesClosed DEF Resting
<1>3. CASE Start
  BY <1>3, StartContinues DEF Start, stored, Resting
<1>4. CASE StopAtLoopHead \/ StepTimesOut \/ RaiseFailure \/ PausePut
  BY <1>2, <1>4, StopsFacts DEF Stops
<1>5. CASE Plan
  <2>1. ex # Off
    BY <1>5, PlanFacts, OnWithStage
  <2> QED
    BY <1>5, <2>1, PlanContinues DEF Plan, stored, Resting
<1>6. CASE Merge
  <2>1. ex # Off
    BY <1>6, MergeFacts, OnWithStage
  <2> QED
    BY <1>6, <2>1, MergeContinues DEF Merge, stored, Resting
<1>7. CASE Gather
  <2>1. /\ ex.pc = "run" /\ IsExecution(setup, ex) /\ ex'.pc = "gathered" /\ Keeps(ex')
        /\ ex'.plan = ex.plan
    BY <1>7, GatherFacts
  <2>2. ex # Off /\ ckpts' = ckpts
    BY <1>7, <2>1, OnWithStage DEF Gather
  <2> QED
    BY <2>1, <2>2 DEF Continues, Base, Keeps, Resting
<1>8. CASE \E t \in ToSet(ex.plan) : ex # Off /\ Decides(t)
  <2>1. /\ ex # Off /\ ex.pc = "run" /\ ex'.pc = "run" /\ Keeps(ex') /\ ex'.plan = ex.plan
        /\ ckpts' = ckpts
    BY <1>8, DecidesFacts
  <2> QED
    BY <2>1 DEF Continues, Base, Keeps, Resting
<1>9. CASE InterruptBefore \/ PauseSave
  <2>1. /\ ex.pc \in {"plan", "gathered"} /\ IsExecution(setup, ex)
        /\ ex'.pc \in {"close", "pausing"}
        /\ \E c : Saves(c) /\ c.state = ex.state /\ Parked(c)
    BY <1>9, InterruptFacts, PauseSaveFacts
  <2>2. TasksIn(ex.state.log) = DoneIn(ckpts)
    BY <2>1, OnWithStage DEF Continues
  <2> QED
    BY <1>1, <2>1, <2>2 DEF Saves, Moving
<1>10. CASE RouteAndSave
  <2>1. PICK c : /\ Saves(c) /\ c.state = ex.state /\ ~Parked(c)
                 /\ ex'.next = c.next /\ ex'.sends = c.sends /\ ex'.base = <<c.id>>
    BY <1>1, <1>10, RouteFacts
  <2>2. /\ ex.pc = "route" /\ IsExecution(setup, ex) /\ ex'.pc \in {"plan", "exit", "close"}
        /\ ex'.state = ex.state /\ ex'.pauses = ex.pauses
        /\ ex'.pc = "plan" => ex'.next # {} \/ ex'.sends # <<>>
    BY <1>10, RouteFacts
  <2>3. /\ TasksIn(ex.state.log) > DoneIn(ckpts)
        /\ ex.pauses = ParkedUpTo(ckpts, Len(ckpts))
    BY <2>2, OnWithStage DEF Continues
  <2>4. IsCheckpoint(setup, c) /\ ckpts' = Append(ckpts, c)
    BY <1>1, <2>1 DEF Saves
  <2> QED
    BY <2>1, <2>2, <2>3, <2>4 DEF Moving, Nothing
<1>11. CASE Complete
  BY <1>1, <1>2, <1>11, CompleteFacts DEF SavesNothing
<1>12. CASE WriterStep
  BY <1>1, <1>12, WriterFacts
<1>13. CASE WriterFails
  BY <1>2, <1>13, WriterFailsFacts
<1>14. CASE Cancel
  <2>1. ckpts' = ckpts
    BY <1>14 DEF Cancel, stored
  <2> QED
    BY <1>14, <2>1, CancelFacts, ContinuesAlike DEF Resting
<1>15. CASE Close \/ Crash
  BY <1>15, CloseFacts, CrashFacts DEF Elsewhere, Resting
<1>16. CASE SubmitInput \/ SubmitResume \/ UNCHANGED vars
  <2>1. ckpts' = ckpts /\ ex' = ex
    BY <1>16, SubmitFacts DEF Elsewhere, vars
  <2> QED
    BY <2>1 DEF Resting
<1>17. CASE \E i \in DOMAIN ckpts : Fork(i)
  BY <1>1, <1>17 DEF Fork, Forks
<1> QED
  BY <1>3, <1>4, <1>5, <1>6, <1>7, <1>8, <1>9, <1>10, <1>11, <1>12, <1>13, <1>14, <1>15, <1>16,
     <1>17, StepCases DEF vars

LEMMA KeyStep ==
  ASSUME TypeInv, KeyInv, [Next]_vars
  PROVE  KeyInv'
<1>1. SavedInStep' = SavedInStep
  BY SetupStays DEF SavedInStep, Durability, Forks
<1>2. SUFFICES ASSUME SavedInStep
               PROVE  /\ Marked(ckpts') /\ \A e \in effects' : MadeAt(ckpts', e)
                      /\ ex' # Off => Continues(ckpts', ex')
  BY <1>1 DEF KeyInv
<1>3. /\ Marked(ckpts) /\ \A e \in effects : MadeAt(ckpts, e)
      /\ ex # Off => Continues(ckpts, ex)
  BY <1>2 DEF KeyInv
<1>4. ASSUME NEW e \in effects' PROVE MadeAt(ckpts, e)
  <2>1. CASE e \in effects
    BY <1>3, <2>1
  <2>2. CASE e \notin effects
    <3>1. PICK t \in ToSet(ex.plan) : ex # Off /\ Decides(t)
      BY <1>4, <2>2, EffectSteps
    <3>2. /\ ex.pc = "run"
          /\ e = [key |-> KeyOf(t), task |-> t, from |-> Stamp(ex.state),
                  pauses |-> ex.pauses, delivery |-> <<run.n, run.attempt>>]
      BY <1>4, <2>2, <3>1, DecidesFacts
    <3>3. /\ e.key = <<ex.base, e.task>> /\ e.from = Stamp(ex.state)
          /\ e.from.n = TasksIn(ex.state.log) /\ e.pauses = ex.pauses
      BY <3>2 DEF KeyOf, Stamp
    <3>4. /\ ex.pauses = ParkedUpTo(ckpts, Len(ckpts)) /\ ex.base = Base(ckpts, ex)
          /\ TasksIn(ex.state.log) = DoneIn(ckpts)
      BY <1>3, <3>1, <3>2 DEF Continues
    <3>5. CASE ckpts = <<>>
      <4>1. ParkedUpTo(ckpts, Len(ckpts)) = 0
        BY <3>5, ParkedFits
      <4> QED
        BY <3>3, <3>4, <3>5, <4>1 DEF MadeAt, MadeOnInput, Base, DoneIn
    <3>6. CASE ckpts # <<>>
      <4>1. Len(ckpts) \in DOMAIN ckpts
        BY <3>6, LoadedFits
      <4>2. MadeFrom(ckpts, Len(ckpts), e)
        BY <3>3, <3>4, <3>6 DEF MadeFrom, Base, DoneIn
      <4> QED
        BY <4>1, <4>2 DEF MadeAt
    <3> QED
      BY <3>5, <3>6
  <2> QED
    BY <2>1, <2>2
<1>5. CASE Resting
  BY <1>3, <1>4, <1>5 DEF Resting
<1>6. CASE Moving
  <2>1. PICK c :
          /\ IsCheckpoint(setup, c) /\ ckpts' = Append(ckpts, c)
          /\ \/ Parked(c) /\ TasksIn(c.state.log) = DoneIn(ckpts)
             \/ ~Parked(c) /\ TasksIn(c.state.log) > DoneIn(ckpts)
          /\ \/ ex'.pc \notin {"plan", "run", "gathered", "route"}
             \/ /\ ~Parked(c) /\ ex'.pc = "plan" /\ ~Nothing(ex'.next, ex'.sends)
                /\ ex'.pauses = ParkedUpTo(ckpts, Len(ckpts))
                /\ ex'.state = c.state /\ ex'.base = <<c.id>>
    BY <1>6 DEF Moving
  <2>2. PICK more : more = Append(ckpts, c)
    OBVIOUS
  <2>3. /\ Marked(more) /\ DoneIn(more) = TasksIn(c.state.log)
        /\ more # <<>> /\ more[Len(more)] = c
        /\ ~Parked(c) => ParkedUpTo(more, Len(more)) = ParkedUpTo(ckpts, Len(ckpts))
        /\ \A e : MadeAt(ckpts, e) => MadeAt(more, e)
    BY <1>3, <2>1, <2>2, AppendMarked DEF TypeInv
  <2>4. Continues(more, ex')
    BY <2>1, <2>3 DEF Continues, Base
  <2> QED
    BY <1>4, <2>1, <2>2, <2>3, <2>4
<1> QED
  BY <1>2, <1>3, <1>5, <1>6, ContinuesSteps

LEMMA KeysFit ==
  ASSUME TypeInv, KeyInv
  PROVE  RecoveryKeepsKey
<1>1. Len(ckpts) \in Nat /\ DOMAIN ckpts = 1 .. Len(ckpts)
  BY DEF TypeInv, AreCheckpoints, IsList
<1> QED
  BY <1>1, OneMark DEF RecoveryKeepsKey, KeyInv, SavedInStep

LEMMA InitFits == Init => IdInv /\ FirstInputInv /\ BaseInv /\ KeyInv
<1> SUFFICES ASSUME Init PROVE IdInv /\ FirstInputInv /\ BaseInv /\ KeyInv
  OBVIOUS
<1>1. ckpts = <<>> /\ ex = Off /\ writes = {} /\ effects = {} /\ Known = {}
  BY NothingInNone DEF Init, Known, Queue
<1>2. PICK first : first = [tasks |-> {}, n |-> NotAsked] /\ asked = <<first>>
  BY DEF Init
<1>3. IsList(asked) /\ asked # <<>> /\ asked[1].n = NotAsked /\ run.n = 1
  <2>1. <<first>> \in Seq({first})
    OBVIOUS
  <2>2. IsList(<<first>>) /\ <<first>> # <<>> /\ <<first>>[1] = first
    BY <2>1, ListOf
  <2> QED
    BY <1>2, <2>2 DEF Init
<1>4. DOMAIN ckpts = {}
  BY <1>1
<1>5. IdInv
  BY <1>1 DEF IdInv
<1>6. FirstInputInv
  BY <1>1, <1>3 DEF FirstInputInv
<1>7. BaseInv
  BY <1>1 DEF BaseInv
<1>8. KeyInv
  BY <1>1, <1>4 DEF KeyInv, Marked
<1> QED
  BY <1>5, <1>6, <1>7, <1>8

\* Claim: a result that is merged was computed from the state it is merged into, two executions
\* with one idempotency key are of one activation (both where the base moves with every
\* superstep), and an activation that is executed again carries the key it had (under SYNC,
\* without forks, and unless a pause was saved in between), for every graph.
THEOREM ResultsAndKeys == Spec => []ResultsAndKeysFit
<1> DEFINE Inv == IdInv /\ FirstInputInv /\ BaseInv /\ KeyInv
<1>1. Init => Inv
  BY InitFits
<1>2. TypeInv /\ Inv /\ [Next]_vars => Inv'
  BY IdStep, FirstInputStep, BaseStep, KeyStep
<1>3. TypeInv /\ Inv => ResultsAndKeysFit
  BY BasesFit, KeysFit DEF ResultsAndKeysFit
<1> QED
  BY <1>1, <1>2, <1>3, TypeInvariance, PTL DEF Spec

-----------------------------------------------------------------------------
(* When a fan-in fires.                                                     *)

LEMMA CountBoth ==
  ASSUME NEW S, NEW log \in Seq(S), NEW more \in Seq(S), NEW x
  PROVE  Count(log \o more, x) = Count(log, x) + Count(more, x)
<1> DEFINE both == log \o more
           n == Len(log)
           A == {i \in DOMAIN log : log[i] = x}
           B == {i \in DOMAIN more : more[i] = x}
           C == {i \in DOMAIN both : both[i] = x}
           D == {i \in C : i > n}
           f == [i \in B |-> n + i]
<1>1. /\ n \in Nat /\ DOMAIN log = 1 .. n /\ Len(more) \in Nat
      /\ DOMAIN more = 1 .. Len(more) /\ DOMAIN both = 1 .. n + Len(more)
      /\ \A i \in 1 .. n + Len(more) : both[i] = IF i <= n THEN log[i] ELSE more[i - n]
  BY ConcatProperties
<1>2. IsFiniteSet(A) /\ IsFiniteSet(B)
  BY CountFits
<1> HIDE DEF both, n
<1>3. A \cup D = C /\ A \cap D = {}
  <2>1. \A i \in A : i \in C /\ ~(i > n)
    BY <1>1
  <2>2. \A i \in C : i \in A \/ i \in D
    BY <1>1
  <2> QED
    BY <2>1, <2>2
<1>4. f \in Bijection(B, D)
  <2>1. \A i \in B : n + i \in D
    <3> TAKE i \in B
    <3>1. i \in 1 .. Len(more) /\ more[i] = x
      BY <1>1
    <3>2. n + i \in 1 .. n + Len(more) /\ n + i > n /\ (n + i) - n = i /\ ~(n + i <= n)
      BY <1>1, <3>1
    <3>3. both[n + i] = more[i]
      BY <1>1, <3>2
    <3> QED
      BY <1>1, <3>1, <3>2, <3>3
  <2>2. \A d \in D : \E i \in B : n + i = d
    <3> TAKE d \in D
    <3>1. d \in 1 .. n + Len(more) /\ d > n /\ both[d] = x
      BY <1>1
    <3>2. d - n \in 1 .. Len(more) /\ n + (d - n) = d /\ ~(d <= n)
      BY <1>1, <3>1
    <3>3. more[d - n] = x
      BY <1>1, <3>1, <3>2
    <3> QED
      BY <1>1, <3>2, <3>3
  <2>3. \A i, j \in B : n + i = n + j => i = j
    BY <1>1
  <2> HIDE DEF B, D
  <2>4. f \in [B -> D] /\ \A i \in B : f[i] = n + i
    BY <2>1
  <2> HIDE DEF f
  <2> QED
    BY <2>2, <2>3, <2>4 DEF Bijection, Injection, Surjection, IsInjective
<1> HIDE DEF A, B, C, D, f
<1>5. IsFiniteSet(D) /\ Cardinality(D) = Cardinality(B)
  BY <1>2, <1>4, FS_Bijection DEF ExistsBijection
<1>6. Cardinality(C) = Cardinality(A) + Cardinality(D) - Cardinality({})
  BY <1>2, <1>3, <1>5, FS_Union
<1>7. Cardinality(A) \in Nat /\ Cardinality(B) \in Nat /\ Cardinality({}) = 0
  BY <1>2, FS_CardinalityType, FS_EmptySet
<1>8. Count(log, x) = Cardinality(A) /\ Count(more, x) = Cardinality(B) /\ Count(both, x) = Cardinality(C)
  BY DEF Count, A, B, C
<1> QED
  BY <1>5, <1>6, <1>7, <1>8 DEF both

One(x, S) == IF x \in S THEN 1 ELSE 0

\* What no Send names is planned at most once, and only where it is to run.
LEMMA PlannedOnce ==
  ASSUME NEW g, IsGraph(g), NEW names \in SUBSET Names(g), NEW sends \in Seq(Names(g)),
         NEW x, x \notin ToSet(sends)
  PROVE  Count(PlanOf(g, names, sends), x) <= One(x, names \ OffOf(g, names, sends))
<1> DEFINE now == names \ OffOf(g, names, sends)
           order == Among(now, g.nodes)
           one == [i \in 1 .. Len(order) |-> <<order[i], 0>>]
           two == [i \in 1 .. Len(sends) |-> <<sends[i], i>>]
           tasks == TasksOf(g, names, sends)
           log == PlanOf(g, names, sends)
           A == {i \in DOMAIN log : log[i] = x}
<1>1. order \in Seq(now \cap ToSet(g.nodes)) /\ IsOnce(order)
  BY AmongFits, AmongOnce DEF IsGraph
<1> HIDE DEF now, order
<1>2. /\ Len(order) \in Nat /\ Len(sends) \in Nat
      /\ DOMAIN order = 1 .. Len(order) /\ \A i \in 1 .. Len(order) : order[i] \in now
  BY <1>1
<1>3. one \in Seq(now \X Nat) /\ two \in Seq(Names(g) \X Nat)
  <2>1. one \in [1 .. Len(order) -> now \X Nat] /\ two \in [1 .. Len(sends) -> Names(g) \X Nat]
    BY <1>2
  <2> HIDE DEF one, two
  <2> QED
    BY <1>2, <2>1, FcnIsSeq
<1>4. Len(one) = Len(order) /\ Len(two) = Len(sends)
  BY <1>2
<1>5. tasks = one \o two
  BY DEF TasksOf, now, order
<1>6. /\ DOMAIN tasks = 1 .. Len(order) + Len(sends)
      /\ \A i \in 1 .. Len(order) + Len(sends) :
            tasks[i] = IF i <= Len(order) THEN one[i] ELSE two[i - Len(order)]
  <2>1. one \in Seq((now \cup Names(g)) \X Nat) /\ two \in Seq((now \cup Names(g)) \X Nat)
    BY <1>3
  <2> HIDE DEF one, two, tasks
  <2>2. /\ DOMAIN (one \o two) = 1 .. Len(one) + Len(two)
        /\ \A i \in 1 .. Len(one) + Len(two) :
              (one \o two)[i] = IF i <= Len(one) THEN one[i] ELSE two[i - Len(one)]
    BY <2>1, ConcatProperties
  <2> QED
    BY <1>4, <1>5, <2>2
<1>7. /\ \A i \in 1 .. Len(order) : one[i] = <<order[i], 0>>
      /\ \A i \in 1 .. Len(sends) : two[i] = <<sends[i], i>>
  OBVIOUS
<1> HIDE DEF one, two, tasks
<1>8. \A i \in A : i \in 1 .. Len(order) /\ order[i] = x
  <2> TAKE i \in A
  <2>1. i \in 1 .. Len(order) + Len(sends) /\ tasks[i][1] = x
    BY <1>6 DEF PlanOf, LogOf, tasks
  <2>2. CASE i <= Len(order)
    <3>1. i \in 1 .. Len(order) /\ tasks[i] = <<order[i], 0>>
      BY <1>2, <1>6, <1>7, <2>1, <2>2
    <3> QED
      BY <2>1, <3>1
  <2>3. CASE ~(i <= Len(order))
    <3>1. i - Len(order) \in 1 .. Len(sends) /\ tasks[i] = <<sends[i - Len(order)], i - Len(order)>>
      BY <1>2, <1>6, <1>7, <2>1, <2>3
    <3>2. sends[i - Len(order)] = x /\ i - Len(order) \in DOMAIN sends
      BY <2>1, <3>1
    <3> QED
      BY <3>2 DEF ToSet
  <2> QED
    BY <2>2, <2>3
<1>9. Count(log, x) = Cardinality(A)
  BY DEF Count
<1> HIDE DEF A, log
<1>10. CASE A = {}
  BY <1>9, <1>10, FS_EmptySet DEF One, log
<1>11. CASE A # {}
  <2>1. PICK i \in A : TRUE
    BY <1>11
  <2>2. A = {i} /\ x \in now
    BY <1>1, <1>2, <1>8, <2>1 DEF IsOnce
  <2>3. Cardinality({i}) = 1
    BY FS_Singleton
  <2> QED
    BY <1>9, <2>2, <2>3 DEF One, now, log
<1> QED
  BY <1>10, <1>11

\* What a fan-in has fired, is to fire and has collected is no more than its sources ran.
Kept(e, x) ==
  /\ e.to \notin ToSet(x.sends)
  /\ \A n \in e.from : Count(x.state.log, e.to) + One(e.to, x.next) + One(e.to, x.deferred)
                         + One(n, x.joins[e]) <= Count(x.state.log, n)

\* The same once a superstep is merged that nothing has been scheduled after.
Due(e, x) ==
  \A n \in e.from : Count(x.state.log, e.to) + One(e.to, x.deferred) + One(n, x.joins[e])
                      + Count(LogOf(x.plan), n) <= Count(x.state.log, n)

Clean(fans, goto) == \A e \in fans : e.to \notin goto

InTurn(fans, x) ==
  /\ x.pc \in {"plan", "run", "gathered", "exit"} => \A e \in fans : Kept(e, x)
  /\ x.pc \in {"run", "gathered"} => \A e \in fans : Count(LogOf(x.plan), e.to) <= One(e.to, x.next)
  /\ x.pc = "route" => \A e \in fans : Due(e, x)
  /\ x.pc = "run" => \A t \in DOMAIN x.outs : Clean(fans, x.outs[t].goto)
  /\ x.pc \in {"gathered", "pausing", "route"} =>
       \A t \in ToSet(x.plan) : Clean(fans, x.outs[t].goto)

JoinInv ==
  /\ \A w \in writes : Clean(FanIns, w.goto)
  /\ \A c \in Known : \A e \in FanIns : Kept(e, c)
  /\ ex # Off => InTurn(FanIns, ex)

LEMMA OneFits == \A x, S : One(x, S) \in {0, 1}
  BY DEF One

\* Counts of a log that takes an input or an edit.
LEMMA KeptStays ==
  ASSUME NEW e, NEW x, NEW y, NEW S, x.state.log \in Seq(S), Kept(e, x),
         \/ y.state.log = x.state.log
         \/ \E z \in S : z # e.to /\ y.state.log = Append(x.state.log, z),
         y.joins = x.joins, e.to \notin ToSet(y.sends),
         One(e.to, y.next) + One(e.to, y.deferred) <= One(e.to, x.next) + One(e.to, x.deferred)
  PROVE  Kept(e, y)
<1>1. \A n : /\ Count(x.state.log, n) \in Nat /\ Count(y.state.log, n) \in Nat
             /\ Count(x.state.log, n) <= Count(y.state.log, n)
  <2> TAKE n
  <2>1. Count(x.state.log, n) \in Nat
    BY CountFits
  <2>2. CASE y.state.log = x.state.log
    BY <2>1, <2>2
  <2>3. CASE \E z \in S : z # e.to /\ y.state.log = Append(x.state.log, z)
    <3>1. PICK z \in S : y.state.log = Append(x.state.log, z)
      BY <2>3
    <3>2. Count(y.state.log, n) = Count(x.state.log, n) + IF z = n THEN 1 ELSE 0
      BY <3>1, CountAppend
    <3> QED
      BY <2>1, <3>2
  <2> QED
    BY <2>2, <2>3
<1>2. Count(y.state.log, e.to) = Count(x.state.log, e.to)
  <2>1. CASE \E z \in S : z # e.to /\ y.state.log = Append(x.state.log, z)
    <3>1. PICK z \in S : z # e.to /\ y.state.log = Append(x.state.log, z)
      BY <2>1
    <3>2. Count(y.state.log, e.to) = Count(x.state.log, e.to) + IF z = e.to THEN 1 ELSE 0
      BY <3>1, CountAppend
    <3> QED
      BY <1>1, <3>1, <3>2
  <2> QED
    BY <2>1
<1>3. ASSUME NEW n \in e.from
      PROVE  Count(y.state.log, e.to) + One(e.to, y.next) + One(e.to, y.deferred)
               + One(n, y.joins[e]) <= Count(y.state.log, n)
  <2>1. Count(x.state.log, e.to) + One(e.to, x.next) + One(e.to, x.deferred)
               + One(n, x.joins[e]) <= Count(x.state.log, n)
    BY DEF Kept
  <2>2. PICK p, q, r, s, t : /\ p = One(e.to, x.next) /\ q = One(e.to, x.deferred)
                             /\ r = One(e.to, y.next) /\ s = One(e.to, y.deferred)
                             /\ t = One(n, x.joins[e])
    BY Zenon
  <2>3. /\ p \in Nat /\ q \in Nat /\ r \in Nat /\ s \in Nat /\ t \in Nat
        /\ r + s <= p + q /\ One(n, y.joins[e]) = t
    BY <2>2, OneFits
  <2>4. PICK a, b, d : a = Count(x.state.log, e.to) /\ b = Count(x.state.log, n) /\ d = Count(y.state.log, n)
    BY Zenon
  <2>5. a \in Nat /\ b \in Nat /\ d \in Nat /\ b <= d /\ a + p + q + t <= b
    BY <1>1, <2>1, <2>2, <2>4
  <2>6. a + r + s + t <= d
    BY <2>3, <2>5
  <2> QED
    BY <1>2, <2>2, <2>3, <2>4, <2>6
<1> QED
  BY <1>3 DEF Kept

\* To put a node off is to count it elsewhere.
LEMMA PutOffCounts ==
  ASSUME NEW x, NEW names, NEW deferred, NEW put \in SUBSET names
  PROVE  One(x, names \ put) + One(x, deferred \cup put) <= One(x, names) + One(x, deferred)
  BY DEF One

LEMMA PointFits ==
  ASSUME TypeInv, NEW x, x.state \in States(setup)
  PROVE  x.state.log \in Seq(Names(setup) \cup {INPUT, EDIT})
  BY DEF States

LEMMA FanInFits ==
  ASSUME TypeInv, NEW e \in FanIns
  PROVE  /\ e \in Joins /\ e \in Edges /\ ~e.any /\ e.to \in Names(setup) /\ OnlyWayIn(e)
         /\ e.to # INPUT /\ e.to # EDIT
<1>1. IsGraph(setup)
  BY SetupsAreGraphs DEF TypeInv
<1> QED
  BY <1>1 DEF FanIns, Joins, IsGraph, NodeSet, NodeSeq, Names

\* What a completed node is counted for in the log of its superstep.
LEMMA CompletedCounts ==
  ASSUME TypeInv, IsExecution(setup, ex), NEW n
  PROVE  /\ Count(LogOf(ex.plan), n) \in Nat
         /\ n \in Completed => Count(LogOf(ex.plan), n) # 0
<1> DEFINE log == LogOf(ex.plan)
           A == {i \in DOMAIN log : log[i] = n}
<1>1. log \in Seq(Names(setup)) /\ DOMAIN log = DOMAIN ex.plan
  BY LogFits DEF IsExecution
<1>2. Count(log, n) \in Nat /\ IsFiniteSet(A)
  BY <1>1, CountFits
<1>3. ASSUME n \in Completed PROVE Count(log, n) # 0
  <2>1. PICK i \in DOMAIN ex.plan : ex.plan[i][1] = n
    BY <1>3 DEF Completed, TaskNames
  <2>2. i \in A
    BY <2>1 DEF LogOf
  <2> HIDE DEF A
  <2>3. Cardinality(A) # 0
    BY <1>2, <2>2, FS_EmptySet
  <2> QED
    BY <2>3 DEF Count, A
<1> QED
  BY <1>2, <1>3

\* Nothing but a fan-in that fires schedules its target.
LEMMA OnlyFanInFires ==
  ASSUME TypeInv, IsExecution(setup, ex), NEW e \in FanIns,
         \A t \in ToSet(ex.plan) : e.to \notin ex.outs[t].goto,
         NEW choice, \A n \in Completed : choice[n] \in RoutesOf(n)
  PROVE  /\ e.to \notin ToSet(NextTasks(choice).sends)
         /\ e.to \in NextTasks(choice).names <=> e.from \subseteq Arrived(e)
<1>1. IsGraph(setup)
  BY SetupsAreGraphs DEF TypeInv
<1>2. Completed \subseteq Names(setup) /\ NodeSet = Names(setup)
  BY DEF Completed, TaskNames, IsExecution, NodeSet, NodeSeq, Names
<1>3. e \in Joins /\ e \in Edges /\ ~e.any /\ e.to \in Names(setup) /\ OnlyWayIn(e)
  BY FanInFits
<1> DEFINE S == Names(setup) \ {e.to}
<1>4. \A n \in Completed : e.to \notin choice[n].names /\ choice[n].sends \in Seq(S)
  <2> TAKE n \in Completed
  <2>1. choice[n] = NoRoute \/ choice[n] \in Routes[n]
    BY DEF RoutesOf
  <2>2. CASE choice[n] = NoRoute
    <3>1. choice[n].names = {} /\ choice[n].sends = <<>> /\ <<>> \in Seq(S)
      BY <2>2 DEF NoRoute
    <3> QED
      BY <3>1
  <2>3. CASE choice[n] \in Routes[n]
    <3>1. PICK list : list = choice[n].sends
      OBVIOUS
    <3>2. e.to \notin choice[n].names /\ e.to \notin ToSet(list)
      BY <1>2, <1>3, <2>3, <3>1 DEF OnlyWayIn
    <3>3. list \in Seq(Names(setup))
      BY <1>1, <1>2, <2>3, <3>1 DEF IsGraph, Routes
    <3>4. Len(list) \in Nat /\ DOMAIN list = 1 .. Len(list) /\ list \in [1 .. Len(list) -> S]
      BY <3>2, <3>3 DEF ToSet
    <3>5. list \in Seq(S)
      <4> HIDE DEF S
      <4> QED
        BY <3>4, FcnIsSeq
    <3> QED
      BY <3>1, <3>2, <3>5
  <2> QED
    BY <2>1, <2>2, <2>3
<1>5. e.to \notin ToSet(NextTasks(choice).sends)
  <2>1. PICK list : list = SendsOf(choice)
    OBVIOUS
  <2>2. list \in Seq(S)
    <3> HIDE DEF S
    <3> QED
      BY <1>4, <2>1, SendsFit
  <2>3. \A i \in DOMAIN list : list[i] # e.to
    BY <2>2
  <2> QED
    BY <2>1, <2>3 DEF NextTasks, ToSet
<1>6. Fires(e) <=> e.from \subseteq Arrived(e)
  BY <1>3 DEF Fires
<1>7. e.to \in NextTasks(choice).names <=> \E f \in FollowedEdges : f.to = e.to
  <2>1. PICK chosen, jumped : /\ chosen = UNION {choice[n].names : n \in Completed}
                              /\ jumped = UNION {ex.outs[t].goto : t \in ToSet(ex.plan)}
    OBVIOUS
  <2>2. e.to \notin chosen /\ e.to \notin jumped
    BY <1>4, <2>1
  <2>3. PICK names, reached : /\ names = NextTasks(choice).names
                              /\ reached = {f.to : f \in FollowedEdges}
    BY Zenon
  <2>4. names = (reached \cup chosen \cup jumped) \cap NodeSet
    BY <2>1, <2>3 DEF NextTasks
  <2>5. e.to \in reached <=> \E f \in FollowedEdges : f.to = e.to
    BY <2>3
  <2> QED
    BY <1>2, <1>3, <2>2, <2>3, <2>4, <2>5
<1>8. (\E f \in FollowedEdges : f.to = e.to) <=> Fires(e)
  BY <1>3 DEF FollowedEdges, OnlyWayIn
<1> QED
  BY <1>5, <1>6, <1>7, <1>8

\* To schedule what follows keeps every fan-in in turn.
LEMMA ScheduledKept ==
  ASSUME TypeInv, ex.pc = "route", InTurn(FanIns, ex), NEW e \in FanIns,
         NEW x, Scheduled(x), x.state = ex.state
  PROVE  Kept(e, x)
<1>1. PICK choice, next : Schedules(choice, next, x)
  BY DEF Scheduled
<1>2. ex # Off /\ IsExecution(setup, ex)
  BY ExecutionIsOn
<1>3. Due(e, ex) /\ \A t \in ToSet(ex.plan) : e.to \notin ex.outs[t].goto
  BY DEF InTurn, Clean
<1>4. /\ e.to \notin ToSet(next.sends)
      /\ e.to \in next.names <=> e.from \subseteq Arrived(e)
  BY <1>1, <1>2, <1>3, OnlyFanInFires DEF Schedules
<1>5. e \in Joins /\ ~e.any
  BY FanInFits
<1>6. x.joins[e] = IF e.from \subseteq Arrived(e) THEN {} ELSE Arrived(e)
  BY <1>1, <1>5 DEF Schedules, Progress, Fires
<1>7. ex.state.log \in Seq(Names(setup) \cup {INPUT, EDIT})
  BY <1>2, PointFits DEF IsExecution
<1>8. ASSUME NEW n \in e.from
      PROVE  Count(x.state.log, e.to) + One(e.to, x.next) + One(e.to, x.deferred)
               + One(n, x.joins[e]) <= Count(x.state.log, n)
  <2>1. PICK a, b, d, j, m : /\ a = Count(ex.state.log, e.to) /\ b = Count(ex.state.log, n)
                             /\ d = One(e.to, ex.deferred) /\ j = One(n, ex.joins[e])
                             /\ m = Count(LogOf(ex.plan), n)
    BY Zenon
  <2>2. /\ a \in Nat /\ b \in Nat /\ d \in Nat /\ j \in Nat /\ m \in Nat
        /\ a + d + j + m <= b
    <3>1. a \in Nat /\ b \in Nat
      BY <1>7, <2>1, CountFits
    <3>2. m \in Nat
      BY <1>2, <2>1, CompletedCounts
    <3>3. d \in Nat /\ j \in Nat
      BY <2>1, OneFits
    <3> QED
      BY <1>3, <2>1, <3>1, <3>2, <3>3 DEF Due
  <2>3. n \in Arrived(e) => j + m >= 1
    <3>1. ASSUME n \in ex.joins[e] PROVE j = 1
      BY <2>1, <3>1 DEF One
    <3>2. ASSUME n \in Completed PROVE m # 0
      BY <1>2, <2>1, <3>2, CompletedCounts
    <3> QED
      BY <2>2, <3>1, <3>2 DEF Arrived
  <2>4. CASE e.from \subseteq Arrived(e)
    <3>1. x.joins[e] = {} /\ n \in Arrived(e) /\ e.to \in next.names
      BY <1>4, <1>6, <2>4
    <3>2. ~Woken(next)
      BY <3>1 DEF Woken
    <3>3. x.next = next.names /\ x.deferred = ex.deferred
      BY <1>1, <3>2 DEF Schedules
    <3>4. One(e.to, x.next) = 1 /\ One(n, x.joins[e]) = 0 /\ One(e.to, x.deferred) = d
      BY <2>1, <3>1, <3>3 DEF One
    <3> QED
      BY <2>1, <2>2, <2>3, <3>1, <3>4
  <2>5. CASE ~(e.from \subseteq Arrived(e))
    <3>1. x.joins[e] = Arrived(e) /\ e.to \notin next.names
      BY <1>4, <1>6, <2>5
    <3>2. One(n, x.joins[e]) <= j + m /\ One(n, x.joins[e]) \in Nat
      BY <2>2, <2>3, <3>1 DEF One
    <3>3. One(e.to, x.next) + One(e.to, x.deferred) = d
      <4>1. CASE Woken(next)
        <5>1. x.next = ex.deferred /\ x.deferred = {}
          BY <1>1, <4>1 DEF Schedules
        <5> QED
          BY <2>1, <5>1 DEF One
      <4>2. CASE ~Woken(next)
        <5>1. x.next = next.names /\ x.deferred = ex.deferred
          BY <1>1, <4>2 DEF Schedules
        <5> QED
          BY <2>1, <3>1, <5>1 DEF One
      <4> QED
        BY <4>1, <4>2
    <3>4. PICK r, s, t : r = One(e.to, x.next) /\ s = One(e.to, x.deferred) /\ t = One(n, x.joins[e])
      BY Zenon
    <3>5. r \in Nat /\ s \in Nat /\ t \in Nat /\ r + s = d /\ t <= j + m
      BY <3>2, <3>3, <3>4, OneFits
    <3>6. a + r + s + t <= b
      BY <2>2, <3>5
    <3> QED
      BY <2>1, <3>4, <3>6
  <2> QED
    BY <2>4, <2>5
<1> QED
  BY <1>1, <1>4, <1>8 DEF Kept, Schedules

LEMMA FanInsStay == ASSUME [Next]_vars PROVE FanIns' = FanIns
  BY SetupStays DEF FanIns, Joins, Edges, NodeSet, NodeSeq, OnlyWayIn, Entry, Routes, Gotos

LEMMA LoadedKept ==
  ASSUME TypeInv, JoinInv, NEW e \in FanIns
  PROVE  Kept(e, Loaded)
<1>1. CASE ckpts = <<>>
  <2>1. PICK x : x = Loaded
    OBVIOUS
  <2>2. /\ x.state.log = <<>> /\ x.next = {} /\ x.sends = <<>> /\ x.deferred = {}
        /\ x.joins = NoProgress
    BY <1>1, <2>1 DEF Loaded
  <2>3. x.joins[e] = {}
    BY <2>2, FanInFits DEF NoProgress
  <2>4. \A n : Count(x.state.log, n) = 0
    <3> TAKE n
    <3>1. {i \in DOMAIN x.state.log : x.state.log[i] = n} = {}
      BY <2>2
    <3> QED
      BY <3>1, FS_EmptySet DEF Count
  <2>5. \A n, S : S = {} => One(n, S) = 0
    BY DEF One
  <2>6. \A n \in e.from : Count(x.state.log, e.to) + One(e.to, x.next) + One(e.to, x.deferred)
                            + One(n, x.joins[e]) <= Count(x.state.log, n)
    <3> TAKE n \in e.from
    <3>1. /\ Count(x.state.log, e.to) = 0 /\ Count(x.state.log, n) = 0 /\ One(e.to, x.next) = 0
          /\ One(e.to, x.deferred) = 0 /\ One(n, x.joins[e]) = 0
      BY <2>2, <2>3, <2>4, <2>5
    <3> QED
      BY <3>1
  <2>7. e.to \notin ToSet(x.sends)
    BY <2>2, NothingInNone
  <2> QED
    BY <2>1, <2>6, <2>7 DEF Kept
<1>2. CASE ckpts # <<>>
  <2>1. Loaded \in Known
    BY <1>2, LoadedFits DEF Known
  <2> QED
    BY <2>1 DEF JoinInv
<1> QED
  BY <1>1, <1>2

LEMMA StartKept ==
  ASSUME TypeInv, JoinInv, Start, NEW e \in FanIns
  PROVE  Kept(e, ex')
<1>1. PICK from, x :
        /\ x = ex' /\ Begins(from) /\ x.state = Applied.state /\ x.next = from.names
        /\ x.sends = from.sends /\ x.joins = Loaded.joins /\ x.deferred = Loaded.deferred
  BY StartFacts
<1>2. Kept(e, Loaded)
  BY LoadedKept
<1>3. e.to # INPUT /\ OnlyWayIn(e)
  BY FanInFits
<1> DEFINE S == Names(setup) \cup {INPUT, EDIT}
<1>4. Loaded.state.log \in Seq(S)
  BY LoadedFits DEF States
<1>5. \/ x.state.log = Loaded.state.log
      \/ \E z \in S : z # e.to /\ x.state.log = Append(Loaded.state.log, z)
  BY <1>1, <1>3, AppliedFits
<1>6. e.to \notin ToSet(from.sends) /\ (e.to \in from.names => e.to \in Loaded.next)
  <2>1. CASE NeedsEntry
    <3>1. PICK r \in RoutesOf(START) : from = [names |-> Entry \cup r.names, sends |-> r.sends]
      BY <1>1, <2>1 DEF Begins, EntryTasks
    <3>2. r = NoRoute \/ r \in Routes[START]
      BY DEF RoutesOf
    <3>3. e.to \notin r.names /\ e.to \notin ToSet(r.sends)
      <4>1. CASE r = NoRoute
        <5>1. r.names = {} /\ r.sends = <<>>
          BY <4>1 DEF NoRoute
        <5> QED
          BY <5>1, NothingInNone
      <4>2. CASE r \in Routes[START]
        BY <1>3, <4>2 DEF OnlyWayIn
      <4> QED
        BY <3>2, <4>1, <4>2
    <3> QED
      BY <1>3, <3>1, <3>3 DEF OnlyWayIn
  <2>2. CASE ~NeedsEntry
    <3>1. from.names = Loaded.next /\ from.sends = Loaded.sends
      BY <1>1, <2>2 DEF Begins
    <3> QED
      BY <1>2, <3>1 DEF Kept
  <2> QED
    BY <2>1, <2>2
<1>7. One(e.to, x.next) + One(e.to, x.deferred) <= One(e.to, Loaded.next) + One(e.to, Loaded.deferred)
  BY <1>1, <1>6 DEF One
<1>8. Kept(e, x)
  <2>1. e.to \notin ToSet(x.sends) /\ x.joins = Loaded.joins
    BY <1>1, <1>6
  <2> HIDE DEF S
  <2> QED
    BY <1>2, <1>4, <1>5, <1>7, <2>1, KeptStays
<1> QED
  BY <1>1, <1>8

LEMMA PlanKept ==
  ASSUME TypeInv, JoinInv, Plan
  PROVE  InTurn(FanIns, ex')
<1>1. PICK put : put = OffOf(setup, ex.next, ex.sends) /\ put \subseteq ex.next
  BY DEF OffOf
<1>2. PICK x :
        /\ x = ex' /\ ex.pc = "plan" /\ IsExecution(setup, ex) /\ x.state = ex.state
        /\ x.pc = "run" /\ x.plan = TasksOf(setup, ex.next, ex.sends)
        /\ x.outs = FoundOutcomes /\ x.sends = ex.sends /\ x.next = ex.next \ put
        /\ x.joins = ex.joins /\ x.deferred = ex.deferred \cup put
  BY <1>1, PlanFacts DEF Keeps
<1>3. ex # Off /\ IsGraph(setup)
  BY <1>2, OnWithStage, SetupsAreGraphs DEF TypeInv
<1>4. ASSUME NEW e \in FanIns PROVE Kept(e, x) /\ Count(LogOf(x.plan), e.to) <= One(e.to, x.next)
  <2>1. Kept(e, ex)
    BY <1>2, <1>3 DEF JoinInv, InTurn
  <2>2. e.to \notin ToSet(ex.sends)
    BY <2>1 DEF Kept
  <2>3. PICK S : ex.state.log \in Seq(S)
    BY <1>2, PointFits DEF IsExecution
  <2>4. One(e.to, x.next) + One(e.to, x.deferred) <= One(e.to, ex.next) + One(e.to, ex.deferred)
    BY <1>1, <1>2, PutOffCounts
  <2>5. x.state.log = ex.state.log /\ x.joins = ex.joins /\ e.to \notin ToSet(x.sends)
    BY <1>2, <2>2
  <2>6. Kept(e, x)
    BY <2>1, <2>3, <2>4, <2>5, KeptStays
  <2>7. ex.next \in SUBSET Names(setup) /\ ex.sends \in Seq(Names(setup))
    BY <1>2 DEF IsExecution
  <2>8. Count(PlanOf(setup, ex.next, ex.sends), e.to) <= One(e.to, ex.next \ put)
    BY <1>1, <1>3, <2>2, <2>7, PlannedOnce
  <2> QED
    BY <1>2, <2>6, <2>8 DEF PlanOf
<1>5. ASSUME NEW t \in DOMAIN x.outs PROVE Clean(FanIns, x.outs[t].goto)
  <2> DEFINE found == {w \in WritesUnder(ex.base) : w.task \in ToSet(Planned)}
             one == CHOOSE w \in found : w.task = t
  <2>1. t \in {w.task : w \in found} /\ x.outs[t].goto = one.goto
    BY <1>2, <1>5 DEF FoundOutcomes
  <2>2. one \in found
    BY <2>1
  <2>3. one \in writes
    BY <2>2 DEF WritesUnder
  <2> QED
    BY <2>1, <2>3 DEF JoinInv
<1> QED
  BY <1>2, <1>4, <1>5 DEF InTurn

LEMMA DecideKept ==
  ASSUME TypeInv, JoinInv, NEW t \in ToSet(ex.plan), ex # Off, Decides(t)
  PROVE  InTurn(FanIns, ex')
<1>1. PICK x :
        /\ x = ex' /\ ex.pc = "run" /\ IsExecution(setup, ex) /\ x.state = ex.state
        /\ x.pc = "run" /\ x.plan = ex.plan /\ x.next = ex.next /\ x.sends = ex.sends
        /\ DOMAIN x.outs = DOMAIN ex.outs \cup {t} /\ x.outs[t].goto \in {{}} \cup Gotos[t[1]]
        /\ \A u \in DOMAIN ex.outs : x.outs[u] = ex.outs[u]
        /\ x.joins = ex.joins /\ x.deferred = ex.deferred
  BY DecidesFacts DEF Keeps
<1>2. InTurn(FanIns, ex)
  BY DEF JoinInv
<1>3. t[1] \in NodeSet
  BY <1>1 DEF IsExecution, ToSet, NodeSet, NodeSeq, Names
<1>4. Clean(FanIns, x.outs[t].goto)
  BY <1>1, <1>3, FanInFits DEF Clean, OnlyWayIn
<1>5. \A u \in DOMAIN x.outs : Clean(FanIns, x.outs[u].goto)
  BY <1>1, <1>2, <1>4 DEF InTurn
<1>6. \A e \in FanIns : Kept(e, x)
  BY <1>1, <1>2 DEF InTurn, Kept
<1> QED
  BY <1>1, <1>2, <1>5, <1>6 DEF InTurn

LEMMA MergeKept ==
  ASSUME TypeInv, JoinInv, Merge
  PROVE  InTurn(FanIns, ex')
<1>1. PICK x :
        /\ x = ex' /\ ex.pc = "gathered" /\ IsExecution(setup, ex)
        /\ x.pc = "route" /\ x.plan = ex.plan /\ x.joins = ex.joins /\ x.deferred = ex.deferred
        /\ x.outs = ex.outs /\ x.state.log = ex.state.log \o LogOf(ex.plan)
  BY MergeFacts
<1>2. ex # Off
  BY <1>1, OnWithStage
<1>3. InTurn(FanIns, ex)
  BY <1>2 DEF JoinInv
<1> DEFINE S == Names(setup) \cup {INPUT, EDIT}
<1>4. ex.state.log \in Seq(S)
  BY <1>1, PointFits DEF IsExecution
<1>5. LogOf(ex.plan) \in Seq(S)
  <2>1. LogOf(ex.plan) \in Seq(Names(setup))
    BY <1>1, LogFits DEF IsExecution
  <2>2. LogOf(ex.plan) \in [1 .. Len(LogOf(ex.plan)) -> S] /\ Len(LogOf(ex.plan)) \in Nat
    BY <2>1
  <2> QED
    BY <2>2, FcnIsSeq
<1> HIDE DEF S
<1>6. \A n : /\ Count(x.state.log, n) = Count(ex.state.log, n) + Count(LogOf(ex.plan), n)
             /\ Count(ex.state.log, n) \in Nat /\ Count(LogOf(ex.plan), n) \in Nat
  <2> TAKE n
  <2>1. Count(ex.state.log \o LogOf(ex.plan), n) = Count(ex.state.log, n) + Count(LogOf(ex.plan), n)
    BY <1>4, <1>5, CountBoth
  <2>2. Count(ex.state.log, n) \in Nat /\ Count(LogOf(ex.plan), n) \in Nat
    BY <1>4, <1>5, CountFits
  <2> QED
    BY <1>1, <2>1, <2>2
<1>7. ASSUME NEW e \in FanIns, NEW n \in e.from
      PROVE  Count(x.state.log, e.to) + One(e.to, x.deferred) + One(n, x.joins[e])
               + Count(LogOf(x.plan), n) <= Count(x.state.log, n)
  <2>1. PICK a, b, p, m : /\ a = Count(ex.state.log, e.to) /\ b = Count(ex.state.log, n)
                          /\ p = Count(LogOf(ex.plan), e.to) /\ m = Count(LogOf(ex.plan), n)
    BY Zenon
  <2>2. PICK d, j, k : /\ d = One(e.to, ex.deferred) /\ j = One(n, ex.joins[e])
                       /\ k = One(e.to, ex.next)
    BY Zenon
  <2>3. a \in Nat /\ b \in Nat /\ p \in Nat /\ m \in Nat /\ d \in Nat /\ j \in Nat /\ k \in Nat
    BY <1>6, <2>1, <2>2, OneFits
  <2>4. a + k + d + j <= b /\ p <= k
    BY <1>1, <1>3, <2>1, <2>2 DEF InTurn, Kept
  <2>5. (a + p) + d + j + m <= b + m
    BY <2>3, <2>4
  <2> QED
    BY <1>1, <1>6, <2>1, <2>2, <2>5
<1>8. \A e \in FanIns : Due(e, x)
  BY <1>7 DEF Due
<1> QED
  BY <1>1, <1>3, <1>8 DEF InTurn

LEMMA InTurnStep ==
  ASSUME TypeInv, JoinInv, [Next]_vars, ex' # Off
  PROVE  InTurn(FanIns, ex')
<1>1. ASSUME ex'.pc = "close" PROVE InTurn(FanIns, ex')
  BY <1>1 DEF InTurn
<1>2. CASE Start
  <2>1. ex'.pc \in {"plan", "close"} /\ \A e \in FanIns : Kept(e, ex')
    BY <1>2, StartKept, StartFacts
  <2> QED
    BY <2>1 DEF InTurn
<1>3. CASE StopAtLoopHead \/ StepTimesOut \/ RaiseFailure \/ PausePut
  BY <1>1, <1>3, StopsFacts DEF Stops
<1>4. CASE Plan \/ Merge
  BY <1>4, PlanKept, MergeKept
<1>5. CASE InterruptBefore \/ Complete \/ WriterFails
  BY <1>1, <1>5, InterruptFacts, CompleteFacts, WriterFailsFacts
<1>6. CASE \E t \in ToSet(ex.plan) : ex # Off /\ Decides(t)
  BY <1>6, DecideKept
<1>7. CASE Gather
  <2>1. PICK x :
          /\ x = ex' /\ ex.pc = "run" /\ IsExecution(setup, ex) /\ x.state = ex.state
          /\ x.pc = "gathered" /\ x.plan = ex.plan /\ x.next = ex.next /\ x.sends = ex.sends
          /\ x.outs = ex.outs /\ ToSet(ex.plan) \subseteq DOMAIN ex.outs
          /\ x.joins = ex.joins /\ x.deferred = ex.deferred
    BY <1>7, GatherFacts DEF Keeps
  <2>2. InTurn(FanIns, ex)
    BY <2>1, OnWithStage DEF JoinInv
  <2>3. \A e \in FanIns : Kept(e, x)
    BY <2>1, <2>2 DEF InTurn, Kept
  <2> QED
    BY <2>1, <2>2, <2>3 DEF InTurn
<1>8. CASE PauseSave
  <2>1. PICK x : /\ x = ex' /\ ex.pc = "gathered" /\ IsExecution(setup, ex)
                 /\ x.pc = "pausing" /\ x.plan = ex.plan /\ x.outs = ex.outs
    BY <1>8, PauseSaveFacts
  <2>2. InTurn(FanIns, ex)
    BY <2>1, OnWithStage DEF JoinInv
  <2> QED
    BY <2>1, <2>2 DEF InTurn
<1>9. CASE RouteAndSave
  <2>1. PICK x : /\ x = ex' /\ ex.pc = "route" /\ IsExecution(setup, ex) /\ Scheduled(x)
                 /\ x.pc \in {"plan", "exit", "close"} /\ x.state = ex.state
    BY <1>9, RouteFacts
  <2>2. InTurn(FanIns, ex)
    BY <2>1, OnWithStage DEF JoinInv
  <2>3. \A e \in FanIns : Kept(e, x)
    BY <2>1, <2>2, ScheduledKept
  <2> QED
    BY <2>1, <2>3 DEF InTurn
<1>10. CASE WriterStep \/ Cancel
  <2>1. PICK x : /\ x = ex' /\ ex # Off /\ x.pc = ex.pc /\ x.state = ex.state
                 /\ x.next = ex.next /\ x.sends = ex.sends /\ x.plan = ex.plan /\ x.outs = ex.outs
                 /\ x.joins = ex.joins /\ x.deferred = ex.deferred
    BY <1>10, WriterFacts, CancelFacts
  <2>2. InTurn(FanIns, ex)
    BY <2>1 DEF JoinInv
  <2> QED
    BY <2>1, <2>2 DEF InTurn, Kept, Due
<1>11. CASE UNCHANGED vars \/ SubmitInput \/ SubmitResume
  <2>1. ex' = ex
    BY <1>11, SubmitFacts DEF vars
  <2> QED
    BY <2>1 DEF JoinInv
<1>12. CASE \E i \in DOMAIN ckpts : Fork(i)
  <2>1. ex' = ex
    BY <1>12 DEF Fork
  <2> QED
    BY <2>1 DEF JoinInv
<1>13. ASSUME Close \/ Crash PROVE FALSE
  BY <1>13, CloseFacts, CrashFacts
<1> QED
  BY <1>2, <1>3, <1>4, <1>5, <1>6, <1>7, <1>8, <1>9, <1>10, <1>11, <1>12, <1>13, StepCases DEF vars

LEMMA KnownKept ==
  ASSUME TypeInv, JoinInv, [Next]_vars, NEW c \in Known', NEW e \in FanIns
  PROVE  Kept(e, c)
<1> DEFINE Good(d) == Kept(e, d)
<1>1. \A d \in Known : Good(d)
  BY DEF JoinInv
<1>2. ASSUME ckpts' = ckpts, ToSet(Queue') \subseteq ToSet(Queue) PROVE Good(c)
  <2>1. Known' \subseteq Known
    BY <1>2 DEF Known
  <2> QED
    BY <1>1, <2>1
<1>3. CASE Start
  BY <1>2, <1>3, StartFacts, NothingInNone DEF Start, stored, Queue
<1>4. CASE StopAtLoopHead \/ StepTimesOut \/ RaiseFailure \/ PausePut
  BY <1>2, <1>4, StopsFacts, NothingInNone DEF Stops, Keeps, Queue
<1>5. CASE Plan \/ Gather \/ Merge \/ Cancel
  <2>1. ex'.queue = ex.queue /\ IsExecution(setup, ex)
    BY <1>5, PlanFacts, GatherFacts, MergeFacts, CancelFacts DEF Keeps
  <2>2. ckpts' = ckpts /\ ex # Off
    BY <1>5, <2>1, OnWithStage DEF Plan, Gather, Merge, Cancel, stored
  <2> QED
    BY <1>2, <2>1, <2>2, NothingInNone DEF Queue
<1>6. CASE \E t \in ToSet(ex.plan) : ex # Off /\ Decides(t)
  BY <1>2, <1>6, DecidesFacts, NothingInNone DEF Keeps, Queue
<1>7. ASSUME NEW d, Saves(d), Good(d), IsExecution(setup, ex), IsExecution(setup, ex') PROVE Good(c)
  <2>1. ex # Off /\ ex' # Off
    BY <1>7, OnWithStage
  <2>2. Known' = Known \cup {d}
    BY <1>7, <2>1, KnownSaves
  <2> QED
    BY <1>1, <1>7, <2>2
<1>8. CASE InterruptBefore
  <2>1. PICK put : put = OffOf(setup, ex.next, ex.sends) /\ put \subseteq ex.next
    BY DEF OffOf
  <2>2. PICK d : /\ Saves(d) /\ d.state = ex.state /\ d.next = ex.next \ put /\ d.sends = ex.sends
                 /\ d.deferred = ex.deferred \cup put /\ d.joins = ex.joins
    BY <1>8, <2>1, InterruptFacts
  <2>3. ex.pc = "plan" /\ IsExecution(setup, ex) /\ IsExecution(setup, ex')
    BY <1>8, InterruptFacts
  <2>4. Kept(e, ex)
    BY <2>3, OnWithStage DEF JoinInv, InTurn
  <2>5. PICK S : ex.state.log \in Seq(S)
    BY <2>3, PointFits DEF IsExecution
  <2>6. One(e.to, d.next) + One(e.to, d.deferred) <= One(e.to, ex.next) + One(e.to, ex.deferred)
    BY <2>1, <2>2, PutOffCounts
  <2>7. d.state.log = ex.state.log /\ e.to \notin ToSet(d.sends)
    BY <2>2, <2>4 DEF Kept
  <2>8. Good(d)
    BY <2>2, <2>4, <2>5, <2>6, <2>7, KeptStays
  <2> QED
    BY <1>7, <2>2, <2>3, <2>8
<1>9. CASE PauseSave
  <2>1. ex.pc = "gathered" /\ IsExecution(setup, ex) /\ IsExecution(setup, ex')
    BY <1>9, PauseSaveFacts
  <2>2. PICK d : /\ Saves(d) /\ d.state = ex.state /\ d.next = ex.next /\ d.sends = ex.sends
                 /\ d.joins = ex.joins /\ d.deferred = ex.deferred
    BY <1>9, PauseSaveFacts
  <2>3. Kept(e, ex)
    BY <2>1, OnWithStage DEF JoinInv, InTurn
  <2>4. Good(d)
    BY <2>2, <2>3 DEF Kept
  <2> QED
    BY <1>7, <2>1, <2>2, <2>4
<1>10. CASE RouteAndSave
  <2>1. ex.pc = "route" /\ IsExecution(setup, ex) /\ IsExecution(setup, ex')
    BY <1>10, RouteFacts
  <2>2. CASE setup.durability = "exit"
    <3>1. ckpts' = ckpts /\ ex'.queue = ex.queue /\ ex # Off
      BY <1>10, <2>1, <2>2, RouteFacts, OnWithStage DEF SavesNothing
    <3> QED
      BY <1>2, <3>1, NothingInNone DEF Queue
  <2>3. CASE setup.durability # "exit"
    <3>1. PICK d : Saves(d) /\ d.state = ex.state /\ Scheduled(d)
      BY <1>10, <2>3, RouteFacts
    <3>2. InTurn(FanIns, ex)
      BY <2>1, OnWithStage DEF JoinInv
    <3>3. Good(d)
      BY <2>1, <3>1, <3>2, ScheduledKept
    <3> QED
      BY <1>7, <2>1, <3>1, <3>3
  <2> QED
    BY <2>2, <2>3
<1>11. CASE Complete
  <2>1. ex.pc = "exit" /\ IsExecution(setup, ex) /\ IsExecution(setup, ex')
    BY <1>11, CompleteFacts
  <2>2. CASE setup.durability # "exit"
    <3>1. ckpts' = ckpts /\ ex'.queue = ex.queue /\ ex # Off
      BY <1>11, <2>1, <2>2, CompleteFacts, OnWithStage DEF SavesNothing
    <3> QED
      BY <1>2, <3>1, NothingInNone DEF Queue
  <2>3. CASE setup.durability = "exit"
    <3>1. PICK d : /\ Saves(d) /\ d.state = ex.state /\ d.next = {} /\ d.sends = <<>>
                   /\ d.joins = NoProgress /\ d.deferred = {}
      BY <1>11, <2>3, CompleteFacts
    <3>2. Kept(e, ex)
      BY <2>1, OnWithStage DEF JoinInv, InTurn
    <3>3. d.joins[e] = {}
      BY <3>1, FanInFits DEF NoProgress
    <3>4. Good(d)
      <4>1. ASSUME NEW n \in e.from
            PROVE  Count(d.state.log, e.to) + One(e.to, d.next) + One(e.to, d.deferred)
                     + One(n, d.joins[e]) <= Count(d.state.log, n)
        <5>1. PICK a, b : a = Count(ex.state.log, e.to) /\ b = Count(ex.state.log, n)
          OBVIOUS
        <5>2. a \in Nat /\ b \in Nat
          BY <2>1, <5>1, PointFits, CountFits DEF IsExecution
        <5>3. PICK p, q, r : /\ p = One(e.to, ex.next) /\ q = One(e.to, ex.deferred)
                             /\ r = One(n, ex.joins[e])
          BY Zenon
        <5>4. p \in Nat /\ q \in Nat /\ r \in Nat /\ a + p + q + r <= b
          BY <3>2, <5>1, <5>3, OneFits DEF Kept
        <5>5. a <= b
          BY <5>2, <5>4
        <5>6. One(e.to, d.next) = 0 /\ One(e.to, d.deferred) = 0 /\ One(n, d.joins[e]) = 0
          BY <3>1, <3>3 DEF One
        <5> QED
          BY <3>1, <5>1, <5>2, <5>5, <5>6
      <4>2. e.to \notin ToSet(d.sends)
        BY <3>1, NothingInNone
      <4> QED
        BY <4>1, <4>2 DEF Kept
    <3> QED
      BY <1>7, <2>1, <3>1, <3>4
  <2> QED
    BY <2>2, <2>3
<1>12. CASE WriterStep
  BY <1>1, <1>12, KnownWriter
<1>13. CASE WriterFails
  BY <1>2, <1>13, WriterFailsFacts, NothingInNone DEF Queue
<1>14. CASE Close \/ Crash \/ SubmitInput \/ SubmitResume \/ UNCHANGED vars
  <2>1. ckpts' = ckpts /\ (ex' = Off \/ ex' = ex)
    BY <1>14, CloseFacts, CrashFacts, SubmitFacts DEF Elsewhere, vars
  <2> QED
    BY <1>2, <2>1, NothingInNone DEF Queue
<1>15. CASE \E i \in DOMAIN ckpts : Fork(i)
  <2>1. PICK i \in DOMAIN ckpts : Fork(i)
    BY <1>15
  <2>2. PICK d :
          /\ i \in DOMAIN ckpts /\ ckpts' = Append(ckpts, d) /\ ex' = ex
          /\ d.state.log = Append(ckpts[i].state.log, EDIT)
          /\ d.next = ckpts[i].next /\ d.sends = ckpts[i].sends
          /\ d.joins = ckpts[i].joins /\ d.deferred = ckpts[i].deferred
    <3>1. ex' = ex
      BY <2>1 DEF Fork
    <3>2. \E d : /\ ckpts' = Append(ckpts, d) /\ d.state.log = Append(ckpts[i].state.log, EDIT)
                 /\ d.next = ckpts[i].next /\ d.sends = ckpts[i].sends
                 /\ d.joins = ckpts[i].joins /\ d.deferred = ckpts[i].deferred
      BY <2>1, ForkFacts
    <3> QED
      BY <3>1, <3>2
  <2>3. PICK b : b = ckpts[i]
    OBVIOUS
  <2>4. b \in ToSet(ckpts) /\ b \in Known
    BY <2>2, <2>3 DEF Known, ToSet
  <2>5. Kept(e, b) /\ b.state.log \in Seq(Names(setup) \cup {INPUT, EDIT})
    BY <1>1, <2>4, PointFits DEF TypeInv, AreCheckpoints, IsCheckpoint
  <2>6. EDIT # e.to
    BY FanInFits
  <2>7. /\ d.joins = b.joins /\ e.to \notin ToSet(d.sends)
        /\ One(e.to, d.next) + One(e.to, d.deferred) <= One(e.to, b.next) + One(e.to, b.deferred)
    <3>1. d.next = b.next /\ d.deferred = b.deferred /\ d.joins = b.joins /\ d.sends = b.sends
      BY <2>2, <2>3
    <3>2. One(e.to, b.next) \in {0, 1} /\ One(e.to, b.deferred) \in {0, 1}
      BY OneFits
    <3> QED
      BY <2>5, <3>1, <3>2 DEF Kept
  <2>8. \E z \in Names(setup) \cup {INPUT, EDIT} : z # e.to /\ d.state.log = Append(b.state.log, z)
    BY <2>2, <2>3, <2>6
  <2>9. Good(d)
    BY <2>5, <2>7, <2>8, KeptStays
  <2>10. Known' = Known \cup {d}
    BY <2>2, KnownFork
  <2> QED
    BY <1>1, <2>9, <2>10
<1> QED
  BY <1>3, <1>4, <1>5, <1>6, <1>8, <1>9, <1>10, <1>11, <1>12, <1>13, <1>14, <1>15, StepCases DEF vars

LEMMA WritesClean ==
  ASSUME TypeInv, JoinInv, [Next]_vars, NEW w \in writes'
  PROVE  Clean(FanIns, w.goto)
<1>1. CASE w \in writes
  BY <1>1 DEF JoinInv
<1>2. CASE w \notin writes
  <2>1. PICK base : writes' = PutWrites(base, OutcomesOf("ok")) /\ (Gather \/ PausePut)
    BY <1>2, WriteSteps
  <2>2. PICK t \in OutcomesOf("ok") : w = [base |-> base, task |-> t, from |-> ex.outs[t].from,
                                           goto |-> ex.outs[t].goto]
    BY <1>2, <2>1 DEF PutWrites
  <2>3. w.goto = ex.outs[t].goto /\ t \in ToSet(ex.plan)
    BY <2>2 DEF OutcomesOf
  <2>4. IsExecution(setup, ex) /\ ex # Off
    BY <2>1, GatherFacts, PausePutFacts, OnWithStage
  <2>5. InTurn(FanIns, ex)
    BY <2>4 DEF JoinInv
  <2>6. CASE Gather
    <3>1. ex.pc = "run" /\ ToSet(ex.plan) \subseteq DOMAIN ex.outs
      BY <2>6, GatherFacts
    <3> QED
      BY <2>3, <2>5, <3>1 DEF InTurn
  <2>7. CASE PausePut
    <3>1. ex.pc = "pausing"
      BY <2>7, PausePutFacts
    <3> QED
      BY <2>3, <2>5, <3>1 DEF InTurn
  <2> QED
    BY <2>1, <2>6, <2>7
<1> QED
  BY <1>1, <1>2

LEMMA JoinStep ==
  ASSUME TypeInv, JoinInv, [Next]_vars
  PROVE  JoinInv'
<1>1. PICK fans : fans = FanIns /\ fans = FanIns'
  BY FanInsStay
<1>2. \A w \in writes' : Clean(fans, w.goto)
  BY <1>1, WritesClean
<1>3. \A c \in Known' : \A e \in fans : Kept(e, c)
  BY <1>1, KnownKept
<1>4. ex' # Off => InTurn(fans, ex')
  BY <1>1, InTurnStep
<1> QED
  BY <1>1, <1>2, <1>3, <1>4 DEF JoinInv

LEMMA JoinsInTurn ==
  ASSUME TypeInv, JoinInv
  PROVE  JoinIsNotEarly
<1> SUFFICES ASSUME NEW e \in FanIns, NEW i \in DOMAIN ckpts, NEW n \in e.from
             PROVE  Fired(e, ckpts[i]) <= Count(ckpts[i].state.log, n)
  BY DEF JoinIsNotEarly
<1>1. PICK c : c = ckpts[i]
  OBVIOUS
<1>2. c \in ToSet(ckpts) /\ c \in Known
  BY <1>1 DEF Known, ToSet
<1>3. Kept(e, c) /\ c.state.log \in Seq(Names(setup) \cup {INPUT, EDIT})
  BY <1>2, PointFits DEF JoinInv, TypeInv, AreCheckpoints, IsCheckpoint
<1>4. PICK a, b, p, q, r : /\ a = Count(c.state.log, e.to) /\ b = Count(c.state.log, n)
                           /\ p = One(e.to, c.next) /\ q = One(e.to, c.deferred)
                           /\ r = One(n, c.joins[e])
  BY Zenon
<1>5. a \in Nat /\ b \in Nat /\ p \in Nat /\ q \in Nat /\ r \in Nat /\ a + p + q + r <= b
  <2>1. a \in Nat /\ b \in Nat
    BY <1>3, <1>4, CountFits
  <2>2. p \in Nat /\ q \in Nat /\ r \in Nat
    BY <1>4, OneFits
  <2>3. a + p + q + r <= b
    BY <1>3, <1>4 DEF Kept
  <2> QED
    BY <2>1, <2>2, <2>3
<1>6. Fired(e, c) <= a + p + q /\ Fired(e, c) \in Nat
  BY <1>4, <1>5 DEF Fired, One
<1> QED
  BY <1>1, <1>4, <1>5, <1>6

\* Claim: for every graph, mode of durability and number of faults, a fan-in whose target has
\* no other way in never fires early or twice for one round of its sources: in no saved state
\* has its target run, or been scheduled to, more often than any of the sources ran.  The
\* invariant counts with it what the fan-in has collected of a round that is not complete.
LEMMA JoinsFireInTime == Spec => []JoinIsNotEarly
<1>1. Init => JoinInv
  <2> SUFFICES ASSUME Init PROVE JoinInv
    OBVIOUS
  <2>1. ckpts = <<>> /\ ex = Off /\ writes = {} /\ Known = {}
    BY NothingInNone DEF Init, Known, Queue
  <2> QED
    BY <2>1 DEF JoinInv
<1>2. TypeInv /\ JoinInv /\ [Next]_vars => JoinInv'
  BY JoinStep
<1>3. TypeInv /\ JoinInv => JoinIsNotEarly
  BY JoinsInTurn
<1> QED
  BY <1>1, <1>2, <1>3, TypeInvariance, PTL DEF Spec

-----------------------------------------------------------------------------
(* What runs last in a log, and what has run since.                         *)

LEMMA AmongNames ==
  ASSUME NEW S, NEW list, IsList(list)
  PROVE  ToSet(Among(S, list)) = S \cap ToSet(list)
<1> DEFINE n == Len(list)
<1>1. n \in Nat /\ DOMAIN list = 1 .. n
  BY DEF IsList
<1>2. PICK f : /\ Among(S, list) = f[n] /\ f[0] = <<>>
               /\ \A i \in 1 .. n : f[i] = IF list[i] \in S THEN Append(f[i - 1], list[i]) ELSE f[i - 1]
  BY AmongSteps
<1> DEFINE UpTo(k) == {list[i] : i \in 1 .. k}
           Good(k) == IsList(f[k]) /\ ToSet(f[k]) = S \cap UpTo(k)
           Bad == {k \in 0 .. n : ~ Good(k)}
<1>3. ASSUME Bad # {} PROVE FALSE
  <2>1. Bad \in SUBSET Nat
    BY <1>1
  <2>2. PICK k \in Bad : \A j \in Bad : k <= j
    BY <1>3, <2>1, LeastNat
  <2>3. k \in 0 .. n /\ ~ Good(k)
    BY <2>2
  <2>4. CASE k = 0
    <3>1. UpTo(0) = {}
      OBVIOUS
    <3>2. IsList(f[0]) /\ ToSet(f[0]) = {}
      BY <1>2, NothingInNone
    <3> QED
      BY <2>3, <2>4, <3>1, <3>2
  <2>5. CASE k # 0
    <3>1. k \in 1 .. n /\ k - 1 \in 0 .. n /\ k \in Nat
      BY <1>1, <2>3, <2>5
    <3>2. Good(k - 1)
      <4>1. ~ (k <= k - 1)
        BY <1>1, <3>1
      <4>2. k - 1 \notin Bad
        BY <2>2, <4>1
      <4> QED
        BY <3>1, <4>2
    <3>3. UpTo(k) = UpTo(k - 1) \cup {list[k]}
      <4>1. \A i \in 1 .. k : i \in 1 .. k - 1 \/ i = k
        BY <3>1
      <4>2. k \in 1 .. k /\ \A i \in 1 .. k - 1 : i \in 1 .. k
        BY <3>1
      <4> QED
        BY <4>1, <4>2
    <3> DEFINE g == f[k - 1]
    <3>4. f[k] = IF list[k] \in S THEN Append(g, list[k]) ELSE g
      BY <1>2, <3>1
    <3> HIDE DEF UpTo, g
    <3>5. CASE list[k] \in S
      <4>1. IsList(f[k]) /\ ToSet(f[k]) = ToSet(g) \cup {list[k]}
        BY <3>2, <3>4, <3>5, ListAppend DEF g
      <4> QED
        BY <2>3, <3>2, <3>3, <3>5, <4>1 DEF g
    <3>6. CASE list[k] \notin S
      BY <2>3, <3>2, <3>3, <3>4, <3>6 DEF g
    <3> QED
      BY <3>5, <3>6
  <2> QED
    BY <2>4, <2>5
<1>4. Good(n)
  BY <1>1, <1>3
<1>5. ToSet(list) = UpTo(n)
  BY <1>1 DEF ToSet
<1> QED
  BY <1>2, <1>4, <1>5

\* What a plan names.
LEMMA PlanNames ==
  ASSUME NEW g, IsGraph(g), NEW names \in SUBSET Names(g), NEW sends \in Seq(Names(g))
  PROVE  TaskNames(TasksOf(g, names, sends)) = (names \ OffOf(g, names, sends)) \cup ToSet(sends)
<1> DEFINE now == names \ OffOf(g, names, sends)
           order == Among(now, g.nodes)
           one == [i \in 1 .. Len(order) |-> <<order[i], 0>>]
           two == [i \in 1 .. Len(sends) |-> <<sends[i], i>>]
           tasks == TasksOf(g, names, sends)
<1>1. order \in Seq(now \cap ToSet(g.nodes)) /\ ToSet(order) = now \cap Names(g)
  BY AmongFits, AmongNames DEF IsGraph, Names
<1> HIDE DEF order
<1>2. now \cap Names(g) = now
  OBVIOUS
<1> HIDE DEF now
<1>3. /\ Len(order) \in Nat /\ Len(sends) \in Nat /\ DOMAIN sends = 1 .. Len(sends)
      /\ DOMAIN order = 1 .. Len(order) /\ \A i \in 1 .. Len(order) : order[i] \in now
  BY <1>1
<1>4. one \in Seq(now \X Nat) /\ two \in Seq(Names(g) \X Nat)
  <2>1. one \in [1 .. Len(order) -> now \X Nat] /\ two \in [1 .. Len(sends) -> Names(g) \X Nat]
    BY <1>3
  <2> HIDE DEF one, two
  <2> QED
    BY <1>3, <2>1, FcnIsSeq
<1>5. Len(one) = Len(order) /\ Len(two) = Len(sends)
  BY <1>3
<1>6. tasks = one \o two
  BY DEF TasksOf, now, order
<1>7. /\ DOMAIN tasks = 1 .. Len(order) + Len(sends)
      /\ \A i \in 1 .. Len(order) + Len(sends) :
            tasks[i] = IF i <= Len(order) THEN one[i] ELSE two[i - Len(order)]
  <2>1. one \in Seq((now \cup Names(g)) \X Nat) /\ two \in Seq((now \cup Names(g)) \X Nat)
    BY <1>4
  <2> HIDE DEF one, two, tasks
  <2>2. /\ DOMAIN (one \o two) = 1 .. Len(one) + Len(two)
        /\ \A i \in 1 .. Len(one) + Len(two) :
              (one \o two)[i] = IF i <= Len(one) THEN one[i] ELSE two[i - Len(one)]
    BY <2>1, ConcatProperties
  <2> QED
    BY <1>5, <1>6, <2>2
<1>8. /\ \A i \in 1 .. Len(order) : one[i] = <<order[i], 0>>
      /\ \A i \in 1 .. Len(sends) : two[i] = <<sends[i], i>>
  OBVIOUS
<1> HIDE DEF one, two, tasks
<1>9. \A i \in DOMAIN tasks : tasks[i][1] \in now \cup ToSet(sends)
  <2> TAKE i \in DOMAIN tasks
  <2>1. CASE i <= Len(order)
    <3>1. i \in 1 .. Len(order) /\ tasks[i] = <<order[i], 0>>
      BY <1>3, <1>7, <1>8, <2>1
    <3> QED
      BY <1>3, <3>1
  <2>2. CASE ~(i <= Len(order))
    <3>1. i - Len(order) \in 1 .. Len(sends) /\ tasks[i] = <<sends[i - Len(order)], i - Len(order)>>
      BY <1>3, <1>7, <1>8, <2>2
    <3> QED
      BY <1>3, <3>1 DEF ToSet
  <2> QED
    BY <2>1, <2>2
<1>10. \A x \in now : \E i \in DOMAIN tasks : tasks[i][1] = x
  <2> TAKE x \in now
  <2>1. PICK i \in 1 .. Len(order) : order[i] = x
    BY <1>1, <1>2, <1>3 DEF ToSet
  <2>2. i \in DOMAIN tasks /\ tasks[i] = <<order[i], 0>>
    BY <1>3, <1>7, <1>8
  <2> QED
    BY <2>1, <2>2
<1>11. \A x \in ToSet(sends) : \E i \in DOMAIN tasks : tasks[i][1] = x
  <2> TAKE x \in ToSet(sends)
  <2>1. PICK i \in 1 .. Len(sends) : sends[i] = x
    BY <1>3 DEF ToSet
  <2>2. /\ Len(order) + i \in DOMAIN tasks /\ ~(Len(order) + i <= Len(order))
        /\ (Len(order) + i) - Len(order) = i
    BY <1>3, <1>7
  <2>3. tasks[Len(order) + i] = <<sends[i], i>>
    BY <1>3, <1>7, <1>8, <2>2
  <2> QED
    BY <2>1, <2>2, <2>3
<1> QED
  BY <1>9, <1>10, <1>11 DEF TaskNames, tasks, now

LEMMA RanAppend ==
  ASSUME NEW S, NEW log \in Seq(S), NEW z \in S, NEW n, n # z, NEW marks,
         RanSince(Append(log, z), n, marks)
  PROVE  RanSince(log, n, marks) /\ z \notin marks
<1> DEFINE more == Append(log, z)
<1>1. /\ Len(log) \in Nat /\ DOMAIN log = 1 .. Len(log) /\ DOMAIN more = 1 .. Len(log) + 1
      /\ more[Len(log) + 1] = z /\ \A i \in 1 .. Len(log) : more[i] = log[i]
  BY AppendProperties
<1>2. PICK i \in DOMAIN more : more[i] = n /\ \A k \in DOMAIN more : k > i => more[k] \notin marks
  BY DEF RanSince
<1> HIDE DEF more
<1>3. i \in DOMAIN log /\ log[i] = n /\ Len(log) + 1 > i /\ Len(log) + 1 \in DOMAIN more
  BY <1>1, <1>2
<1>4. \A k \in DOMAIN log : k > i => log[k] \notin marks
  BY <1>1, <1>2
<1> QED
  BY <1>1, <1>2, <1>3, <1>4 DEF RanSince

LEMMA RanBoth ==
  ASSUME NEW S, NEW log \in Seq(S), NEW more \in Seq(S), NEW n, NEW marks,
         RanSince(log \o more, n, marks)
  PROVE  n \in ToSet(more) \/ (RanSince(log, n, marks) /\ ToSet(more) \cap marks = {})
<1> DEFINE both == log \o more
<1>1. /\ Len(log) \in Nat /\ DOMAIN log = 1 .. Len(log) /\ Len(more) \in Nat
      /\ DOMAIN more = 1 .. Len(more) /\ DOMAIN both = 1 .. Len(log) + Len(more)
      /\ \A i \in 1 .. Len(log) + Len(more) : both[i] = IF i <= Len(log) THEN log[i] ELSE more[i - Len(log)]
  BY ConcatProperties
<1>2. PICK i \in DOMAIN both : both[i] = n /\ \A k \in DOMAIN both : k > i => both[k] \notin marks
  BY DEF RanSince
<1> HIDE DEF both
<1>3. CASE i <= Len(log)
  <2>1. i \in DOMAIN log /\ log[i] = n
    BY <1>1, <1>2, <1>3
  <2>2. \A k \in DOMAIN log : k > i => log[k] \notin marks
    BY <1>1, <1>2
  <2>3. \A k \in DOMAIN more : more[k] \notin marks
    <3> TAKE k \in DOMAIN more
    <3>1. /\ Len(log) + k \in DOMAIN both /\ Len(log) + k > i /\ ~(Len(log) + k <= Len(log))
          /\ (Len(log) + k) - Len(log) = k
      BY <1>1, <1>3, <2>1
    <3> QED
      BY <1>1, <1>2, <3>1
  <2> QED
    BY <2>1, <2>2, <2>3 DEF RanSince, ToSet
<1>4. CASE ~(i <= Len(log))
  <2>1. i - Len(log) \in DOMAIN more /\ more[i - Len(log)] = n
    BY <1>1, <1>2, <1>4
  <2> QED
    BY <2>1 DEF ToSet
<1> QED
  BY <1>3, <1>4

\* A deferred node ran on the input that the log took last.
Closing(log) == \E n \in Deferred : RanSince(log, n, {INPUT})

LEMMA WiresFit ==
  ASSUME TypeInv
  PROVE  /\ Deferred \subseteq NodeSet /\ NodeSet = Names(setup)
         /\ {START, INPUT, EDIT} \cap NodeSet = {} /\ Entry \subseteq NodeSet
         /\ \A e \in Edges : e.from # {} /\ e.from \subseteq NodeSet
         /\ \A n \in {START} \cup NodeSet : \A r \in Routes[n] : r.sends \in Seq(NodeSet)
  BY SuperstepAssumption DEF TypeInv, Deferred, NodeSet, NodeSeq, Edges, Names, Entry, Routes

LEMMA LastAppend ==
  ASSUME NEW S, NEW log \in Seq(S), NEW z \in S, z \notin NodeSet, z \notin Deferred, LastIn(log)
  PROVE  /\ LastIn(Append(log, z))
         /\ Closing(Append(log, z)) => Closing(log) /\ z # INPUT
<1> DEFINE more == Append(log, z)
<1>1. /\ Len(log) \in Nat /\ DOMAIN log = 1 .. Len(log) /\ DOMAIN more = 1 .. Len(log) + 1
      /\ more[Len(log) + 1] = z /\ \A i \in 1 .. Len(log) : more[i] = log[i]
  BY AppendProperties
<1> HIDE DEF more
<1>2. ASSUME NEW p \in DOMAIN more, NEW q \in DOMAIN more, p < q, more[p] \in Deferred,
             more[q] \in NodeSet \ Deferred
      PROVE  \E m \in p .. q : more[m] = INPUT
  <2>1. q # Len(log) + 1
    BY <1>1, <1>2
  <2>2. p \in DOMAIN log /\ q \in DOMAIN log /\ log[p] = more[p] /\ log[q] = more[q]
    BY <1>1, <1>2, <2>1
  <2>3. PICK m \in p .. q : log[m] = INPUT
    BY <1>2, <2>2 DEF LastIn
  <2>4. m \in 1 .. Len(log)
    BY <1>1, <2>2, <2>3
  <2> QED
    BY <1>1, <2>3, <2>4
<1>3. ASSUME Closing(more) PROVE Closing(log) /\ z # INPUT
  <2>1. PICK n \in Deferred : RanSince(more, n, {INPUT})
    BY <1>3 DEF Closing
  <2>2. RanSince(log, n, {INPUT}) /\ z \notin {INPUT}
    BY <2>1, RanAppend DEF more
  <2> QED
    BY <2>2 DEF Closing
<1> QED
  BY <1>2, <1>3 DEF LastIn, more

\* Deferred nodes on their own at the end of a log, or none where none has run yet.
LEMMA LastBoth ==
  ASSUME TypeInv, NEW S, NEW log \in Seq(S), NEW more \in Seq(S), LastIn(log),
         ToSet(more) \subseteq Deferred \/ (ToSet(more) \cap Deferred = {} /\ ~Closing(log))
  PROVE  LastIn(log \o more) /\ (Closing(log \o more) => ToSet(more) \subseteq Deferred)
<1> DEFINE both == log \o more
<1>1. /\ Len(log) \in Nat /\ DOMAIN log = 1 .. Len(log) /\ Len(more) \in Nat
      /\ DOMAIN more = 1 .. Len(more) /\ DOMAIN both = 1 .. Len(log) + Len(more)
      /\ \A i \in 1 .. Len(log) + Len(more) : both[i] = IF i <= Len(log) THEN log[i] ELSE more[i - Len(log)]
  BY ConcatProperties
<1> HIDE DEF both
<1>2. \A i \in 1 .. Len(log) : both[i] = log[i]
  BY <1>1
<1>3. \A i \in DOMAIN both : i \in 1 .. Len(log) \/ both[i] \in ToSet(more)
  <2> TAKE i \in DOMAIN both
  <2>1. CASE ~(i <= Len(log))
    <3>1. i - Len(log) \in DOMAIN more /\ both[i] = more[i - Len(log)]
      BY <1>1, <2>1
    <3> QED
      BY <3>1 DEF ToSet
  <2> QED
    BY <1>1, <2>1
<1>4. ASSUME NEW p \in DOMAIN both, NEW q \in DOMAIN both, p < q, both[p] \in Deferred,
             both[q] \in NodeSet \ Deferred
      PROVE  \E m \in p .. q : both[m] = INPUT
  <2>1. CASE q \in 1 .. Len(log)
    <3>1. p \in DOMAIN log /\ q \in DOMAIN log /\ log[p] = both[p] /\ log[q] = both[q]
      BY <1>1, <1>2, <1>4, <2>1
    <3>2. PICK m \in p .. q : log[m] = INPUT
      BY <1>4, <3>1 DEF LastIn
    <3>3. m \in 1 .. Len(log)
      BY <1>1, <3>1, <3>2
    <3> QED
      BY <1>2, <3>2, <3>3
  <2>2. CASE q \notin 1 .. Len(log)
    <3>1. ToSet(more) \cap Deferred = {} /\ ~Closing(log)
      BY <1>3, <1>4, <2>2
    <3>2. p \in DOMAIN log /\ log[p] = both[p]
      BY <1>1, <1>2, <1>3, <1>4, <3>1
    <3>3. PICK k \in DOMAIN log : k > p /\ log[k] = INPUT
      BY <1>4, <3>1, <3>2 DEF Closing, RanSince
    <3>4. k \in p .. q /\ k \in 1 .. Len(log)
      BY <1>1, <1>4, <2>2, <3>2, <3>3
    <3> QED
      BY <1>2, <3>3, <3>4
  <2> QED
    BY <2>1, <2>2
<1>5. ASSUME Closing(both) PROVE ToSet(more) \subseteq Deferred
  <2>1. PICK n \in Deferred : RanSince(both, n, {INPUT})
    BY <1>5 DEF Closing
  <2>2. n \in ToSet(more) \/ RanSince(log, n, {INPUT})
    BY <2>1, RanBoth DEF both
  <2> QED
    BY <2>1, <2>2 DEF Closing
<1> QED
  BY <1>4, <1>5 DEF LastIn, both

-----------------------------------------------------------------------------
(* Where the thread stands between two supersteps.                          *)

Wires == {e \in Edges : e.to \in NodeSet}

\* What a fan-in of all sources has collected.
Collected(e, x) == IF IsDirect(e) THEN {} ELSE x.joins[e]

\* Every source that ran since the target did is collected, or in more.
Covered(e, x, more) ==
  \A n \in e.from : RanSince(x.state.log, n, Answer(e)) => n \in Collected(e, x) \cup more

\* No fan-in has collected enough to fire.
Open(joins) == \A e \in Joins : ~(e.from \subseteq joins[e]) /\ (e.any => joins[e] = {})

DeferredWait(x) ==
  /\ LastIn(x.state.log) /\ ToSet(x.sends) \cap Deferred = {}
  /\ Closing(x.state.log) => x.next \subseteq Deferred /\ x.sends = <<>>

Rests(x) ==
  /\ Open(x.joins) /\ x.deferred \subseteq Deferred /\ (Idle(x) => x.deferred = {})
  /\ DeferredAreLast => DeferredWait(x)

\* The target of an edge that is due is scheduled or put off.
Waits(x) == \A e \in Wires : e.to \in x.next \cup x.deferred \/ Covered(e, x, {})

\* The end of a run under EXIT, which gives up what is collected.
Settled(x) == Durability = "exit" /\ Idle(x) /\ \A e \in Wires : ~IsDue(e, x.state.log)

\* What is to run now is planned, deferred nodes on their own.
Readied(x) ==
  /\ TaskNames(x.plan) = x.next \cup ToSet(x.sends)
  /\ x.next \cap Deferred # {} => x.next \subseteq Deferred /\ x.sends = <<>>

\* A superstep is merged and nothing is scheduled after it.
Merged(x) ==
  /\ Open(x.joins) /\ x.deferred \subseteq Deferred
  /\ \A e \in Wires : e.to \in x.deferred \/ Covered(e, x, TaskNames(x.plan))
  /\ DeferredAreLast => /\ LastIn(x.state.log)
                        /\ Closing(x.state.log) => TaskNames(x.plan) \subseteq Deferred

MayJump(t, goto) == goto \in {{}} \cup Gotos[t[1]]

Stands(x) ==
  /\ x.pc \in {"plan", "run", "gathered", "exit"} => Rests(x) /\ Waits(x)
  /\ x.pc \in {"plan", "run", "gathered"} => ~Idle(x)
  /\ x.pc = "exit" => Idle(x)
  /\ x.pc \in {"run", "gathered"} => Readied(x)
  /\ x.pc = "route" => Merged(x)
  /\ x.pc = "run" => \A t \in DOMAIN x.outs : MayJump(t, x.outs[t].goto)
  /\ x.pc \in {"gathered", "pausing", "route"} =>
       \A t \in ToSet(x.plan) : MayJump(t, x.outs[t].goto)

Lasting(c) == Rests(c) /\ (Waits(c) \/ Settled(c))

TurnInv ==
  /\ \A w \in writes : MayJump(w.task, w.goto)
  /\ \A c \in Known : Lasting(c)
  /\ ex # Off => Stands(ex)

\* The same point in another record.
Alike(x, y) ==
  /\ y.state = x.state /\ y.next = x.next /\ y.sends = x.sends
  /\ y.joins = x.joins /\ y.deferred = x.deferred

LEMMA AlikeStands ==
  ASSUME NEW x, NEW y, Alike(x, y)
  PROVE  /\ Rests(x) => Rests(y)
         /\ Waits(x) => Waits(y)
         /\ Settled(x) => Settled(y)
         /\ Idle(x) <=> Idle(y)
  BY DEF Alike, Rests, Waits, Settled, Idle, DeferredWait, Covered, Collected

LEMMA SetupKept ==
  ASSUME [Next]_vars
  PROVE  /\ \A c : Lasting(c)' <=> Lasting(c)
         /\ \A x : Stands(x)' <=> Stands(x)
         /\ \A t, goto : MayJump(t, goto)' <=> MayJump(t, goto)
<1> USE SetupStays
<1>1. /\ Edges' = Edges /\ NodeSet' = NodeSet /\ Joins' = Joins /\ Deferred' = Deferred
      /\ Routes' = Routes /\ Gotos' = Gotos /\ Durability' = Durability
  BY DEF Edges, NodeSet, NodeSeq, Joins, Deferred, Routes, Gotos, Durability
<1>2. Wires' = Wires /\ DeferredAreLast' = DeferredAreLast
  BY <1>1 DEF Wires, DeferredAreLast
<1>3. \A e : IsDirect(e)' = IsDirect(e) /\ Answer(e)' = Answer(e)
  BY <1>1 DEF IsDirect, Answer
<1>4. \A e, log : IsDue(e, log)' = IsDue(e, log)
  BY <1>3 DEF IsDue
<1>5. \A e, x, more : Covered(e, x, more)' = Covered(e, x, more)
  BY <1>3 DEF Covered, Collected
<1>6. \A joins : Open(joins)' = Open(joins)
  BY <1>1 DEF Open
<1>7. \A log : LastIn(log)' = LastIn(log) /\ Closing(log)' = Closing(log)
  BY <1>1 DEF LastIn, Closing
<1>8. \A x : DeferredWait(x)' = DeferredWait(x)
  BY <1>1, <1>7 DEF DeferredWait
<1>9. \A x : Rests(x)' = Rests(x) /\ Waits(x)' = Waits(x) /\ Settled(x)' = Settled(x)
  BY <1>1, <1>2, <1>4, <1>5, <1>6, <1>8 DEF Rests, Waits, Settled
<1>10. \A x : Readied(x)' = Readied(x) /\ Merged(x)' = Merged(x)
  BY <1>1, <1>2, <1>5, <1>6, <1>7 DEF Readied, Merged
<1>11. \A t, goto : MayJump(t, goto)' = MayJump(t, goto)
  BY <1>1 DEF MayJump
<1> QED
  BY <1>9, <1>10, <1>11 DEF Lasting, Stands

\* To put nodes off leaves nothing forgotten, and leaves deferred nodes on their own.
LEMMA PutOffStands ==
  ASSUME NEW x, Rests(x), Waits(x), ~Idle(x), NEW y, NEW put, put = OffOf(setup, x.next, x.sends),
         y.state = x.state, y.sends = x.sends, y.joins = x.joins,
         y.next = x.next \ put, y.deferred = x.deferred \cup put
  PROVE  /\ Rests(y) /\ Waits(y) /\ ~Idle(y)
         /\ y.next \cap Deferred # {} => y.next \subseteq Deferred /\ y.sends = <<>>
<1>1. put = IF x.next \ Deferred # {} \/ x.sends # <<>> THEN x.next \cap Deferred ELSE {}
  BY DEF OffOf, Deferred
<1>2. ~Idle(y)
  BY <1>1 DEF Idle
<1>3. y.next \cap Deferred # {} => y.next \subseteq Deferred /\ y.sends = <<>>
  BY <1>1
<1>4. Open(y.joins) /\ y.deferred \subseteq Deferred
  BY <1>1 DEF Rests
<1>5. DeferredAreLast => DeferredWait(y)
  BY DEF Rests, DeferredWait
<1>6. Waits(y)
  BY DEF Waits, Covered, Collected
<1> QED
  BY <1>2, <1>3, <1>4, <1>5, <1>6 DEF Rests

\* An input or an edit makes no edge due.
LEMMA AppendCovers ==
  ASSUME TypeInv, NEW x, NEW S, x.state.log \in Seq(S), NEW z \in S, z \in {INPUT, EDIT},
         NEW y, y.state.log = Append(x.state.log, z), y.joins = x.joins, NEW e \in Wires
  PROVE  /\ Covered(e, x, {}) => Covered(e, y, {})
         /\ ~IsDue(e, x.state.log) => ~IsDue(e, y.state.log)
         /\ ~IsDue(e, x.state.log) /\ z = INPUT /\ Durability = "exit" => Covered(e, y, {})
<1>1. e.from # {} /\ \A n \in e.from : n # z
  BY WiresFit DEF Wires
<1>2. \A n \in e.from : RanSince(y.state.log, n, Answer(e)) =>
        RanSince(x.state.log, n, Answer(e)) /\ z \notin Answer(e)
  BY <1>1, RanAppend
<1>3. z = INPUT /\ Durability = "exit" /\ ~IsDirect(e) => z \in Answer(e)
  BY DEF Answer
<1>4. ~IsDue(e, x.state.log) /\ IsDirect(e) => \A n \in e.from : ~RanSince(x.state.log, n, Answer(e))
  BY DEF IsDue
<1>5. ~IsDue(e, x.state.log) => ~IsDue(e, y.state.log)
  BY <1>2 DEF IsDue
<1>6. Covered(e, x, {}) => Covered(e, y, {})
  BY <1>2 DEF Covered, Collected
<1>7. ~IsDue(e, x.state.log) /\ z = INPUT /\ Durability = "exit" => Covered(e, y, {})
  BY <1>2, <1>3, <1>4 DEF Covered
<1> QED
  BY <1>5, <1>6, <1>7

LEMMA EditStands ==
  ASSUME TypeInv, NEW x, NEW S, x.state.log \in Seq(S), EDIT \in S, Lasting(x),
         NEW y, y.state.log = Append(x.state.log, EDIT), y.next = x.next, y.sends = x.sends,
         y.joins = x.joins, y.deferred = x.deferred
  PROVE  Lasting(y)
<1>1. EDIT \notin NodeSet /\ EDIT \notin Deferred /\ EDIT # INPUT
  BY WiresFit DEF EDIT, INPUT
<1>2. /\ LastIn(x.state.log) => LastIn(y.state.log)
      /\ LastIn(x.state.log) /\ Closing(y.state.log) => Closing(x.state.log)
  BY <1>1, LastAppend
<1>3. Rests(y)
  BY <1>2 DEF Lasting, Rests, DeferredWait, Idle
<1>4. \A e \in Wires : /\ Covered(e, x, {}) => Covered(e, y, {})
                       /\ ~IsDue(e, x.state.log) => ~IsDue(e, y.state.log)
  BY AppendCovers
<1>5. Waits(x) => Waits(y)
  BY <1>4 DEF Waits
<1>6. Settled(x) => Settled(y)
  BY <1>4 DEF Settled, Idle
<1> QED
  BY <1>3, <1>5, <1>6 DEF Lasting

\* A thread at rest has followed its edges.
LEMMA RestIsSettled ==
  ASSUME TypeInv, NEW x, Rests(x), Waits(x), Idle(x), NEW e \in Wires
  PROVE  ~IsDue(e, x.state.log)
<1>1. x.next = {} /\ x.deferred = {}
  BY DEF Rests, Idle
<1>2. Covered(e, x, {})
  BY <1>1 DEF Waits
<1>3. e.from # {} /\ e \in Edges
  BY WiresFit DEF Wires
<1>4. CASE IsDirect(e)
  BY <1>2, <1>4 DEF Covered, Collected, IsDue
<1>5. CASE ~IsDirect(e)
  <2>1. e \in Joins /\ ~(e.from \subseteq x.joins[e])
    BY <1>5 DEF IsDirect, Rests, Open
  <2> QED
    BY <1>2, <1>5, <2>1 DEF Covered, Collected, IsDue
<1> QED
  BY <1>4, <1>5

LEMMA LoadedStands ==
  ASSUME TypeInv, TurnInv
  PROVE  Lasting(Loaded)
<1>1. CASE ckpts = <<>>
  <2>1. PICK x : x = Loaded
    OBVIOUS
  <2>2. /\ x.state.log = <<>> /\ x.next = {} /\ x.sends = <<>> /\ x.deferred = {}
        /\ x.joins = NoProgress
    BY <1>1, <2>1 DEF Loaded
  <2>3. \A n, marks : ~RanSince(x.state.log, n, marks)
    BY <2>2 DEF RanSince
  <2>4. Open(x.joins)
    BY <2>2, WiresFit DEF Open, NoProgress, Joins
  <2>5. LastIn(x.state.log) /\ ~Closing(x.state.log)
    BY <2>2, <2>3 DEF LastIn, Closing
  <2>6. Rests(x)
    BY <2>2, <2>4, <2>5, NothingInNone DEF Rests, DeferredWait
  <2>7. Waits(x)
    BY <2>3 DEF Waits, Covered
  <2> QED
    BY <2>1, <2>6, <2>7 DEF Lasting
<1>2. CASE ckpts # <<>>
  <2>1. Loaded \in Known
    BY <1>2, LoadedFits DEF Known
  <2> QED
    BY <2>1 DEF TurnInv
<1> QED
  BY <1>1, <1>2

\* Routes send nothing to deferred nodes where those are the last.
LEMMA RouteSends ==
  ASSUME TypeInv, DeferredAreLast, NEW n \in {START} \cup NodeSet, NEW r \in RoutesOf(n)
  PROVE  /\ r.sends \in Seq(NodeSet \ Deferred)
         /\ ToSet(r.sends) \cap Deferred = {}
         /\ n \in Deferred => r.names = {} /\ r.sends = <<>>
<1>1. r = NoRoute \/ r \in Routes[n]
  BY DEF RoutesOf
<1>2. CASE r = NoRoute
  <2>1. r.names = {} /\ r.sends = <<>> /\ <<>> \in Seq(NodeSet \ Deferred)
    BY <1>2 DEF NoRoute
  <2> QED
    BY <2>1, NothingInNone
<1>3. CASE r \in Routes[n]
  <2>1. PICK list : list = r.sends
    OBVIOUS
  <2>2. list \in Seq(NodeSet) /\ ToSet(list) \cap Deferred = {} /\ n \notin Deferred
    BY <1>3, <2>1, WiresFit DEF DeferredAreLast
  <2> DEFINE S == NodeSet \ Deferred
  <2>3. Len(list) \in Nat /\ DOMAIN list = 1 .. Len(list) /\ list \in [1 .. Len(list) -> S]
    BY <2>2 DEF ToSet
  <2>4. list \in Seq(S)
    <3> HIDE DEF S
    <3> QED
      BY <2>3, FcnIsSeq
  <2> QED
    BY <2>1, <2>2, <2>4
<1> QED
  BY <1>1, <1>2, <1>3

LEMMA StartStands ==
  ASSUME TypeInv, TurnInv, Start
  PROVE  Stands(ex')
<1>1. PICK from, x :
        /\ x = ex' /\ Begins(from) /\ x.state = Applied.state /\ x.next = from.names
        /\ x.sends = from.sends /\ x.joins = Loaded.joins /\ x.deferred = Loaded.deferred
        /\ x.pc \in {"plan", "close"} /\ (x.pc = "plan" => from.names # {} \/ from.sends # <<>>)
  BY StartFacts
<1>2. PICK from0 : from0 = Loaded /\ Lasting(from0)
  BY LoadedStands
<1> DEFINE S == Names(setup) \cup {INPUT, EDIT}
<1>3. from0.state.log \in Seq(S) /\ INPUT \in S
  BY <1>2, LoadedFits DEF States
<1> HIDE DEF S
<1>4. INPUT \notin NodeSet /\ INPUT \notin Deferred
  BY WiresFit
<1>5. ASSUME x.pc = "plan" PROVE Rests(x) /\ Waits(x) /\ ~Idle(x)
  <2>1. ~Idle(x)
    BY <1>1, <1>5 DEF Idle
  <2>2. CASE run.kind = "input"
    <3>1. x.state.log = Append(from0.state.log, INPUT) /\ x.joins = from0.joins
      BY <1>1, <1>2, <2>2, AppliedFits
    <3>2. /\ LastIn(from0.state.log) => LastIn(x.state.log)
          /\ LastIn(from0.state.log) => ~Closing(x.state.log)
      BY <1>3, <1>4, <3>1, LastAppend
    <3>3. \A e \in Wires : /\ Covered(e, from0, {}) => Covered(e, x, {})
                           /\ ~IsDue(e, from0.state.log) /\ Durability = "exit" => Covered(e, x, {})
      BY <1>3, <3>1, AppendCovers
    <3>4. CASE NeedsEntry
      <4>1. Idle(from0)
        BY <1>2, <3>4 DEF NeedsEntry, Idle
      <4>2. from0.next = {} /\ from0.deferred = {}
        BY <1>2, <4>1 DEF Lasting, Rests, Idle
      <4>3. \A e \in Wires : Covered(e, x, {})
        BY <1>2, <3>3, <4>2 DEF Lasting, Waits, Settled
      <4>4. PICK r \in RoutesOf(START) : from = [names |-> Entry \cup r.names, sends |-> r.sends]
        BY <1>1, <3>4 DEF Begins, EntryTasks
      <4>5. DeferredAreLast => ToSet(x.sends) \cap Deferred = {}
        BY <1>1, <4>4, RouteSends
      <4>6. Rests(x)
        BY <1>1, <1>2, <3>2, <4>2, <4>5 DEF Lasting, Rests, DeferredWait
      <4> QED
        BY <2>1, <4>3, <4>6 DEF Waits
    <3>5. CASE ~NeedsEntry
      <4>1. x.next = from0.next /\ x.sends = from0.sends /\ x.deferred = from0.deferred
        BY <1>1, <1>2, <3>5 DEF Begins
      <4>2. ~Idle(from0)
        BY <2>1, <4>1 DEF Idle
      <4>3. Waits(from0)
        BY <1>2, <4>2 DEF Lasting, Settled
      <4>4. Waits(x)
        BY <3>3, <4>1, <4>3 DEF Waits
      <4>5. Rests(x)
        BY <1>2, <2>1, <3>1, <3>2, <4>1 DEF Lasting, Rests, DeferredWait
      <4> QED
        BY <2>1, <4>4, <4>5
    <3> QED
      BY <3>4, <3>5
  <2>3. CASE run.kind # "input"
    <3>1. ~NeedsEntry /\ x.state = from0.state
      BY <1>1, <1>2, <2>3, AppliedFits DEF NeedsEntry
    <3>2. Alike(from0, x)
      BY <1>1, <1>2, <3>1 DEF Begins, Alike
    <3>3. ~Idle(from0) /\ Rests(x) /\ (Waits(from0) => Waits(x))
      BY <1>2, <2>1, <3>2, AlikeStands DEF Lasting
    <3>4. Waits(from0)
      BY <1>2, <3>3 DEF Lasting, Settled
    <3> QED
      BY <2>1, <3>3, <3>4
  <2> QED
    BY <2>2, <2>3
<1> QED
  BY <1>1, <1>5 DEF Stands

LEMMA PlanStands ==
  ASSUME TypeInv, TurnInv, Plan
  PROVE  Stands(ex')
<1>1. PICK put : put = OffOf(setup, ex.next, ex.sends)
  OBVIOUS
<1>2. PICK x :
        /\ x = ex' /\ ex.pc = "plan" /\ IsExecution(setup, ex) /\ x.state = ex.state
        /\ x.pc = "run" /\ x.plan = TasksOf(setup, ex.next, ex.sends)
        /\ x.outs = FoundOutcomes /\ x.sends = ex.sends /\ x.next = ex.next \ put
        /\ x.joins = ex.joins /\ x.deferred = ex.deferred \cup put
  BY <1>1, PlanFacts DEF Keeps
<1>3. ex # Off /\ IsGraph(setup)
  BY <1>2, OnWithStage, SetupsAreGraphs DEF TypeInv
<1>4. Rests(ex) /\ Waits(ex) /\ ~Idle(ex)
  BY <1>2, <1>3 DEF TurnInv, Stands
<1>5. PICK b : b = ex
  OBVIOUS
<1>6. /\ Rests(x) /\ Waits(x) /\ ~Idle(x)
      /\ x.next \cap Deferred # {} => x.next \subseteq Deferred /\ x.sends = <<>>
  <2>1. /\ Rests(b) /\ Waits(b) /\ ~Idle(b) /\ put = OffOf(setup, b.next, b.sends)
        /\ x.state = b.state /\ x.sends = b.sends /\ x.joins = b.joins
        /\ x.next = b.next \ put /\ x.deferred = b.deferred \cup put
    BY <1>1, <1>2, <1>4, <1>5
  <2> QED
    BY <2>1, PutOffStands
<1>7. ex.next \in SUBSET Names(setup) /\ ex.sends \in Seq(Names(setup))
  BY <1>2 DEF IsExecution
<1>8. TaskNames(x.plan) = x.next \cup ToSet(x.sends)
  BY <1>1, <1>2, <1>3, <1>7, PlanNames
<1>9. ASSUME NEW t \in DOMAIN x.outs PROVE MayJump(t, x.outs[t].goto)
  <2> DEFINE found == {w \in WritesUnder(ex.base) : w.task \in ToSet(Planned)}
             one == CHOOSE w \in found : w.task = t
  <2>1. t \in {w.task : w \in found} /\ x.outs[t].goto = one.goto
    BY <1>2, <1>9 DEF FoundOutcomes
  <2>2. one \in found /\ one.task = t
    BY <2>1
  <2>3. one \in writes
    BY <2>2 DEF WritesUnder
  <2> QED
    BY <2>1, <2>2, <2>3 DEF TurnInv
<1> QED
  BY <1>2, <1>6, <1>8, <1>9 DEF Stands, Readied

LEMMA DecideStands ==
  ASSUME TypeInv, TurnInv, NEW t \in ToSet(ex.plan), ex # Off, Decides(t)
  PROVE  Stands(ex')
<1>1. PICK x :
        /\ x = ex' /\ ex.pc = "run" /\ IsExecution(setup, ex) /\ x.state = ex.state
        /\ x.pc = "run" /\ x.plan = ex.plan /\ x.next = ex.next /\ x.sends = ex.sends
        /\ DOMAIN x.outs = DOMAIN ex.outs \cup {t} /\ x.outs[t].goto \in {{}} \cup Gotos[t[1]]
        /\ \A u \in DOMAIN ex.outs : x.outs[u] = ex.outs[u]
        /\ x.joins = ex.joins /\ x.deferred = ex.deferred
  BY DecidesFacts DEF Keeps
<1>2. Stands(ex)
  BY DEF TurnInv
<1>3. Alike(ex, x)
  BY <1>1 DEF Alike
<1>4. Rests(x) /\ Waits(x) /\ ~Idle(x)
  BY <1>1, <1>2, <1>3, AlikeStands DEF Stands
<1>5. Readied(x)
  BY <1>1, <1>2 DEF Stands, Readied
<1>6. \A u \in DOMAIN x.outs : MayJump(u, x.outs[u].goto)
  BY <1>1, <1>2 DEF Stands, MayJump
<1> QED
  BY <1>1, <1>4, <1>5, <1>6 DEF Stands

LEMMA MergeStands ==
  ASSUME TypeInv, TurnInv, Merge
  PROVE  Stands(ex')
<1>1. PICK x :
        /\ x = ex' /\ ex.pc = "gathered" /\ IsExecution(setup, ex)
        /\ x.pc = "route" /\ x.plan = ex.plan /\ x.joins = ex.joins /\ x.deferred = ex.deferred
        /\ x.outs = ex.outs /\ x.state.log = ex.state.log \o LogOf(ex.plan)
  BY MergeFacts
<1>2. ex # Off
  BY <1>1, OnWithStage
<1>3. Stands(ex)
  BY <1>2 DEF TurnInv
<1>4. Rests(ex) /\ Waits(ex) /\ Readied(ex)
  BY <1>1, <1>3 DEF Stands
<1> DEFINE S == Names(setup) \cup {INPUT, EDIT}
           ran == LogOf(ex.plan)
<1>5. ex.state.log \in Seq(S)
  BY <1>1, PointFits DEF IsExecution
<1>6. ran \in Seq(S) /\ ToSet(ran) = TaskNames(ex.plan)
  <2>1. ran \in Seq(Names(setup)) /\ DOMAIN ran = DOMAIN ex.plan
    BY <1>1, LogFits DEF IsExecution
  <2>2. ran \in [1 .. Len(ran) -> S] /\ Len(ran) \in Nat
    BY <2>1
  <2>3. ToSet(ran) = TaskNames(ex.plan)
    BY DEF ToSet, TaskNames, LogOf
  <2> HIDE DEF S, ran
  <2> QED
    BY <2>2, <2>3, FcnIsSeq
<1>7. PICK names : names = TaskNames(ex.plan)
  OBVIOUS
<1> HIDE DEF S, ran
<1>8. ASSUME NEW e \in Wires PROVE e.to \in x.deferred \/ Covered(e, x, names)
  <2>1. CASE e.to \in ex.next
    <3>1. e.to \in names /\ e.to \in Answer(e)
      BY <1>4, <1>7, <2>1 DEF Readied, Answer
    <3>2. \A n : RanSince(x.state.log, n, Answer(e)) => n \in names
      BY <1>1, <1>5, <1>6, <1>7, <3>1, RanBoth DEF ran
    <3> QED
      BY <3>2 DEF Covered
  <2>2. CASE e.to \notin ex.next /\ e.to \notin ex.deferred
    <3>1. Covered(e, ex, {})
      BY <1>4, <2>2 DEF Waits
    <3>2. \A n : RanSince(x.state.log, n, Answer(e)) =>
            n \in names \/ RanSince(ex.state.log, n, Answer(e))
      BY <1>1, <1>5, <1>6, <1>7, RanBoth DEF ran
    <3>3. Collected(e, x) = Collected(e, ex)
      BY <1>1 DEF Collected
    <3> QED
      BY <3>1, <3>2, <3>3 DEF Covered
  <2> QED
    BY <1>1, <2>1, <2>2
<1>9. ASSUME DeferredAreLast
      PROVE  LastIn(x.state.log) /\ (Closing(x.state.log) => names \subseteq Deferred)
  <2>1. DeferredWait(ex)
    BY <1>4, <1>9 DEF Rests
  <2>2. names = ex.next \cup ToSet(ex.sends)
    BY <1>4, <1>7 DEF Readied
  <2>3. names \subseteq Deferred \/ (names \cap Deferred = {} /\ ~Closing(ex.state.log))
    BY <1>4, <2>1, <2>2, NothingInNone DEF Readied, DeferredWait
  <2>4. LastIn(ex.state.log)
    BY <2>1 DEF DeferredWait
  <2> QED
    BY <1>1, <1>5, <1>6, <1>7, <2>3, <2>4, LastBoth DEF ran
<1>10. Open(x.joins) /\ x.deferred \subseteq Deferred
  BY <1>1, <1>4 DEF Rests
<1> QED
  BY <1>1, <1>3, <1>7, <1>8, <1>9, <1>10 DEF Stands, Merged

\* An edge that is no fan-in has one source.
LEMMA OneSource ==
  ASSUME TypeInv, NEW e \in Edges, e \notin Joins
  PROVE  \E n : e.from = {n}
<1>1. e.from # {} /\ e.from \subseteq NodeSet
  BY WiresFit
<1>2. IsFiniteSet(NodeSet)
  <2>1. NodeSeq \in Seq(ToSet(NodeSeq))
    BY SetupsAreGraphs DEF TypeInv, IsGraph, IsList, NodeSeq
  <2> DEFINE f == [i \in 1 .. Len(NodeSeq) |-> NodeSeq[i]]
  <2>2. /\ Len(NodeSeq) \in Nat /\ f \in [1 .. Len(NodeSeq) -> NodeSet]
        /\ \A x \in NodeSet : \E i \in 1 .. Len(NodeSeq) : f[i] = x
    BY <2>1 DEF NodeSet, ToSet
  <2>3. IsFiniteSet(1 .. Len(NodeSeq))
    BY <2>2, FS_Interval
  <2> HIDE DEF f
  <2>4. f \in Surjection(1 .. Len(NodeSeq), NodeSet)
    BY <2>2 DEF Surjection
  <2> QED
    BY <2>3, <2>4, FS_Surjection
<1>3. IsFiniteSet(e.from) /\ Cardinality(e.from) \in Nat
  BY <1>1, <1>2, FS_Subset, FS_CardinalityType
<1>4. PICK n \in e.from : TRUE
  BY <1>1
<1>5. IsFiniteSet(e.from \ {n}) /\ Cardinality(e.from \ {n}) = Cardinality(e.from) - 1
  BY <1>3, <1>4, FS_RemoveElement
<1>6. Cardinality(e.from \ {n}) = 0
  <2>1. ~(Cardinality(e.from) > 1)
    BY DEF Joins
  <2>2. Cardinality(e.from \ {n}) \in Nat
    BY <1>5, FS_CardinalityType
  <2> QED
    BY <1>3, <1>5, <2>1, <2>2
<1>7. e.from \ {n} = {}
  BY <1>5, <1>6, FS_EmptySet
<1> QED
  BY <1>4, <1>7

\* What is scheduled follows every edge that is due.
LEMMA ScheduledStands ==
  ASSUME TypeInv, ex.pc = "route", Stands(ex), NEW x, Scheduled(x), x.state = ex.state
  PROVE  Rests(x) /\ Waits(x)
<1>1. PICK choice, next : Schedules(choice, next, x)
  BY DEF Scheduled
<1>2. ex # Off /\ IsExecution(setup, ex)
  BY ExecutionIsOn
<1>3. Merged(ex) /\ \A t \in ToSet(ex.plan) : MayJump(t, ex.outs[t].goto)
  BY DEF Stands
<1>4. Completed = TaskNames(ex.plan) /\ Completed \subseteq NodeSet
  BY <1>2, WiresFit DEF Completed, TaskNames, IsExecution
<1>5. PICK reached, chosen, jumped :
        /\ reached = {f.to : f \in FollowedEdges}
        /\ chosen = UNION {choice[n].names : n \in Completed}
        /\ jumped = UNION {ex.outs[t].goto : t \in ToSet(ex.plan)}
  BY Zenon
<1>6. next.names = (reached \cup chosen \cup jumped) \cap NodeSet /\ next.sends = SendsOf(choice)
  BY <1>1, <1>5 DEF Schedules, NextTasks
<1>7. \A e \in Joins : x.joins[e] = IF Fires(e) THEN {} ELSE Arrived(e)
  BY <1>1 DEF Schedules, Progress
<1>8. ASSUME NEW e \in Wires, Covered(e, ex, Completed), e.to \notin next.names
      PROVE  Covered(e, x, {})
  <2>1. e \in Edges /\ e.to \in NodeSet /\ e \notin FollowedEdges
    BY <1>5, <1>6, <1>8 DEF Wires
  <2>2. CASE e \notin Joins
    <3>1. PICK n : e.from = {n}
      BY <2>1, <2>2, OneSource
    <3>2. n \notin Completed
      BY <2>1, <2>2, <3>1 DEF FollowedEdges
    <3> QED
      BY <1>8, <2>2, <3>1, <3>2 DEF Covered, Collected, IsDirect
  <2>3. CASE e \in Joins /\ e.any
    <3>1. Arrived(e) = {}
      BY <2>1, <2>3 DEF FollowedEdges, Fires
    <3>2. \A n \in e.from : n \notin Completed
      BY <3>1 DEF Arrived
    <3> QED
      BY <1>8, <2>3, <3>2 DEF Covered, Collected, IsDirect
  <2>4. CASE e \in Joins /\ ~e.any
    <3>1. x.joins[e] = Arrived(e)
      BY <1>7, <2>1, <2>4 DEF FollowedEdges
    <3>2. \A n \in e.from : n \in ex.joins[e] \cup Completed => n \in x.joins[e]
      BY <3>1 DEF Arrived
    <3> QED
      BY <1>8, <2>4, <3>2 DEF Covered, Collected, IsDirect
  <2> QED
    BY <2>2, <2>3, <2>4
<1>9. \/ x.next = ex.deferred /\ x.deferred = {} /\ next.names = {} /\ next.sends = <<>>
      \/ /\ x.next = next.names /\ x.deferred = ex.deferred
         /\ next.names = {} /\ next.sends = <<>> => ex.deferred = {}
  BY <1>1 DEF Schedules, Woken
<1>10. x.sends = next.sends
  BY <1>1 DEF Schedules
<1>11. Waits(x)
  <2> SUFFICES ASSUME NEW e \in Wires, e.to \notin x.next \cup x.deferred PROVE Covered(e, x, {})
    BY DEF Waits
  <2>1. e.to \notin ex.deferred /\ e.to \notin next.names
    BY <1>9
  <2>2. Covered(e, ex, Completed)
    BY <1>3, <1>4, <2>1 DEF Merged
  <2> QED
    BY <1>8, <2>1, <2>2
<1>12. Open(x.joins)
  <2> SUFFICES ASSUME NEW e \in Joins
               PROVE  ~(e.from \subseteq x.joins[e]) /\ (e.any => x.joins[e] = {})
    BY DEF Open
  <2>1. e.from # {}
    BY WiresFit DEF Joins
  <2>2. CASE Fires(e)
    BY <1>7, <2>1, <2>2
  <2>3. CASE ~Fires(e)
    <3>1. x.joins[e] = Arrived(e)
      BY <1>7, <2>3
    <3> QED
      BY <2>1, <2>3, <3>1 DEF Fires
  <2> QED
    BY <2>2, <2>3
<1>13. x.deferred \subseteq Deferred /\ (Idle(x) => x.deferred = {})
  BY <1>3, <1>9, <1>10 DEF Merged, Idle
<1>14. ASSUME DeferredAreLast PROVE DeferredWait(x)
  <2>1. \A n \in Completed : choice[n] \in RoutesOf(n) /\ n \in {START} \cup NodeSet
    BY <1>1, <1>4 DEF Schedules
  <2>2. ToSet(x.sends) \cap Deferred = {}
    <3> DEFINE S == NodeSet \ Deferred
    <3>1. \A n \in Completed : choice[n].sends \in Seq(S)
      BY <1>14, <2>1, RouteSends
    <3>2. PICK list : list = SendsOf(choice)
      OBVIOUS
    <3>3. list \in Seq(S)
      <4> HIDE DEF S
      <4> QED
        BY <3>1, <3>2, SendsFit
    <3>4. \A i \in DOMAIN list : list[i] \in S
      BY <3>3
    <3> QED
      BY <1>6, <1>10, <3>2, <3>4 DEF ToSet
  <2>3. ASSUME Closing(x.state.log) PROVE x.next \subseteq Deferred /\ x.sends = <<>>
    <3>1. Completed \subseteq Deferred
      BY <1>3, <1>4, <1>14, <2>3 DEF Merged
    <3>2. \A n \in Completed : choice[n].names = {} /\ choice[n].sends = <<>>
      BY <1>14, <2>1, <3>1, RouteSends
    <3>3. chosen = {}
      BY <1>5, <3>2
    <3>4. jumped = {}
      <4>1. ASSUME NEW t \in ToSet(ex.plan) PROVE ex.outs[t].goto = {}
        <5>1. t[1] \in Completed
          BY <4>1 DEF Completed, TaskNames, ToSet
        <5>2. Gotos[t[1]] \subseteq {{}}
          BY <1>14, <3>1, <5>1 DEF DeferredAreLast
        <5> QED
          BY <1>3, <4>1, <5>2 DEF MayJump
      <4> QED
        BY <1>5, <4>1
    <3>5. FollowedEdges = {}
      <4>1. ASSUME NEW e \in FollowedEdges PROVE FALSE
        <5>1. e \in Edges /\ e.from # {} /\ e.from \cap Deferred = {}
          BY <1>14, <4>1, WiresFit DEF FollowedEdges, DeferredAreLast
        <5>2. Completed \cap e.from = {}
          BY <3>1, <5>1
        <5>3. e \notin Joins
          <6>1. e \in Joins => ~(e.from \subseteq ex.joins[e]) /\ (e.any => ex.joins[e] = {})
            BY <1>3 DEF Merged, Open
          <6>2. Arrived(e) = ex.joins[e]
            BY <5>2 DEF Arrived
          <6> QED
            BY <4>1, <6>1, <6>2 DEF FollowedEdges, Fires
        <5>4. e.from \subseteq Completed
          BY <4>1, <5>3 DEF FollowedEdges
        <5> QED
          BY <5>1, <5>2, <5>4
      <4> QED
        BY <4>1
    <3>6. next.names = {}
      BY <1>5, <1>6, <3>3, <3>4, <3>5
    <3>7. next.sends = <<>>
      <4>1. \A n \in Completed : choice[n].sends \in Seq({})
        <5>1. \A list : list = <<>> => list \in Seq({})
          OBVIOUS
        <5> QED
          BY <3>2, <5>1
      <4>2. PICK list : list = SendsOf(choice)
        OBVIOUS
      <4>3. list \in Seq({})
        BY <4>1, <4>2, SendsFit
      <4>4. list = <<>>
        BY <4>3
      <4> QED
        BY <1>6, <4>2, <4>4
    <3> QED
      BY <1>3, <1>9, <1>10, <3>6, <3>7 DEF Merged
  <2> QED
    BY <1>3, <1>14, <2>2, <2>3 DEF Merged, DeferredWait
<1> QED
  BY <1>11, <1>12, <1>13, <1>14 DEF Rests

LEMMA StandsStep ==
  ASSUME TypeInv, TurnInv, [Next]_vars, ex' # Off
  PROVE  Stands(ex')
<1>1. ASSUME ex'.pc = "close" PROVE Stands(ex')
  BY <1>1 DEF Stands
<1>2. CASE Start \/ Plan \/ Merge
  BY <1>2, StartStands, PlanStands, MergeStands
<1>3. CASE StopAtLoopHead \/ StepTimesOut \/ RaiseFailure \/ PausePut
  BY <1>1, <1>3, StopsFacts DEF Stops
<1>4. CASE InterruptBefore \/ Complete \/ WriterFails
  BY <1>1, <1>4, InterruptFacts, CompleteFacts, WriterFailsFacts
<1>5. CASE \E t \in ToSet(ex.plan) : ex # Off /\ Decides(t)
  BY <1>5, DecideStands
<1>6. CASE Gather
  <2>1. PICK x :
          /\ x = ex' /\ ex.pc = "run" /\ IsExecution(setup, ex) /\ x.state = ex.state
          /\ x.pc = "gathered" /\ x.plan = ex.plan /\ x.next = ex.next /\ x.sends = ex.sends
          /\ x.outs = ex.outs /\ ToSet(ex.plan) \subseteq DOMAIN ex.outs
          /\ x.joins = ex.joins /\ x.deferred = ex.deferred
    BY <1>6, GatherFacts DEF Keeps
  <2>2. Stands(ex)
    BY <2>1, OnWithStage DEF TurnInv
  <2>3. Alike(ex, x)
    BY <2>1 DEF Alike
  <2>4. Rests(x) /\ Waits(x) /\ ~Idle(x)
    BY <2>1, <2>2, <2>3, AlikeStands DEF Stands
  <2>5. Readied(x)
    BY <2>1, <2>2 DEF Stands, Readied
  <2>6. \A t \in ToSet(x.plan) : MayJump(t, x.outs[t].goto)
    BY <2>1, <2>2 DEF Stands
  <2> QED
    BY <2>1, <2>4, <2>5, <2>6 DEF Stands
<1>7. CASE PauseSave
  <2>1. PICK x : /\ x = ex' /\ ex.pc = "gathered" /\ IsExecution(setup, ex)
                 /\ x.pc = "pausing" /\ x.plan = ex.plan /\ x.outs = ex.outs
    BY <1>7, PauseSaveFacts
  <2>2. Stands(ex)
    BY <2>1, OnWithStage DEF TurnInv
  <2> QED
    BY <2>1, <2>2 DEF Stands
<1>8. CASE RouteAndSave
  <2>1. PICK x : /\ x = ex' /\ ex.pc = "route" /\ IsExecution(setup, ex) /\ Scheduled(x)
                 /\ x.pc \in {"plan", "exit", "close"} /\ x.state = ex.state
                 /\ (x.pc = "plan" => x.next # {} \/ x.sends # <<>>)
                 /\ (x.pc = "exit" => x.next = {} /\ x.sends = <<>>)
    BY <1>8, RouteFacts
  <2>2. Stands(ex)
    BY <2>1, OnWithStage DEF TurnInv
  <2>3. Rests(x) /\ Waits(x)
    BY <2>1, <2>2, ScheduledStands
  <2> QED
    BY <2>1, <2>3 DEF Stands, Idle
<1>9. CASE WriterStep \/ Cancel
  <2>1. PICK x : /\ x = ex' /\ ex # Off /\ x.pc = ex.pc /\ x.state = ex.state
                 /\ x.next = ex.next /\ x.sends = ex.sends /\ x.plan = ex.plan /\ x.outs = ex.outs
                 /\ x.joins = ex.joins /\ x.deferred = ex.deferred
    BY <1>9, WriterFacts, CancelFacts
  <2>2. Stands(ex)
    BY <2>1 DEF TurnInv
  <2>3. Alike(ex, x)
    BY <2>1 DEF Alike
  <2>4. /\ Rests(ex) => Rests(x)
        /\ Waits(ex) => Waits(x)
        /\ Idle(ex) <=> Idle(x)
    BY <2>3, AlikeStands
  <2>5. (Readied(ex) => Readied(x)) /\ (Merged(ex) => Merged(x))
    BY <2>1 DEF Readied, Merged, Covered, Collected
  <2> QED
    BY <2>1, <2>2, <2>4, <2>5 DEF Stands
<1>10. CASE UNCHANGED vars \/ SubmitInput \/ SubmitResume
  <2>1. ex' = ex
    BY <1>10, SubmitFacts DEF vars
  <2> QED
    BY <2>1 DEF TurnInv
<1>11. CASE \E i \in DOMAIN ckpts : Fork(i)
  <2>1. ex' = ex
    BY <1>11 DEF Fork
  <2> QED
    BY <2>1 DEF TurnInv
<1>12. ASSUME Close \/ Crash PROVE FALSE
  BY <1>12, CloseFacts, CrashFacts
<1> QED
  BY <1>2, <1>3, <1>4, <1>5, <1>6, <1>7, <1>8, <1>9, <1>10, <1>11, <1>12, StepCases DEF vars

LEMMA KnownLasts ==
  ASSUME TypeInv, TurnInv, [Next]_vars, NEW c \in Known'
  PROVE  Lasting(c)
<1>1. \A d \in Known : Lasting(d)
  BY DEF TurnInv
<1>2. ASSUME ckpts' = ckpts, ToSet(Queue') \subseteq ToSet(Queue) PROVE Lasting(c)
  <2>1. Known' \subseteq Known
    BY <1>2 DEF Known
  <2> QED
    BY <1>1, <2>1
<1>3. CASE Start
  BY <1>2, <1>3, StartFacts, NothingInNone DEF Start, stored, Queue
<1>4. CASE StopAtLoopHead \/ StepTimesOut \/ RaiseFailure \/ PausePut
  BY <1>2, <1>4, StopsFacts, NothingInNone DEF Stops, Keeps, Queue
<1>5. CASE Plan \/ Gather \/ Merge \/ Cancel
  <2>1. ex'.queue = ex.queue /\ IsExecution(setup, ex)
    BY <1>5, PlanFacts, GatherFacts, MergeFacts, CancelFacts DEF Keeps
  <2>2. ckpts' = ckpts /\ ex # Off
    BY <1>5, <2>1, OnWithStage DEF Plan, Gather, Merge, Cancel, stored
  <2> QED
    BY <1>2, <2>1, <2>2, NothingInNone DEF Queue
<1>6. CASE \E t \in ToSet(ex.plan) : ex # Off /\ Decides(t)
  BY <1>2, <1>6, DecidesFacts, NothingInNone DEF Keeps, Queue
<1>7. ASSUME NEW d, Saves(d), Lasting(d), IsExecution(setup, ex), IsExecution(setup, ex')
      PROVE  Lasting(c)
  <2>1. ex # Off /\ ex' # Off
    BY <1>7, OnWithStage
  <2>2. Known' = Known \cup {d}
    BY <1>7, <2>1, KnownSaves
  <2> QED
    BY <1>1, <1>7, <2>2
<1>8. CASE InterruptBefore
  <2>1. PICK put : put = OffOf(setup, ex.next, ex.sends)
    OBVIOUS
  <2>2. PICK d : /\ Saves(d) /\ d.state = ex.state /\ d.next = ex.next \ put /\ d.sends = ex.sends
                 /\ d.deferred = ex.deferred \cup put /\ d.joins = ex.joins
    BY <1>8, <2>1, InterruptFacts
  <2>3. ex.pc = "plan" /\ IsExecution(setup, ex) /\ IsExecution(setup, ex')
    BY <1>8, InterruptFacts
  <2>4. Rests(ex) /\ Waits(ex) /\ ~Idle(ex)
    BY <2>3, OnWithStage DEF TurnInv, Stands
  <2>5. PICK b : b = ex
    OBVIOUS
  <2>6. Rests(d) /\ Waits(d)
    <3>1. /\ Rests(b) /\ Waits(b) /\ ~Idle(b) /\ put = OffOf(setup, b.next, b.sends)
          /\ d.state = b.state /\ d.sends = b.sends /\ d.joins = b.joins
          /\ d.next = b.next \ put /\ d.deferred = b.deferred \cup put
      BY <2>1, <2>2, <2>4, <2>5
    <3> QED
      BY <3>1, PutOffStands
  <2>7. Lasting(d)
    BY <2>6 DEF Lasting
  <2> QED
    BY <1>7, <2>2, <2>3, <2>7
<1>9. CASE PauseSave
  <2>1. ex.pc = "gathered" /\ IsExecution(setup, ex) /\ IsExecution(setup, ex')
    BY <1>9, PauseSaveFacts
  <2>2. PICK d : /\ Saves(d) /\ d.state = ex.state /\ d.next = ex.next /\ d.sends = ex.sends
                 /\ d.joins = ex.joins /\ d.deferred = ex.deferred
    BY <1>9, PauseSaveFacts
  <2>3. Rests(ex) /\ Waits(ex)
    BY <2>1, OnWithStage DEF TurnInv, Stands
  <2>4. Alike(ex, d)
    BY <2>2 DEF Alike
  <2>5. Lasting(d)
    BY <2>3, <2>4, AlikeStands DEF Lasting
  <2> QED
    BY <1>7, <2>1, <2>2, <2>5
<1>10. CASE RouteAndSave
  <2>1. ex.pc = "route" /\ IsExecution(setup, ex) /\ IsExecution(setup, ex')
    BY <1>10, RouteFacts
  <2>2. CASE setup.durability = "exit"
    <3>1. ckpts' = ckpts /\ ex'.queue = ex.queue /\ ex # Off
      BY <1>10, <2>1, <2>2, RouteFacts, OnWithStage DEF SavesNothing
    <3> QED
      BY <1>2, <3>1, NothingInNone DEF Queue
  <2>3. CASE setup.durability # "exit"
    <3>1. PICK d : Saves(d) /\ d.state = ex.state /\ Scheduled(d)
      BY <1>10, <2>3, RouteFacts
    <3>2. Stands(ex)
      BY <2>1, OnWithStage DEF TurnInv
    <3>3. Lasting(d)
      BY <2>1, <3>1, <3>2, ScheduledStands DEF Lasting
    <3> QED
      BY <1>7, <2>1, <3>1, <3>3
  <2> QED
    BY <2>2, <2>3
<1>11. CASE Complete
  <2>1. ex.pc = "exit" /\ IsExecution(setup, ex) /\ IsExecution(setup, ex')
    BY <1>11, CompleteFacts
  <2>2. CASE setup.durability # "exit"
    <3>1. ckpts' = ckpts /\ ex'.queue = ex.queue /\ ex # Off
      BY <1>11, <2>1, <2>2, CompleteFacts, OnWithStage DEF SavesNothing
    <3> QED
      BY <1>2, <3>1, NothingInNone DEF Queue
  <2>3. CASE setup.durability = "exit"
    <3>1. PICK d : /\ Saves(d) /\ d.state = ex.state /\ d.next = {} /\ d.sends = <<>>
                   /\ d.joins = NoProgress /\ d.deferred = {}
      BY <1>11, <2>3, CompleteFacts
    <3>2. Rests(ex) /\ Waits(ex) /\ Idle(ex)
      BY <2>1, OnWithStage DEF TurnInv, Stands
    <3>3. PICK b : b = ex
      OBVIOUS
    <3>4. \A e \in Wires : ~IsDue(e, d.state.log)
      BY <3>1, <3>2, <3>3, RestIsSettled
    <3>5. Settled(d)
      BY <2>3, <3>1, <3>4 DEF Settled, Idle, Durability
    <3>6. Open(d.joins)
      BY <3>1, WiresFit DEF Open, NoProgress, Joins
    <3>7. ToSet(d.sends) = {}
      BY <3>1, NothingInNone
    <3>8. DeferredAreLast => DeferredWait(d)
      BY <3>1, <3>2, <3>7 DEF Rests, DeferredWait
    <3>9. Lasting(d)
      BY <3>1, <3>5, <3>6, <3>8 DEF Lasting, Rests
    <3> QED
      BY <1>7, <2>1, <3>1, <3>9
  <2> QED
    BY <2>2, <2>3
<1>12. CASE WriterStep
  BY <1>1, <1>12, KnownWriter
<1>13. CASE WriterFails
  BY <1>2, <1>13, WriterFailsFacts, NothingInNone DEF Queue
<1>14. CASE Close \/ Crash \/ SubmitInput \/ SubmitResume \/ UNCHANGED vars
  <2>1. ckpts' = ckpts /\ (ex' = Off \/ ex' = ex)
    BY <1>14, CloseFacts, CrashFacts, SubmitFacts DEF Elsewhere, vars
  <2> QED
    BY <1>2, <2>1, NothingInNone DEF Queue
<1>15. CASE \E i \in DOMAIN ckpts : Fork(i)
  <2>1. PICK i \in DOMAIN ckpts : Fork(i)
    BY <1>15
  <2>2. PICK b : b = ckpts[i]
    OBVIOUS
  <2>3. PICK d :
          /\ ckpts' = Append(ckpts, d) /\ d.state.log = Append(b.state.log, EDIT)
          /\ d.next = b.next /\ d.sends = b.sends /\ d.joins = b.joins /\ d.deferred = b.deferred
    BY <2>1, <2>2, ForkFacts
  <2>4. b \in ToSet(ckpts) /\ b \in Known
    BY <2>1, <2>2 DEF Known, ToSet
  <2> DEFINE S == Names(setup) \cup {INPUT, EDIT}
  <2>5. Lasting(b) /\ b.state.log \in Seq(S) /\ EDIT \in S
    BY <1>1, <2>4, PointFits DEF TypeInv, AreCheckpoints, IsCheckpoint
  <2> HIDE DEF S
  <2>6. Lasting(d)
    BY <2>3, <2>5, EditStands
  <2>7. ex' = ex
    BY <2>1 DEF Fork
  <2>8. Known' = Known \cup {d}
    BY <2>3, <2>7, KnownFork
  <2> QED
    BY <1>1, <2>6, <2>8
<1> QED
  BY <1>3, <1>4, <1>5, <1>6, <1>8, <1>9, <1>10, <1>11, <1>12, <1>13, <1>14, <1>15, StepCases DEF vars

LEMMA WritesJump ==
  ASSUME TypeInv, TurnInv, [Next]_vars, NEW w \in writes'
  PROVE  MayJump(w.task, w.goto)
<1>1. CASE w \in writes
  BY <1>1 DEF TurnInv
<1>2. CASE w \notin writes
  <2>1. PICK base : writes' = PutWrites(base, OutcomesOf("ok")) /\ (Gather \/ PausePut)
    BY <1>2, WriteSteps
  <2>2. PICK t \in OutcomesOf("ok") : w = [base |-> base, task |-> t, from |-> ex.outs[t].from,
                                           goto |-> ex.outs[t].goto]
    BY <1>2, <2>1 DEF PutWrites
  <2>3. w.goto = ex.outs[t].goto /\ w.task = t /\ t \in ToSet(ex.plan)
    BY <2>2 DEF OutcomesOf
  <2>4. IsExecution(setup, ex) /\ ex # Off
    BY <2>1, GatherFacts, PausePutFacts, OnWithStage
  <2>5. Stands(ex)
    BY <2>4 DEF TurnInv
  <2>6. CASE Gather
    <3>1. ex.pc = "run" /\ ToSet(ex.plan) \subseteq DOMAIN ex.outs
      BY <2>6, GatherFacts
    <3> QED
      BY <2>3, <2>5, <3>1 DEF Stands
  <2>7. CASE PausePut
    <3>1. ex.pc = "pausing"
      BY <2>7, PausePutFacts
    <3> QED
      BY <2>3, <2>5, <3>1 DEF Stands
  <2> QED
    BY <2>1, <2>6, <2>7
<1> QED
  BY <1>1, <1>2

LEMMA TurnStep ==
  ASSUME TypeInv, TurnInv, [Next]_vars
  PROVE  TurnInv'
<1>1. \A w \in writes' : MayJump(w.task, w.goto)'
  BY WritesJump, SetupKept
<1>2. \A c \in Known' : Lasting(c)'
  BY KnownLasts, SetupKept
<1>3. PICK x : x = ex'
  OBVIOUS
<1>4. x # Off => Stands(x)
  BY <1>3, StandsStep
<1>5. ex' # Off' => Stands(ex)'
  BY <1>3, <1>4, SetupKept DEF Off
<1> QED
  BY <1>1, <1>2, <1>5 DEF TurnInv

\* What was asked of the saved states.
LEMMA TurnsFit ==
  ASSUME TypeInv, TurnInv
  PROVE  EdgesAreFollowed /\ DeferredRunsLast
<1>1. \A i \in DOMAIN ckpts : Lasting(ckpts[i])
  BY DEF TurnInv, Known, ToSet
<1>2. ASSUME NEW i \in DOMAIN ckpts, Idle(ckpts[i]), NEW e \in Edges, e.to \in NodeSet
      PROVE  ~IsDue(e, ckpts[i].state.log)
  <2>1. PICK c : c = ckpts[i]
    OBVIOUS
  <2>2. Lasting(c) /\ Idle(c) /\ e \in Wires
    BY <1>1, <1>2, <2>1 DEF Wires
  <2>3. ~IsDue(e, c.state.log)
    BY <2>2, RestIsSettled DEF Lasting, Settled
  <2> QED
    BY <2>1, <2>3
<1>3. DeferredRunsLast
  BY <1>1 DEF DeferredRunsLast, Lasting, Rests, DeferredWait
<1> QED
  BY <1>2, <1>3 DEF EdgesAreFollowed

\* Claim: for every graph, mode of durability, number of inputs and faults, a fan-in whose
\* target has no other way in never fires early or twice for one round of its sources, no edge
\* that is due is forgotten when the thread comes to rest, and deferred nodes that nothing
\* follows are the last to run on an input.
THEOREM NodesRunInTurn == Spec => []NodesFireInTurn
<1>1. Init => TurnInv
  <2> SUFFICES ASSUME Init PROVE TurnInv
    OBVIOUS
  <2>1. ckpts = <<>> /\ ex = Off /\ writes = {} /\ Known = {}
    BY NothingInNone DEF Init, Known, Queue
  <2> QED
    BY <2>1 DEF TurnInv
<1>2. TypeInv /\ TurnInv /\ [Next]_vars => TurnInv'
  BY TurnStep
<1>3. TypeInv /\ TurnInv => EdgesAreFollowed /\ DeferredRunsLast
  BY TurnsFit
<1>4. JoinIsNotEarly /\ EdgesAreFollowed /\ DeferredRunsLast => NodesFireInTurn
  BY DEF NodesFireInTurn
<1> QED
  BY <1>1, <1>2, <1>3, <1>4, TypeInvariance, JoinsFireInTime, PTL DEF Spec
=============================================================================
