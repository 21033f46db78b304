-------------------------- MODULE CheckpointProofs --------------------------
(***************************************************************************)
(* Proofs about checkpoints.  About Savers, for every set of clients,      *)
(* namespaces, checkpoints and batches: each saver implements              *)
(* CheckpointStore; a row counts in the abstract history when it becomes   *)
(* visible, and SaversInv says that it is then the last one of its         *)
(* namespace.  About ThreadState, for any number of runs, supersteps,      *)
(* forks and lost leases: ThreadInv, and that the history of a thread      *)
(* tells of one run after another.                                         *)
(***************************************************************************)
EXTENDS Savers, ThreadState, OrderLemmas

-----------------------------------------------------------------------------
(* What the readers make of rows and of pending writes                      *)

\* Rows as the readers find them: finitely many, told apart by their seq.
Readable(rs) ==
  /\ IsFiniteSet(rs) /\ \A r \in rs : r.seq \in Nat
  /\ \A r, s \in rs : r.seq = s.seq => r = s

Seqs(rs) == {r.seq : r \in rs}
BySeq(rs, n) == CHOOSE r \in rs : r.seq = n

LEMMA SeqsAreNumbers ==
  ASSUME NEW rs, Readable(rs)
  PROVE  /\ Seqs(rs) \in SUBSET Nat /\ IsFiniteSet(Seqs(rs))
         /\ Cardinality(Seqs(rs)) \in Nat
         /\ Sorted(InOrder(Seqs(rs)), Cardinality(Seqs(rs)), Seqs(rs))
         /\ \A r \in rs : BySeq(rs, r.seq) = r
<1>1. Seqs(rs) \in SUBSET Nat /\ IsFiniteSet(Seqs(rs))
  <2>1. IsFiniteSet(Seqs(rs))
    <3>1. [r \in rs |-> r.seq] \in Surjection(rs, Seqs(rs))
      BY DEF Seqs, Surjection
    <3> QED
      BY <3>1, FS_Surjection DEF Readable
  <2> QED
    BY <2>1 DEF Readable, Seqs
<1>2. /\ Cardinality(Seqs(rs)) \in Nat
      /\ Sorted(InOrder(Seqs(rs)), Cardinality(Seqs(rs)), Seqs(rs))
  BY <1>1, FS_CardinalityType, InOrderIsSorted
<1>3. \A r \in rs : BySeq(rs, r.seq) = r
  BY DEF Readable, BySeq
<1> QED
  BY <1>1, <1>2, <1>3

\* The list of the readers: the ids of the rows in the order of their seq.
LEMMA OrderedIsList ==
  ASSUME NEW rs, Readable(rs)
  PROVE  Ordered(rs) = [k \in 1 .. Cardinality(Seqs(rs)) |-> BySeq(rs, InOrder(Seqs(rs))[k]).id]
<1>1. DOMAIN InOrder(Seqs(rs)) = 1 .. Cardinality(Seqs(rs))
  BY SeqsAreNumbers DEF Sorted
<1>2. Ordered(rs) = [k \in DOMAIN InOrder(Seqs(rs)) |-> BySeq(rs, InOrder(Seqs(rs))[k]).id]
  BY DEF Ordered, Seqs, BySeq
<1> QED
  BY <1>1, <1>2

LEMMA NothingIsOrdered == Ordered({}) = <<>>
<1>1. PICK rs : rs = {}
  OBVIOUS
<1>2. Readable(rs) /\ Seqs(rs) = {}
  BY <1>1, FS_EmptySet DEF Seqs, Readable
<1> DEFINE n == Cardinality(Seqs(rs))
           id(k) == BySeq(rs, InOrder(Seqs(rs))[k]).id
<1>3. Ordered(rs) = [k \in 1 .. n |-> id(k)]
  BY <1>2, OrderedIsList
<1>4. n \in Nat /\ n = 0
  BY <1>2, FS_EmptySet
<1> HIDE DEF n, id
<1>5. Ordered(rs) \in [1 .. n -> {0}]
  BY <1>3, <1>4
<1>6. Ordered(rs) \in Seq({0}) /\ Len(Ordered(rs)) = n
  BY <1>4, <1>5, FcnIsSeq
<1> QED
  BY <1>1, <1>4, <1>6

\* An id is in the list when a row has it.
LEMMA OrderedHasRows ==
  ASSUME NEW rs, Readable(rs), NEW id
  PROVE  (\E k \in DOMAIN Ordered(rs) : Ordered(rs)[k] = id) <=> (\E r \in rs : r.id = id)
<1> DEFINE n == Cardinality(Seqs(rs))
           q == InOrder(Seqs(rs))
<1>1. DOMAIN Ordered(rs) = 1 .. n /\ \A k \in 1 .. n : Ordered(rs)[k] = BySeq(rs, q[k]).id
  BY OrderedIsList
<1>2. Sorted(q, n, Seqs(rs)) /\ \A r \in rs : BySeq(rs, r.seq) = r
  BY SeqsAreNumbers
<1> HIDE DEF n, q
<1>3. ASSUME NEW k \in 1 .. n PROVE \E r \in rs : BySeq(rs, q[k]) = r
  <2>1. q[k] \in Seqs(rs)
    BY <1>2 DEF Sorted
  <2>2. PICK r \in rs : q[k] = r.seq
    BY <2>1 DEF Seqs
  <2> QED
    BY <1>2, <2>2
<1>4. ASSUME NEW r \in rs PROVE \E k \in 1 .. n : BySeq(rs, q[k]) = r
  <2>1. r.seq \in Seqs(rs)
    BY DEF Seqs
  <2>2. PICK k \in 1 .. n : q[k] = r.seq
    BY <1>2, <2>1 DEF Sorted
  <2> QED
    BY <1>2, <2>2
<1> QED
  BY <1>1, <1>3, <1>4

\* A row whose seq is above all others is read last.
LEMMA OrderedAppends ==
  ASSUME NEW rs, Readable(rs), NEW row, row.seq \in Nat, \A r \in rs : r.seq < row.seq
  PROVE  Ordered(rs \cup {row}) = Append(Ordered(rs), row.id)
<1> DEFINE n == Cardinality(Seqs(rs))
           q == InOrder(Seqs(rs))
           all == rs \cup {row}
           p == InOrder(Seqs(all))
<1>1. /\ Seqs(all) = Seqs(rs) \cup {row.seq} /\ row.seq \notin Seqs(rs)
      /\ \A x \in Seqs(rs) : x < row.seq
  BY DEF Seqs, Readable
<1>2. /\ n \in Nat /\ IsFiniteSet(Seqs(rs)) /\ Seqs(rs) \in SUBSET Nat
      /\ Sorted(q, n, Seqs(rs)) /\ \A r \in rs : BySeq(rs, r.seq) = r
  BY SeqsAreNumbers
<1>3. /\ Cardinality(Seqs(all)) = n + 1
      /\ p = [i \in 1 .. n + 1 |-> IF i = n + 1 THEN row.seq ELSE q[i]]
  <2>1. Cardinality(Seqs(all)) = n + 1
    BY <1>1, <1>2, FS_AddElement
  <2>2. p = InOrder(Seqs(rs) \cup {row.seq})
    BY <1>1
  <2> QED
    BY <1>1, <1>2, <2>1, <2>2, InOrderAppends
<1>4. Readable(all)
  <2>1. IsFiniteSet(all)
    BY FS_AddElement DEF Readable
  <2> QED
    BY <2>1 DEF Readable
<1>5. \A r \in all : BySeq(all, r.seq) = r
  BY <1>4, SeqsAreNumbers
<1>6. Ordered(all) = [k \in 1 .. n + 1 |-> BySeq(all, p[k]).id]
  BY <1>3, <1>4, OrderedIsList
<1>7. Ordered(rs) = [k \in 1 .. n |-> BySeq(rs, q[k]).id]
  BY OrderedIsList
<1> HIDE DEF n, q, p, all
<1>8. ASSUME NEW k \in 1 .. n PROVE Ordered(all)[k] = Ordered(rs)[k]
  <2>1. k \in 1 .. n + 1 /\ k # n + 1 /\ p[k] = q[k]
    BY <1>2, <1>3
  <2>2. q[k] \in Seqs(rs)
    BY <1>2 DEF Sorted
  <2>3. PICK r \in rs : q[k] = r.seq
    BY <2>2 DEF Seqs
  <2>4. BySeq(all, q[k]) = r /\ BySeq(rs, q[k]) = r
    BY <1>2, <1>5, <2>3 DEF all
  <2> QED
    BY <1>6, <1>7, <2>1, <2>4
<1>9. Ordered(all)[n + 1] = row.id
  <2>1. p[n + 1] = row.seq /\ n + 1 \in 1 .. n + 1
    BY <1>2, <1>3
  <2>2. BySeq(all, row.seq) = row
    BY <1>5 DEF all
  <2> QED
    BY <1>6, <2>1, <2>2
<1>10. Ordered(all) = Append(Ordered(rs), row.id)
  <2> DEFINE S == {BySeq(rs, q[k]).id : k \in 1 .. n}
  <2>1. Ordered(rs) \in [1 .. n -> S]
    BY <1>7
  <2>2. Ordered(rs) \in Seq(S) /\ Len(Ordered(rs)) = n
    <3> HIDE DEF S
    <3> QED
      BY <1>2, <2>1, FcnIsSeq
  <2> HIDE DEF S
  <2>3. Append(Ordered(rs), row.id) = [k \in 1 .. n + 1 |-> IF k = n + 1 THEN row.id ELSE Ordered(rs)[k]]
    <3>1. Ordered(rs) \in Seq(S \cup {row.id})
      BY <2>2
    <3> QED
      BY <2>2, <1>2
  <2>4. \A k \in 1 .. n + 1 : k # n + 1 => k \in 1 .. n
    BY <1>2
  <2>5. Ordered(all) = [k \in 1 .. n + 1 |-> IF k = n + 1 THEN row.id ELSE Ordered(rs)[k]]
    BY <1>6, <1>8, <1>9, <2>4
  <2> QED
    BY <2>3, <2>5
<1> QED
  BY <1>10 DEF all

-----------------------------------------------------------------------------
(* The invariant                                                            *)

RowsFit ==
  /\ seq \in Nat /\ IsFiniteSet(rows)
  /\ \A r \in rows :
       /\ r.ns \in Namespaces /\ r.id \in Checkpoints /\ r.seq \in 1 .. seq
       /\ <<r.ns, r.id>> \in put
  /\ \A r, s \in rows : r.seq = s.seq => r = s

\* A row that a transaction has inserted and not committed: when it becomes
\* visible, it is a new one and the last of its namespace.
PutFits(p, row) ==
  /\ tx[p] = [op |-> "put", row |-> row]
  /\ row.ns \in NamespaceOf[p] /\ row.id \in Checkpoints /\ row.seq \in 1 .. seq
  /\ \A r \in rows :
       /\ r.seq # row.seq
       /\ r.ns = row.ns => r.id # row.id /\ r.seq < row.seq

\* A deletion sees everything there is.
DeleteFits(p) ==
  /\ p \in Deleters
  /\ tx[p] \in {[op |-> "deleting", gone |-> pending],
                [op |-> "delete", gone |-> pending, rows |-> rows]}

TxFits(p) ==
  \/ Idle(p)
  \/ \E row \in [ns : NamespaceOf[p], id : Checkpoints, seq : 1 .. seq] : PutFits(p, row)
  \/ \E ns \in NamespaceOf[p], of \in Checkpoints, batch \in Batches :
       tx[p] = [op |-> "writes", new |-> Abstract!Stored(ns, of, batch)]
  \/ DeleteFits(p)

\* No two transactions have inserted rows with one seq.
PutsDiffer ==
  \A p, q \in Clients :
    p # q /\ tx[p].op = "put" /\ tx[q].op = "put" => tx[p].row.seq # tx[q].row.seq

SaversInv ==
  /\ store \in Stores /\ DOMAIN tx = Clients /\ tx = [p \in Clients |-> tx[p]]
  /\ RowsFit
  /\ \A v, w \in pending : Abstract!SameKey(v, w) => v = w
  /\ \A p \in Clients : TxFits(p) /\ (Saver # "postgres" => Idle(p))
  /\ PutsDiffer

-----------------------------------------------------------------------------
(* What the readers see, before and after a step                            *)

In(ns, rs) == {r \in rs : r.ns = ns}

LEMMA NamespacesAreReadable ==
  ASSUME SaversInv, NEW ns
  PROVE  Readable(In(ns, rows))
<1>1. IsFiniteSet(In(ns, rows))
  BY FS_Subset DEF SaversInv, RowsFit, In
<1>2. /\ \A r \in rows : r.seq \in Nat
      /\ \A r, s \in rows : r.seq = s.seq => r = s
  <2>1. RowsFit
    BY DEF SaversInv
  <2>2. seq \in Nat
    BY <2>1 DEF RowsFit
  <2>3. ASSUME NEW r \in rows PROVE r.seq \in Nat
    <3>1. r.seq \in 1 .. seq
      BY <2>1 DEF RowsFit
    <3> QED
      BY <2>2, <3>1
  <2>4. ASSUME NEW r \in rows, NEW s \in rows, r.seq = s.seq PROVE r = s
    BY <2>1, <2>4 DEF RowsFit
  <2> QED
    BY <2>3, <2>4
<1> QED
  BY <1>1, <1>2 DEF In, Readable

LEMMA HistoryHasRows ==
  ASSUME SaversInv, NEW ns \in Namespaces, NEW id
  PROVE  (\E k \in DOMAIN History[ns] : History[ns][k] = id) <=> Taken(rows, ns, id)
<1>1. History[ns] = Ordered(In(ns, rows))
  BY DEF History, In
<1>2. (\E r \in In(ns, rows) : r.id = id) <=> Taken(rows, ns, id)
  BY DEF In, Taken
<1> QED
  BY <1>1, <1>2, NamespacesAreReadable, OrderedHasRows

\* A row that becomes visible, if it is a new one and the last of its namespace.
BecomesLast(row) ==
  /\ rows' = rows \cup {row}
  /\ row.ns \in Namespaces /\ row.seq \in Nat
  /\ \A r \in rows : r.ns = row.ns => r.id # row.id /\ r.seq < row.seq

LEMMA HistoryGrows ==
  ASSUME SaversInv, NEW row, BecomesLast(row)
  PROVE  /\ ~ \E k \in DOMAIN History[row.ns] : History[row.ns][k] = row.id
         /\ History' = [History EXCEPT ![row.ns] = Append(@, row.id)]
<1>1. ~ Taken(rows, row.ns, row.id)
  BY DEF BecomesLast, Taken
<1>2. ASSUME NEW ns \in Namespaces
      PROVE  Ordered(In(ns, rows')) =
               IF ns = row.ns THEN Append(Ordered(In(ns, rows)), row.id)
                              ELSE Ordered(In(ns, rows))
  <2>1. CASE ns = row.ns
    <3>1. In(ns, rows') = In(ns, rows) \cup {row}
      BY <2>1 DEF BecomesLast, In
    <3>2. \A r \in In(ns, rows) : r.seq < row.seq
      BY <2>1 DEF BecomesLast, In
    <3>3. Readable(In(ns, rows)) /\ row.seq \in Nat
      BY NamespacesAreReadable DEF BecomesLast
    <3>4. Ordered(In(ns, rows) \cup {row}) = Append(Ordered(In(ns, rows)), row.id)
      BY <3>2, <3>3, OrderedAppends
    <3> QED
      BY <2>1, <3>1, <3>4
  <2>2. CASE ns # row.ns
    <3>1. In(ns, rows') = In(ns, rows)
      BY <2>2 DEF BecomesLast, In
    <3> QED
      BY <2>2, <3>1
  <2> QED
    BY <2>1, <2>2
<1>3. /\ History = [ns \in Namespaces |-> Ordered(In(ns, rows))]
      /\ History' = [ns \in Namespaces |-> Ordered(In(ns, rows'))]
  BY DEF History, In
<1>4. row.ns \in Namespaces
  BY DEF BecomesLast
<1>5. History' = [History EXCEPT ![row.ns] = Append(@, row.id)]
  <2> DEFINE before(ns) == Ordered(In(ns, rows))
             after(ns) == Ordered(In(ns, rows'))
  <2>1. /\ History = [ns \in Namespaces |-> before(ns)]
        /\ History' = [ns \in Namespaces |-> after(ns)]
        /\ \A ns \in Namespaces :
             after(ns) = IF ns = row.ns THEN Append(before(ns), row.id) ELSE before(ns)
    BY <1>2, <1>3
  <2> HIDE DEF before, after
  <2> QED
    BY <1>4, <2>1
<1> QED
  BY <1>1, <1>4, <1>5, HistoryHasRows

LEMMA HistoryStays == rows' = rows => History' = History
  BY DEF History

LEMMA HistoryEmpties ==
  ASSUME rows' = {}
  PROVE  History' = [ns \in Namespaces |-> <<>>]
<1>1. \A ns \in Namespaces : In(ns, rows') = {}
  BY DEF In
<1>2. History' = [ns \in Namespaces |-> Ordered(In(ns, rows'))]
  BY DEF History, In
<1> QED
  BY <1>1, <1>2, NothingIsOrdered

\* The readers and the abstract store list pending writes alike.
LEMMA CardinalitiesAgree ==
  ASSUME NEW S
  PROVE  Cardinality(S) = Abstract!Cardinality(S)
BY DEF Cardinality, Abstract!Cardinality

InPlan(n, ws) ==
  CHOOSE l \in [1 .. n -> ws] :
    \A i, j \in DOMAIN l : i < j => l[i] # l[j] /\ ~(l[j].index < l[i].index)

LEMMA WritesAgree ==
  ASSUME NEW ns, NEW of
  PROVE  WritesInOrder(ns, of) = Abstract!WritesOf(pending, ns, of)
<1> DEFINE ws == {w \in pending : w.ns = ns /\ w.of = of}
           here == InPlan(Cardinality(ws), ws)
           there == InPlan(Abstract!Cardinality(ws), ws)
<1>1. here = there
  BY CardinalitiesAgree
<1>2. WritesInOrder(ns, of) = [k \in DOMAIN here |-> here[k].value]
  BY Zenon DEF WritesInOrder, InPlanOrder, InPlan
<1>3. Abstract!WritesOf(pending, ns, of) = [k \in DOMAIN there |-> there[k].value]
  BY Zenon DEF Abstract!WritesOf, InPlan
<1> QED
  BY <1>1, <1>2, <1>3

\* A put of pending writes replaces those it has the keys of, and no other.
LEMMA ReplacedIsUpserted ==
  ASSUME NEW old, NEW new
  PROVE  Replaced(old, new) = Abstract!Upserted(old, new)
BY DEF Replaced, Abstract!Upserted, Abstract!SameKey

LEMMA KeysStayUnique ==
  ASSUME BatchesAreKeyed, NEW ns, NEW of, NEW batch \in Batches,
         \A v, w \in pending : Abstract!SameKey(v, w) => v = w,
         pending' = Replaced(pending, Abstract!Stored(ns, of, batch))
  PROVE  \A v, w \in pending' : Abstract!SameKey(v, w) => v = w
<1> DEFINE new == Abstract!Stored(ns, of, batch)
<1>1. ASSUME NEW v \in new, NEW w \in new, Abstract!SameKey(v, w) PROVE v = w
  <2>1. PICK a \in batch : v = [ns |-> ns, of |-> of, task |-> a.task, index |-> a.index,
                                value |-> a.value]
    BY DEF Abstract!Stored
  <2>2. PICK b \in batch : w = [ns |-> ns, of |-> of, task |-> b.task, index |-> b.index,
                                value |-> b.value]
    BY DEF Abstract!Stored
  <2>3. a.task = b.task /\ a.index = b.index
    BY <1>1, <2>1, <2>2 DEF Abstract!SameKey
  <2>4. a = b
    BY <2>3 DEF BatchesAreKeyed
  <2> QED
    BY <2>1, <2>2, <2>4
<1> HIDE DEF new
<1>2. pending' = Abstract!Upserted(pending, new)
  BY ReplacedIsUpserted DEF new
<1> QED
  BY <1>1, <1>2 DEF Abstract!Upserted, Abstract!SameKey

-----------------------------------------------------------------------------
(* What the invariant says of a transaction, and what keeps it              *)

LEMMA OpenTx ==
  ASSUME SaversInv, NEW p \in Clients
  PROVE  /\ tx[p].op = "put" =>
              /\ tx[p].row \in [ns : NamespaceOf[p], id : Checkpoints, seq : 1 .. seq]
              /\ PutFits(p, tx[p].row)
         /\ tx[p].op = "writes" =>
              \E ns \in NamespaceOf[p], of \in Checkpoints, batch \in Batches :
                tx[p] = [op |-> "writes", new |-> Abstract!Stored(ns, of, batch)]
         /\ tx[p].op = "deleting" => p \in Deleters /\ tx[p] = [op |-> "deleting", gone |-> pending]
         /\ tx[p].op = "delete" =>
              p \in Deleters /\ tx[p] = [op |-> "delete", gone |-> pending, rows |-> rows]
         /\ ~Idle(p) => Saver = "postgres"
<1>1. TxFits(p) /\ (Saver # "postgres" => Idle(p))
  BY DEF SaversInv
<1>2. CASE Idle(p)
  BY <1>2 DEF Idle, NoTx
<1>3. CASE \E row \in [ns : NamespaceOf[p], id : Checkpoints, seq : 1 .. seq] : PutFits(p, row)
  <2>1. PICK row \in [ns : NamespaceOf[p], id : Checkpoints, seq : 1 .. seq] : PutFits(p, row)
    BY <1>3
  <2>2. tx[p] = [op |-> "put", row |-> row]
    BY <2>1 DEF PutFits
  <2>3. tx[p].row = row /\ tx[p].op = "put"
    BY <2>2
  <2> QED
    BY <1>1, <2>1, <2>3
<1>4. CASE \E ns \in NamespaceOf[p], of \in Checkpoints, batch \in Batches :
             tx[p] = [op |-> "writes", new |-> Abstract!Stored(ns, of, batch)]
  BY <1>1, <1>4
<1>5. CASE DeleteFits(p)
  BY <1>1, <1>5 DEF DeleteFits
<1> QED
  BY <1>1, <1>2, <1>3, <1>4, <1>5 DEF TxFits

\* The one who deletes is alone.
LEMMA DeleterIsAlone ==
  ASSUME StoresAreApart, SaversInv, Saver = "postgres",
         NEW p \in Clients, p \in Deleters, NEW q \in Clients, q # p
  PROVE  Idle(q) /\ NamespaceOf[q] = {}
<1>1. q \notin Deleters /\ NamespaceOf[q] = {}
  BY DEF StoresAreApart, SaversInv, Saver, Deleters, NamespaceOf
<1>2. TxFits(q)
  BY DEF SaversInv
<1>3. ~ \E row \in [ns : NamespaceOf[q], id : Checkpoints, seq : 1 .. seq] : PutFits(q, row)
  BY <1>1
<1> QED
  BY <1>1, <1>2, <1>3 DEF TxFits, DeleteFits

LEMMA NamespacesOf ==
  ASSUME StoresAreApart, SaversInv, NEW p \in Clients, NEW ns \in NamespaceOf[p]
  PROVE  /\ ns \in Namespaces
         /\ Saver = "postgres" => \A q \in Clients : q # p => ns \notin NamespaceOf[q] /\ q \notin Deleters
  BY DEF StoresAreApart, SaversInv, Saver, Deleters, NamespaceOf

\* A transaction goes on fitting while nothing becomes visible.
LEMMA FitStays ==
  ASSUME SaversInv, NEW q \in Clients, UNCHANGED <<store, rows, pending>>,
         seq' \in Nat, seq <= seq', tx'[q] = tx[q]
  PROVE  TxFits(q)'
<1>0. TxFits(q) /\ seq \in Nat
  BY DEF SaversInv, RowsFit
<1> USE DEF NamespaceOf, Deleters
<1>2. CASE Idle(q)
  BY <1>2 DEF TxFits, Idle
<1>3. CASE \E row \in [ns : NamespaceOf[q], id : Checkpoints, seq : 1 .. seq] : PutFits(q, row)
  <2>1. PICK row \in [ns : NamespaceOf[q], id : Checkpoints, seq : 1 .. seq] : PutFits(q, row)
    BY <1>3
  <2>2. row \in [ns : NamespaceOf[q], id : Checkpoints, seq : 1 .. seq']
    BY <1>0, <2>1
  <2>3. PutFits(q, row)'
    BY <1>0, <2>1, <2>2 DEF PutFits
  <2> QED
    BY <2>2, <2>3 DEF TxFits
<1>4. CASE \E ns \in NamespaceOf[q], of \in Checkpoints, batch \in Batches :
             tx[q] = [op |-> "writes", new |-> Abstract!Stored(ns, of, batch)]
  BY <1>4 DEF TxFits
<1>5. CASE DeleteFits(q)
  BY <1>5 DEF TxFits, DeleteFits
<1> QED
  BY <1>0, <1>2, <1>3, <1>4, <1>5 DEF TxFits

\* The rows fit when one becomes visible.
LEMMA RowsGrow ==
  ASSUME SaversInv, seq' \in Nat, seq <= seq',
         NEW row \in [ns : Namespaces, id : Checkpoints, seq : 1 .. seq'],
         rows' = rows \cup {row}, put' = put \cup {<<row.ns, row.id>>},
         \A r \in rows : r.seq # row.seq
  PROVE  RowsFit'
<1>0. RowsFit
  BY DEF SaversInv
<1>1. IsFiniteSet(rows')
  BY <1>0, FS_AddElement DEF RowsFit
<1>2. ASSUME NEW r \in rows'
      PROVE  /\ r.ns \in Namespaces /\ r.id \in Checkpoints /\ r.seq \in 1 .. seq'
             /\ <<r.ns, r.id>> \in put'
  <2>1. CASE r \in rows
    <3>1. r.ns \in Namespaces /\ r.id \in Checkpoints /\ r.seq \in 1 .. seq /\ <<r.ns, r.id>> \in put
      BY <1>0, <2>1 DEF RowsFit
    <3>2. seq \in Nat
      BY <1>0 DEF RowsFit
    <3> QED
      BY <3>1, <3>2
  <2>2. CASE r = row
    BY <2>2
  <2> QED
    BY <2>1, <2>2
<1>3. ASSUME NEW r \in rows', NEW s \in rows', r.seq = s.seq PROVE r = s
  BY <1>0, <1>3 DEF RowsFit
<1> QED
  BY <1>1, <1>2, <1>3 DEF RowsFit

-----------------------------------------------------------------------------
(* Every step keeps the invariant, and is a step of the store or none       *)

\* The invariant holds after the step, and the abstract store took one or stayed.
Kept == SaversInv' /\ [Abstract!Next]_(Abstract!vars)

\* What the savers of one process do when a checkpoint is put.
LEMMA LocalPutKept ==
  ASSUME StoresAreApart, SaversInv, NEW p \in Clients, NEW ns \in NamespaceOf[p],
         NEW id \in Checkpoints, (FreshPut(id) /\ MemoryPut(p, ns, id)) \/ SqlitePut(p, ns, id)
  PROVE  Kept
<1> DEFINE row == Row(ns, id)
<1>1. /\ Saver # "postgres" /\ seq' = seq + 1 /\ put' = put \cup {<<ns, id>>}
      /\ UNCHANGED <<store, pending, tx, seen>>
      /\ \/ ~Taken(rows, ns, id) /\ rows' = rows \cup {row}
         \/ Taken(rows, ns, id) /\ rows' = rows
  <2>1. CASE FreshPut(id) /\ MemoryPut(p, ns, id)
    <3>1. Saver = "memory"
      BY <2>1 DEF MemoryPut
    <3>2. ~Resend
      BY <3>1 DEF StoresAreApart, SaversInv, Saver, Resend
    <3>3. <<ns, id>> \notin put
      <4>1. ns \in Namespaces
        BY NamespacesOf
      <4> QED
        BY <2>1, <3>2, <4>1 DEF FreshPut, Known
    <3>4. ~Taken(rows, ns, id)
      BY <3>3 DEF SaversInv, RowsFit, Taken
    <3> QED
      BY <2>1, <3>1, <3>4 DEF MemoryPut
  <2>2. CASE SqlitePut(p, ns, id)
    BY <2>2 DEF SqlitePut
  <2> QED
    BY <2>1, <2>2
<1>2. ns \in Namespaces /\ seq \in Nat /\ seq' \in Nat /\ seq <= seq'
  BY <1>1, NamespacesOf DEF SaversInv, RowsFit
<1>3. /\ row.ns = ns /\ row.id = id /\ row.seq = seq' /\ row.seq \in Nat
      /\ row \in [ns : Namespaces, id : Checkpoints, seq : 1 .. seq']
  BY <1>1, <1>2 DEF Row
<1>4. \A r \in rows : r.seq \in Nat /\ r.seq < seq'
  <2> SUFFICES ASSUME NEW r \in rows PROVE r.seq \in Nat /\ r.seq < seq'
    OBVIOUS
  <2>1. r.seq \in 1 .. seq
    BY DEF SaversInv, RowsFit
  <2> QED
    BY <1>1, <1>2, <2>1
<1> HIDE DEF row
<1>5. \A q \in Clients : (TxFits(q) /\ (Saver # "postgres" => Idle(q)))'
  <2> SUFFICES ASSUME NEW q \in Clients PROVE (TxFits(q) /\ (Saver # "postgres" => Idle(q)))'
    OBVIOUS
  <2>1. Idle(q)
    BY <1>1 DEF SaversInv
  <2> QED
    BY <1>1, <2>1 DEF TxFits, Idle
<1>6. RowsFit' /\ Abstract!Put(ns, id)
  <2>1. CASE ~Taken(rows, ns, id) /\ rows' = rows \cup {row}
    <3>1. RowsFit'
      BY <1>1, <1>2, <1>3, <1>4, <2>1, RowsGrow
    <3>2. BecomesLast(row)
      BY <1>2, <1>3, <1>4, <2>1 DEF BecomesLast, Taken
    <3> QED
      BY <1>1, <1>3, <3>1, <3>2, HistoryGrows DEF Abstract!Put
  <2>2. CASE Taken(rows, ns, id) /\ rows' = rows
    <3>1. RowsFit'
      <4>1. \A r \in rows : r.seq \in 1 .. seq'
        <5> SUFFICES ASSUME NEW r \in rows PROVE r.seq \in 1 .. seq'
          OBVIOUS
        <5>1. r.seq \in 1 .. seq
          BY DEF SaversInv, RowsFit
        <5> QED
          BY <1>2, <5>1
      <4> QED
        BY <1>1, <1>2, <2>2, <4>1 DEF SaversInv, RowsFit
    <3>2. History' = History /\ \E k \in DOMAIN History[ns] : History[ns][k] = id
      BY <1>2, <2>2, HistoryStays, HistoryHasRows
    <3> QED
      BY <1>1, <3>1, <3>2 DEF Abstract!Put
  <2> QED
    BY <1>1, <2>1, <2>2
<1>7. SaversInv'
  BY <1>1, <1>5, <1>6 DEF SaversInv, PutsDiffer
<1> QED
  BY <1>2, <1>6, <1>7 DEF Kept, Abstract!Next

LEMMA LocalPutWritesKept ==
  ASSUME StoresAreApart, BatchesAreKeyed, SaversInv, NEW p \in Clients,
         NEW ns \in NamespaceOf[p], NEW of \in Checkpoints, NEW batch \in Batches,
         LocalPutWrites(p, ns, of, batch)
  PROVE  Kept
<1>1. /\ pending' = Replaced(pending, Abstract!Stored(ns, of, batch)) /\ Saver # "postgres"
      /\ UNCHANGED <<store, rows, tx, seq, put, seen>>
  BY DEF LocalPutWrites
<1>2. \A q \in Clients : (TxFits(q) /\ (Saver # "postgres" => Idle(q)))'
  <2> SUFFICES ASSUME NEW q \in Clients PROVE (TxFits(q) /\ (Saver # "postgres" => Idle(q)))'
    OBVIOUS
  <2>1. Idle(q)
    BY <1>1 DEF SaversInv
  <2> QED
    BY <1>1, <2>1 DEF TxFits, Idle
<1>3. \A v, w \in pending' : Abstract!SameKey(v, w) => v = w
  BY <1>1, KeysStayUnique DEF SaversInv
<1>4. SaversInv'
  BY <1>1, <1>2, <1>3 DEF SaversInv, RowsFit, PutsDiffer, Abstract!SameKey
<1>5. ns \in Namespaces
  BY NamespacesOf
<1>6. Abstract!PutWrites(ns, of, batch)
  BY <1>1, ReplacedIsUpserted, HistoryStays DEF Abstract!PutWrites
<1> QED
  BY <1>4, <1>5, <1>6 DEF Kept, Abstract!Next

LEMMA LocalDeleteKept ==
  ASSUME SaversInv, NEW p \in Clients, LocalDelete(p)
  PROVE  Kept
<1>1. /\ Saver # "postgres" /\ rows' = {} /\ pending' = {} /\ put' = {}
      /\ UNCHANGED <<store, tx, seq, seen>>
  BY DEF LocalDelete
<1>2. \A q \in Clients : (TxFits(q) /\ (Saver # "postgres" => Idle(q)))'
  <2> SUFFICES ASSUME NEW q \in Clients PROVE (TxFits(q) /\ (Saver # "postgres" => Idle(q)))'
    OBVIOUS
  <2>1. Idle(q)
    BY <1>1 DEF SaversInv
  <2> QED
    BY <1>1, <2>1 DEF TxFits, Idle
<1>3. RowsFit'
  BY <1>1, FS_EmptySet DEF SaversInv, RowsFit
<1>4. SaversInv'
  BY <1>1, <1>2, <1>3 DEF SaversInv, PutsDiffer
<1>5. Abstract!DeleteThread
  BY <1>1, HistoryEmpties DEF Abstract!DeleteThread, Abstract!Nothing
<1> QED
  BY <1>4, <1>5 DEF Kept, Abstract!Next

\* A transaction is opened, takes another step, or ends without having changed
\* what is visible.
OnlyTx(p) ==
  /\ Saver = "postgres"
  /\ DOMAIN tx' = Clients /\ tx' = [q \in Clients |-> tx'[q]]
  /\ \A q \in Clients : q # p => tx'[q] = tx[q]
  /\ UNCHANGED <<store, rows, pending>>
  /\ put \subseteq put' /\ seq' \in Nat /\ seq <= seq'
  /\ TxFits(p)'
  /\ tx'[p].op = "put" => tx'[p].row.seq = seq' /\ seq < seq'

LEMMA OnlyTxKeeps ==
  ASSUME SaversInv, NEW p \in Clients, OnlyTx(p)
  PROVE  SaversInv'
<1>1. \A q \in Clients : (TxFits(q) /\ (Saver # "postgres" => Idle(q)))'
  <2> SUFFICES ASSUME NEW q \in Clients PROVE TxFits(q)'
    BY DEF OnlyTx, Saver
  <2>1. CASE q = p
    BY <2>1 DEF OnlyTx
  <2>2. CASE q # p
    BY <2>2, FitStays DEF OnlyTx, SaversInv
  <2> QED
    BY <2>1, <2>2
<1>2. RowsFit'
  <2>1. \A r \in rows : r.seq \in 1 .. seq'
    <3> SUFFICES ASSUME NEW r \in rows PROVE r.seq \in 1 .. seq'
      OBVIOUS
    <3>1. r.seq \in 1 .. seq /\ seq \in Nat
      BY DEF SaversInv, RowsFit
    <3> QED
      BY <3>1 DEF OnlyTx
  <2> QED
    BY <2>1 DEF OnlyTx, SaversInv, RowsFit
<1>3. PutsDiffer'
  <2>1. \A q \in Clients : tx[q].op = "put" => tx[q].row.seq \in 1 .. seq
    BY OpenTx
  <2>2. seq \in Nat
    BY DEF SaversInv, RowsFit
  <2> SUFFICES ASSUME NEW a \in Clients, NEW b \in Clients, a # b,
                      tx'[a].op = "put", tx'[b].op = "put"
               PROVE  tx'[a].row.seq # tx'[b].row.seq
    BY DEF PutsDiffer
  <2>3. CASE a = p
    <3>1. tx'[b] = tx[b] /\ tx'[a].row.seq = seq' /\ seq < seq' /\ seq' \in Nat
      BY <2>3 DEF OnlyTx
    <3>2. tx'[b].row.seq \in 1 .. seq
      BY <2>1, <3>1
    <3> QED
      BY <2>2, <3>1, <3>2
  <2>4. CASE b = p
    <3>1. tx'[a] = tx[a] /\ tx'[b].row.seq = seq' /\ seq < seq' /\ seq' \in Nat
      BY <2>4 DEF OnlyTx
    <3>2. tx'[a].row.seq \in 1 .. seq
      BY <2>1, <3>1
    <3> QED
      BY <2>2, <3>1, <3>2
  <2>5. CASE a # p /\ b # p
    <3>1. tx'[a] = tx[a] /\ tx'[b] = tx[b]
      BY <2>5 DEF OnlyTx
    <3> QED
      BY <3>1 DEF SaversInv, PutsDiffer
  <2> QED
    BY <2>3, <2>4, <2>5
<1>4. \A v, w \in pending' : Abstract!SameKey(v, w) => v = w
  BY DEF OnlyTx, SaversInv
<1> QED
  BY <1>1, <1>2, <1>3, <1>4 DEF SaversInv, OnlyTx

\* The visible state stays, and the store with it.
LEMMA StoreStays ==
  ASSUME UNCHANGED <<rows, pending, put, seen>>
  PROVE  UNCHANGED Abstract!vars
BY HistoryStays DEF Abstract!vars

LEMMA BeginPutKept ==
  ASSUME StoresAreApart, SaversInv, NEW p \in Clients, NEW ns \in NamespaceOf[p],
         NEW id \in Checkpoints, BeginPut(p, ns, id)
  PROVE  Kept
<1>0. PICK row : row = Row(ns, id)
  OBVIOUS
<1>1. /\ Saver = "postgres" /\ Idle(p) /\ seq' = seq + 1
      /\ tx' = [tx EXCEPT ![p] = IF Taken(rows, ns, id) THEN NoTx ELSE [op |-> "put", row |-> row]]
      /\ put' = IF Taken(rows, ns, id) THEN put \cup {<<ns, id>>} ELSE put
      /\ UNCHANGED <<store, rows, pending, seen>>
  BY <1>0 DEF BeginPut
<1>2. ns \in Namespaces /\ seq \in Nat /\ seq' \in Nat /\ seq < seq' /\ seq <= seq'
  BY <1>1, NamespacesOf DEF SaversInv, RowsFit
<1>3. /\ row.ns = ns /\ row.id = id /\ row.seq = seq'
      /\ row \in [ns : NamespaceOf[p], id : Checkpoints, seq : 1 .. seq']
  BY <1>0, <1>1, <1>2 DEF Row
<1>4. TxFits(p)' /\ (tx'[p].op = "put" => tx'[p].row.seq = seq')
  <2>1. CASE Taken(rows, ns, id)
    <3>1. tx'[p] = NoTx
      BY <1>1, <2>1 DEF SaversInv
    <3> QED
      BY <3>1 DEF TxFits, Idle, NoTx
  <2>2. CASE ~Taken(rows, ns, id)
    <3>1. tx'[p] = [op |-> "put", row |-> row]
      BY <1>1, <2>2 DEF SaversInv
    <3>2. \A r \in rows : r.seq \in Nat /\ r.seq < seq'
      <4> SUFFICES ASSUME NEW r \in rows PROVE r.seq \in Nat /\ r.seq < seq'
        OBVIOUS
      <4>1. r.seq \in 1 .. seq
        BY DEF SaversInv, RowsFit
      <4> QED
        BY <1>2, <4>1
    <3>3. \A r \in rows : r.seq # row.seq /\ (r.ns = row.ns => r.id # row.id /\ r.seq < row.seq)
      BY <1>2, <1>3, <2>2, <3>2 DEF Taken
    <3>4. row.ns \in NamespaceOf[p] /\ row.id \in Checkpoints /\ row.seq \in 1 .. seq'
      BY <1>3
    <3>5. PutFits(p, row)'
      BY <1>1, <3>1, <3>3, <3>4 DEF PutFits, NamespaceOf
    <3>6. TxFits(p)'
      BY <1>1, <1>3, <3>5 DEF TxFits, NamespaceOf
    <3> QED
      BY <1>3, <3>1, <3>6
  <2> QED
    BY <2>1, <2>2
<1>5. OnlyTx(p)
  BY <1>1, <1>2, <1>4 DEF OnlyTx, SaversInv
<1>6. SaversInv'
  BY <1>5, OnlyTxKeeps
<1>7. CASE Taken(rows, ns, id)
  <2>1. History' = History /\ \E k \in DOMAIN History[ns] : History[ns][k] = id
    BY <1>1, <1>2, <1>7, HistoryStays, HistoryHasRows
  <2>2. Abstract!Put(ns, id)
    BY <1>1, <1>7, <2>1 DEF Abstract!Put
  <2> QED
    BY <1>2, <1>6, <2>2 DEF Kept, Abstract!Next
<1>8. CASE ~Taken(rows, ns, id)
  BY <1>1, <1>6, <1>8, StoreStays DEF Kept
<1> QED
  BY <1>7, <1>8

LEMMA BeginPutWritesKept ==
  ASSUME SaversInv, NEW p \in Clients, NEW ns \in NamespaceOf[p], NEW of \in Checkpoints,
         NEW batch \in Batches, BeginPutWrites(p, ns, of, batch)
  PROVE  Kept
<1>1. /\ Saver = "postgres"
      /\ tx' = [tx EXCEPT ![p] = [op |-> "writes", new |-> Abstract!Stored(ns, of, batch)]]
      /\ UNCHANGED <<store, rows, pending, seq, put, seen>>
  BY DEF BeginPutWrites
<1>2. tx'[p] = [op |-> "writes", new |-> Abstract!Stored(ns, of, batch)]
  BY <1>1 DEF SaversInv
<1>3. TxFits(p)' /\ tx'[p].op # "put"
  <2>1. (\E m \in NamespaceOf[p], c \in Checkpoints, b \in Batches :
           tx[p] = [op |-> "writes", new |-> Abstract!Stored(m, c, b)])'
    BY <1>1, <1>2 DEF NamespaceOf
  <2> QED
    BY <1>2, <2>1 DEF TxFits
<1>4. OnlyTx(p)
  BY <1>1, <1>3 DEF OnlyTx, SaversInv, RowsFit
<1> QED
  BY <1>1, <1>4, OnlyTxKeeps, StoreStays DEF Kept

LEMMA BeginDeleteKept ==
  ASSUME SaversInv, NEW p \in Clients, BeginDelete(p) \/ DeleteCheckpoints(p)
  PROVE  Kept
<1>1. UNCHANGED <<store, rows, pending, seq, put, seen>>
  BY DEF BeginDelete, DeleteCheckpoints
<1>2. /\ Saver = "postgres" /\ p \in Deleters
      /\ \/ tx' = [tx EXCEPT ![p] = [op |-> "deleting", gone |-> pending]]
         \/ tx' = [tx EXCEPT ![p] = [op |-> "delete", gone |-> pending, rows |-> rows]]
  <2>1. CASE BeginDelete(p)
    BY <2>1 DEF BeginDelete
  <2>2. CASE DeleteCheckpoints(p)
    <3>1. tx[p].op = "deleting" /\ ~Idle(p)
      BY <2>2 DEF DeleteCheckpoints, Idle, NoTx
    <3>2. p \in Deleters /\ tx[p].gone = pending /\ Saver = "postgres"
      BY <3>1, OpenTx
    <3> QED
      BY <2>2, <3>2 DEF DeleteCheckpoints
  <2> QED
    BY <2>1, <2>2
<1>3. TxFits(p)' /\ tx'[p].op # "put"
  <2>1. \/ tx'[p] = [op |-> "deleting", gone |-> pending]
        \/ tx'[p] = [op |-> "delete", gone |-> pending, rows |-> rows]
    BY <1>2 DEF SaversInv
  <2> QED
    BY <1>1, <1>2, <2>1 DEF TxFits, DeleteFits, Deleters
<1>4. OnlyTx(p)
  BY <1>1, <1>2, <1>3 DEF OnlyTx, SaversInv, RowsFit
<1> QED
  BY <1>1, <1>4, OnlyTxKeeps, StoreStays DEF Kept

LEMMA RollbackKept ==
  ASSUME SaversInv, NEW p \in Clients, Rollback(p)
  PROVE  Kept
<1>1. /\ Saver = "postgres" /\ tx' = [tx EXCEPT ![p] = NoTx]
      /\ UNCHANGED <<store, rows, pending, seq, put, seen>>
  BY OpenTx DEF Rollback
<1>2. TxFits(p)' /\ tx'[p].op # "put"
  BY <1>1 DEF TxFits, Idle, NoTx, SaversInv
<1>3. OnlyTx(p)
  BY <1>1, <1>2 DEF OnlyTx, SaversInv, RowsFit
<1> QED
  BY <1>1, <1>3, OnlyTxKeeps, StoreStays DEF Kept

\* The row that becomes visible is the last of its namespace, and no other
\* transaction is concerned: each writes namespaces of its own.
LEMMA CommitPutKept ==
  ASSUME StoresAreApart, SaversInv, NEW p \in Clients, CommitPut(p)
  PROVE  Kept
<1>1. PICK row : row = tx[p].row
  OBVIOUS
<1>2. /\ tx[p].op = "put" /\ rows' = rows \cup {row} /\ put' = put \cup {<<row.ns, row.id>>}
      /\ tx' = [tx EXCEPT ![p] = NoTx] /\ UNCHANGED <<store, pending, seq, seen>>
  BY <1>1 DEF CommitPut
<1>3. /\ row \in [ns : NamespaceOf[p], id : Checkpoints, seq : 1 .. seq]
      /\ PutFits(p, row) /\ Saver = "postgres" /\ seq \in Nat
  BY <1>1, <1>2, OpenTx DEF Idle, NoTx, SaversInv, RowsFit
<1>4. /\ row.ns \in Namespaces
      /\ \A q \in Clients : q # p => row.ns \notin NamespaceOf[q] /\ q \notin Deleters
      /\ row \in [ns : Namespaces, id : Checkpoints, seq : 1 .. seq]
  BY <1>3, NamespacesOf
<1>5. RowsFit'
  BY <1>2, <1>3, <1>4, RowsGrow DEF PutFits
<1>6. ASSUME NEW q \in Clients PROVE (TxFits(q) /\ (Saver # "postgres" => Idle(q)))'
  <2>1. Saver' = Saver
    BY <1>2 DEF Saver
  <2>2. CASE q = p
    <3>1. tx'[p] = NoTx
      BY <1>2 DEF SaversInv
    <3> QED
      BY <1>3, <2>1, <2>2, <3>1 DEF TxFits, Idle
  <2>3. CASE q # p
    <3>1. tx'[q] = tx[q] /\ TxFits(q) /\ ~DeleteFits(q)
      BY <1>2, <1>4, <2>3 DEF SaversInv, DeleteFits
    <3>2. CASE Idle(q)
      BY <1>3, <2>1, <3>1, <3>2 DEF TxFits, Idle
    <3>3. CASE \E r \in [ns : NamespaceOf[q], id : Checkpoints, seq : 1 .. seq] : PutFits(q, r)
      <4>1. PICK r \in [ns : NamespaceOf[q], id : Checkpoints, seq : 1 .. seq] : PutFits(q, r)
        BY <3>3
      <4>2. r.ns # row.ns
        BY <1>4, <2>3, <4>1
      <4>3. r.seq # row.seq
        <5>1. tx[q] = [op |-> "put", row |-> r]
          BY <4>1 DEF PutFits
        <5>2. tx[q].op = "put" /\ tx[q].row = r
          BY <5>1
        <5> QED
          BY <1>1, <1>2, <2>3, <5>2 DEF SaversInv, PutsDiffer
      <4>4. PutFits(q, r)'
        BY <1>2, <3>1, <4>1, <4>2, <4>3 DEF PutFits, NamespaceOf
      <4> QED
        BY <1>2, <1>3, <2>1, <4>1, <4>4 DEF TxFits, NamespaceOf
    <3>4. CASE \E ns \in NamespaceOf[q], of \in Checkpoints, batch \in Batches :
                 tx[q] = [op |-> "writes", new |-> Abstract!Stored(ns, of, batch)]
      <4>1. (\E ns \in NamespaceOf[q], of \in Checkpoints, batch \in Batches :
               tx[q] = [op |-> "writes", new |-> Abstract!Stored(ns, of, batch)])'
        BY <1>2, <3>1, <3>4 DEF NamespaceOf
      <4> QED
        BY <1>3, <2>1, <4>1 DEF TxFits
    <3> QED
      BY <3>1, <3>2, <3>3, <3>4 DEF TxFits
  <2> QED
    BY <2>2, <2>3
<1>7. PutsDiffer'
  <2>1. \A q \in Clients : tx'[q] = IF q = p THEN NoTx ELSE tx[q]
    BY <1>2 DEF SaversInv
  <2> QED
    BY <2>1 DEF PutsDiffer, SaversInv, NoTx
<1>8. SaversInv'
  <2>1. DOMAIN tx' = Clients /\ tx' = [q \in Clients |-> tx'[q]]
    BY <1>2 DEF SaversInv
  <2> QED
    BY <1>2, <1>5, <1>6, <1>7, <2>1 DEF SaversInv
<1>9. Abstract!Put(row.ns, row.id)
  <2>1. BecomesLast(row)
    BY <1>2, <1>3, <1>4 DEF BecomesLast, PutFits
  <2> QED
    BY <1>2, <2>1, HistoryGrows DEF Abstract!Put
<1> QED
  BY <1>3, <1>4, <1>8, <1>9 DEF Kept, Abstract!Next

LEMMA CommitPutWritesKept ==
  ASSUME StoresAreApart, BatchesAreKeyed, SaversInv, NEW p \in Clients, CommitPutWrites(p)
  PROVE  Kept
<1>1. /\ tx[p].op = "writes" /\ pending' = Replaced(pending, tx[p].new)
      /\ tx' = [tx EXCEPT ![p] = NoTx] /\ UNCHANGED <<store, rows, seq, put, seen>>
  BY DEF CommitPutWrites
<1>2. Saver = "postgres"
  BY <1>1, OpenTx DEF Idle, NoTx
<1>3. PICK ns \in NamespaceOf[p], of \in Checkpoints, batch \in Batches :
        tx[p] = [op |-> "writes", new |-> Abstract!Stored(ns, of, batch)]
  BY <1>1, OpenTx
<1>4. pending' = Replaced(pending, Abstract!Stored(ns, of, batch))
  BY <1>1, <1>3
<1>5. /\ ns \in Namespaces
      /\ \A q \in Clients : q # p => q \notin Deleters
  BY <1>2, NamespacesOf
<1>6. ASSUME NEW q \in Clients PROVE (TxFits(q) /\ (Saver # "postgres" => Idle(q)))'
  <2>1. Saver' = Saver
    BY <1>1 DEF Saver
  <2>2. CASE q = p
    <3>1. tx'[p] = NoTx
      BY <1>1 DEF SaversInv
    <3> QED
      BY <1>2, <2>1, <2>2, <3>1 DEF TxFits, Idle
  <2>3. CASE q # p
    <3>1. tx'[q] = tx[q] /\ TxFits(q) /\ ~DeleteFits(q)
      BY <1>1, <1>5, <2>3 DEF SaversInv, DeleteFits
    <3>2. CASE Idle(q)
      BY <1>2, <2>1, <3>1, <3>2 DEF TxFits, Idle
    <3>3. CASE \E r \in [ns : NamespaceOf[q], id : Checkpoints, seq : 1 .. seq] : PutFits(q, r)
      <4>1. PICK r \in [ns : NamespaceOf[q], id : Checkpoints, seq : 1 .. seq] : PutFits(q, r)
        BY <3>3
      <4>2. PutFits(q, r)'
        BY <1>1, <3>1, <4>1 DEF PutFits, NamespaceOf
      <4> QED
        BY <1>1, <1>2, <2>1, <4>1, <4>2 DEF TxFits, NamespaceOf
    <3>4. CASE \E m \in NamespaceOf[q], c \in Checkpoints, b \in Batches :
                 tx[q] = [op |-> "writes", new |-> Abstract!Stored(m, c, b)]
      <4>1. (\E m \in NamespaceOf[q], c \in Checkpoints, b \in Batches :
               tx[q] = [op |-> "writes", new |-> Abstract!Stored(m, c, b)])'
        BY <1>1, <3>1, <3>4 DEF NamespaceOf
      <4> QED
        BY <1>2, <2>1, <4>1 DEF TxFits
    <3> QED
      BY <3>1, <3>2, <3>3, <3>4 DEF TxFits
  <2> QED
    BY <2>2, <2>3
<1>7. PutsDiffer'
  <2>1. \A q \in Clients : tx'[q] = IF q = p THEN NoTx ELSE tx[q]
    BY <1>1 DEF SaversInv
  <2> QED
    BY <2>1 DEF PutsDiffer, SaversInv, NoTx
<1>8. \A v, w \in pending' : Abstract!SameKey(v, w) => v = w
  BY <1>4, KeysStayUnique DEF SaversInv
<1>9. SaversInv'
  <2>1. DOMAIN tx' = Clients /\ tx' = [q \in Clients |-> tx'[q]]
    BY <1>1 DEF SaversInv
  <2>2. RowsFit'
    BY <1>1 DEF SaversInv, RowsFit
  <2> QED
    BY <1>1, <1>6, <1>7, <1>8, <2>1, <2>2 DEF SaversInv, Abstract!SameKey
<1>10. Abstract!PutWrites(ns, of, batch)
  BY <1>1, <1>4, ReplacedIsUpserted, HistoryStays DEF Abstract!PutWrites
<1> QED
  BY <1>5, <1>9, <1>10 DEF Kept, Abstract!Next

\* The two statements together have deleted everything there was.
LEMMA CommitDeleteKept ==
  ASSUME StoresAreApart, SaversInv, NEW p \in Clients, CommitDelete(p)
  PROVE  Kept
<1>1. /\ tx[p].op = "delete" /\ rows' = rows \ tx[p].rows /\ pending' = pending \ tx[p].gone
      /\ put' = {<<r.ns, r.id>> : r \in rows'} /\ tx' = [tx EXCEPT ![p] = NoTx]
      /\ UNCHANGED <<store, seq, seen>>
  BY DEF CommitDelete
<1>2. /\ p \in Deleters /\ Saver = "postgres"
      /\ tx[p] = [op |-> "delete", gone |-> pending, rows |-> rows]
  BY <1>1, OpenTx DEF Idle, NoTx
<1>3. tx[p].rows = rows /\ tx[p].gone = pending
  BY <1>2
<1>4. rows' = {} /\ pending' = {} /\ put' = {}
  BY <1>1, <1>3
<1>5. \A q \in Clients : tx'[q] = NoTx
  <2> SUFFICES ASSUME NEW q \in Clients PROVE tx'[q] = NoTx
    OBVIOUS
  <2>1. CASE q = p
    BY <1>1, <2>1 DEF SaversInv
  <2>2. CASE q # p
    <3>1. Idle(q)
      BY <1>2, <2>2, DeleterIsAlone
    <3> QED
      BY <1>1, <2>2, <3>1 DEF SaversInv, Idle
  <2> QED
    BY <2>1, <2>2
<1>6. RowsFit'
  BY <1>1, <1>4, FS_EmptySet DEF SaversInv, RowsFit
<1>7. \A q \in Clients : (TxFits(q) /\ (Saver # "postgres" => Idle(q)))'
  BY <1>5 DEF TxFits, Idle
<1>8. PutsDiffer'
  BY <1>5 DEF PutsDiffer, NoTx
<1>9. SaversInv'
  <2>1. DOMAIN tx' = Clients /\ tx' = [q \in Clients |-> tx'[q]]
    BY <1>1 DEF SaversInv
  <2> QED
    BY <1>1, <1>4, <1>6, <1>7, <1>8, <2>1 DEF SaversInv
<1>10. Abstract!DeleteThread
  BY <1>1, <1>4, HistoryEmpties DEF Abstract!DeleteThread, Abstract!Nothing
<1> QED
  BY <1>9, <1>10 DEF Kept, Abstract!Next

\* Every reader is given an answer of the abstract store.
LEMMA ReadKept ==
  ASSUME StoresAreApart, SaversInv, NEW p \in Clients, NEW ns \in NamespaceOf[p],
         NEW id \in Checkpoints, GetTuple(p, ns, id) \/ List(p, ns) \/ GetWrites(p, ns, id)
  PROVE  Kept
<1>1. UNCHANGED <<store, rows, pending, tx, seq, put>>
  BY DEF GetTuple, List, GetWrites
<1>2. ns \in Namespaces
  BY NamespacesOf
<1>3. SaversInv'
  BY <1>1 DEF SaversInv, RowsFit, TxFits, PutFits, DeleteFits, PutsDiffer, Idle,
              NamespaceOf, Deleters, Saver
<1>4. Latest(ns) = Abstract!LatestOf(History[ns])
  BY DEF Latest, Abstract!LatestOf, Abstract!Nothing
<1>5. SelectedRow(ns, id) = Abstract!SelectedOf(History[ns], id)
  BY <1>2, HistoryHasRows DEF SelectedRow, Abstract!SelectedOf, Abstract!Nothing
<1>6. Listed(ns) = Abstract!Reverse(History[ns])
  BY DEF Listed, Reverse, Abstract!Reverse
<1>7. WritesInOrder(ns, id) = Abstract!WritesOf(pending, ns, id)
  BY WritesAgree
<1>8. \E answer \in {Latest(ns), SelectedRow(ns, id), Listed(ns), WritesInOrder(ns, id)} :
        seen' = [seen EXCEPT ![p] = answer]
  BY DEF GetTuple, List, GetWrites
<1>9. \E answer \in Abstract!Answers(History[ns], pending, ns, id) :
        seen' = [seen EXCEPT ![p] = answer]
  BY <1>4, <1>5, <1>6, <1>7, <1>8 DEF Abstract!Answers
<1>10. Abstract!Read(p, ns, id)
  BY <1>1, <1>9, HistoryStays DEF Abstract!Read
<1> QED
  BY <1>2, <1>3, <1>10 DEF Kept, Abstract!Next

LEMMA StepKept ==
  ASSUME StoresAreApart, BatchesAreKeyed, SaversInv, [SaversNext]_saversVars
  PROVE  Kept
<1>1. ASSUME NEW p \in Clients, Call(p) PROVE Kept
  <2>1. PICK ns \in NamespaceOf[p], id \in Checkpoints :
          \/ FreshPut(id) /\ (MemoryPut(p, ns, id) \/ SqlitePut(p, ns, id) \/ BeginPut(p, ns, id))
          \/ \E batch \in Batches :
               Known(id) /\ (LocalPutWrites(p, ns, id, batch) \/ BeginPutWrites(p, ns, id, batch))
          \/ Idle(p) /\ (GetTuple(p, ns, id) \/ List(p, ns) \/ GetWrites(p, ns, id))
    BY <1>1 DEF Call
  <2>2. CASE FreshPut(id) /\ (MemoryPut(p, ns, id) \/ SqlitePut(p, ns, id) \/ BeginPut(p, ns, id))
    BY <2>2, LocalPutKept, BeginPutKept
  <2>3. CASE \E batch \in Batches :
               Known(id) /\ (LocalPutWrites(p, ns, id, batch) \/ BeginPutWrites(p, ns, id, batch))
    BY <2>3, LocalPutWritesKept, BeginPutWritesKept
  <2>4. CASE Idle(p) /\ (GetTuple(p, ns, id) \/ List(p, ns) \/ GetWrites(p, ns, id))
    BY <2>4, ReadKept
  <2> QED
    BY <2>1, <2>2, <2>3, <2>4
<1>2. CASE UNCHANGED saversVars
  <2>1. SaversInv'
    BY <1>2 DEF SaversInv, RowsFit, TxFits, PutFits, DeleteFits, PutsDiffer, Idle,
                NamespaceOf, Deleters, Saver, saversVars
  <2> QED
    BY <1>2, <2>1, StoreStays DEF Kept, saversVars
<1> QED
  BY <1>1, <1>2, LocalDeleteKept, BeginDeleteKept, CommitPutKept, CommitPutWritesKept,
     CommitDeleteKept, RollbackKept DEF SaversNext

-----------------------------------------------------------------------------
(* The theorems                                                             *)

LEMMA SaversStart ==
  ASSUME SaversInit
  PROVE  SaversInv /\ Abstract!Init
<1>1. /\ store \in Stores /\ rows = {} /\ pending = {} /\ seq = 0 /\ put = {}
      /\ tx = [p \in Clients |-> NoTx] /\ seen = [p \in Clients |-> <<>>]
  BY DEF SaversInit
<1>2. RowsFit
  BY <1>1, FS_EmptySet DEF RowsFit
<1>3. SaversInv
  BY <1>1, <1>2 DEF SaversInv, TxFits, Idle, PutsDiffer, NoTx
<1>4. History = [ns \in Namespaces |-> <<>>]
  <2>1. \A ns \in Namespaces : In(ns, rows) = {}
    BY <1>1 DEF In
  <2>2. History = [ns \in Namespaces |-> Ordered(In(ns, rows))]
    BY DEF History, In
  <2> QED
    BY <2>1, <2>2, NothingIsOrdered
<1> QED
  BY <1>1, <1>3, <1>4 DEF Abstract!Init, Abstract!Nothing

\* Rows are well typed, told apart by their seq, and pending writes by their key.
THEOREM SaversAreTyped ==
  ASSUME StoresAreApart, BatchesAreKeyed
  PROVE  SaversSpec => []SaversTypeOK
<1>1. SaversInit => SaversInv
  BY SaversStart
<1>2. SaversInv /\ [SaversNext]_saversVars => SaversInv'
  BY StepKept DEF Kept
<1>3. SaversInv => SaversTypeOK
  BY DEF SaversInv, RowsFit, SaversTypeOK
<1> QED
  BY <1>1, <1>2, <1>3, PTL DEF SaversSpec

\* Each of the three savers is a checkpointer: what its callers put, read and
\* delete is what they would of a store that does each call at once.
THEOREM SaversAreStores ==
  ASSUME StoresAreApart, BatchesAreKeyed
  PROVE  SaversSpec => Implements
<1>1. SaversInit => SaversInv /\ Abstract!Init
  BY SaversStart
<1>2. SaversInv /\ [SaversNext]_saversVars => SaversInv' /\ [Abstract!Next]_(Abstract!vars)
  BY StepKept DEF Kept
<1> QED
  BY <1>1, <1>2, PTL DEF SaversSpec, Implements, Abstract!Spec

-----------------------------------------------------------------------------
(* The checkpoints of a thread                                              *)

\* The steps and forks that led to a state, each by a run (0: a fork).
Paths == Seq(Nat \X Nat)
ExecType == [run : Nat, delivery : Nat, base : Nat, path : Paths, next : 0..Steps, done : BOOLEAN]
RowType == [parent : Nat, path : Paths, next : 0..Steps]
RunType == [status : Statuses, delivery : Nat]

ThreadTypes ==
  /\ thread \in {"present", "deleting", "deleted"}
  /\ trail \in Seq(RowType)
  /\ writes \in SUBSET (Nat \X Nat)
  /\ runs \in Seq(RunType)
  /\ execs \in SUBSET ExecType
  /\ tried \in SUBSET [place : Nat \X Nat, delivery : Nat]
  /\ copied \in Nat /\ forks \in Nat

\* Every checkpoint named is there.
Anchored ==
  /\ \A c \in DOMAIN trail : trail[c].parent \in 0..(c - 1)
  /\ \A e \in execs : e.run \in RunIds /\ e.base \in 0..Newest
  /\ thread # "deleted" => copied \in 0..Newest

\* What an execution holds is the state of its base.
BasesHold ==
  ~Deletion =>
    /\ thread = "present"
    /\ \A e \in execs : e.path = PathAt(e.base)

\* One run is delivered at a time, to one execution, which owns it.
Queued ==
  /\ \A r, s \in RunIds : runs[r].status = "running" /\ runs[s].status = "running" => r = s
  /\ \A e \in execs : Owner(e)
  /\ \A e, f \in execs : e.run = f.run => e = f

\* The step a checkpoint leads to.
StepAt(c) == IF NextAt(c) = 0 THEN 1 ELSE NextAt(c)

\* Without forks the checkpoints are one line.
Line ==
  /\ copied = 0
  /\ \A c \in DOMAIN trail :
       /\ trail[c].parent = c - 1
       /\ Len(trail[c].path) = c /\ \A i \in 1..c : trail[c].path[i][1] > 0
  /\ \A e \in execs :
       /\ e.base = Newest /\ e.path = PathAt(Newest)
       /\ e.next \in {0, StepAt(Newest)} /\ (e.done => e.next > 0)
       /\ e.next = 0 => Newest > 0 /\ e.path[Newest] = <<e.run, Steps>>

\* What was executed is saved; what has succeeded is in the head.
Recorded ==
  /\ \A x \in tried : x.place[2] <= Newest /\ <<x.place[2], StepAt(x.place[2])>> \in writes
  /\ CompletedOnce
  /\ \A r \in StatusIn({"succeeded"}) :
       \E k \in DOMAIN PathAt(Newest) : PathAt(Newest)[k] = <<r, Steps>>

Undisturbed == ~Zombies /\ forks = 0 /\ thread = "present"

ThreadInv ==
  /\ ThreadTypes /\ Anchored /\ BasesHold /\ LineageIsAuditable
  /\ ~Zombies => Queued
  /\ Undisturbed => Line /\ Recorded

LEMMA HeadsAreTyped ==
  ASSUME RunsHaveSteps, ThreadTypes, NEW c \in 0..Newest
  PROVE  /\ Newest \in Nat /\ DOMAIN trail = 1..Newest
         /\ PathAt(c) \in Paths /\ NextAt(c) \in 0..Steps /\ StepAt(c) \in 1..Steps
<1>1. Newest \in Nat /\ DOMAIN trail = 1..Newest
  BY DEF ThreadTypes, Newest
<1>2. CASE c = 0
  BY <1>1, <1>2 DEF RunsHaveSteps, PathAt, NextAt, StepAt, Paths
<1>3. CASE c \in 1..Newest
  <2>1. trail[c] \in RowType
    BY <1>1, <1>3 DEF ThreadTypes, Newest
  <2>2. c # 0 /\ trail[c].path \in Paths /\ trail[c].next \in 0..Steps
    BY <1>1, <1>3, <2>1 DEF RowType
  <2> QED
    BY <1>1, <2>2 DEF RunsHaveSteps, PathAt, NextAt, StepAt
<1> QED
  BY <1>1, <1>2, <1>3

LEMMA TrailGrows ==
  ASSUME ThreadTypes, NEW row, trail' = Append(trail, row)
  PROVE  /\ Newest \in Nat /\ Newest' = Newest + 1
         /\ DOMAIN trail = 1..Newest /\ DOMAIN trail' = 1..(Newest + 1)
         /\ \A c \in 1..Newest : trail'[c] = trail[c]
         /\ trail'[Newest + 1] = row
         /\ \A c \in 0..Newest :
              PathAt(c)' = PathAt(c) /\ NextAt(c)' = NextAt(c) /\ StepAt(c)' = StepAt(c)
         /\ PathAt(Newest)' = row.path /\ NextAt(Newest)' = row.next
<1>1. /\ Newest \in Nat /\ Newest' = Newest + 1
      /\ DOMAIN trail = 1..Newest /\ DOMAIN trail' = 1..(Newest + 1)
      /\ \A c \in 1..Newest : trail'[c] = trail[c]
      /\ trail'[Newest + 1] = row
  BY DEF ThreadTypes, Newest
<1>2. ASSUME NEW c \in 0..Newest
      PROVE  PathAt(c)' = PathAt(c) /\ NextAt(c)' = NextAt(c) /\ StepAt(c)' = StepAt(c)
  <2>1. c = 0 \/ c \in 1..Newest
    BY <1>1, <1>2
  <2>2. PathAt(c)' = PathAt(c) /\ NextAt(c)' = NextAt(c)
    BY <1>1, <2>1 DEF PathAt, NextAt
  <2>3. StepAt(c)' = StepAt(c)
    BY <1>1, <2>1 DEF StepAt, NextAt
  <2> QED
    BY <2>2, <2>3
<1>3. PathAt(Newest)' = row.path /\ NextAt(Newest)' = row.next
  <2> Newest + 1 # 0
    BY <1>1
  <2> QED
    BY <1>1 DEF PathAt, NextAt
<1> QED
  BY <1>1, <1>2, <1>3

-----------------------------------------------------------------------------
(* Types, and what the names of checkpoints refer to                        *)

\* The execution a claim starts.
LEMMA ClaimStarts ==
  ASSUME RunsHaveSteps, ThreadTypes, NEW r \in RunIds, Claim(r)
  PROVE  /\ Started(r, Newest) \in ExecType
         /\ Started(r, Newest).run = r /\ Started(r, Newest).base = Newest
         /\ Started(r, Newest).delivery = runs[r].delivery + 1
         /\ Started(r, Newest).path = PathAt(Newest)
         /\ Started(r, Newest).next = StepAt(Newest) /\ Started(r, Newest).done = FALSE
         /\ runs' = [runs EXCEPT ![r] = [status |-> "running", delivery |-> runs[r].delivery + 1]]
         /\ r \in Nat \ {0} /\ RunIds' = RunIds
<1>1. Newest \in Nat /\ PathAt(Newest) \in Paths /\ StepAt(Newest) \in 1..Steps
  BY HeadsAreTyped DEF ThreadTypes, Newest
<1>2. runs[r].delivery \in Nat /\ r \in Nat \ {0}
  <2>1. runs[r] \in RunType /\ r \in Nat \ {0}
    BY DEF ThreadTypes, RunIds
  <2> QED
    BY <2>1 DEF RunType
<1>3. Started(r, Newest) = [run |-> r, delivery |-> runs[r].delivery + 1, base |-> Newest,
                            path |-> PathAt(Newest), next |-> StepAt(Newest), done |-> FALSE]
  BY DEF Started, StepAt
<1>4. StepAt(Newest) \in 0..Steps
  BY <1>1 DEF RunsHaveSteps
<1>5. Started(r, Newest) \in ExecType
  BY <1>1, <1>2, <1>3, <1>4 DEF ExecType
<1>6. runs' = [runs EXCEPT ![r] = [status |-> "running", delivery |-> runs[r].delivery + 1]]
  BY DEF Claim
<1>7. RunIds' = RunIds
  BY <1>6 DEF RunIds
<1> QED
  BY <1>2, <1>3, <1>5, <1>6, <1>7

\* The checkpoint and the execution a commit leads to.
CommitsAs(e, row, f) ==
  /\ trail' = Append(trail, row) /\ execs' = (execs \ {e}) \cup {f}
  /\ row.parent = e.base /\ row.path = Append(e.path, <<e.run, e.next>>)
  /\ row.next = NextAfter(e.next)
  /\ f.run = e.run /\ f.delivery = e.delivery /\ f.base = Newest + 1
  /\ f.path = row.path /\ f.next = row.next /\ f.done = FALSE

LEMMA CommitAdds ==
  ASSUME RunsHaveSteps, ThreadTypes, Anchored, NEW e \in execs, CommitStep(e)
  PROVE  \E row \in RowType, f \in ExecType : CommitsAs(e, row, f)
<1>1. e \in ExecType /\ Newest \in Nat
  BY DEF ThreadTypes, Newest
<1>2. NextAfter(e.next) \in 0..Steps
  BY <1>1 DEF NextAfter, ExecType, RunsHaveSteps
<1>3. Append(e.path, <<e.run, e.next>>) \in Paths
  BY <1>1 DEF ExecType, Paths
<1>4. PICK row : row = [parent |-> e.base, path |-> Append(e.path, <<e.run, e.next>>),
                        next |-> NextAfter(e.next)]
  OBVIOUS
<1>5. row \in RowType /\ row.parent = e.base
      /\ row.path = Append(e.path, <<e.run, e.next>>) /\ row.next = NextAfter(e.next)
  BY <1>1, <1>2, <1>3, <1>4 DEF ExecType, RowType
<1>6. PICK f : f = [e EXCEPT !.base = Newest + 1, !.path = row.path, !.next = row.next,
                             !.done = FALSE]
  OBVIOUS
<1>7. trail' = Append(trail, row) /\ execs' = (execs \ {e}) \cup {f}
  BY <1>4, <1>5, <1>6 DEF CommitStep, Advance, ParentOf
<1>8. /\ f \in ExecType
      /\ f.run = e.run /\ f.delivery = e.delivery /\ f.base = Newest + 1
      /\ f.path = row.path /\ f.next = row.next /\ f.done = FALSE
  <2>1. PICK n \in Nat, path \in Paths, next \in 0..Steps :
          n = Newest + 1 /\ path = row.path /\ next = row.next
    <3>1. Newest + 1 \in Nat
      BY <1>1
    <3>2. row.path \in Paths /\ row.next \in 0..Steps
      BY <1>2, <1>3, <1>5
    <3> QED
      BY <3>1, <3>2
  <2>2. f = [e EXCEPT !.base = n, !.path = path, !.next = next, !.done = FALSE]
    BY <1>6, <2>1
  <2>3. f \in ExecType
    BY <1>1, <2>1, <2>2 DEF ExecType
  <2>4. /\ f.run = e.run /\ f.delivery = e.delivery /\ f.base = n
        /\ f.path = path /\ f.next = next /\ f.done = FALSE
    BY <1>1, <2>2 DEF ExecType
  <2> QED
    BY <2>1, <2>3, <2>4
<1> QED
  BY <1>5, <1>7, <1>8 DEF CommitsAs

\* The checkpoint a fork adds.
LEMMA ForkAdds ==
  ASSUME RunsHaveSteps, ThreadTypes, Anchored, ForkPut, thread # "deleted"
  PROVE  /\ copied \in 1..Newest
         /\ \E row \in RowType :
              /\ trail' = Append(trail, row)
              /\ row.parent = copied /\ row.path = Append(PathAt(copied), <<0, forks>>)
<1>1. copied \in 1..Newest /\ Newest \in Nat /\ DOMAIN trail = 1..Newest
  BY DEF ForkPut, Anchored, ThreadTypes, Newest
<1>2. trail[copied] \in RowType
  BY <1>1 DEF ThreadTypes, Newest
<1>3. PathAt(copied) = trail[copied].path
  BY <1>1 DEF PathAt
<1>4. Append(trail[copied].path, <<0, forks>>) \in Paths
  <2>1. trail[copied].path \in Seq(Nat \X Nat) /\ <<0, forks>> \in Nat \X Nat
    BY <1>2 DEF RowType, Paths, ThreadTypes
  <2> QED
    BY <2>1 DEF Paths
<1>5. PICK row : row = [parent |-> copied, path |-> Append(trail[copied].path, <<0, forks>>),
                        next |-> trail[copied].next]
  OBVIOUS
<1>6. row \in RowType /\ row.parent = copied /\ row.path = Append(PathAt(copied), <<0, forks>>)
  BY <1>1, <1>2, <1>3, <1>4, <1>5 DEF RowType
<1>7. trail' = Append(trail, row)
  BY <1>5 DEF ForkPut, ParentOf
<1> QED
  BY <1>1, <1>6, <1>7

LEMMA AppendedFront ==
  ASSUME NEW path \in Seq(Nat \X Nat), NEW t \in Nat \X Nat
  PROVE  Append(path, t) # <<>> /\ Front(Append(path, t)) = path
<1>1. PICK n \in Nat : n = Len(path)
  OBVIOUS
<1>2. PICK longer : longer = Append(path, t)
  OBVIOUS
<1>3. Len(longer) = n + 1 /\ \A i \in 1..n : longer[i] = path[i] /\ longer[i] \in Nat \X Nat
  BY <1>1, <1>2
<1>4. Front(longer) = SubSeq(longer, 1, n)
  BY <1>3 DEF Front
<1>5. /\ SubSeq(longer, 1, n) \in Seq(Nat \X Nat)
      /\ Len(SubSeq(longer, 1, n)) = n
      /\ \A i \in 1..n : SubSeq(longer, 1, n)[i] = longer[i]
  BY <1>3
<1>6. SubSeq(longer, 1, n) = path
  BY <1>1, <1>3, <1>5, SeqEqual
<1>7. longer # <<>>
  BY <1>3
<1> QED
  BY <1>2, <1>4, <1>6, <1>7

LEMMA AppendedPath ==
  ASSUME NEW path \in Seq(Nat \X Nat), NEW t \in Nat \X Nat, NEW n \in Nat, Len(path) = n,
         t[1] > 0, \A i \in 1..n : path[i][1] > 0
  PROVE  /\ Len(Append(path, t)) = n + 1 /\ Append(path, t)[n + 1] = t
         /\ \A i \in 1..(n + 1) : Append(path, t)[i][1] > 0
<1>1. Len(Append(path, t)) = n + 1 /\ Append(path, t)[n + 1] = t
  OBVIOUS
<1>2. \A i \in 1..n : Append(path, t)[i] = path[i]
  OBVIOUS
<1> QED
  BY <1>1, <1>2

LEMMA PlacesCount ==
  ASSUME NEW path \in Paths
  PROVE  Cardinality({i \in DOMAIN path : path[i][1] > 0}) \in Nat
<1>1. PICK n \in Nat : DOMAIN path = 1..n
  BY DEF Paths
<1>2. IsFiniteSet(1..n)
  BY FS_Interval
<1>3. IsFiniteSet({i \in DOMAIN path : path[i][1] > 0})
  BY <1>1, <1>2, FS_Subset
<1> QED
  BY <1>3, FS_CardinalityType

LEMMA TypesStep ==
  ASSUME RunsHaveSteps, ThreadTypes, Anchored, ThreadNext
  PROVE  ThreadTypes' /\ Anchored'
<1> USE DEF ThreadTypes, Anchored
<1>0. Newest \in Nat /\ DOMAIN trail = 1..Newest /\ RunIds = 1..Len(runs) /\ Len(runs) \in Nat
  BY DEF Newest, RunIds
<1>1. CASE FindThread
  BY <1>1 DEF FindThread, Newest, RunIds
<1>2. CASE CreateRun
  <2>1. PICK row \in RunType : runs' = Append(runs, row)
    BY <1>2 DEF CreateRun, RunType, Statuses
  <2>2. runs' \in Seq(RunType) /\ RunIds \subseteq RunIds'
    BY <1>0, <2>1 DEF RunIds
  <2> QED
    BY <1>2, <2>2 DEF CreateRun, Newest
<1>3. ASSUME NEW r \in RunIds, Claim(r) PROVE ThreadTypes' /\ Anchored'
  <2>1. /\ Started(r, Newest) \in ExecType
        /\ Started(r, Newest).run = r /\ Started(r, Newest).base = Newest
        /\ runs' = [runs EXCEPT ![r] = [status |-> "running", delivery |-> runs[r].delivery + 1]]
        /\ RunIds' = RunIds
    BY <1>3, ClaimStarts
  <2>2. PICK f \in ExecType : f = Started(r, Newest)
    BY <2>1
  <2>3. runs' \in Seq(RunType)
    <3>1. runs[r] \in RunType
      BY DEF RunIds
    <3>2. [status |-> "running", delivery |-> runs[r].delivery + 1] \in RunType
      BY <3>1 DEF RunType, Statuses
    <3> QED
      BY <2>1, <3>2 DEF RunIds
  <2>4. execs' = execs \cup {f} /\ f.run = r /\ f.base = Newest
    BY <1>3, <2>1, <2>2 DEF Claim
  <2>5. execs' \in SUBSET ExecType
    BY <2>4
  <2> QED
    BY <1>0, <1>3, <2>1, <2>3, <2>4, <2>5 DEF Claim, Newest
<1>4. ASSUME NEW e \in execs, RunTask(e) PROVE ThreadTypes' /\ Anchored'
  <2>1. PICK f : f = [e EXCEPT !.done = TRUE]
    OBVIOUS
  <2>2. e \in ExecType
    OBVIOUS
  <2>3. f \in ExecType /\ f.run = e.run /\ f.base = e.base
    BY <2>1, <2>2 DEF ExecType
  <2>4. execs' = (execs \ {e}) \cup {f}
    BY <1>4, <2>1 DEF RunTask, Advance
  <2>5. writes' \in SUBSET (Nat \X Nat)
    <3>1. e.base \in Nat /\ e.next \in Nat
      BY <2>2 DEF ExecType, RunsHaveSteps
    <3> QED
      BY <1>4, <3>1 DEF RunTask
  <2>6. tried' \in SUBSET [place : Nat \X Nat, delivery : Nat]
    <3>1. e.delivery \in Nat /\ e.run \in Nat /\ e.path \in Seq(Nat \X Nat)
      BY <2>2 DEF ExecType, Paths
    <3>2. Cardinality({i \in DOMAIN e.path : e.path[i][1] > 0}) \in Nat
      BY <3>1, PlacesCount DEF Paths
    <3>3. Place(e) \in Nat \X Nat
      BY <3>1, <3>2 DEF Place
    <3> QED
      BY <1>4, <3>1, <3>3 DEF RunTask
  <2>7. execs' \in SUBSET ExecType
    BY <2>3, <2>4
  <2> QED
    BY <1>0, <1>4, <2>3, <2>4, <2>5, <2>6, <2>7 DEF RunTask, Newest, RunIds
<1>5. ASSUME NEW e \in execs, ReuseResult(e) PROVE ThreadTypes' /\ Anchored'
  <2>1. PICK f : f = [e EXCEPT !.done = TRUE]
    OBVIOUS
  <2>2. e \in ExecType
    OBVIOUS
  <2>3. f \in ExecType /\ f.run = e.run /\ f.base = e.base
    BY <2>1, <2>2 DEF ExecType
  <2>4. execs' = (execs \ {e}) \cup {f}
    BY <1>5, <2>1 DEF ReuseResult, Advance
  <2>5. execs' \in SUBSET ExecType
    BY <2>3, <2>4
  <2> QED
    BY <1>0, <1>5, <2>3, <2>4, <2>5 DEF ReuseResult, Newest, RunIds
<1>6. ASSUME NEW e \in execs, CommitStep(e) PROVE ThreadTypes' /\ Anchored'
  <2> HIDE DEF ThreadTypes, Anchored
  <2>1. PICK row \in RowType, f \in ExecType : CommitsAs(e, row, f)
    BY <1>6, CommitAdds
  <2>3. /\ trail' = Append(trail, row) /\ execs' = (execs \ {e}) \cup {f}
        /\ row.parent = e.base /\ f.run = e.run /\ f.base = Newest + 1
    BY <2>1 DEF CommitsAs
  <2>4. /\ Newest' = Newest + 1
        /\ DOMAIN trail' = 1..(Newest + 1)
        /\ \A c \in 1..Newest : trail'[c] = trail[c]
        /\ trail'[Newest + 1] = row
    BY <2>3, TrailGrows
  <2> USE DEF ThreadTypes, Anchored
  <2>5. trail' \in Seq(RowType) /\ execs' \in SUBSET ExecType
    BY <2>3
  <2>6. \A c \in DOMAIN trail' : trail'[c].parent \in 0..(c - 1)
    BY <1>0, <2>3, <2>4
  <2>7. \A g \in execs' : g.run \in RunIds' /\ g.base \in 0..Newest'
    BY <1>0, <1>6, <2>3, <2>4 DEF CommitStep, RunIds
  <2>8. (thread # "deleted" => copied \in 0..Newest)'
    BY <1>0, <1>6, <2>4 DEF CommitStep
  <2> QED
    BY <1>6, <2>5, <2>6, <2>7, <2>8 DEF CommitStep
<1>7. ASSUME NEW e \in execs, Finish(e) PROVE ThreadTypes' /\ Anchored'
  <2>1. e \in ExecType /\ e.run \in RunIds
    OBVIOUS
  <2>2. runs[e.run] \in RunType
    BY <2>1 DEF RunIds
  <2>3. [runs[e.run] EXCEPT !.status = "succeeded"] \in RunType
    BY <2>2 DEF RunType, Statuses
  <2>4. runs' \in Seq(RunType) /\ RunIds' = RunIds
    BY <1>7, <2>1, <2>3 DEF Finish, RunIds
  <2> QED
    BY <1>0, <1>7, <2>4 DEF Finish, Newest
<1>8. ASSUME NEW e \in execs, Lapse(e) \/ Break(e) PROVE ThreadTypes' /\ Anchored'
  <2>1. e \in ExecType /\ e.run \in RunIds
    OBVIOUS
  <2>2. runs[e.run] \in RunType
    BY <2>1 DEF RunIds
  <2>3. PICK status \in Statuses : runs' = [runs EXCEPT ![e.run].status = status]
    BY <1>8 DEF Lapse, Break, Statuses
  <2>4. [runs[e.run] EXCEPT !.status = status] \in RunType
    BY <2>2 DEF RunType
  <2>5. runs' \in Seq(RunType) /\ RunIds' = RunIds
    BY <2>1, <2>3, <2>4 DEF RunIds
  <2>6. /\ execs' \subseteq execs /\ thread' = thread /\ trail' = trail /\ writes' = writes
        /\ tried' = tried /\ copied' = copied /\ forks' = forks
    BY <1>8 DEF Lapse, Break
  <2> QED
    BY <1>0, <2>5, <2>6 DEF Newest
<1>9. ASSUME NEW e \in execs, Stopped(e) PROVE ThreadTypes' /\ Anchored'
  BY <1>9 DEF Stopped, Newest, RunIds
<1>10. CASE ForkRead
  <2>1. copied' \in 1..Newest /\ forks' \in Nat
    BY <1>0, <1>10 DEF ForkRead
  <2> QED
    BY <1>0, <1>10, <2>1 DEF ForkRead, Newest, RunIds
<1>11. CASE ForkPut /\ thread # "deleted"
  <2> HIDE DEF ThreadTypes, Anchored
  <2>1. copied \in 1..Newest
    BY <1>11, ForkAdds
  <2>2. PICK row \in RowType : trail' = Append(trail, row) /\ row.parent = copied
    BY <1>11, ForkAdds
  <2>3. /\ Newest' = Newest + 1
        /\ DOMAIN trail' = 1..(Newest + 1)
        /\ \A c \in 1..Newest : trail'[c] = trail[c]
        /\ trail'[Newest + 1] = row
    BY <2>2, TrailGrows
  <2> USE DEF ThreadTypes, Anchored
  <2>4. trail' \in Seq(RowType)
    BY <2>2
  <2>5. \A c \in DOMAIN trail' : trail'[c].parent \in 0..(c - 1)
    BY <1>0, <2>1, <2>2, <2>3
  <2>6. execs' = execs /\ copied' = 0 /\ RunIds' = RunIds
    BY <1>11 DEF ForkPut, RunIds
  <2>7. \A e \in execs' : e.run \in RunIds' /\ e.base \in 0..Newest'
    BY <1>0, <2>3, <2>6
  <2>8. copied' \in 0..Newest'
    BY <1>0, <2>3, <2>6
  <2> QED
    BY <1>11, <2>4, <2>5, <2>6, <2>7, <2>8 DEF ForkPut
<1>12. CASE ForkPut /\ thread = "deleted"
  BY <1>12 DEF ForkPut, Newest, RunIds
<1>13. CASE DeleteThread
  BY <1>13 DEF DeleteThread, Newest, RunIds
<1>14. CASE DropCheckpoints
  <2>1. trail' \in Seq(RowType) /\ DOMAIN trail' = {} /\ Newest' = 0
    BY <1>14 DEF DropCheckpoints, Newest
  <2>2. \A g \in execs' : g \in ExecType /\ g.run \in RunIds /\ g.base = 0
    <3>1. \A e \in execs : /\ [e EXCEPT !.base = 0] \in ExecType
                           /\ [e EXCEPT !.base = 0].run = e.run /\ [e EXCEPT !.base = 0].base = 0
      BY DEF ExecType
    <3> QED
      BY <1>14, <3>1 DEF DropCheckpoints
  <2>3. execs' \in SUBSET ExecType
    BY <2>2
  <2> QED
    BY <1>14, <2>1, <2>2, <2>3 DEF DropCheckpoints, RunIds
<1>15. ASSUME NEW r \in RunIds, CancelPending(r) \/ Redrive(r) PROVE ThreadTypes' /\ Anchored'
  <2>1. PICK status \in Statuses : runs' = [runs EXCEPT ![r].status = status]
    BY <1>15 DEF CancelPending, Redrive, Move, Statuses
  <2>2. runs[r] \in RunType
    BY DEF RunIds
  <2>3. [runs[r] EXCEPT !.status = status] \in RunType
    BY <2>2 DEF RunType
  <2>4. runs' \in Seq(RunType) /\ RunIds' = RunIds
    BY <2>1, <2>3 DEF RunIds
  <2>5. UNCHANGED <<thread, trail, writes, execs, tried, copied, forks>>
    BY <1>15 DEF CancelPending, Redrive, Move
  <2> QED
    BY <1>0, <2>4, <2>5 DEF Newest
<1> QED
  BY <1>1, <1>2, <1>3, <1>4, <1>5, <1>6, <1>7, <1>8, <1>9, <1>10, <1>11, <1>12, <1>13, <1>14,
     <1>15 DEF ThreadNext


-----------------------------------------------------------------------------
(* A state is its parent's with one more step or fork                       *)

LEMMA LifeIsFixed ==
  ASSUME ThreadNext
  PROVE  life' = life
BY DEF ThreadNext, FindThread, CreateRun, ForkRead, ForkPut, DeleteThread, DropCheckpoints,
       Claim, CancelPending, Redrive, Move, RunTask, ReuseResult, CommitStep, Finish, Lapse,
       Break, Stopped

LEMMA BasesStep ==
  ASSUME RunsHaveSteps, ThreadTypes, Anchored, BasesHold, LineageIsAuditable, ThreadNext
  PROVE  BasesHold' /\ LineageIsAuditable'
<1>1. Deletion' = Deletion
  BY LifeIsFixed DEF Deletion
<1> SUFFICES ASSUME ~Deletion
             PROVE  /\ (thread = "present")'
                    /\ (\A e \in execs : e.path = PathAt(e.base))'
                    /\ (\A c \in DOMAIN trail : trail[c].path # <<>>
                            /\ Front(trail[c].path) = PathAt(trail[c].parent))'
  BY <1>1 DEF BasesHold, LineageIsAuditable
<1> DEFINE Goal ==
      /\ (thread = "present")'
      /\ (\A e \in execs : e.path = PathAt(e.base))'
      /\ (\A c \in DOMAIN trail : trail[c].path # <<>>
              /\ Front(trail[c].path) = PathAt(trail[c].parent))'
<1>2. /\ thread = "present"
      /\ \A e \in execs : e.path = PathAt(e.base)
      /\ \A c \in DOMAIN trail : trail[c].path # <<>>
            /\ Front(trail[c].path) = PathAt(trail[c].parent)
  BY DEF BasesHold, LineageIsAuditable
<1>3. ASSUME trail' = trail, thread' = thread,
             \A g : g \in execs' => g \in execs \/ g.path = PathAt(g.base)
      PROVE  Goal
  BY <1>2, <1>3 DEF PathAt
<1>4. CASE FindThread \/ CreateRun \/ ForkRead
  BY <1>3, <1>2, <1>4 DEF FindThread, CreateRun, ForkRead
<1>5. ASSUME NEW r \in RunIds, Claim(r) PROVE Goal
  <2>1. Started(r, Newest).path = PathAt(Newest) /\ Started(r, Newest).base = Newest
    BY <1>5, ClaimStarts
  <2>2. trail' = trail /\ thread' = thread /\ execs' = execs \cup {Started(r, Newest)}
    BY <1>5 DEF Claim
  <2> QED
    BY <1>3, <2>1, <2>2
<1>6. ASSUME NEW e \in execs, RunTask(e) \/ ReuseResult(e) PROVE Goal
  <2>1. PICK f : f = [e EXCEPT !.done = TRUE]
    OBVIOUS
  <2>2. execs' = (execs \ {e}) \cup {f} /\ trail' = trail /\ thread' = thread
    BY <1>6, <2>1 DEF RunTask, ReuseResult, Advance
  <2>3. e \in ExecType
    BY DEF ThreadTypes
  <2>4. f.path = e.path /\ f.base = e.base
    BY <2>1, <2>3 DEF ExecType
  <2> QED
    BY <1>2, <1>3, <2>2, <2>4
<1>7. ASSUME NEW e \in execs, Finish(e) \/ Lapse(e) \/ Break(e) \/ Stopped(e) PROVE Goal
  <2>1. execs' \subseteq execs /\ trail' = trail /\ thread' = thread
    BY <1>7 DEF Finish, Lapse, Break, Stopped
  <2> QED
    BY <1>3, <2>1
\* A row that goes on from a checkpoint that is there.
<1>8. ASSUME NEW row \in RowType, NEW b \in 0..Newest, NEW step \in Nat \X Nat,
             row.parent = b, row.path = Append(PathAt(b), step), trail' = Append(trail, row),
             thread' = thread,
             \A g : g \in execs' => g \in execs \/ (g.path = row.path /\ g.base = Newest + 1)
      PROVE  Goal
  <2>1. /\ Newest \in Nat
        /\ DOMAIN trail = 1..Newest /\ DOMAIN trail' = 1..(Newest + 1)
        /\ \A c \in 1..Newest : trail'[c] = trail[c]
        /\ trail'[Newest + 1] = row
        /\ \A c \in 0..Newest : PathAt(c)' = PathAt(c)
        /\ PathAt(Newest)' = row.path /\ Newest' = Newest + 1
    BY <1>8, TrailGrows
  <2>2. ASSUME NEW g, g \in execs'
        PROVE  g.path = PathAt(g.base)'
    <3>1. CASE g \in execs
      <4>1. PICK base \in 0..Newest : g.base = base /\ g.path = PathAt(base)
        BY <1>2, <3>1 DEF Anchored
      <4>2. PathAt(base)' = PathAt(base)
        BY <2>1
      <4> QED
        BY <4>1, <4>2 DEF PathAt
    <3>2. CASE g.path = row.path /\ g.base = Newest + 1
      <4>1. trail'[g.base].path = row.path /\ g.base # 0
        BY <2>1, <3>2
      <4> QED
        BY <3>2, <4>1 DEF PathAt
    <3> QED
      BY <1>8, <2>2, <3>1, <3>2
  <2>3. ASSUME NEW c \in Nat, c \in 1..Newest
        PROVE  trail'[c].path # <<>> /\ (Front(trail[c].path) = PathAt(trail[c].parent))'
    <3>1. trail'[c] = trail[c] /\ c \in DOMAIN trail
      BY <2>1, <2>3
    <3>2. PICK p \in 0..Newest : p = trail[c].parent
      <4>1. c - 1 <= Newest /\ trail[c].parent \in 0..(c - 1)
        BY <2>1, <2>3, <3>1 DEF Anchored
      <4> QED
        BY <2>1, <2>3, <4>1
    <3>3. PathAt(p)' = PathAt(p)
      BY <2>1
    <3>4. trail[c].path # <<>> /\ Front(trail[c].path) = PathAt(p)
      BY <1>2, <3>1, <3>2
    <3> QED
      BY <3>1, <3>2, <3>3, <3>4 DEF PathAt
  <2>4. row.path # <<>> /\ Front(row.path) = PathAt(b)
    <3>1. PICK path : path = PathAt(b)
      OBVIOUS
    <3>2. path \in Seq(Nat \X Nat)
      BY <3>1, HeadsAreTyped DEF Paths
    <3> QED
      BY <1>8, <3>1, <3>2, AppendedFront
  <2>5. PathAt(b)' = PathAt(b)
    BY <2>1
  <2>6. trail'[Newest + 1].path # <<>>
        /\ \A n : n = Newest + 1 => (Front(trail[n].path) = PathAt(trail[n].parent))'
    <3>1. PICK n : n = Newest + 1
      OBVIOUS
    <3>2. trail'[n] = row /\ trail'[n].parent = b
      BY <1>8, <2>1, <3>1
    <3>3. Front(trail'[n].path) = PathAt(b)' /\ trail'[n].path # <<>>
      BY <2>4, <2>5, <3>2
    <3> QED
      BY <3>1, <3>2, <3>3 DEF PathAt
  <2>7. \A c : c \in DOMAIN trail' => c \in Nat /\ (c \in 1..Newest \/ c = Newest + 1)
    BY <2>1
  <2>8. (\A c \in DOMAIN trail : trail[c].path # <<>>
            /\ Front(trail[c].path) = PathAt(trail[c].parent))'
    BY <2>3, <2>6, <2>7 DEF PathAt
  <2>9. (\A e \in execs : e.path = PathAt(e.base))'
    BY <2>2 DEF PathAt
  <2> QED
    BY <1>2, <1>8, <2>8, <2>9
<1>9. ASSUME NEW e \in execs, CommitStep(e) PROVE Goal
  <2>1. PICK row \in RowType, f \in ExecType : CommitsAs(e, row, f)
    BY <1>9, CommitAdds
  <2>3. /\ trail' = Append(trail, row) /\ execs' = (execs \ {e}) \cup {f}
        /\ row.parent = e.base /\ row.path = Append(e.path, <<e.run, e.next>>)
        /\ f.path = row.path /\ f.base = Newest + 1
    BY <2>1 DEF CommitsAs
  <2>4. e \in ExecType /\ e.base \in 0..Newest /\ e.path = PathAt(e.base)
    BY <1>2 DEF ThreadTypes, Anchored
  <2>5. <<e.run, e.next>> \in Nat \X Nat
    BY <2>4 DEF ExecType, RunsHaveSteps
  <2>6. thread' = thread
    BY <1>9 DEF CommitStep
  <2> QED
    BY <1>8, <2>3, <2>4, <2>5, <2>6
<1>10. CASE ForkPut
  <2>1. copied \in 1..Newest
    BY <1>2, <1>10, ForkAdds
  <2>2. PICK row \in RowType :
          /\ trail' = Append(trail, row)
          /\ row.parent = copied /\ row.path = Append(PathAt(copied), <<0, forks>>)
    BY <1>2, <1>10, ForkAdds
  <2>3. <<0, forks>> \in Nat \X Nat /\ copied \in 0..Newest
    BY <2>1 DEF ThreadTypes
  <2>4. thread' = thread /\ execs' = execs
    BY <1>10 DEF ForkPut
  <2> QED
    BY <1>8, <2>2, <2>3, <2>4
<1>11. CASE DeleteThread \/ DropCheckpoints
  BY <1>2, <1>11 DEF DeleteThread, DropCheckpoints
<1>12. ASSUME NEW r \in RunIds, CancelPending(r) \/ Redrive(r) PROVE Goal
  BY <1>3, <1>12 DEF CancelPending, Redrive, Move
<1> QED
  BY <1>4, <1>5, <1>6, <1>7, <1>9, <1>10, <1>11, <1>12 DEF ThreadNext


-----------------------------------------------------------------------------
(* One run is executed at a time, by its owner                              *)

LEMMA RunsAreTyped ==
  ASSUME ThreadTypes, NEW r \in RunIds
  PROVE  /\ r \in Nat /\ r > 0 /\ r <= Len(runs)
         /\ runs[r] \in RunType
         /\ runs[r].status \in Statuses /\ runs[r].delivery \in Nat
<1>1. r \in Nat /\ r > 0 /\ r <= Len(runs) /\ runs[r] \in RunType
  BY DEF ThreadTypes, RunIds
<1> QED
  BY <1>1 DEF RunType

LEMMA QueueStep ==
  ASSUME RunsHaveSteps, ThreadTypes, Anchored, ~Zombies, Queued, ThreadNext
  PROVE  Queued'
<1>0. Len(runs) \in Nat /\ RunIds = 1..Len(runs)
  BY DEF ThreadTypes, RunIds
<1>owned. ASSUME NEW e \in execs
          PROVE  /\ e.run \in RunIds /\ runs[e.run].status = "running"
                 /\ runs[e.run] = [status |-> "running", delivery |-> e.delivery]
  <2>1. runs[e.run] = [status |-> "running", delivery |-> e.delivery]
    BY DEF Queued, Owner
  <2> QED
    BY <2>1 DEF Anchored
<1>1. ASSUME runs' = runs, execs' = execs PROVE Queued'
  BY <1>1 DEF Queued, Owner, RunIds
<1>2. CASE FindThread \/ ForkRead \/ ForkPut \/ DeleteThread
  BY <1>1, <1>2 DEF FindThread, ForkRead, ForkPut, DeleteThread
<1>3. CASE CreateRun
  <2>1. PICK row : row = [status |-> "pending", delivery |-> 0]
    OBVIOUS
  <2>2. /\ runs' = Append(runs, row) /\ execs' = execs
        /\ row.status = "pending" /\ row.delivery = 0
    BY <1>3, <2>1 DEF CreateRun
  <2>3. /\ RunIds' = 1..(Len(runs) + 1) /\ runs'[Len(runs) + 1] = row
        /\ \A r \in RunIds : runs'[r] = runs[r]
    BY <1>0, <2>2 DEF ThreadTypes, RunIds
  <2>4. ~(0 > 0) /\ "pending" # "running"
    OBVIOUS
  <2>5. \A r \in RunIds' : r \in RunIds \/ (r = Len(runs) + 1 /\ runs'[r] = row)
    BY <1>0, <2>3
  <2>6. (\A r, s \in RunIds : runs[r].status = "running" /\ runs[s].status = "running" => r = s)'
    BY <2>2, <2>3, <2>4, <2>5 DEF Queued
  <2>9. (\A e \in execs : Owner(e))'
    BY <2>2, <2>3 DEF Queued, Owner, Anchored
  <2> QED
    BY <2>2, <2>6, <2>9 DEF Queued
<1>4. ASSUME NEW r \in RunIds, Claim(r) PROVE Queued'
  <2>1. /\ Started(r, Newest).run = r /\ Started(r, Newest).delivery = runs[r].delivery + 1
        /\ runs' = [runs EXCEPT ![r] = [status |-> "running", delivery |-> runs[r].delivery + 1]]
        /\ RunIds' = RunIds
    BY <1>4, ClaimStarts
  <2>2. runs[r].delivery \in Nat
    BY RunsAreTyped
  <2>3. PICK f, row : f = Started(r, Newest) /\ row = [status |-> "running", delivery |-> runs[r].delivery + 1]
    OBVIOUS
  <2>4. row.status = "running"
    BY <2>3
  <2>5. \A s \in RunIds : runs[s].status # "running"
    BY <1>4 DEF Claim, Free, StatusIn
  <2>6. execs = {}
    BY <1>owned, <2>5
  <2>7. execs' = {f}
    BY <1>4, <2>3, <2>6 DEF Claim
  <2>8. runs'[r] = row /\ \A s \in RunIds : s # r => runs'[s] = runs[s]
    BY <2>1, <2>3 DEF RunIds
  <2>9. (\A s, q \in RunIds : runs[s].status = "running" /\ runs[q].status = "running" => s = q)'
    BY <2>1, <2>5, <2>8
  <2>12. (\A e \in execs : Owner(e))'
    <3>1. f.run = r /\ f.delivery = runs[r].delivery + 1
      BY <2>1, <2>3
    <3> QED
      BY <2>3, <2>7, <2>8, <3>1 DEF Owner
  <2>13. (\A e, g \in execs : e.run = g.run => e = g)'
    BY <2>7
  <2> QED
    BY <2>9, <2>12, <2>13 DEF Queued
\* An execution goes on.
<1>5. ASSUME NEW e \in execs, NEW f, f.run = e.run, f.delivery = e.delivery,
             runs' = runs, execs' = (execs \ {e}) \cup {f}
      PROVE  Queued'
  <2>1. (\A g \in execs : Owner(g))'
    <3>1. ASSUME NEW g, g \in execs'
          PROVE  runs[g.run] = [status |-> "running", delivery |-> g.delivery]
      BY <1>5, <1>owned, <3>1
    <3> QED
      BY <1>5, <3>1 DEF Owner
  <2>2. (\A g, h \in execs : g.run = h.run => g = h)'
    BY <1>5 DEF Queued
  <2> QED
    BY <1>5, <2>1, <2>2 DEF Queued, RunIds
<1>6. ASSUME NEW e \in execs, RunTask(e) \/ ReuseResult(e) PROVE Queued'
  <2>1. PICK f : f = [e EXCEPT !.done = TRUE]
    OBVIOUS
  <2>2. execs' = (execs \ {e}) \cup {f} /\ runs' = runs
    BY <1>6, <2>1 DEF RunTask, ReuseResult, Advance
  <2>3. e \in ExecType
    BY DEF ThreadTypes
  <2>4. f.run = e.run /\ f.delivery = e.delivery
    BY <2>1, <2>3 DEF ExecType
  <2> QED
    BY <1>5, <2>2, <2>4
<1>7. ASSUME NEW e \in execs, CommitStep(e) PROVE Queued'
  <2>1. PICK row \in RowType, f \in ExecType : CommitsAs(e, row, f)
    BY <1>7, CommitAdds
  <2>2. execs' = (execs \ {e}) \cup {f} /\ f.run = e.run /\ f.delivery = e.delivery /\ runs' = runs
    BY <1>7, <2>1 DEF CommitsAs, CommitStep
  <2> QED
    BY <1>5, <2>2
\* The owner ends, or loses its lease.
<1>8. ASSUME NEW e \in execs, NEW status \in Statuses, status # "running", execs' = execs \ {e},
             runs' = [runs EXCEPT ![e.run].status = status]
      PROVE  Queued'
  <2>1. e.run \in RunIds /\ runs[e.run].status = "running" /\ runs[e.run] \in RunType
    BY <1>owned, RunsAreTyped
  <2>2. PICK q \in RunIds : q = e.run
    BY <2>1
  <2>3. /\ RunIds' = RunIds /\ runs'[q].status = status /\ runs'[q].delivery = runs[q].delivery
        /\ \A s \in RunIds : s # q => runs'[s] = runs[s]
    BY <1>8, <2>1, <2>2 DEF RunIds, RunType
  <2>4. (\A r, s \in RunIds : runs[r].status = "running" /\ runs[s].status = "running" => r = s)'
    BY <1>8, <2>3 DEF Queued
  <2>7. (\A g \in execs : Owner(g))'
    BY <1>8, <2>2, <2>3 DEF Queued, Owner, Anchored
  <2>8. (\A g, h \in execs : g.run = h.run => g = h)'
    BY <1>8 DEF Queued
  <2> QED
    BY <2>4, <2>7, <2>8 DEF Queued
<1>9. ASSUME NEW e \in execs, Finish(e) PROVE Queued'
  <2>1. execs' = execs \ {e} /\ runs' = [runs EXCEPT ![e.run].status = "succeeded"]
    BY <1>9 DEF Finish, Queued
  <2> QED
    BY <1>8, <2>1 DEF Statuses
<1>10. ASSUME NEW e \in execs, Lapse(e) \/ Break(e) PROVE Queued'
  <2>1. execs' = execs \ {e}
    BY <1>10 DEF Lapse, Break
  <2>2. PICK status \in {"pending", "failed", "cancelled"} :
          runs' = [runs EXCEPT ![e.run].status = status]
    BY <1>10 DEF Lapse, Break
  <2>3. status \in Statuses /\ status # "running"
    BY <2>2 DEF Statuses
  <2> QED
    BY <1>8, <2>1, <2>2, <2>3
<1>11. ASSUME NEW e \in execs, Stopped(e) PROVE Queued'
  BY <1>11 DEF Stopped, Queued
<1>12. CASE DropCheckpoints
  <2>1. \A e \in execs : [e EXCEPT !.base = 0].run = e.run /\ [e EXCEPT !.base = 0].delivery = e.delivery
    BY DEF ThreadTypes, ExecType
  <2>2. runs' = runs /\ execs' = {[e EXCEPT !.base = 0] : e \in execs}
    BY <1>12 DEF DropCheckpoints
  <2>3. ASSUME NEW g, g \in execs'
        PROVE  \E e \in execs : g = [e EXCEPT !.base = 0] /\ g.run = e.run /\ g.delivery = e.delivery
    BY <2>1, <2>2, <2>3
  <2>4. (\A e \in execs : Owner(e))'
    <3>1. ASSUME NEW g, g \in execs'
          PROVE  runs[g.run] = [status |-> "running", delivery |-> g.delivery]
      BY <1>owned, <2>3, <3>1
    <3> QED
      BY <2>2, <3>1 DEF Owner
  <2>5. (\A e, f \in execs : e.run = f.run => e = f)'
    <3> SUFFICES ASSUME NEW g, NEW h, g \in execs', h \in execs', g.run = h.run
                 PROVE  g = h
      OBVIOUS
    <3>1. PICK e \in execs : g = [e EXCEPT !.base = 0] /\ g.run = e.run
      BY <2>3
    <3>2. PICK f \in execs : h = [f EXCEPT !.base = 0] /\ h.run = f.run
      BY <2>3
    <3>3. e = f
      BY <3>1, <3>2 DEF Queued
    <3> QED
      BY <3>1, <3>2, <3>3
  <2> QED
    BY <2>2, <2>4, <2>5 DEF Queued, RunIds
<1>13. ASSUME NEW r \in RunIds, CancelPending(r) \/ Redrive(r) PROVE Queued'
  <2>1. PICK from, status : /\ runs[r].status = from /\ from # "running" /\ status # "running"
                            /\ runs' = [runs EXCEPT ![r].status = status]
    BY <1>13 DEF CancelPending, Redrive, Move
  <2>2. runs[r] \in RunType
    BY RunsAreTyped
  <2>3. /\ RunIds' = RunIds /\ runs'[r].status = status
        /\ \A s \in RunIds : s # r => runs'[s] = runs[s]
    BY <2>1, <2>2 DEF RunIds, RunType
  <2>4. execs' = execs
    BY <1>13 DEF CancelPending, Redrive, Move
  <2>5. \A e \in execs : e.run # r
    BY <1>owned, <2>1
  <2>6. (\A q, s \in RunIds : runs[q].status = "running" /\ runs[s].status = "running" => q = s)'
    BY <2>1, <2>3 DEF Queued
  <2>7. (\A e \in execs : Owner(e))'
    BY <2>3, <2>4, <2>5 DEF Queued, Owner, Anchored
  <2> QED
    BY <2>4, <2>6, <2>7 DEF Queued
<1> QED
  BY <1>2, <1>3, <1>4, <1>6, <1>7, <1>9, <1>10, <1>11, <1>12, <1>13 DEF ThreadNext


-----------------------------------------------------------------------------
(* Without forks the checkpoints are one line, and nothing is done twice    *)

LEMMA HeadOfTheLine ==
  ASSUME RunsHaveSteps, ThreadTypes, Line
  PROVE  /\ Newest \in Nat /\ PathAt(Newest) \in Paths /\ Len(PathAt(Newest)) = Newest
         /\ \A i \in 1..Newest : PathAt(Newest)[i][1] > 0
<1>1. Newest \in Nat /\ DOMAIN trail = 1..Newest
  BY DEF ThreadTypes, Newest
<1>2. PathAt(Newest) \in Paths
  BY <1>1, HeadsAreTyped
<1>3. CASE Newest = 0
  BY <1>2, <1>3 DEF PathAt
<1>4. CASE Newest # 0
  <2>1. Newest \in DOMAIN trail
    BY <1>1, <1>4
  <2> QED
    BY <1>1, <1>2, <1>4, <2>1 DEF PathAt, Line
<1> QED
  BY <1>3, <1>4

LEMMA OneExecution ==
  ASSUME ThreadTypes, Anchored, Queued, NEW e \in execs
  PROVE  execs = {e} /\ e.run \in RunIds /\ e.run \in Nat \ {0} /\ runs[e.run].status = "running"
<1>1. ASSUME NEW g \in execs PROVE g.run \in RunIds /\ runs[g.run].status = "running"
  <2>1. runs[g.run] = [status |-> "running", delivery |-> g.delivery]
    BY DEF Queued, Owner
  <2> QED
    BY <2>1 DEF Anchored
<1>2. \A g \in execs : g = e
  BY <1>1 DEF Queued
<1>3. e.run \in Nat \ {0}
  BY <1>1, RunsAreTyped
<1> QED
  BY <1>1, <1>2, <1>3

LEMMA LineStep ==
  ASSUME RunsHaveSteps, ThreadTypes, Anchored, Queued, Line, ThreadNext,
         Undisturbed, Undisturbed'
  PROVE  Line'
<1> DEFINE InLine(g, head) ==
      /\ g.base = head /\ g.path = PathAt(head)
      /\ g.next \in {0, StepAt(head)} /\ (g.done => g.next > 0)
      /\ g.next = 0 => head > 0 /\ g.path[head] = <<g.run, Steps>>
<1>0. PICK head \in Nat : head = Newest
  BY HeadOfTheLine
<1>1. ASSUME trail' = trail, copied' = copied,
             \A g : g \in execs' => g \in execs \/ InLine(g, head)
      PROVE  Line'
  <2>1. Newest' = head
    BY <1>0, <1>1 DEF Newest
  <2>2. PathAt(head)' = PathAt(head) /\ StepAt(head)' = StepAt(head)
    BY <1>1 DEF PathAt, StepAt, NextAt
  <2>3. \A g : g \in execs' => InLine(g, head)
    BY <1>0, <1>1 DEF Line
  <2> QED
    BY <1>1, <2>1, <2>2, <2>3 DEF Line, PathAt, StepAt, NextAt
<1>2. CASE FindThread \/ CreateRun
  BY <1>1, <1>2 DEF FindThread, CreateRun
<1>3. ASSUME NEW r \in RunIds, Claim(r) PROVE Line'
  <2>1. PICK f : f = Started(r, Newest)
    OBVIOUS
  <2>2. f.base = head /\ f.path = PathAt(head) /\ f.next = StepAt(head) /\ f.done = FALSE
    BY <1>0, <1>3, <2>1, ClaimStarts
  <2>3. StepAt(head) \in 1..Steps
    BY <1>0, HeadsAreTyped
  <2>4. InLine(f, head)
    BY <2>2, <2>3 DEF RunsHaveSteps
  <2>5. trail' = trail /\ copied' = copied /\ execs' = execs \cup {f}
    BY <1>3, <2>1 DEF Claim
  <2> QED
    BY <1>1, <2>4, <2>5
<1>4. ASSUME NEW e \in execs, RunTask(e) \/ ReuseResult(e) PROVE Line'
  <2>1. PICK f : f = [e EXCEPT !.done = TRUE]
    OBVIOUS
  <2>2. execs' = (execs \ {e}) \cup {f} /\ trail' = trail /\ copied' = copied /\ e.next > 0
    BY <1>4, <2>1 DEF RunTask, ReuseResult, Advance
  <2>3. e \in ExecType
    BY DEF ThreadTypes
  <2>4. f.run = e.run /\ f.base = e.base /\ f.path = e.path /\ f.next = e.next
    BY <2>1, <2>3 DEF ExecType
  <2>5. InLine(e, head)
    BY <1>0 DEF Line
  <2>6. InLine(f, head)
    BY <2>2, <2>4, <2>5
  <2> QED
    BY <1>1, <2>2, <2>6
<1>5. ASSUME NEW e \in execs, CommitStep(e) PROVE Line'
  <2>1. PICK row \in RowType, f \in ExecType : CommitsAs(e, row, f)
    BY <1>5, CommitAdds
  <2>2. /\ trail' = Append(trail, row) /\ execs' = (execs \ {e}) \cup {f} /\ row.parent = e.base
        /\ row.path = Append(e.path, <<e.run, e.next>>) /\ row.next = NextAfter(e.next)
        /\ f.run = e.run /\ f.base = head + 1 /\ f.path = row.path /\ f.next = row.next
        /\ f.done = FALSE
    BY <1>0, <2>1 DEF CommitsAs
  <2>3. execs = {e} /\ e.run \in Nat \ {0}
    BY OneExecution
  <2>4. execs' = {f}
    BY <2>2, <2>3
  <2>5. /\ e.path = PathAt(head) /\ e.path \in Seq(Nat \X Nat) /\ Len(e.path) = head
        /\ \A i \in 1..head : e.path[i][1] > 0
    BY <1>0, HeadOfTheLine DEF Line, Paths
  <2>6. e.next \in 1..Steps
    BY <1>5 DEF Line, ThreadTypes, ExecType, CommitStep, RunsHaveSteps
  <2>7. <<e.run, e.next>> \in Nat \X Nat /\ <<e.run, e.next>>[1] > 0
    BY <2>3, <2>6 DEF RunsHaveSteps
  <2>8. /\ Len(row.path) = head + 1 /\ row.path[head + 1] = <<e.run, e.next>>
        /\ \A i \in 1..(head + 1) : row.path[i][1] > 0
    <3>1. PICK path \in Seq(Nat \X Nat), t \in Nat \X Nat :
            path = e.path /\ t = <<e.run, e.next>> /\ row.path = Append(path, t) /\ t[1] > 0
      BY <2>2, <2>5, <2>7
    <3> QED
      BY <2>5, <3>1, AppendedPath
  <2>9. /\ DOMAIN trail = 1..head /\ DOMAIN trail' = 1..(head + 1)
        /\ \A c \in 1..head : trail'[c] = trail[c]
        /\ trail'[head + 1] = row /\ Newest' = head + 1
    BY <1>0, <2>2, TrailGrows
  <2>10. (\A c \in DOMAIN trail :
            /\ trail[c].parent = c - 1
            /\ Len(trail[c].path) = c /\ \A i \in 1..c : trail[c].path[i][1] > 0)'
    <3>1. row.parent = (head + 1) - 1
      BY <1>0, <2>2 DEF Line
    <3>2. ASSUME NEW c \in 1..head
          PROVE  /\ trail'[c].parent = c - 1
                 /\ Len(trail'[c].path) = c /\ \A i \in 1..c : trail'[c].path[i][1] > 0
      BY <2>9 DEF Line
    <3>3. ASSUME NEW c, c = head + 1
          PROVE  /\ trail'[c].parent = c - 1
                 /\ Len(trail'[c].path) = c /\ \A i \in 1..c : trail'[c].path[i][1] > 0
      BY <2>8, <2>9, <3>1, <3>3
    <3>4. \A c \in DOMAIN trail' : c \in 1..head \/ c = head + 1
      BY <2>9
    <3> QED
      BY <3>2, <3>3, <3>4
  <2>11. PICK next : next = head + 1 /\ next # 0 /\ next > 0
    BY <1>0
  <2>12. f.path = PathAt(next)' /\ f.next \in {0, StepAt(next)'}
    BY <2>2, <2>9, <2>11 DEF PathAt, StepAt, NextAt
  <2>13. f.next = 0 => f.path[next] = <<f.run, Steps>>
    <3>1. f.next = 0 => e.next = Steps
      BY <2>2, <2>6 DEF NextAfter, RunsHaveSteps
    <3> QED
      BY <2>2, <2>8, <2>11, <3>1
  <2>14. copied' = 0
    BY <1>5 DEF CommitStep, Line
  <2> QED
    BY <2>2, <2>4, <2>9, <2>10, <2>11, <2>12, <2>13, <2>14 DEF Line, PathAt, StepAt, NextAt
<1>6. ASSUME NEW e \in execs, Finish(e) \/ Lapse(e) \/ Break(e) \/ Stopped(e) PROVE Line'
  <2>1. execs' \subseteq execs /\ trail' = trail /\ copied' = copied
    BY <1>6 DEF Finish, Lapse, Break, Stopped
  <2> QED
    BY <1>1, <2>1
<1>7. ~ForkRead
  BY DEF ForkRead, Undisturbed
<1>8. ~ForkPut
  BY DEF ForkPut, Line
<1>9. ~DeleteThread /\ ~DropCheckpoints
  BY DEF DeleteThread, DropCheckpoints, Undisturbed
<1>10. ASSUME NEW r \in RunIds, CancelPending(r) \/ Redrive(r) PROVE Line'
  BY <1>1, <1>10 DEF CancelPending, Redrive, Move
<1> QED
  BY <1>2, <1>3, <1>4, <1>5, <1>6, <1>7, <1>8, <1>9, <1>10 DEF ThreadNext

LEMMA KeptStep ==
  ASSUME RunsHaveSteps, ThreadTypes, Anchored, Queued, Line, Recorded, ThreadNext,
         Undisturbed, Undisturbed'
  PROVE  Recorded'
<1>0. PICK head \in Nat : head = Newest
  BY HeadOfTheLine
<1> DEFINE InHead(r) == \E k \in DOMAIN PathAt(head) : PathAt(head)[k] = <<r, Steps>>
           OnRecord(x) == x.place[2] <= head /\ <<x.place[2], StepAt(x.place[2])>> \in writes
<1>1. /\ \A x \in tried : OnRecord(x)
      /\ \A x, y \in tried : x.place = y.place => x = y
      /\ \A r \in RunIds : runs[r].status = "succeeded" => InHead(r)
  BY <1>0 DEF Recorded, CompletedOnce, StatusIn
<1>2. ASSUME trail' = trail, tried' = tried, writes' = writes,
             \A r : r \in RunIds' /\ runs'[r].status = "succeeded" => InHead(r)
      PROVE  Recorded'
  <2>1. Newest' = head
    BY <1>0, <1>2 DEF Newest
  <2>2. PathAt(head)' = PathAt(head)
    BY <1>2 DEF PathAt
  <2>3. (\A x \in tried : x.place[2] <= Newest /\ <<x.place[2], StepAt(x.place[2])>> \in writes)'
    BY <1>1, <1>2, <2>1 DEF StepAt, NextAt
  <2>4. CompletedOnce'
    BY <1>1, <1>2 DEF CompletedOnce
  <2>5. (\A r \in StatusIn({"succeeded"}) :
           \E k \in DOMAIN PathAt(Newest) : PathAt(Newest)[k] = <<r, Steps>>)'
    BY <1>2, <2>1, <2>2 DEF StatusIn, PathAt
  <2> QED
    BY <2>3, <2>4, <2>5 DEF Recorded
<1>3. CASE FindThread
  <2>1. trail' = trail /\ tried' = tried /\ writes' = writes /\ runs' = runs
    BY <1>3 DEF FindThread
  <2> QED
    BY <1>1, <1>2, <2>1 DEF RunIds
<1>4. CASE CreateRun
  <2>1. PICK row : row = [status |-> "pending", delivery |-> 0]
    OBVIOUS
  <2>2. trail' = trail /\ tried' = tried /\ writes' = writes /\ runs' = Append(runs, row)
    BY <1>4, <2>1 DEF CreateRun
  <2>3. \A r : r \in RunIds' => (r \in RunIds /\ runs'[r] = runs[r]) \/ runs'[r] = row
    BY <2>2 DEF ThreadTypes, RunIds
  <2>4. row.status # "succeeded"
    BY <2>1
  <2> QED
    BY <1>1, <1>2, <2>2, <2>3, <2>4
<1>5. ASSUME NEW r \in RunIds, Claim(r) PROVE Recorded'
  <2>1. PICK row : row = [status |-> "running", delivery |-> runs[r].delivery + 1]
    OBVIOUS
  <2>2. runs' = [runs EXCEPT ![r] = row] /\ RunIds' = RunIds
    BY <1>5, <2>1, ClaimStarts
  <2>3. \A s : s \in RunIds => runs'[s] = runs[s] \/ runs'[s] = row
    BY <2>2 DEF RunIds
  <2>4. row.status # "succeeded"
    BY <2>1
  <2>5. trail' = trail /\ tried' = tried /\ writes' = writes
    BY <1>5 DEF Claim
  <2> QED
    BY <1>1, <1>2, <2>2, <2>3, <2>4, <2>5
<1>6. ASSUME NEW e \in execs, RunTask(e) PROVE Recorded'
  <2>1. /\ e.base = head /\ e.path = PathAt(head) /\ e.next = StepAt(head)
    BY <1>0, <1>6 DEF Line, RunTask
  <2>2. Place(e) = <<e.run, head>>
    <3>1. {i \in DOMAIN e.path : e.path[i][1] > 0} = 1..head
      BY <1>0, <2>1, HeadOfTheLine DEF Paths
    <3>2. Cardinality(1..head) = head
      BY FS_Interval
    <3> QED
      BY <3>1, <3>2 DEF Place
  <2>3. PICK x : x = [place |-> Place(e), delivery |-> e.delivery]
    OBVIOUS
  <2>4. /\ tried' = tried \cup {x} /\ writes' = writes \cup {<<head, StepAt(head)>>}
        /\ trail' = trail /\ runs' = runs
    BY <1>6, <2>1, <2>3 DEF RunTask
  <2>5. x.place[2] = head
    BY <2>2, <2>3
  <2>6. <<head, StepAt(head)>> \notin writes
    BY <1>6, <2>1 DEF RunTask, Saved
  <2>7. \A y \in tried : y.place[2] # head
    BY <1>1, <2>6
  <2>8. Newest' = head
    BY <1>0, <2>4 DEF Newest
  <2>9. (\A y \in tried : y.place[2] <= Newest /\ <<y.place[2], StepAt(y.place[2])>> \in writes)'
    BY <1>1, <2>4, <2>5, <2>8 DEF StepAt, NextAt
  <2>10. CompletedOnce'
    BY <1>1, <2>4, <2>5, <2>7 DEF CompletedOnce
  <2>11. (\A r \in StatusIn({"succeeded"}) :
            \E k \in DOMAIN PathAt(Newest) : PathAt(Newest)[k] = <<r, Steps>>)'
    BY <1>1, <2>4, <2>8 DEF StatusIn, PathAt, RunIds
  <2> QED
    BY <2>9, <2>10, <2>11 DEF Recorded
<1>7. ASSUME NEW e \in execs, ReuseResult(e) PROVE Recorded'
  <2>1. trail' = trail /\ tried' = tried /\ writes' = writes /\ runs' = runs
    BY <1>7 DEF ReuseResult
  <2> QED
    BY <1>1, <1>2, <2>1 DEF RunIds
<1>8. ASSUME NEW e \in execs, CommitStep(e) PROVE Recorded'
  <2>1. PICK row \in RowType, f \in ExecType : CommitsAs(e, row, f)
    BY <1>8, CommitAdds
  <2>2. trail' = Append(trail, row) /\ row.path = Append(e.path, <<e.run, e.next>>)
    BY <2>1 DEF CommitsAs
  <2>3. e.path = PathAt(head) /\ PathAt(head) \in Paths
    BY <1>0, HeadOfTheLine DEF Line
  <2>4. PICK path \in Paths : path = PathAt(head) /\ row.path = Append(path, <<e.run, e.next>>)
    BY <2>2, <2>3
  <2>5. \A k \in DOMAIN path : k \in DOMAIN row.path /\ row.path[k] = path[k]
    BY <2>4 DEF Paths
  <2>6. /\ Newest' = head + 1
        /\ \A c \in 0..head : StepAt(c)' = StepAt(c)
        /\ trail'[head + 1] = row
    BY <1>0, <2>2, TrailGrows
  <2>7. PICK next : next = head + 1 /\ next # 0
    BY <1>0
  <2>8. PathAt(next)' = row.path
    BY <2>6, <2>7 DEF PathAt
  <2>9. tried' = tried /\ writes' = writes /\ runs' = runs
    BY <1>8 DEF CommitStep
  <2>10. (\A x \in tried : x.place[2] <= Newest /\ <<x.place[2], StepAt(x.place[2])>> \in writes)'
    <3>1. ASSUME NEW x \in tried
          PROVE  x.place[2] <= head + 1 /\ <<x.place[2], StepAt(x.place[2])'>> \in writes
      <4>1. PICK n \in Nat : n = x.place[2]
        BY DEF ThreadTypes
      <4>2. n <= head /\ <<n, StepAt(n)>> \in writes
        BY <1>1, <4>1
      <4>3. StepAt(n)' = StepAt(n)
        BY <2>6, <4>2
      <4> QED
        BY <4>1, <4>2, <4>3 DEF StepAt, NextAt
    <3> QED
      BY <2>6, <2>9, <3>1 DEF StepAt, NextAt
  <2>11. CompletedOnce'
    BY <1>1, <2>9 DEF CompletedOnce
  <2>12. ASSUME NEW r \in RunIds, runs[r].status = "succeeded"
         PROVE  \E k \in DOMAIN row.path : row.path[k] = <<r, Steps>>
    BY <1>1, <2>4, <2>5, <2>12
  <2>13. (\A r \in StatusIn({"succeeded"}) :
            \E k \in DOMAIN PathAt(Newest) : PathAt(Newest)[k] = <<r, Steps>>)'
    BY <2>6, <2>7, <2>8, <2>9, <2>12 DEF StatusIn, PathAt, RunIds
  <2> QED
    BY <2>10, <2>11, <2>13 DEF Recorded
<1>9. ASSUME NEW e \in execs, Finish(e) PROVE Recorded'
  <2>1. Owner(e) /\ e.run \in RunIds /\ runs[e.run] \in RunType
    BY OneExecution, RunsAreTyped DEF Queued
  <2>2. runs' = [runs EXCEPT ![e.run].status = "succeeded"] /\ e.next = 0
    BY <1>9, <2>1 DEF Finish
  <2>3. \A r : r \in RunIds' => r \in RunIds /\ (r = e.run \/ runs'[r] = runs[r])
    BY <2>2 DEF RunIds
  <2>4. InHead(e.run)
    <3>1. head > 0 /\ e.path[head] = <<e.run, Steps>> /\ e.path = PathAt(head)
      BY <1>0, <2>2 DEF Line
    <3>2. head \in DOMAIN PathAt(head)
      BY <1>0, <3>1, HeadOfTheLine DEF Paths
    <3> QED
      BY <3>1, <3>2
  <2>5. trail' = trail /\ tried' = tried /\ writes' = writes
    BY <1>9 DEF Finish
  <2> QED
    BY <1>1, <1>2, <2>3, <2>4, <2>5
<1>10. ASSUME NEW e \in execs, Lapse(e) \/ Break(e) \/ Stopped(e) PROVE Recorded'
  <2>1. e.run \in RunIds /\ runs[e.run] \in RunType
    BY OneExecution, RunsAreTyped
  <2>2. \/ \E status \in {"pending", "failed", "cancelled"} :
              runs' = [runs EXCEPT ![e.run].status = status]
        \/ runs' = runs
    BY <1>10 DEF Lapse, Break, Stopped
  <2>3. \A r : r \in RunIds' /\ runs'[r].status = "succeeded" =>
          r \in RunIds /\ runs[r].status = "succeeded"
    BY <2>1, <2>2 DEF RunIds, RunType
  <2>4. trail' = trail /\ tried' = tried /\ writes' = writes
    BY <1>10 DEF Lapse, Break, Stopped
  <2> QED
    BY <1>1, <1>2, <2>3, <2>4
<1>11. ~ForkRead
  BY DEF ForkRead, Undisturbed
<1>12. ~ForkPut
  BY DEF ForkPut, Line
<1>13. ~DeleteThread /\ ~DropCheckpoints
  BY DEF DeleteThread, DropCheckpoints, Undisturbed
<1>14. ASSUME NEW r \in RunIds, CancelPending(r) \/ Redrive(r) PROVE Recorded'
  <2>1. PICK status \in {"pending", "cancelled"} : runs' = [runs EXCEPT ![r].status = status]
    BY <1>14 DEF CancelPending, Redrive, Move
  <2>2. runs[r] \in RunType
    BY RunsAreTyped
  <2>3. \A q : q \in RunIds' /\ runs'[q].status = "succeeded" =>
          q \in RunIds /\ runs[q].status = "succeeded"
    BY <2>1, <2>2 DEF RunIds, RunType
  <2>4. trail' = trail /\ tried' = tried /\ writes' = writes
    BY <1>14 DEF CancelPending, Redrive, Move
  <2> QED
    BY <1>1, <1>2, <2>3, <2>4
<1> QED
  BY <1>3, <1>4, <1>5, <1>6, <1>7, <1>8, <1>9, <1>10, <1>11, <1>12, <1>13, <1>14
     DEF ThreadNext


-----------------------------------------------------------------------------
LEMMA UndisturbedBefore ==
  ASSUME ThreadTypes, ThreadNext, Undisturbed'
  PROVE  Undisturbed
<1>1. Zombies' = Zombies
  BY LifeIsFixed DEF Zombies
<1>2. forks' = 0 => forks = 0
  <2>1. forks' = forks \/ forks' = forks + 1
    BY DEF ThreadNext, FindThread, CreateRun, ForkRead, ForkPut, DeleteThread,
           DropCheckpoints, Claim, CancelPending, Redrive, Move, RunTask, ReuseResult, CommitStep,
           Finish, Lapse, Break, Stopped
  <2> QED
    BY <2>1 DEF ThreadTypes
<1>3. thread' = "present" => thread = "present"
  BY DEF ThreadNext, FindThread, CreateRun, ForkRead, ForkPut, DeleteThread,
         DropCheckpoints, Claim, CancelPending, Redrive, Move, RunTask, ReuseResult, CommitStep,
           Finish, Lapse, Break, Stopped
<1> QED
  BY <1>1, <1>2, <1>3 DEF Undisturbed

\* The inductive invariant of a thread: every state holds its parent's; where
\* executions end with their lease, one run is executed at a time; and without
\* forks the checkpoints are one line, in which nothing that succeeded is
\* missing and nothing saved is done again.
THEOREM ThreadInvariance ==
  ASSUME RunsHaveSteps
  PROVE  ThreadSpec => []ThreadInv
<1>1. ThreadInit => ThreadInv
  <2> SUFFICES ASSUME ThreadInit PROVE ThreadInv
    OBVIOUS
  <2> USE DEF ThreadInit
  <2>1. Newest = 0 /\ DOMAIN trail = {} /\ RunIds = {}
    BY DEF Newest, RunIds
  <2>2. ThreadTypes /\ Anchored
    BY <2>1 DEF ThreadTypes, Anchored
  <2>3. BasesHold /\ LineageIsAuditable
    BY <2>1 DEF BasesHold, LineageIsAuditable
  <2>4. Queued
    BY <2>1 DEF Queued
  <2>5. Line
    BY <2>1 DEF Line
  <2>6. Recorded
    BY <2>1 DEF Recorded, CompletedOnce, StatusIn
  <2> QED
    BY <2>2, <2>3, <2>4, <2>5, <2>6 DEF ThreadInv
<1>2. ThreadInv /\ [ThreadNext]_threadVars => ThreadInv'
  <2> SUFFICES ASSUME ThreadInv, [ThreadNext]_threadVars PROVE ThreadInv'
    OBVIOUS
  <2>1. CASE ThreadNext
    <3> USE <2>1
    <3>1. ThreadTypes /\ Anchored /\ BasesHold /\ LineageIsAuditable
      BY DEF ThreadInv
    <3>2. ThreadTypes' /\ Anchored'
      BY <3>1, TypesStep
    <3>3. BasesHold' /\ LineageIsAuditable'
      BY <3>1, BasesStep
    <3>4. ASSUME ~Zombies' PROVE ~Zombies /\ Queued /\ Queued'
      <4>1. ~Zombies
        BY <3>4, LifeIsFixed DEF Zombies
      <4>2. Queued
        BY <4>1 DEF ThreadInv
      <4> QED
        BY <3>1, <4>1, <4>2, QueueStep
    <3>5. ASSUME Undisturbed' PROVE Line' /\ Recorded'
      <4>1. Undisturbed
        BY <3>1, <3>5, UndisturbedBefore
      <4>2. Queued
        BY <3>4, <3>5 DEF Undisturbed
      <4>3. Line /\ Recorded
        BY <4>1 DEF ThreadInv
      <4> QED
        BY <3>1, <3>5, <4>1, <4>2, <4>3, LineStep, KeptStep
    <3> QED
      BY <3>2, <3>3, <3>4, <3>5 DEF ThreadInv
  <2>2. CASE UNCHANGED threadVars
    BY <2>2 DEF threadVars, ThreadInv, ThreadTypes, Anchored, BasesHold, LineageIsAuditable,
         Queued, Undisturbed, Line, Recorded, CompletedOnce, Zombies, Deletion, RunIds,
         Newest, PathAt, NextAt, StepAt, StatusIn, Owner
  <2> QED
    BY <2>1, <2>2
<1> QED
  BY <1>1, <1>2, PTL DEF ThreadSpec

\* Every checkpoint named exists, a parent before its child, and every
\* execution is of a run of the thread.
THEOREM ThreadIsTyped ==
  ASSUME RunsHaveSteps
  PROVE  ThreadSpec => []ThreadTypeOK
<1>1. ThreadInv => ThreadTypeOK
  <2> SUFFICES ASSUME ThreadInv PROVE ThreadTypeOK
    OBVIOUS
  <2>1. ThreadTypes /\ Anchored
    BY DEF ThreadInv
  <2>2. \A c \in DOMAIN trail : trail[c] \in RowType
    BY <2>1 DEF ThreadTypes
  <2>3. \A r \in RunIds : runs[r].status \in Statuses
    BY <2>1, RunsAreTyped
  <2> QED
    BY <2>1, <2>2, <2>3 DEF ThreadTypeOK, ThreadTypes, Anchored, RowType
<1> QED
  BY <1>1, ThreadInvariance, PTL

\* The history of a thread can be audited, and tells of one execution after
\* another (HistoryIsSerial), for any number of runs, supersteps, forks, leases
\* lost, failures, retries, redrives and cancels, in any order of the claims.
THEOREM HistorySerial ==
  ASSUME RunsHaveSteps
  PROVE  ThreadSpec => []HistoryIsSerial
<1>1. ThreadInv => HistoryIsSerial
  <2> SUFFICES ASSUME ThreadInv PROVE HistoryIsSerial
    OBVIOUS
  <2>1. ThreadTypes /\ Anchored /\ LineageIsAuditable
    BY DEF ThreadInv
  <2>2. ASSUME Undisturbed PROVE HistoryIsOneLine /\ CompletedOnce /\ RunsFollowEachOther
    <3>1. Line /\ Recorded
      BY <2>2 DEF ThreadInv
    <3>2. \A e \in execs : e.path = PathAt(Newest)
      BY <3>1 DEF Line
    <3> QED
      BY <3>1, <3>2 DEF Line, Recorded, HistoryIsOneLine, RunsFollowEachOther
  <2> QED
    BY <2>1, <2>2 DEF HistoryIsSerial, RunsAreSerial, Undisturbed
<1> QED
  BY <1>1, ThreadInvariance, PTL
=============================================================================
