------------------------------- MODULE Savers -------------------------------
(***************************************************************************)
(* The three checkpointers (checkpoint/memory.py, sqlite.py, postgres.py)  *)
(* on one thread.  The in-memory saver works under a lock on lists and     *)
(* dictionaries; SQLite runs each operation in a transaction of the one    *)
(* connection it locks; PostgreSQL runs each on a connection of its own,   *)
(* so that a row gets its seq when it is inserted and is seen when its     *)
(* transaction commits.                                                    *)
(***************************************************************************)
EXTENDS Naturals, Sequences, FiniteSets, SequencesExt, Ordering

CONSTANTS
    Clients, Namespaces, Checkpoints, Batches,
    Stores,         \* the stores to consider: see store
    MaxOps          \* bound: writing operations

VARIABLES
    store,      \* the saver and its callers, one of Stores; fixed
    rows,       \* visible checkpoint rows: [ns, id, seq]
    pending,    \* visible rows of pending writes
    tx,         \* the open transaction of each client
    seq,        \* the last seq given out
    put,        \* the checkpoints whose put has returned: <<ns, id>>
    seen,       \* what each client read last
    ops         \* writing operations so far

saversVars == <<store, rows, pending, tx, seq, put, seen, ops>>

Saver == store.saver            \* "memory", "sqlite" or "postgres"
NamespaceOf == store.namespaces \* the namespaces a client writes
Deleters == store.deleters      \* the clients that may delete the thread
Resend == store.resend          \* a checkpoint may be put a second time

\* The stores for which a saver keeps its promise (see the last section): no
\* checkpoint is put twice in memory; a namespace has one writer in PostgreSQL,
\* and a thread is deleted when nobody else writes it.
StoresAreApart ==
    \A s \in Stores :
        /\ s.namespaces \in [Clients -> SUBSET Namespaces]
        /\ s.saver = "memory" => ~s.resend
        /\ s.saver = "postgres" =>
             \A p, q \in Clients : p # q =>
                 /\ s.namespaces[p] \cap s.namespaces[q] = {}
                 /\ p \in s.deleters => q \notin s.deleters /\ s.namespaces[q] = {}

\* A batch names each pending write once.
BatchesAreKeyed ==
    \A batch \in Batches : \A v, w \in batch : v.task = w.task /\ v.index = w.index => v = w

NoTx == [op |-> "none"]

(***************************************************************************)
(* The readers see the rows in the order of their seq.                     *)
(***************************************************************************)
Ordered(rs) ==
    LET seqs == InOrder({r.seq : r \in rs})
    IN [k \in DOMAIN seqs |-> (CHOOSE r \in rs : r.seq = seqs[k]).id]
History == [ns \in Namespaces |-> Ordered({r \in rows : r.ns = ns})]

Abstract == INSTANCE CheckpointStore WITH history <- History, writes <- pending

SaversInit ==
    /\ store \in Stores
    /\ rows = {} /\ pending = {} /\ seq = 0 /\ put = {} /\ ops = 0
    /\ tx = [p \in Clients |-> NoTx] /\ seen = [p \in Clients |-> <<>>]

Idle(p) == tx[p] = NoTx
Known(id) == \E ns \in Namespaces : <<ns, id>> \in put
FreshPut(id) ==
    Resend \/ (~Known(id) /\ \A q \in Clients : tx[q].op = "put" => tx[q].row.id # id)
Counted == ops < MaxOps /\ ops' = ops + 1
Row(ns, id) == [ns |-> ns, id |-> id, seq |-> seq + 1]

Taken(rs, ns, id) == \E r \in rs : r.ns = ns /\ r.id = id

\* Mutant: a write is added next to the one it replaces.
Added(old, new) == old \cup new
Replaced(old, new) ==
    {v \in old : \A w \in new : <<v.ns, v.of, v.task, v.index>> # <<w.ns, w.of, w.task, w.index>>}
    \cup new

(***************************************************************************)
(* InMemorySaver appends without looking; INSERT OR IGNORE leaves a row    *)
(* that is there.                                                          *)
(***************************************************************************)
MemoryPut(p, ns, id) ==
    /\ Saver = "memory" /\ Counted
    /\ rows' = rows \cup {Row(ns, id)} /\ seq' = seq + 1 /\ put' = put \cup {<<ns, id>>}
    /\ UNCHANGED <<store, pending, tx, seen>>

SqlitePut(p, ns, id) ==
    /\ Saver = "sqlite" /\ Counted
    /\ rows' = IF Taken(rows, ns, id) THEN rows ELSE rows \cup {Row(ns, id)}
    /\ seq' = seq + 1 /\ put' = put \cup {<<ns, id>>}
    /\ UNCHANGED <<store, pending, tx, seen>>

LocalPutWrites(p, ns, of, batch) ==
    /\ Saver # "postgres" /\ Counted
    /\ pending' = Replaced(pending, Abstract!Stored(ns, of, batch))
    /\ UNCHANGED <<store, rows, tx, seq, put, seen>>

LocalDelete(p) ==
    /\ p \in Deleters /\ Saver # "postgres" /\ Counted
    /\ rows' = {} /\ pending' = {} /\ put' = {}
    /\ UNCHANGED <<store, tx, seq, seen>>

(***************************************************************************)
(* PostgresSaver: one statement, then the commit.  A key another           *)
(* transaction has inserted makes the statement wait for its end.          *)
(***************************************************************************)
Waits(p, ns, id) ==
    \E q \in Clients \ {p} : tx[q].op = "put" /\ Taken({tx[q].row}, ns, id)

BeginPut(p, ns, id) ==
    /\ Saver = "postgres" /\ Idle(p) /\ Counted /\ ~Waits(p, ns, id)
    /\ tx' = [tx EXCEPT ![p] = IF Taken(rows, ns, id) THEN NoTx
                               ELSE [op |-> "put", row |-> Row(ns, id)]]
    /\ seq' = seq + 1
    /\ put' = IF Taken(rows, ns, id) THEN put \cup {<<ns, id>>} ELSE put
    /\ UNCHANGED <<store, rows, pending, seen>>

CommitPut(p) ==
    /\ tx[p].op = "put" /\ rows' = rows \cup {tx[p].row}
    /\ put' = put \cup {<<tx[p].row.ns, tx[p].row.id>>}
    /\ tx' = [tx EXCEPT ![p] = NoTx]
    /\ UNCHANGED <<store, pending, seq, seen, ops>>

BeginPutWrites(p, ns, of, batch) ==
    /\ Saver = "postgres" /\ Idle(p) /\ Counted
    /\ \A q \in Clients : tx[q].op # "writes"
    /\ tx' = [tx EXCEPT ![p] = [op |-> "writes", new |-> Abstract!Stored(ns, of, batch)]]
    /\ UNCHANGED <<store, rows, pending, seq, put, seen>>

CommitPutWrites(p) ==
    /\ tx[p].op = "writes" /\ pending' = Replaced(pending, tx[p].new)
    /\ tx' = [tx EXCEPT ![p] = NoTx]
    /\ UNCHANGED <<store, rows, seq, put, seen, ops>>

\* Two statements delete what each of them sees; both count at the commit.
BeginDelete(p) ==
    /\ p \in Deleters /\ Saver = "postgres" /\ Idle(p) /\ Counted
    /\ tx' = [tx EXCEPT ![p] = [op |-> "deleting", gone |-> pending]]
    /\ UNCHANGED <<store, rows, pending, seq, put, seen>>

DeleteCheckpoints(p) ==
    /\ tx[p].op = "deleting"
    /\ tx' = [tx EXCEPT ![p] = [op |-> "delete", gone |-> @.gone, rows |-> rows]]
    /\ UNCHANGED <<store, rows, pending, seq, put, seen, ops>>

CommitDelete(p) ==
    /\ tx[p].op = "delete"
    /\ rows' = rows \ tx[p].rows /\ pending' = pending \ tx[p].gone
    /\ put' = {<<r.ns, r.id>> : r \in rows'}
    /\ tx' = [tx EXCEPT ![p] = NoTx]
    /\ UNCHANGED <<store, seq, seen, ops>>

\* The connection breaks before the commit, and the caller gets the error.
Rollback(p) ==
    /\ ~Idle(p) /\ tx' = [tx EXCEPT ![p] = NoTx]
    /\ UNCHANGED <<store, rows, pending, seq, put, seen, ops>>

InPlanOrder(v, w) == v.index < w.index
WritesInOrder(ns, of) ==
    LET ws == {w \in pending : w.ns = ns /\ w.of = of}
        list == CHOOSE l \in [1..Cardinality(ws) -> ws] :
                  \A i, j \in DOMAIN l : i < j => l[i] # l[j] /\ ~InPlanOrder(l[j], l[i])
    IN [k \in DOMAIN list |-> list[k].value]

Latest(ns) == IF History[ns] = <<>> THEN <<>> ELSE <<History[ns][Len(History[ns])]>>
SelectedRow(ns, id) == IF Taken(rows, ns, id) THEN <<id>> ELSE <<>>
Listed(ns) == Reverse(History[ns])

GetTuple(p, ns, id) ==
    /\ \E answer \in {Latest(ns), SelectedRow(ns, id)} : seen' = [seen EXCEPT ![p] = answer]
    /\ UNCHANGED <<store, rows, pending, tx, seq, put, ops>>
List(p, ns) ==
    /\ seen' = [seen EXCEPT ![p] = Listed(ns)]
    /\ UNCHANGED <<store, rows, pending, tx, seq, put, ops>>
GetWrites(p, ns, of) ==
    /\ seen' = [seen EXCEPT ![p] = WritesInOrder(ns, of)]
    /\ UNCHANGED <<store, rows, pending, tx, seq, put, ops>>

Call(p) ==
    \E ns \in NamespaceOf[p], id \in Checkpoints :
        \/ FreshPut(id) /\ (MemoryPut(p, ns, id) \/ SqlitePut(p, ns, id) \/ BeginPut(p, ns, id))
        \/ \E batch \in Batches :
             Known(id) /\ (LocalPutWrites(p, ns, id, batch) \/ BeginPutWrites(p, ns, id, batch))
        \/ Idle(p) /\ (GetTuple(p, ns, id) \/ List(p, ns) \/ GetWrites(p, ns, id))

SaversNext ==
    \E p \in Clients :
        \/ Call(p) \/ LocalDelete(p) \/ BeginDelete(p) \/ DeleteCheckpoints(p)
        \/ CommitPut(p) \/ CommitPutWrites(p) \/ CommitDelete(p) \/ Rollback(p)

SaversSpec == SaversInit /\ [][SaversNext]_saversVars

\* The seq of a visible row is one that was given out, and no two are equal.
SaversTypeOK ==
    /\ \A r \in rows : r.ns \in Namespaces /\ r.id \in Checkpoints /\ r.seq \in 1..seq
    /\ \A r, s \in rows : r.seq = s.seq => r = s
    /\ \A v, w \in pending : Abstract!SameKey(v, w) => v = w

\* Each saver does what a checkpointer promises: it adds to the history of
\* the namespace once, replaces pending writes, reads the latest, and a
\* delete takes everything (checkpoint/memory.py:38, sqlite.py:150,
\* postgres.py:108).
Implements == Abstract!Spec

-----------------------------------------------------------------------------
(* Statements of the documents that one of the savers does not keep.        *)

\* The checkpoint that became visible last is the latest one a reader gets
\* (postgres.py:143): not when two transactions write one namespace.
LatestIsNewest ==
    [][\A ns \in Namespaces, r \in rows' : r \notin rows /\ r.ns = ns => Latest(ns)' = <<r.id>>]_saversVars

\* Putting a checkpoint again changes nothing (docs/architecture.md:74): not in memory.
PutIsIdempotent == \A r, s \in rows : r.ns = s.ns /\ r.id = s.id => r = s
=============================================================================
