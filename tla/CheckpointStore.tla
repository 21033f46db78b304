--------------------------- MODULE CheckpointStore ---------------------------
(***************************************************************************)
(* What a checkpointer promises for one thread (docs/architecture.md,      *)
(* durable-execution.mdx): checkpoints are added once and in order to the  *)
(* history of their namespace, pending writes replace each other by task   *)
(* and index, a reader gets the latest or the selected checkpoint, and     *)
(* deleting the thread takes everything.                                   *)
(***************************************************************************)
EXTENDS Naturals, Sequences, FiniteSets, SequencesExt

CONSTANTS
    Clients,        \* callers of the checkpointer
    Namespaces,     \* checkpoint namespaces of the thread
    Checkpoints,    \* checkpoint ids
    Batches         \* batches of pending writes: sets of [task, index, value]

VARIABLES
    history,    \* the checkpoints of each namespace, oldest first
    writes,     \* the pending writes: [ns, of, task, index, value]
    put,        \* the checkpoints whose put has returned: <<ns, id>>
    seen        \* what each client read last

vars == <<history, writes, put, seen>>

Nothing == <<>>
Stored(ns, of, batch) ==
    {[ns |-> ns, of |-> of, task |-> w.task, index |-> w.index, value |-> w.value] : w \in batch}
SameKey(v, w) == v.ns = w.ns /\ v.of = w.of /\ v.task = w.task /\ v.index = w.index
Upserted(old, new) == {v \in old : \A w \in new : ~SameKey(v, w)} \cup new

\* The pending writes of a checkpoint, in the order of the plan.
WritesOf(ws, ns, of) ==
    LET those == {w \in ws : w.ns = ns /\ w.of = of}
        list == CHOOSE l \in [1..Cardinality(those) -> those] :
                  \A i, j \in DOMAIN l : i < j => l[i] # l[j] /\ ~(l[j].index < l[i].index)
    IN [k \in DOMAIN list |-> list[k].value]

LatestOf(h) == IF h = Nothing THEN Nothing ELSE <<h[Len(h)]>>
SelectedOf(h, id) == IF \E k \in DOMAIN h : h[k] = id THEN <<id>> ELSE Nothing
Answers(h, ws, ns, id) ==
    {LatestOf(h), SelectedOf(h, id), Reverse(h), WritesOf(ws, ns, id)}

Init ==
    /\ history = [ns \in Namespaces |-> Nothing]
    /\ writes = {} /\ put = {} /\ seen = [p \in Clients |-> Nothing]

Put(ns, id) ==
    /\ history' = IF \E k \in DOMAIN history[ns] : history[ns][k] = id
                  THEN history ELSE [history EXCEPT ![ns] = Append(@, id)]
    /\ put' = put \cup {<<ns, id>>}
    /\ UNCHANGED <<writes, seen>>

PutWrites(ns, of, batch) ==
    /\ writes' = Upserted(writes, Stored(ns, of, batch))
    /\ UNCHANGED <<history, put, seen>>

DeleteThread ==
    /\ history' = [ns \in Namespaces |-> Nothing] /\ writes' = {} /\ put' = {}
    /\ UNCHANGED seen

Read(p, ns, id) ==
    /\ \E answer \in Answers(history[ns], writes, ns, id) : seen' = [seen EXCEPT ![p] = answer]
    /\ UNCHANGED <<history, writes, put>>

Next ==
    \/ DeleteThread
    \/ \E ns \in Namespaces, id \in Checkpoints :
         \/ Put(ns, id)
         \/ \E batch \in Batches : PutWrites(ns, id, batch)
         \/ \E p \in Clients : Read(p, ns, id)

Spec == Init /\ [][Next]_vars
=============================================================================
