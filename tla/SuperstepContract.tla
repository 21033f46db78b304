-------------------------- MODULE SuperstepContract --------------------------
(***************************************************************************)
(* What durable supersteps promise about the checkpoints of one thread,    *)
(* whatever crashes, redeliveries, pauses and retries happen on the way:   *)
(* the thread is a list of saved states, each saved by one atomic step     *)
(* that either runs EVERY task its predecessor left pending, once and in   *)
(* plan order, or runs none of them (a pause).                             *)
(***************************************************************************)
EXTENDS Naturals, Sequences

CONSTANT Stimulus  \* the log entry of an input that was merged

VARIABLES
    entryPlans,  \* the task lists a fresh input may start, in plan order; never changes
    lineage      \* saved states: [log |-> merged contributions, plan |-> tasks pending]

Tip == IF lineage = <<>> THEN [log |-> <<>>, plan |-> <<>>] ELSE lineage[Len(lineage)]

\* An input (or its redelivery) may be merged in front of the tasks.
Stimulated == {Tip.log, Append(Tip.log, Stimulus)}

\* An idle thread starts at one of the entries, any other goes on where it stopped.
Runnable == IF Tip.plan = <<>> THEN entryPlans ELSE {Tip.plan}

\* One more saved state, behind those there were.
SavesOne ==
    /\ Len(lineage') = Len(lineage) + 1
    /\ SubSeq(lineage', 1, Len(lineage)) = lineage
Saved == lineage'[Len(lineage')]

CommitStep == SavesOne /\ \E log \in Stimulated, plan \in Runnable : Saved.log = log \o plan

PauseStep == SavesOne /\ Saved.log \in Stimulated /\ Saved.plan \in Runnable

ContractInit == lineage = <<>>
ContractNext == (CommitStep \/ PauseStep) /\ UNCHANGED entryPlans
ContractSpec == ContractInit /\ [][ContractNext]_<<lineage, entryPlans>>
==============================================================================
