----------------------------- MODULE ThreadState -----------------------------
(***************************************************************************)
(* The checkpoints of one thread between everybody who touches them: runs  *)
(* delivered by workers in any order, broken off by a failure or a cancel, *)
(* redelivered by a retry, a redrive or a lapsed lease while the first     *)
(* execution may still go on, forks made by the API from any checkpoint,   *)
(* and the deletion of the thread.  The saver is the one of                *)
(* CheckpointStore: the row added last is the head every execution starts  *)
(* from.  A state is the sequence of the steps and forks that led to it.   *)
(* A run that is being cancelled holds the thread as a running one does.   *)
(***************************************************************************)
EXTENDS Integers, Sequences, FiniteSets, SequencesExt

CONSTANTS
    Threads,        \* the threads to consider: see life
    Steps           \* supersteps of a run, one task each

VARIABLES
    life,       \* what happens to the thread, one of Threads; fixed
    thread,     \* the thread: "present", "deleting", "deleted"
    creating,   \* a create_run that has found the thread
    trail,      \* the checkpoints: [parent, path, next], in the order of their seq
    writes,     \* pending writes: <<checkpoint, step>>
    runs,       \* status of each run submitted, and how often it was delivered
    execs,      \* executions: [run, delivery, base, path, next, done]
    tried,      \* tasks executed, and by which delivery
    copied,     \* the checkpoint a fork has read, 0: none
    forks,      \* calls of fork
    lapses      \* deliveries that ended before their run

threadVars == <<life, thread, creating, trail, writes, runs, execs, tried, copied, forks, lapses>>

\* A run has a superstep.
RunsHaveSteps == Steps \in Nat \ {0}

MaxRuns == life.runs            \* bound: runs of the thread
MaxForks == life.forks          \* bound: calls of fork
MaxLapses == life.lapses        \* bound: leases lost and executions broken off
Zombies == life.zombies         \* an execution may outlive its lease
Deletion == life.deletion       \* the thread is deleted

Statuses == {"pending", "running", "succeeded", "failed", "cancelled"}
RunIds == DOMAIN runs
Newest == Len(trail)
PathAt(c) == IF c = 0 THEN <<>> ELSE trail[c].path
NextAt(c) == IF c = 0 THEN 0 ELSE trail[c].next
StatusIn(set) == {r \in RunIds : runs[r].status \in set}

ThreadInit ==
    /\ life \in Threads
    /\ thread = "present" /\ creating = FALSE /\ trail = <<>> /\ writes = {} /\ runs = <<>>
    /\ execs = {} /\ tried = {} /\ copied = 0 /\ forks = 0 /\ lapses = 0

(***************************************************************************)
(* POST /threads/{id}/runs looks for the thread, then creates the run.     *)
(***************************************************************************)
FindThread ==
    /\ thread = "present" /\ ~creating /\ Len(runs) < MaxRuns /\ creating' = TRUE
    /\ UNCHANGED <<life, thread, trail, writes, runs, execs, tried, copied, forks, lapses>>

CreateRun ==
    /\ creating /\ creating' = FALSE
    /\ runs' = Append(runs, [status |-> "pending", delivery |-> 0])
    /\ UNCHANGED <<life, thread, trail, writes, execs, tried, copied, forks, lapses>>

Free(r) == StatusIn({"running"}) = {}

(***************************************************************************)
(* A claim and the start of the execution.  Any pending run may be taken:  *)
(* the oldest one is skipped while another transaction holds its row.  The *)
(* head is loaded; a state that has next nodes goes on with them, whichever*)
(* run left them there, else the run starts anew.  The number of the       *)
(* delivery stands for the owner and attempt that fence the lease.         *)
(***************************************************************************)
Started(r, head) ==
    [run |-> r, delivery |-> runs[r].delivery + 1, base |-> head, path |-> PathAt(head),
     next |-> IF NextAt(head) = 0 THEN 1 ELSE NextAt(head), done |-> FALSE]

Claim(r) ==
    /\ runs[r].status = "pending" /\ Free(r)
    /\ runs' = [runs EXCEPT ![r] = [status |-> "running", delivery |-> @.delivery + 1]]
    /\ execs' = execs \cup {Started(r, Newest)}
    /\ UNCHANGED <<life, thread, creating, trail, writes, tried, copied, forks, lapses>>

Owner(e) == runs[e.run] = [status |-> "running", delivery |-> e.delivery]
Advance(e, f) == execs' = (execs \ {e}) \cup {f}

\* A place in a run: how many steps led to it, forks aside.
Place(e) == <<e.run, Cardinality({i \in DOMAIN e.path : e.path[i][1] > 0})>>

Saved(e) == <<e.base, e.next>> \in writes

(***************************************************************************)
(* The task of the step runs, its result is put as a pending write, and    *)
(* the step is committed; a result that is there already is taken.         *)
(***************************************************************************)
RunTask(e) ==
    /\ ~e.done /\ e.next > 0 /\ ~Saved(e)
    /\ tried' = tried \cup {[place |-> Place(e), delivery |-> e.delivery]}
    /\ writes' = writes \cup {<<e.base, e.next>>}
    /\ Advance(e, [e EXCEPT !.done = TRUE])
    /\ UNCHANGED <<life, thread, creating, trail, runs, copied, forks, lapses>>

ReuseResult(e) ==
    /\ ~e.done /\ e.next > 0 /\ Saved(e)
    /\ Advance(e, [e EXCEPT !.done = TRUE])
    /\ UNCHANGED <<life, thread, creating, trail, writes, runs, tried, copied, forks, lapses>>

NextAfter(step) == IF step = Steps THEN 0 ELSE step + 1

\* Mutant: a checkpoint names the head as its parent.
ParentIsHead(base) == Newest
ParentOf(base) == base

CommitStep(e) ==
    LET path == Append(e.path, <<e.run, e.next>>)
        next == NextAfter(e.next)
    IN /\ e.done
       /\ trail' = Append(trail, [parent |-> ParentOf(e.base), path |-> path, next |-> next])
       /\ Advance(e, [e EXCEPT !.base = Newest + 1, !.path = path, !.next = next, !.done = FALSE])
       /\ UNCHANGED <<life, thread, creating, writes, runs, tried, copied, forks, lapses>>

\* The outcome is written only for the delivery that still owns the run.
Finish(e) ==
    /\ e.next = 0 /\ execs' = execs \ {e}
    /\ runs' = IF Owner(e) THEN [runs EXCEPT ![e.run].status = "succeeded"] ELSE runs
    /\ UNCHANGED <<life, thread, creating, trail, writes, tried, copied, forks, lapses>>

\* The lease lapses, because the process died or because it stalled.  A run
\* that was being cancelled is cancelled then.
Lapse(e) ==
    /\ Owner(e) /\ lapses < MaxLapses /\ lapses' = lapses + 1
    /\ \E status \in {"pending", "cancelled"} : runs' = [runs EXCEPT ![e.run].status = status]
    /\ \/ execs' = execs \ {e}
       \/ Zombies /\ UNCHANGED execs
    /\ UNCHANGED <<life, thread, creating, trail, writes, tried, copied, forks>>

\* The execution fails or is cancelled, and its owner writes the outcome: a
\* retry, a failure or the cancel.  What was planned stays at the head.
Break(e) ==
    /\ Owner(e) /\ lapses < MaxLapses /\ lapses' = lapses + 1
    /\ \E status \in {"pending", "failed", "cancelled"} :
         runs' = [runs EXCEPT ![e.run].status = status]
    /\ execs' = execs \ {e}
    /\ UNCHANGED <<life, thread, creating, trail, writes, tried, copied, forks>>

\* A pending run is cancelled at once; a failed one may be redriven.
Move(r, from, to) ==
    /\ runs[r].status = from /\ runs' = [runs EXCEPT ![r].status = to]
    /\ UNCHANGED <<life, thread, creating, trail, writes, execs, tried, copied, forks, lapses>>
CancelPending(r) == Move(r, "pending", "cancelled")
Redrive(r) == Move(r, "failed", "pending")

\* The heartbeat of a stalled worker finds that the lease is gone.
Stopped(e) ==
    /\ ~Owner(e) /\ execs' = execs \ {e}
    /\ UNCHANGED <<life, thread, creating, trail, writes, runs, tried, copied, forks, lapses>>

(***************************************************************************)
(* POST /threads/{id}/fork: read a checkpoint, put a copy of it with the   *)
(* new values.  The copy is the row added last.                            *)
(***************************************************************************)
ForkRead ==
    /\ forks < MaxForks /\ copied = 0 /\ Newest > 0 /\ forks' = forks + 1
    /\ \E c \in 1..Newest : copied' = c
    /\ UNCHANGED <<life, thread, creating, trail, writes, runs, execs, tried, lapses>>

ForkPut ==
    /\ copied > 0 /\ copied' = 0
    /\ trail' = IF thread = "deleted" THEN trail
               ELSE Append(trail, [parent |-> ParentOf(copied), next |-> trail[copied].next,
                                  path |-> Append(trail[copied].path, <<0, forks>>)])
    /\ UNCHANGED <<life, thread, creating, writes, runs, execs, tried, forks, lapses>>

(***************************************************************************)
(* DELETE /threads/{id}: refused while a run is active; the row of the     *)
(* thread goes first, the checkpoints after it.                            *)
(***************************************************************************)
DeleteThread ==
    /\ Deletion /\ thread = "present" /\ StatusIn({"running"}) = {}
    /\ thread' = "deleting"
    /\ UNCHANGED <<life, creating, trail, writes, runs, execs, tried, copied, forks, lapses>>

DropCheckpoints ==
    /\ thread = "deleting" /\ thread' = "deleted"
    /\ trail' = <<>> /\ writes' = {}
    /\ execs' = {[e EXCEPT !.base = 0] : e \in execs}
    /\ UNCHANGED <<life, creating, runs, tried, copied, forks, lapses>>

ThreadNext ==
    \/ FindThread \/ CreateRun \/ ForkRead \/ ForkPut \/ DeleteThread \/ DropCheckpoints
    \/ \E r \in RunIds : Claim(r) \/ CancelPending(r) \/ Redrive(r)
    \/ \E e \in execs :
         \/ RunTask(e) \/ ReuseResult(e) \/ CommitStep(e) \/ Finish(e)
         \/ Lapse(e) \/ Break(e) \/ Stopped(e)

ThreadSpec == ThreadInit /\ [][ThreadNext]_threadVars

ThreadTypeOK ==
    /\ thread \in {"present", "deleting", "deleted"}
    /\ \A c \in DOMAIN trail : trail[c].parent \in 0..(c - 1) /\ trail[c].next \in 0..Steps
    /\ \A r \in RunIds : runs[r].status \in Statuses
    /\ \A e \in execs : e.run \in RunIds /\ e.base \in 0..Newest

\* Every state in the history is its parent's state plus one step or one
\* fork, whoever else wrote in between (executor.py:631, 2235).
LineageIsAuditable ==
    ~Deletion => \A c \in DOMAIN trail : trail[c].path # <<>> /\ Front(trail[c].path) = PathAt(trail[c].parent)

\* No step committed is ever left behind: each checkpoint goes on from the
\* one before it, whichever runs failed, lapsed, were redriven or overtaken
\* in between (repository.py:3434, executor.py:959).
HistoryIsOneLine == \A c \in DOMAIN trail : trail[c].parent = c - 1

\* A task whose result was saved is never executed again by a later
\* delivery of its run at the same point of the same state
\* (executor.py:2420).
CompletedOnce ==
    \A x, y \in tried : x.place = y.place => x = y

\* Whoever executes has in its state the last step of every run that has
\* succeeded (repository.py:3434).
RunsFollowEachOther ==
    \A e \in execs : \A r \in StatusIn({"succeeded"}) :
        \E k \in DOMAIN e.path : e.path[k] = <<r, Steps>>

\* With executions that end with their lease, and no fork, the runs of a
\* thread are what its history says: one execution after another, nothing
\* missing and no task done twice.
RunsAreSerial ==
    ~Zombies /\ forks = 0 /\ thread = "present" =>
        HistoryIsOneLine /\ CompletedOnce /\ RunsFollowEachOther

\* The history of a thread can be audited, and tells of one execution after
\* another.
HistoryIsSerial == LineageIsAuditable /\ RunsAreSerial

-----------------------------------------------------------------------------
(* Statements of the documents that this code does not keep.                *)

\* Nothing of a deleted thread is left in the checkpointer
\* (threads-runs.mdx:15).
DeletedThreadLeavesNothing == thread = "deleted" => trail = <<>> /\ writes = {}

-----------------------------------------------------------------------------
(* What one might expect, no document promises, and does not hold.          *)

\* The steps of a run follow each other in every state: not so when a run is
\* redelivered after another one has taken over the nodes it had planned.
RunsDoNotMix ==
    \A c \in DOMAIN trail : \A i, j \in DOMAIN trail[c].path :
        LET p == trail[c].path
        IN i < j /\ p[i][1] = p[j][1] /\ p[i][1] > 0 =>
             \A k \in i..j : p[k][1] \in {0, p[i][1]}

\* A run begins with its own first step: not so when another one has left
\* planned nodes, or a saved result, at the head.
RunsStartAnew ==
    \A c \in DOMAIN trail :
        LET p == trail[c].path
        IN p[Len(p)][1] > 0 /\ p[Len(p)][2] > 1 => <<p[Len(p)][1], 1>> \in Range(p)
=============================================================================
