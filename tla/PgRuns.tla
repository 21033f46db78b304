------------------------------- MODULE PgRuns -------------------------------
(***************************************************************************)
(* The runs table of PostgresRepository under READ COMMITTED, statement by *)
(* statement.  A session is a worker or an API request with a transaction  *)
(* of its own.  A statement selects rows among those committed when it     *)
(* starts, waits for the lock of each, and looks again at the latest       *)
(* version of the row; what the transaction writes is seen by others when  *)
(* it commits, but for the entries of a unique index, which make others    *)
(* wait.                                                                   *)
(*                                                                         *)
(* RunQueue models the same operations as single steps; this module shows  *)
(* what the locks, the rechecks and the indexes make of that.              *)
(***************************************************************************)
EXTENDS Integers, Sequences, FiniteSets, Ordering

CONSTANTS
    Sessions,       \* the sessions there may be
    Setups,         \* choices of who takes part, see setup
    Threads,        \* threads of runs; NoThread for a stateless one
    NoThread,
    NoKey,          \* idempotency_key of a request without one
    Nobody,         \* lease_owner of a run nobody executes
    MaxRuns

ASSUME PgAssumption ==
    /\ MaxRuns \in Nat
    /\ IsFiniteSet(Sessions)
    /\ \A c \in Setups : /\ c.workers \subseteq Sessions /\ c.clients \subseteq Sessions
                         /\ c.runs \in 0..MaxRuns /\ c.threads \subseteq Threads

VARIABLES
    setup,      \* sessions, requests and writes of a behaviour, its bounds and quotas
    runs,       \* the committed rows of the table runs
    inbox,      \* the committed rows of run_steering_events, per run
    asked,      \* runs whose cancellation was accepted
    tx,         \* the open transaction of each session
    job,        \* the delivery a worker executes: [run, attempt]
    up,         \* workers whose loop goes on
    errors,     \* kinds of transactions that ended in a unique violation
    spent       \* [calls, lapses, faults] so far

vars == <<setup, runs, inbox, asked, tx, job, up, errors, spent>>

Ids == 1..MaxRuns
Workers == setup.workers
Clients == setup.clients
ACTIVE == {"running", "cancelling"}
TERMINAL == {"succeeded", "failed", "cancelled", "timed_out", "dead_letter"}

NoRow == [status |-> "absent", thread |-> NoThread, key |-> NoKey, owner |-> Nobody,
          lapsed |-> FALSE, attempt |-> 0, closed |-> FALSE, successor |-> 0, origin |-> 0]
NoTx == [op |-> "none", phase |-> "idle", run |-> 0, arg |-> "none",
         locks |-> {}, todo |-> {}, hit |-> {}, put |-> NoRow]
NoJob == [run |-> 0, attempt |-> 0]

Init ==
    /\ setup \in Setups
    /\ runs = [r \in Ids |-> NoRow]
    /\ inbox = [r \in Ids |-> <<>>]
    /\ asked = {}
    /\ tx = [s \in Sessions |-> NoTx]
    /\ job = [s \in Sessions |-> NoJob]
    /\ up = setup.workers
    /\ errors = {}
    /\ spent = [calls |-> 0, lapses |-> 0, faults |-> 0]

-----------------------------------------------------------------------------
(* Rows                                                                     *)

Active(row) == row.status \in ACTIVE
Pending(r) == {i \in DOMAIN inbox[r] : inbox[r][i].state = "pending"}
Existing == {r \in Ids : runs[r].status # "absent"}
Least(S) == CHOOSE r \in S : \A q \in S : r <= q

\* The lock of a row is held by no other transaction.
\* Mutant: rows are read without FOR UPDATE.
FreeOrNot(s, r) == TRUE
Free(s, r) == \A q \in Sessions \ {s} : r \notin tx[q].locks

Released(row, to) == [row EXCEPT !.status = to, !.owner = Nobody, !.lapsed = FALSE]

\* A cancel request that came first wins over the outcome.
Finished(row, outcome) == Released(row, IF row.status = "cancelling" THEN "cancelled" ELSE outcome)

Requeued(row) == [Released(row, "pending") EXCEPT !.closed = FALSE]
RetriedRow(row) == IF row.status = "cancelling" THEN Released(row, "cancelled") ELSE Requeued(row)
RedrivenRow(row) == [Requeued(row) EXCEPT !.attempt = 0]
ClosedRow(row) == [row EXCEPT !.closed = TRUE]
RenewedRow(row) == [row EXCEPT !.lapsed = FALSE]

\* A request that has no effect: the run is over, or continued by another.
CancelRefused(row) == row.status \in TERMINAL \/ row.successor # 0
CancelledRow(row) ==
    IF CancelRefused(row) THEN row
    ELSE [row EXCEPT !.status = IF @ \in {"pending", "paused"} THEN "cancelled" ELSE "cancelling"]

\* Steering is admitted by a run that is neither over, finalizing nor continued,
\* and once per key.
SteeringAdmitted(row, r, key) ==
    /\ ~\E i \in DOMAIN inbox[r] : key # NoKey /\ inbox[r][i].key = key
    /\ row.status \notin TERMINAL /\ ~row.closed /\ row.successor = 0

Disposed(r, which, state) ==
    [i \in DOMAIN inbox[r] |-> IF i \in which THEN [inbox[r][i] EXCEPT !.state = state] ELSE inbox[r][i]]

\* What the transactions on one run write into its inbox.
Accepted(r, key) ==
    IF SteeringAdmitted(runs[r], r, key)
    THEN Append(inbox[r], [key |-> key, state |-> "pending", source |-> <<r, Len(inbox[r]) + 1>>])
    ELSE inbox[r]
Consumed(r, which) == Disposed(r, which \cap Pending(r), "consumed")
SupersededAtEnd(r) == Disposed(r, Pending(r), "superseded")

-----------------------------------------------------------------------------
(* Transactions on one row: SELECT ... FOR UPDATE or an UPDATE by id, with   *)
(* the conditions of its WHERE clause, then the write.                       *)

Fenced == {"finish", "finalize", "retry", "close", "consume"}
OneRow == Fenced \cup {"heartbeat", "append", "cancel", "steer", "redrive"}

\* The WHERE clause of the statement that locks the row.
Owned(s, row, attempt) == row.owner = s /\ row.attempt = attempt /\ Active(row)
Selects(s, op, row, attempt) ==
    CASE op \in Fenced     -> Owned(s, row, attempt)
      [] op = "heartbeat"  -> row.owner = s /\ Active(row)
      [] op = "redrive"    -> row.status \in {"failed", "dead_letter"}
      [] OTHER             -> row.status # "absent"

\* What the transaction then writes into the row.
Written(op, arg, row) ==
    CASE op \in {"finish", "finalize"} -> Finished(row, arg)
      [] op = "retry"     -> RetriedRow(row)
      [] op = "close"     -> ClosedRow(row)
      [] op = "heartbeat" -> RenewedRow(row)
      [] op = "cancel"    -> CancelledRow(row)
      [] op = "redrive"   -> RedrivenRow(row)
      [] OTHER            -> row

InboxWritten(op, arg, r) ==
    CASE op = "consume"  -> Consumed(r, arg)
      [] op = "finalize" -> SupersededAtEnd(r)
      [] op = "steer"    -> Accepted(r, arg)
      [] OTHER           -> inbox[r]

\* The statement starts: rows that do not match now are not waited for.
BeginOne(s, op, r, arg, attempt) ==
    /\ tx[s].phase = "idle"
    /\ Selects(s, op, runs[r], attempt)
    /\ tx' = [tx EXCEPT ![s] = [NoTx EXCEPT !.op = op, !.phase = "lock", !.run = r, !.arg = arg]]

\* The lock is granted; the row is looked at again.
LockOne(s) ==
    LET t == tx[s]
        row == runs[t.run]
    IN /\ t.phase = "lock" /\ t.op \in OneRow
       /\ Free(s, t.run)
       /\ IF Selects(s, t.op, row, job[s].attempt)
          THEN /\ tx' = [tx EXCEPT ![s].phase = "commit", ![s].locks = {t.run},
                                   ![s].put = Written(t.op, t.arg, row)]
               /\ UNCHANGED job
          ELSE /\ tx' = [tx EXCEPT ![s] = NoTx]
               /\ job' = IF t.op \in Fenced THEN [job EXCEPT ![s] = NoJob] ELSE job
       /\ UNCHANGED <<setup, runs, inbox, asked, up, errors, spent>>

\* The row is written as it was read under the lock; only the time, which no
\* lock stops, may have ended its lease meanwhile.
CommitOne(s) ==
    LET t == tx[s]
    IN /\ t.phase = "commit" /\ t.op \in OneRow
       /\ inbox' = [inbox EXCEPT ![t.run] = InboxWritten(t.op, t.arg, t.run)]
       /\ runs' = [runs EXCEPT ![t.run] = [t.put EXCEPT !.lapsed = Written(t.op, t.arg, runs[t.run]).lapsed]]
       /\ asked' = IF t.op = "cancel" /\ ~CancelRefused(runs[t.run]) THEN asked \cup {t.run} ELSE asked
       /\ job' = IF t.op \in {"finish", "finalize", "retry"} THEN [job EXCEPT ![s] = NoJob] ELSE job
       /\ tx' = [tx EXCEPT ![s] = NoTx]
       /\ UNCHANGED <<setup, up, errors, spent>>

-----------------------------------------------------------------------------
(* create_run and resume_run_with_pending_steering                          *)

\* Committed rows only: what another request is about to insert is not counted.
WithinQuota ==
    /\ Cardinality({r \in Ids : Active(runs[r])}) < setup.active
    /\ Cardinality({r \in Ids : runs[r].status = "pending"}) < setup.queued

ActiveOn(thread) == {r \in Ids : thread # NoThread /\ runs[r].thread = thread /\ Active(runs[r])}
Goes(s, t) == tx' = [tx EXCEPT ![s] = t]
Only(s, t) == Goes(s, t) /\ UNCHANGED <<setup, runs, inbox, asked, job, up, errors, spent>>

\* The lookup of the key comes under the advisory lock.
KeyFree(s, key) ==
    \A q \in Sessions \ {s} :
        ~(tx[q].op = "create" /\ tx[q].phase \notin {"key", "idle"} /\ tx[q].arg.key = key)

TakeKey(s) ==
    LET t == tx[s]
    IN /\ t.phase = "key" /\ KeyFree(s, t.arg.key)
       /\ Only(s, [t EXCEPT !.phase = "look"])

\* A request whose key is known gets that run, or a conflict: nothing is written.
Look(s) ==
    LET t == tx[s]
    IN /\ t.phase = "look"
       /\ Only(s, IF \E r \in Existing : runs[r].key = t.arg.key THEN NoTx ELSE [t EXCEPT !.phase = "count"])

\* The paused run is locked and looked at again.
\* Mutant: a run that was resumed stays paused, and is resumed again.
ResumableAgain(row) == row.status = "paused"
Resumable(row) == row.status = "paused" /\ row.successor = 0

LockPaused(s) ==
    LET t == tx[s]
    IN /\ t.phase = "lock" /\ t.op = "resume" /\ Free(s, t.run)
       /\ Only(s, IF Resumable(runs[t.run])
                  THEN [t EXCEPT !.phase = "count", !.locks = {t.run}]
                  ELSE NoTx)

Count(s) ==
    LET t == tx[s]
    IN /\ t.phase = "count"
       /\ Only(s, IF WithinQuota THEN [t EXCEPT !.phase = "find"] ELSE NoTx)

\* SELECT the active runs of the thread FOR UPDATE: which rows, ...
Find(s) ==
    LET t == tx[s]
    IN /\ t.phase = "find"
       /\ Only(s, [t EXCEPT !.phase = "thread", !.todo = ActiveOn(t.arg.thread)])

\* ... and the lock of each, which is dropped from the result if it ended meanwhile.
LockThread(s) ==
    LET t == tx[s]
        r == Least(t.todo)
    IN /\ t.phase = "thread" /\ t.todo # {} /\ Free(s, r)
       /\ Only(s, [t EXCEPT !.todo = @ \ {r}, !.locks = @ \cup {r},
                            !.hit = IF Active(runs[r]) THEN @ \cup {r} ELSE @])

\* The new run, created in the order of the ids, ...
NewRun(t) ==
    [NoRow EXCEPT !.status = "pending", !.thread = t.arg.thread, !.key = t.arg.key,
                  !.origin = IF t.op = "resume" THEN t.run ELSE 0]

\* ... which takes over what is pending for the one it continues.
Moved(r) == LET order == InOrder(Pending(r))
            IN  [n \in DOMAIN order |-> inbox[r][order[n]]]
InboxMoved(old, new) == [inbox EXCEPT ![new] = Moved(old), ![old] = Disposed(old, Pending(old), "superseded")]

\* The row is inserted, which a unique index on (tenant, key) refuses when
\* the key is there.
Duplicate(t) == t.arg.key # NoKey /\ \E r \in Existing : runs[r].key = t.arg.key

Insert(s) ==
    LET t == tx[s]
        new == Least(Ids \ Existing)
        stopped == {r \in t.hit : t.arg.mode = "cancel_previous" /\ runs[r].status = "running"}
    IN /\ t.phase = "thread" /\ t.todo = {}
       /\ t.arg.mode = "reject" => t.hit = {}
       /\ IF Duplicate(t)
          THEN errors' = errors \cup {t.op} /\ UNCHANGED <<runs, inbox, asked>>
          ELSE /\ runs' = [r \in Ids |->
                     CASE r = new -> NewRun(t)
                       [] r \in stopped -> [runs[r] EXCEPT !.status = "cancelling"]
                       [] t.op = "resume" /\ r = t.run -> [runs[r] EXCEPT !.successor = new]
                       [] OTHER -> runs[r]]
               /\ inbox' = IF t.op = "resume" THEN InboxMoved(t.run, new) ELSE inbox
               /\ asked' = asked \cup stopped
               /\ UNCHANGED errors
       /\ Goes(s, NoTx)
       /\ UNCHANGED <<setup, job, up, spent>>

\* A request with the strategy reject finds its thread busy.
Reject(s) ==
    LET t == tx[s]
    IN /\ t.phase = "thread" /\ t.todo = {} /\ t.arg.mode = "reject" /\ t.hit # {}
       /\ Only(s, NoTx)

-----------------------------------------------------------------------------
(* claim_run: two sweeps, then the oldest pending run of a free thread       *)

BeginClaim(s) ==
    /\ s \in up /\ tx[s].phase = "idle" /\ job[s] = NoJob
    /\ Only(s, [NoTx EXCEPT !.op = "claim", !.phase = "sweep",
                            !.todo = {r \in Ids : runs[r].status = "running" /\ runs[r].lapsed}])

\* An UPDATE without an order takes its rows as it meets them.
SweepOne(s) ==
    LET t == tx[s]
        wanted == IF t.phase = "sweep" THEN "running" ELSE "cancelling"
    IN /\ t.phase \in {"sweep", "settle"}
       /\ \E r \in t.todo :
            /\ Free(s, r)
            /\ Only(s, [t EXCEPT !.todo = @ \ {r}, !.locks = @ \cup {r},
                                 !.hit = IF runs[r].status = wanted /\ runs[r].lapsed
                                         THEN @ \cup {r} ELSE @])

\* The next statement, for leases that ended while a cancel was pending.
Settle(s) ==
    LET t == tx[s]
    IN /\ t.phase = "sweep" /\ t.todo = {}
       /\ Only(s, [t EXCEPT !.phase = "settle",
                            !.todo = {r \in Ids \ t.hit : runs[r].status = "cancelling" /\ runs[r].lapsed}])

\* A swept row: requeued, or cancelled as it was asked to be.
Recovered(row) == IF row.status = "cancelling" THEN Released(row, "cancelled") ELSE Requeued(row)
Seen(t, r) == IF r \in t.hit THEN Recovered(runs[r]) ELSE runs[r]

Candidates(t) ==
    {r \in Ids : /\ Seen(t, r).status = "pending"
                 /\ ~\E q \in Ids : /\ runs[r].thread # NoThread /\ runs[q].thread = runs[r].thread
                                     /\ Active(Seen(t, q))}

\* FOR UPDATE SKIP LOCKED: a candidate that any other transaction has locked is
\* passed over.
Pick(s) ==
    LET t == tx[s]
        open == {r \in Candidates(t) : Free(s, r)}
    IN /\ t.phase = "settle" /\ t.todo = {}
       /\ Only(s, IF open = {} THEN [t EXCEPT !.phase = "commit"]
                  ELSE [t EXCEPT !.phase = "mark", !.run = Least(open), !.locks = @ \cup {Least(open)}])

\* The index one_active_run_per_thread: an entry that is committed refuses the
\* row; one that may still go, or come, makes the transaction wait.
Rivals(t) ==
    {q \in Ids \ {t.run} : runs[q].thread = runs[t.run].thread /\ runs[q].thread # NoThread}
Entering(s, q) ==
    \E o \in Sessions \ {s} : tx[o].op = "claim" /\ tx[o].phase = "commit" /\ tx[o].run = q

Enter(s) ==
    LET t == tx[s]
    IN /\ t.phase = "mark"
       /\ \A q \in Rivals(t) : ~Active(Seen(t, q)) /\ ~Entering(s, q)
       /\ Only(s, [t EXCEPT !.phase = "commit"])

\* UniqueViolation leaves claim_run, run_once and run_forever: the worker stops.
\* Mutant: the claim waits until the thread is free.
RaiseNever(s) == FALSE /\ UNCHANGED vars
Raise(s) ==
    LET t == tx[s]
    IN /\ t.phase = "mark" /\ \E q \in Rivals(t) : Active(Seen(t, q))
       /\ errors' = errors \cup {"claim"}
       /\ up' = up \ {s}
       /\ Goes(s, NoTx)
       /\ UNCHANGED <<setup, runs, inbox, asked, job, spent>>

\* Whom a statement waits for: who holds the rows it needs next.
WaitsFor(s) ==
    LET t == tx[s]
        needed == IF t.phase = "lock" THEN {t.run}
                  ELSE IF t.phase = "thread" /\ t.todo # {} THEN {Least(t.todo)} ELSE t.todo
    IN IF \E r \in needed : Free(s, r) THEN {}
       ELSE {q \in Sessions \ {s} : needed \cap tx[q].locks # {}}
Circle(C) == C # {} /\ \A s \in C : WaitsFor(s) \cap C # {}
InCircle(s) ==
    /\ WaitsFor(s) # {}
    /\ \E C \in SUBSET Sessions : s \in C /\ Circle(C) /\ \A D \in SUBSET (C \ {s}) : ~Circle(D)

\* The database finds that sessions wait for each other and rolls one of them
\* back.  A claim that fails ends its worker, as a UniqueViolation does.
Deadlock(s) ==
    /\ InCircle(s)
    /\ errors' = errors \cup {"deadlock"}
    /\ up' = IF tx[s].op = "claim" THEN up \ {s} ELSE up
    /\ Goes(s, NoTx)
    /\ UNCHANGED <<setup, runs, inbox, asked, job, spent>>

Claimed(row, s) ==
    [row EXCEPT !.status = "running", !.owner = s, !.lapsed = FALSE, !.attempt = @ + 1]

CommitClaim(s) ==
    LET t == tx[s]
    IN /\ t.phase = "commit" /\ t.op = "claim"
       /\ runs' = [r \in Ids |-> IF r = t.run THEN Claimed(Seen(t, r), s) ELSE Seen(t, r)]
       /\ job' = IF t.run = 0 THEN job
                 ELSE [job EXCEPT ![s] = [run |-> t.run, attempt |-> runs'[t.run].attempt]]
       /\ Goes(s, NoTx)
       /\ UNCHANGED <<setup, inbox, asked, up, errors, spent>>

-----------------------------------------------------------------------------
(* Who calls what                                                           *)

\* Bound: there is a row for every run that is being created.
Roomy == Cardinality(Existing) + Cardinality({s \in Sessions : tx[s].op \in {"create", "resume"}}) < setup.runs

\* A request of the API.
BeginCall(s) ==
    /\ s \in Clients /\ tx[s].phase = "idle" /\ spent.calls < setup.calls
    /\ \/ /\ "create" \in setup.kinds
          /\ Roomy
          /\ \E thread \in setup.threads, key \in setup.keys, mode \in setup.modes :
                Goes(s, [NoTx EXCEPT !.op = "create", !.phase = IF key = NoKey THEN "count" ELSE "key",
                                     !.arg = [thread |-> thread, key |-> key, mode |-> mode]])
       \/ /\ "resume" \in setup.kinds
          /\ \E r \in Ids, mode \in setup.modes :
                /\ runs[r].status = "paused" /\ Roomy
                /\ Goes(s, [NoTx EXCEPT !.op = "resume", !.phase = "lock", !.run = r,
                                        !.arg = [thread |-> runs[r].thread, key |-> NoKey, mode |-> mode]])
       \/ \E op \in setup.kinds \cap {"cancel", "redrive"}, r \in Ids : BeginOne(s, op, r, "none", 0)
       \/ "steer" \in setup.kinds /\ \E r \in Ids, key \in setup.keys : BeginOne(s, "steer", r, key, 0)
    /\ spent' = [spent EXCEPT !.calls = @ + 1]
    /\ UNCHANGED <<setup, runs, inbox, asked, job, up, errors>>

\* A worker writes for the run it executes: events, consumed rows, the gate, the
\* lease, and in the end the outcome.
Deliver(s) ==
    LET r == job[s].run
    IN /\ job[s] # NoJob
       /\ \/ \E op \in setup.acts \cap {"append", "heartbeat", "close", "retry"} :
                /\ op = "retry" => job[s].attempt < setup.attempts
                /\ BeginOne(s, op, r, "none", job[s].attempt)
          \/ "consume" \in setup.acts /\ Pending(r) # {} /\ BeginOne(s, "consume", r, Pending(r), job[s].attempt)
          \/ \E outcome \in setup.acts \cap {"paused", "dead_letter"} :
                BeginOne(s, "finish", r, outcome, job[s].attempt)
          \/ \E outcome \in setup.acts \cap {"succeeded", "failed", "timed_out"} :
                BeginOne(s, "finalize", r, outcome, job[s].attempt)
       /\ UNCHANGED <<setup, runs, inbox, asked, job, up, errors, spent>>

\* A worker whose fenced write finds no row is done with the run.
Lose(s) ==
    /\ job[s] # NoJob /\ tx[s].phase = "idle"
    /\ ~Selects(s, "finish", runs[job[s].run], job[s].attempt)
    /\ job' = [job EXCEPT ![s] = NoJob]
    /\ UNCHANGED <<setup, runs, inbox, asked, tx, up, errors, spent>>

\* lease_expires_at passes.
Lapse(r) ==
    /\ Active(runs[r]) /\ ~runs[r].lapsed /\ spent.lapses < setup.lapses
    /\ runs' = [runs EXCEPT ![r].lapsed = TRUE]
    /\ spent' = [spent EXCEPT !.lapses = @ + 1]
    /\ UNCHANGED <<setup, inbox, asked, tx, job, up, errors>>

\* The connection breaks and the transaction is rolled back; a worker may
\* be gone with it, and another one be started in its place.
Fail(s) ==
    /\ tx[s].phase # "idle" /\ spent.faults < setup.faults
    /\ Goes(s, NoTx)
    /\ \/ UNCHANGED <<up, job>>
       \/ s \in up /\ up' = up \ {s} /\ job' = [job EXCEPT ![s] = NoJob]
       \/ s \in up /\ UNCHANGED up /\ job' = [job EXCEPT ![s] = NoJob]
    /\ spent' = [spent EXCEPT !.faults = @ + 1]
    /\ UNCHANGED <<setup, runs, inbox, asked, errors>>

\* What the database does next for an open transaction.
Step(s) ==
    \/ LockOne(s) \/ CommitOne(s)
    \/ TakeKey(s) \/ Look(s) \/ LockPaused(s) \/ Count(s) \/ Find(s) \/ LockThread(s)
    \/ Insert(s) \/ Reject(s)
    \/ SweepOne(s) \/ Settle(s) \/ Pick(s) \/ Enter(s) \/ Raise(s) \/ CommitClaim(s)
    \/ Deadlock(s)

Next ==
    \/ \E s \in Sessions : Step(s) \/ BeginCall(s) \/ Deliver(s) \/ Lose(s) \/ BeginClaim(s) \/ Fail(s)
    \/ \E r \in Ids : Lapse(r)

Spec == Init /\ [][Next]_vars

\* The database serves every session, and grants locks in the order they were
\* asked for: who waits is not passed over for ever.
FairSpec == Spec /\ \A s \in Sessions : SF_vars(Step(s))

-----------------------------------------------------------------------------
(* Properties                                                               *)

\* No thread has two active runs, whichever rows the claims skip
\* (0001_v1.sql:78).
OneActivePerThread ==
    \A r, q \in Ids : r # q /\ runs[r].thread = runs[q].thread /\ runs[r].thread # NoThread
                      => ~(Active(runs[r]) /\ Active(runs[q]))

\* Requests with one key get one run, and none of them an error
\* (repository.py:1789).
KeysAreIdempotent ==
    /\ \A r, q \in Existing : runs[r].key = runs[q].key /\ runs[r].key # NoKey => r = q
    /\ "create" \notin errors

\* A paused run is continued by one run, which is where its inbox went
\* (repository.py:3005): no entry is open in two places.
SuccessorsMatch == \A r \in Existing : runs[r].origin # 0 => runs[runs[r].origin].successor = r
LeftEmpty ==
    \A r \in Ids : runs[r].successor # 0 \/ runs[r].status \in {"succeeded", "failed", "timed_out"}
                      => Pending(r) = {}
OpenOnce ==
    \A r, q \in Ids : \A i \in DOMAIN inbox[r], j \in DOMAIN inbox[q] :
        /\ inbox[r][i].source = inbox[q][j].source
        /\ inbox[r][i].state # "superseded" /\ inbox[q][j].state # "superseded"
        => r = q /\ i = j
OneDescendant == SuccessorsMatch /\ LeftEmpty /\ OpenOnce

\* What the locks are for: transactions that overlap do not undo each other.
IsolationHolds == OneActivePerThread /\ KeysAreIdempotent /\ OneDescendant

\* The table shows clients what the run API promises, as if every operation
\* were one step: no cancel is overwritten, nothing ends twice (RunContract).
Contract == INSTANCE RunContract WITH Runs <- Ids, status <- [r \in Ids |-> runs[r].status]
KeepsContract == Contract!Spec

\* Every transaction ends: keys and index entries are given up in the end, and
\* sessions that wait for each other's rows in a circle, which only the sweeps
\* of two claims do, are released by the database (repository.py:3404-3426).
OnlySweepsMeet == \A s \in Sessions : InCircle(s) => tx[s].op = "claim"
TransactionsEnd ==
    /\ []OnlySweepsMeet
    /\ \A s \in Sessions : []<>(tx[s].phase = "idle")

-----------------------------------------------------------------------------
(* The inductive invariant                                                  *)

Statuses == {"absent", "pending", "paused"} \cup ACTIVE \cup TERMINAL
Keys == {NoKey} \cup UNION {c.keys : c \in Setups}
Row == [status : Statuses, thread : Threads \cup {NoThread}, key : Keys,
        owner : Sessions \cup {Nobody}, lapsed : BOOLEAN, attempt : Nat, closed : BOOLEAN,
        successor : {0} \cup Ids, origin : {0} \cup Ids]
Item == [key : Keys, state : {"pending", "consumed", "superseded"}, source : Ids \X Nat]

\* A run that is not there has no row and no inbox; those asked to be cancelled
\* are the ones that will be, or are.
RowsFit ==
    /\ setup \in Setups
    /\ runs \in [Ids -> Row]
    /\ asked = {r \in Ids : runs[r].status \in {"cancelling", "cancelled"}}
    /\ \A r \in Ids \ Existing : runs[r] = NoRow /\ inbox[r] = <<>>

\* An entry is in the inbox it was sent to, or was moved on from there.
InboxesFit ==
    /\ inbox \in [Ids -> Seq(Item)]
    /\ \A r \in Ids : \A i \in DOMAIN inbox[r] :
          inbox[r][i].source[2] \in DOMAIN inbox[inbox[r][i].source[1]]

JobsFit == /\ job \in [Sessions -> [run : {0} \cup Ids, attempt : Nat]]
           /\ \A s \in Sessions : job[s] # NoJob => job[s].run \in Ids

\* Rows that agree in what the properties are about: not in their leases.
Agree(row, other) ==
    /\ row.status = other.status /\ row.thread = other.thread /\ row.key = other.key
    /\ row.successor = other.successor /\ row.origin = other.origin

\* A transaction on one row, which has not changed since it was locked.
OneFits(t) ==
    t.op \in OneRow =>
      /\ t.phase \in {"lock", "commit"} /\ t.run \in Existing
      /\ t.op = "finish" => t.arg \in {"paused", "dead_letter"}
      /\ t.op = "finalize" => t.arg \in {"succeeded", "failed", "timed_out"}
      /\ t.op = "steer" => t.arg \in Keys
      /\ t.phase = "commit" =>
            /\ t.run \in t.locks
            /\ t.op \in Fenced => Active(runs[t.run])
            /\ t.op = "redrive" => runs[t.run].status \in {"failed", "dead_letter"}
            /\ t.put \in Row /\ Agree(t.put, Written(t.op, t.arg, runs[t.run]))

\* A request that creates a run with a key has found that no run has it.
CreateFits(t) ==
    t.op = "create" =>
      /\ t.phase \in {"key", "look", "count", "find", "thread"}
      /\ t.arg.thread \in Threads /\ t.arg.key \in Keys
      /\ t.phase \in {"count", "find", "thread"} /\ t.arg.key # NoKey
            => \A r \in Existing : runs[r].key # t.arg.key

ResumeFits(t) ==
    t.op = "resume" =>
      /\ t.phase \in {"lock", "count", "find", "thread"} /\ t.run \in Existing
      /\ t.arg.thread = runs[t.run].thread /\ t.arg.key = NoKey
      /\ t.phase # "lock" => t.run \in t.locks /\ Resumable(runs[t.run])

\* A claim has locked what it swept and what it picked.
ClaimFits(t) ==
    t.op = "claim" =>
      /\ t.phase \in {"sweep", "settle", "mark", "commit"} /\ t.run \in {0} \cup Ids
      /\ \A r \in t.hit : Active(runs[r])
      /\ t.phase \in {"sweep", "settle"} => t.run = 0
      /\ t.phase = "mark" => t.run # 0
      /\ t.run # 0 => t.run \in t.locks /\ Seen(t, t.run).status = "pending"
      /\ t.phase = "commit" /\ t.run # 0 => \A q \in Rivals(t) : ~Active(Seen(t, q))

TxFits(t) ==
    /\ t = [op |-> t.op, phase |-> t.phase, run |-> t.run, arg |-> t.arg,
            locks |-> t.locks, todo |-> t.todo, hit |-> t.hit, put |-> t.put]
    /\ t.op \in {"none", "create", "resume", "claim"} \cup OneRow
    /\ t.op = "none" \/ t.phase = "idle" => t = NoTx
    /\ t.locks \subseteq Existing /\ t.todo \subseteq Existing /\ t.hit \subseteq t.locks
    /\ t.phase = "lock" => t.locks = {}
    /\ OneFits(t) /\ CreateFits(t) /\ ResumeFits(t) /\ ClaimFits(t)

\* What two sessions may not both have: the lock of a row, the advisory lock of
\* a key, an entry in the index one_active_run_per_thread.
LocksExclude(t, u) == t.locks \cap u.locks = {}
KeyHeld(t) == t.op = "create" /\ t.phase # "key" /\ t.arg.key # NoKey
KeysExclude(t, u) == KeyHeld(t) /\ KeyHeld(u) => t.arg.key # u.arg.key
Enters(t) == t.op = "claim" /\ t.phase = "commit" /\ t.run # 0
EntriesExclude(t, u) ==
    Enters(t) /\ Enters(u) => \/ runs[t.run].thread = NoThread
                             \/ runs[t.run].thread # runs[u.run].thread

TxsFit == /\ DOMAIN tx = Sessions
          /\ \A s \in Sessions : TxFits(tx[s])
          /\ \A s \in Sessions : \A o \in Sessions \ {s} :
                /\ LocksExclude(tx[s], tx[o])
                /\ KeysExclude(tx[s], tx[o])
                /\ EntriesExclude(tx[s], tx[o])

\* There is a row for every run that is being created.
Creating == {s \in Sessions : tx[s].op \in {"create", "resume"}}
RoomFits == Cardinality(Existing) + Cardinality(Creating) <= setup.runs

PgInv == RowsFit /\ InboxesFit /\ JobsFit /\ TxsFit /\ RoomFits /\ IsolationHolds

-----------------------------------------------------------------------------
(* A statement of the documents that the code does not keep                 *)

\* "enqueue: by default, waits in the order of creation"
\* (docs/architecture.md:124): no run starts while an older one of its thread
\* has never started.
StartsInOrder ==
    [][\A r, q \in Ids :
         /\ q < r /\ runs[q].thread = runs[r].thread /\ runs[r].thread # NoThread
         /\ runs[r].status = "pending" /\ runs'[r].status = "running"
         => ~(runs[q].status = "pending" /\ runs[q].attempt = 0)]_vars

\* No document promises it, and it does not hold: two workers that sweep the
\* rows of two threads in different orders may deadlock, and one of them stops.
NeverDeadlocks == "deadlock" \notin errors
=============================================================================
