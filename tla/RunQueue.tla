------------------------------ MODULE RunQueue ------------------------------
(***************************************************************************)
(* The durable run queue of the Agent Server and the workers that deliver  *)
(* its runs: server/repository.py (runs table) and server/worker.py.        *)
(*                                                                         *)
(* Every repository operation is one critical section in the source (an    *)
(* asyncio.Lock in InMemoryRepository, a row-locking transaction in         *)
(* PostgresRepository), hence one action here.  A worker awaits between     *)
(* two operations, so its delivery is a sequence of actions that the API,   *)
(* the other workers, the clock and a crash may interleave with.            *)
(*                                                                         *)
(* Wall-clock time is reduced to whether a lease has expired.  Steering     *)
(* rows, run events and payloads are left to module Steering, whose actions *)
(* are conjunctions with the ones below.                                    *)
(***************************************************************************)
EXTENDS Integers, FiniteSets

CONSTANTS
  MaxRuns,         \* bound: number of runs ever created
  Workers,         \* worker processes; an identity is host:uuid4, never reused
  Mortal,          \* the workers that may crash or be told to drain
  Threads,         \* the thread_id values of run requests
  NoThread,        \* thread_id = None, a stateless run; may be one of Threads
  NoWorker,        \* lease_owner = None
  MaxActive,       \* RepositoryLimits.max_active_runs
  MaxQueued,       \* RepositoryLimits.max_queued_runs
  MaxDelivery,     \* Worker.max_delivery_attempts
  Outcomes,        \* bound: how graphs end when neither cancelled nor retried
  TokenTrips,      \* may a graph's own executor trip its cancellation token?
  MaxLapses,       \* bound: leases that expire under a worker still alive
  MaxRedrives      \* bound: operator redrives

Runs == 1 .. MaxRuns            \* a run is named by its rank in created_at

ASSUME BoundsAssumption ==
  /\ MaxRuns \in Nat /\ MaxActive \in Nat /\ MaxQueued \in Nat
  /\ MaxLapses \in Nat /\ MaxRedrives \in Nat
  /\ MaxDelivery \in Nat \ {0}
ASSUME NamesAssumption ==
  /\ NoWorker \notin Workers
  /\ Outcomes \subseteq {"succeeded", "paused", "failed", "timed_out"}
  /\ Mortal \subseteq Workers
  /\ TokenTrips \in BOOLEAN

VARIABLES
  created,         \* number of runs created so far
  status,          \* Run.status, or "absent" before the run is created
  thread,          \* Run.thread_id
  owner,           \* Run.lease_owner
  lease,           \* Run.lease_expires_at: none, still ahead, or passed
  attempt,         \* Run.attempt
  closed,          \* Run.steering_closed
  successor,       \* Run.superseded_by_run_id, 0 for None
  origin,          \* Run.metadata.resumed_from_run_id, 0 for None
  asked,           \* history: runs for which a cancel request was accepted
  pc,              \* where a worker is in run_once / _execute
  held,            \* the run a worker was handed by claim_run, 0 for none
  heldAttempt,     \* Run.attempt in that worker's copy of the run
  token,           \* CancellationToken of the delivery
  intent,          \* Worker._Intent once the graph has ended
  draining,        \* Worker._stop
  tripped,         \* history: workers whose graph tripped the token itself
  lapses,          \* counts against MaxLapses
  redrives         \* counts against MaxRedrives

runVars    == <<created, status, thread, owner, lease, attempt, closed,
                successor, origin, asked>>
workerVars == <<pc, held, heldAttempt, token, intent, draining, tripped>>
boundVars  == <<lapses, redrives>>
vars       == <<runVars, workerVars, boundVars>>

ACTIVE   == {"running", "cancelling"}
TERMINAL == {"succeeded", "failed", "cancelled", "timed_out", "dead_letter"}
Statuses == {"absent", "pending", "paused"} \cup ACTIVE \cup TERMINAL

\* The outcomes _execute can settle on; "retry" is _Intent(kind="retry").
Intents == {"paused", "retry"} \cup TERMINAL

Phases == {"idle",        \* between deliveries
           "executing",   \* the graph runs, the heartbeat task beside it
           "closing",     \* about to call close_steering
           "flushing",    \* in _final_steering_flush, lease renewal beside it
           "committing",  \* flush done, about to write the intent
           "bailing",     \* flush given up, in _retry_or_dead_letter
           "dead"}        \* the process is gone

TypeOK ==
  /\ created \in 0 .. MaxRuns
  /\ status \in [Runs -> Statuses]
  /\ thread \in [Runs -> Threads \cup {NoThread}]
  /\ owner \in [Runs -> Workers \cup {NoWorker}]
  /\ lease \in [Runs -> {"none", "live", "expired"}]
  /\ attempt \in [Runs -> Nat]
  /\ closed \in [Runs -> BOOLEAN]
  /\ successor \in [Runs -> 0 .. MaxRuns]
  /\ origin \in [Runs -> 0 .. MaxRuns]
  /\ asked \in SUBSET Runs
  /\ pc \in [Workers -> Phases]
  /\ held \in [Workers -> 0 .. MaxRuns]
  /\ heldAttempt \in [Workers -> Nat]
  /\ token \in [Workers -> BOOLEAN]
  /\ intent \in [Workers -> Intents \cup {"none"}]
  /\ draining \in [Workers -> BOOLEAN]
  /\ tripped \in SUBSET Workers
  /\ lapses \in Nat
  /\ redrives \in Nat

Init ==
  /\ created = 0
  /\ status = [r \in Runs |-> "absent"]
  /\ thread = [r \in Runs |-> NoThread]
  /\ owner = [r \in Runs |-> NoWorker]
  /\ lease = [r \in Runs |-> "none"]
  /\ attempt = [r \in Runs |-> 0]
  /\ closed = [r \in Runs |-> FALSE]
  /\ successor = [r \in Runs |-> 0]
  /\ origin = [r \in Runs |-> 0]
  /\ asked = {}
  /\ pc = [w \in Workers |-> "idle"]
  /\ held = [w \in Workers |-> 0]
  /\ heldAttempt = [w \in Workers |-> 0]
  /\ token = [w \in Workers |-> FALSE]
  /\ intent = [w \in Workers |-> "none"]
  /\ draining = [w \in Workers |-> FALSE]
  /\ tripped = {}
  /\ lapses = 0
  /\ redrives = 0

-----------------------------------------------------------------------------
(* Creating and resuming runs                                               *)

ActiveRuns == {r \in Runs : status[r] \in ACTIVE}
Queued     == {r \in Runs : status[r] = "pending"}

\* The active runs of a thread; a stateless run shares its thread with none.
ActiveOn(t) == {r \in ActiveRuns : t # NoThread /\ thread[r] = t}

\* _create_run_locked refuses a run beyond either tenant quota.
WithinQuota == /\ Cardinality(ActiveRuns) < MaxActive
               /\ Cardinality(Queued) < MaxQueued

\* A replayed Idempotency-Key returns the existing run, or a conflict, and
\* changes nothing: it is a stuttering step here.
CreateRun(t, strategy) ==
  LET r == created + 1
      previous == IF strategy = "cancel_previous" THEN ActiveOn(t) ELSE {}
  IN  /\ created < MaxRuns
      /\ WithinQuota
      /\ strategy = "reject" => ActiveOn(t) = {}
      /\ created' = r
      /\ status' = [q \in Runs |-> IF q = r THEN "pending"
                                   ELSE IF q \in previous THEN "cancelling"
                                   ELSE status[q]]
      /\ thread' = [thread EXCEPT ![r] = t]
      /\ asked' = asked \cup previous
      /\ UNCHANGED <<owner, lease, attempt, closed, successor, origin,
                     workerVars, boundVars>>

\* Mutant: the check of superseded_by_run_id under the lock is dropped.
ResumableTwice(r) == status[r] = "paused"

Resumable(r) == status[r] = "paused" /\ successor[r] = 0

\* The resumed run inherits the thread and queues behind its other runs.
Resume(r) ==
  LET new == created + 1
  IN  /\ created < MaxRuns
      /\ Resumable(r)
      /\ WithinQuota
      /\ created' = new
      /\ status' = [status EXCEPT ![new] = "pending"]
      /\ thread' = [thread EXCEPT ![new] = thread[r]]
      /\ origin' = [origin EXCEPT ![new] = r]
      /\ successor' = [successor EXCEPT ![r] = new]
      /\ UNCHANGED <<owner, lease, attempt, closed, asked,
                     workerVars, boundVars>>

-----------------------------------------------------------------------------
(* Control requests on an existing run                                      *)

RequestCancel(r) ==
  /\ status[r] \in {"pending", "paused", "running"}
  /\ successor[r] = 0
  /\ status' = [status EXCEPT ![r] =
                  IF status[r] = "running" THEN "cancelling" ELSE "cancelled"]
  /\ asked' = asked \cup {r}
  /\ UNCHANGED <<created, thread, owner, lease, attempt, closed, successor,
                 origin, workerVars, boundVars>>

Redrive(r) ==
  /\ redrives < MaxRedrives
  /\ status[r] \in {"failed", "dead_letter"}
  /\ status' = [status EXCEPT ![r] = "pending"]
  /\ attempt' = [attempt EXCEPT ![r] = 0]
  /\ owner' = [owner EXCEPT ![r] = NoWorker]
  /\ lease' = [lease EXCEPT ![r] = "none"]
  /\ closed' = [closed EXCEPT ![r] = FALSE]
  /\ redrives' = redrives + 1
  /\ UNCHANGED <<created, thread, successor, origin, asked, workerVars, lapses>>

-----------------------------------------------------------------------------
(* claim_run: recover every expired lease, then hand out the oldest pending  *)
(* run whose thread has no active run.                                       *)

\* Mutant: lease recovery overlooks cancelling runs.
LapsedRunning(r, s) == lease[r] = "expired" /\ status[r] = s /\ s = "running"

Lapsed(r, s) == lease[r] = "expired" /\ status[r] = s

SweptStatus == [r \in Runs |-> IF Lapsed(r, "running") THEN "pending"
                               ELSE IF Lapsed(r, "cancelling") THEN "cancelled"
                               ELSE status[r]]
Recovered == {r \in Runs : Lapsed(r, "running") \/ Lapsed(r, "cancelling")}

\* Mutant: a run that is being cancelled does not block its thread.
ClaimableBesideCancelling(r) ==
  /\ SweptStatus[r] = "pending"
  /\ thread[r] # NoThread =>
       \A q \in Runs : SweptStatus[q] = "running" => thread[q] # thread[r]

\* Mutant: a paused run blocks its thread, the run that resumes it included.
ClaimableUnlessPaused(r) ==
  /\ SweptStatus[r] = "pending"
  /\ thread[r] # NoThread =>
       \A q \in Runs : SweptStatus[q] \in ACTIVE \cup {"paused"}
                         => thread[q] # thread[r]

Claimable(r) ==
  /\ SweptStatus[r] = "pending"
  /\ thread[r] # NoThread =>
       \A q \in Runs : SweptStatus[q] \in ACTIVE => thread[q] # thread[r]

ClaimRun(w) ==
  /\ pc[w] = "idle" /\ ~draining[w]
  /\ \E r \in Runs :
       /\ Claimable(r)
       /\ \A q \in Runs : Claimable(q) => r <= q
       /\ status' = [SweptStatus EXCEPT ![r] = "running"]
       /\ owner' = [q \in Runs |-> IF q = r THEN w
                                   ELSE IF q \in Recovered THEN NoWorker
                                   ELSE owner[q]]
       /\ lease' = [q \in Runs |-> IF q = r THEN "live"
                                   ELSE IF q \in Recovered THEN "none"
                                   ELSE lease[q]]
       /\ closed' = [q \in Runs |-> closed[q] /\ ~Lapsed(q, "running")]
       /\ attempt' = [attempt EXCEPT ![r] = attempt[r] + 1]
       /\ held' = [held EXCEPT ![w] = r]
       /\ heldAttempt' = [heldAttempt EXCEPT ![w] = attempt[r] + 1]
  /\ pc' = [pc EXCEPT ![w] = "executing"]
  /\ UNCHANGED <<created, thread, successor, origin, asked,
                 token, intent, draining, tripped, boundVars>>

\* claim_run commits its sweep even when it finds nothing to hand out.
SweepOnly(w) ==
  /\ pc[w] = "idle" /\ ~draining[w]
  /\ Recovered # {}
  /\ \A r \in Runs : ~Claimable(r)
  /\ status' = SweptStatus
  /\ owner' = [q \in Runs |-> IF q \in Recovered THEN NoWorker ELSE owner[q]]
  /\ lease' = [q \in Runs |-> IF q \in Recovered THEN "none" ELSE lease[q]]
  /\ closed' = [q \in Runs |-> closed[q] /\ ~Lapsed(q, "running")]
  /\ UNCHANGED <<created, thread, attempt, successor, origin, asked,
                 workerVars, boundVars>>

-----------------------------------------------------------------------------
(* The delivery of a run: Worker._execute                                    *)

\* Mutant: the fence compares the attempt only.
OwnsByAttempt(w) ==
  /\ held[w] # 0
  /\ attempt[held[w]] = heldAttempt[w]
  /\ status[held[w]] \in ACTIVE

\* The fence of every *_if_owned operation.
Owns(w) ==
  /\ held[w] # 0
  /\ owner[held[w]] = w
  /\ attempt[held[w]] = heldAttempt[w]
  /\ status[held[w]] \in ACTIVE

\* Mutant: heartbeat takes an expired lease that nobody reclaimed for lost.
BeatsInTime(w) ==
  /\ held[w] # 0
  /\ owner[held[w]] = w /\ lease[held[w]] = "live"
  /\ status[held[w]] \in ACTIVE

\* The fence of heartbeat, which does not compare the attempt.
Beats(w) ==
  /\ held[w] # 0
  /\ owner[held[w]] = w
  /\ status[held[w]] \in ACTIVE

\* The end of _execute: the worker forgets the delivery.
Done(w) ==
  /\ pc' = [pc EXCEPT ![w] = "idle"]
  /\ held' = [held EXCEPT ![w] = 0]
  /\ heldAttempt' = [heldAttempt EXCEPT ![w] = 0]
  /\ token' = [token EXCEPT ![w] = FALSE]
  /\ intent' = [intent EXCEPT ![w] = "none"]
  /\ tripped' = tripped \ {w}
  /\ UNCHANGED draining

At(w, phase, next) ==
  /\ pc[w] = phase
  /\ pc' = [pc EXCEPT ![w] = next]
  /\ UNCHANGED <<held, heldAttempt, token, draining, tripped>>

\* Heartbeat, and the renewal loop that replaces it while finalizing.
RenewLease(w) ==
  /\ pc[w] \in {"executing", "flushing", "committing", "bailing"}
  /\ Beats(w)
  /\ lease' = [lease EXCEPT ![held[w]] = "live"]
  /\ UNCHANGED <<created, status, thread, owner, attempt, closed, successor,
                 origin, asked, workerVars, boundVars>>

\* The heartbeat trips the token when it reads a cancel request, or when the
\* lease turns out to be lost.
NoticeCancel(w) ==
  /\ pc[w] = "executing"
  /\ \/ status[held[w]] \in {"cancelling", "cancelled"}
     \/ ~Beats(w)
  /\ token' = [token EXCEPT ![w] = TRUE]
  /\ UNCHANGED <<runVars, pc, held, heldAttempt, intent, draining, tripped, boundVars>>

\* A subgraph shares the token of its run, and its executor cancels the token
\* when one of the subgraph's supersteps fails or exceeds step_timeout.  To
\* cancel a token that is cancelled changes nothing.
TripToken(w) ==
  /\ TokenTrips
  /\ pc[w] = "executing" /\ ~token[w]
  /\ token' = [token EXCEPT ![w] = TRUE]
  /\ tripped' = tripped \cup {w}
  /\ UNCHANGED <<runVars, pc, held, heldAttempt, intent, draining, boundVars>>

\* What the graph may end with.  GraphCancelledError needs a tripped token,
\* and a retryable error is a retry only while attempts remain.
Endings(w) ==
  Outcomes
    \cup (IF token[w] THEN {"cancelled"} ELSE {})
    \cup (IF heldAttempt[w] < MaxDelivery THEN {"retry"} ELSE {"dead_letter"})

\* Only a terminal outcome closes steering admission.
Closing(i) == i \in TERMINAL

GraphEnds(w) ==
  \E i \in Endings(w) :
    /\ At(w, "executing", IF Closing(i) THEN "closing" ELSE "flushing")
    /\ intent' = [intent EXCEPT ![w] = i]
    /\ UNCHANGED <<runVars, boundVars>>

CloseSteering(w) ==
  /\ At(w, "closing", "flushing")
  /\ Owns(w)
  /\ closed' = [closed EXCEPT ![held[w]] = TRUE]
  /\ UNCHANGED <<created, status, thread, owner, lease, attempt, successor,
                 origin, asked, intent, boundVars>>

\* The final flush succeeds, or has nothing to write.
FlushDone(w) ==
  /\ At(w, "flushing", "committing")
  /\ UNCHANGED <<runVars, intent, boundVars>>

\* The final flush gives up: the lease is lost, or the worker is draining.
FlushGivesUp(w) ==
  /\ At(w, "flushing", "bailing")
  /\ draining[w] \/ ~Owns(w)
  /\ UNCHANGED <<runVars, intent, boundVars>>

-----------------------------------------------------------------------------
(* Writing the outcome                                                      *)

\* Mutant: the outcome of the delivery beats a cancel request.
CancelLoses(r, s) == s

\* A cancel request beats whatever status the worker meant to write.
CancelWins(r, s) == IF status[r] = "cancelling" THEN "cancelled" ELSE s

Release(r, s) ==
  /\ status' = [status EXCEPT ![r] = s]
  /\ owner' = [owner EXCEPT ![r] = NoWorker]
  /\ lease' = [lease EXCEPT ![r] = "none"]
  /\ UNCHANGED <<created, thread, attempt, successor, origin, asked, boundVars>>

FinishIfOwned(w, s) ==
  /\ Owns(w)
  /\ Release(held[w], CancelWins(held[w], s))
  /\ UNCHANGED closed
  /\ Done(w)

\* Mutant: the gate the delivery closed is not opened for the next one.
RetryKeepsGate(w) ==
  /\ Owns(w)
  /\ Release(held[w], CancelWins(held[w], "pending"))
  /\ UNCHANGED closed
  /\ Done(w)

RetryIfOwned(w) ==
  /\ Owns(w)
  /\ Release(held[w], CancelWins(held[w], "pending"))
  /\ closed' = [closed EXCEPT ![held[w]] = @ /\ status[held[w]] = "cancelling"]
  /\ Done(w)

\* finalize_run_with_steering_disposition_if_owned
FinalizeRun(w) ==
  /\ pc[w] = "committing" /\ Closing(intent[w])
  /\ FinishIfOwned(w, intent[w])

PauseRun(w) ==
  /\ pc[w] = "committing" /\ intent[w] = "paused"
  /\ FinishIfOwned(w, "paused")

RetryRun(w) ==
  /\ \/ pc[w] = "committing" /\ intent[w] = "retry"
     \/ pc[w] = "bailing" /\ heldAttempt[w] < MaxDelivery
  /\ RetryIfOwned(w)

DeadLetter(w) ==
  /\ pc[w] = "bailing" /\ heldAttempt[w] >= MaxDelivery
  /\ FinishIfOwned(w, "dead_letter")

\* A fenced write that finds the lease lost writes nothing.
Abandon(w) ==
  /\ pc[w] \in {"closing", "committing", "bailing"}
  /\ ~Owns(w)
  /\ Done(w)
  /\ UNCHANGED <<runVars, boundVars>>

-----------------------------------------------------------------------------
(* The clock, crashes and shutdown                                          *)

Expire(r) ==
  /\ lease[r] = "live"
  /\ lease' = [lease EXCEPT ![r] = "expired"]
  /\ UNCHANGED <<created, status, thread, owner, attempt, closed, successor,
                 origin, asked, workerVars, redrives>>

\* Nobody renews the lease of a dead worker.
OrphanLapses(r) ==
  /\ owner[r] \in Workers /\ pc[owner[r]] = "dead"
  /\ Expire(r)
  /\ UNCHANGED lapses

\* A stalled event loop, a partition, or a heartbeat task that an exception
\* ended lets the lease pass while the worker goes on.
StalledLapses(r) ==
  /\ owner[r] \in Workers /\ pc[owner[r]] # "dead"
  /\ lapses < MaxLapses
  /\ Expire(r)
  /\ lapses' = lapses + 1

Crash(w) ==
  /\ w \in Mortal /\ pc[w] # "dead"
  /\ pc' = [pc EXCEPT ![w] = "dead"]
  /\ held' = [held EXCEPT ![w] = 0]
  /\ heldAttempt' = [heldAttempt EXCEPT ![w] = 0]
  /\ token' = [token EXCEPT ![w] = FALSE]
  /\ intent' = [intent EXCEPT ![w] = "none"]
  /\ tripped' = tripped \ {w}
  /\ UNCHANGED <<runVars, draining, boundVars>>

\* SIGTERM: no further claim, the delivery in progress goes on.
Drain(w) ==
  /\ w \in Mortal /\ pc[w] # "dead" /\ ~draining[w]
  /\ draining' = [draining EXCEPT ![w] = TRUE]
  /\ UNCHANGED <<runVars, pc, held, heldAttempt, token, intent, tripped, boundVars>>

-----------------------------------------------------------------------------
Strategies == {"enqueue", "reject", "cancel_previous"}

\* What one worker does next on its own account.
Progress(w) ==
  \/ ClaimRun(w) \/ SweepOnly(w)
  \/ GraphEnds(w) \/ CloseSteering(w) \/ FlushDone(w) \/ FlushGivesUp(w)
  \/ FinalizeRun(w) \/ PauseRun(w) \/ RetryRun(w) \/ DeadLetter(w)
  \/ Abandon(w)

Worker(w) == Progress(w) \/ RenewLease(w) \/ NoticeCancel(w) \/ TripToken(w)

Client ==
  \/ \E t \in Threads, s \in Strategies : CreateRun(t, s)
  \/ \E r \in Runs : Resume(r) \/ RequestCancel(r) \/ Redrive(r)

Environment ==
  \/ \E r \in Runs : OrphanLapses(r) \/ StalledLapses(r)
  \/ \E w \in Mortal : Crash(w) \/ Drain(w)

Next == Client \/ Environment \/ \E w \in Workers : Worker(w)

\* A live worker keeps working, nodes end, and time passes for the dead.
Fairness ==
  /\ \A w \in Workers : WF_vars(Progress(w))
  /\ \A r \in Runs : WF_vars(OrphanLapses(r))

SafetySpec == Init /\ [][Next]_vars
Spec       == SafetySpec /\ Fairness

-----------------------------------------------------------------------------
(* Safety                                                                   *)

\* Two runs of one thread are never executed at the same time: their graphs
\* would read and write the same checkpoints (claim_run, create_run and the
\* index one_active_run_per_thread).
OneActivePerThread ==
  \A r, q \in Runs :
    /\ r # q /\ thread[r] = thread[q] /\ thread[r] # NoThread
    /\ status[r] \in ACTIVE
    => status[q] \notin ACTIVE

\* Exactly the active runs carry a lease.  An active run without one would
\* never be recovered by claim_run and would block its thread for good.
ActiveIffLeased ==
  \A r \in Runs :
    /\ status[r] \in ACTIVE <=> owner[r] # NoWorker
    /\ status[r] \in ACTIVE <=> lease[r] # "none"

\* The steering gate that one delivery closes never stays closed for another:
\* a run that waits, is parked, or whose graph is executing under the current
\* lease admits steering (close_steering, and every reset of steering_closed).
GateOpenWhileDeliverable ==
  /\ \A r \in Runs : status[r] \in {"absent", "pending", "paused"} => ~closed[r]
  /\ \A w \in Workers : pc[w] = "executing" /\ Owns(w) => ~closed[held[w]]

\* A paused run is continued by one descendant at most, whatever resume,
\* cancel and claim requests race (resume_run_with_pending_steering), and the
\* run that was continued can neither be cancelled nor resumed itself.
OneContinuation ==
  /\ \A q, p \in Runs : origin[q] # 0 /\ origin[q] = origin[p] => q = p
  /\ \A r \in Runs :
       successor[r] # 0 => status[r] = "paused" /\ origin[successor[r]] = r

\* A run ends cancelled only when a cancel request was accepted for it, or when
\* a child graph of the delivery that owns it tripped the token it shares with
\* its parent (executor.py:1336 and 1344): never because a lease lapsed or a
\* worker died.
Tripped(r) == \E w \in tripped : held[w] = r /\ Owns(w)
CancelledForAReason ==
  [][\A r \in Runs :
       status[r] # "cancelled" /\ status'[r] = "cancelled" => r \in asked' \/ Tripped(r)]_vars

\* A tenant never has more active runs than max_active_runs.
ActiveWithinQuota == Cardinality(ActiveRuns) <= MaxActive

\* A run is not delivered again once max_delivery_attempts are used up.
DeliveryBudget == \A r \in Runs : attempt[r] <= MaxDelivery

-----------------------------------------------------------------------------
(* The inductive invariant behind the safety properties                     *)

\* Nothing is known of a run before it is created.
UncreatedIsBlank ==
  \A r \in Runs :
    /\ status[r] = "absent" <=> r > created
    /\ status[r] = "absent" => successor[r] = 0 /\ origin[r] = 0

\* A worker holds a run exactly while it delivers one, and starts it untripped.
BusyIffHolding ==
  \A w \in Workers : /\ pc[w] \in {"idle", "dead"} <=> held[w] = 0
                     /\ pc[w] = "idle" => ~token[w]

\* The lease owner, unless it died, is delivering this very attempt.
OwnerIsDelivering ==
  \A r \in Runs, w \in Workers :
    owner[r] = w /\ pc[w] # "dead" => held[w] = r /\ heldAttempt[w] = attempt[r]

\* The gate is shut only behind a graph that ended for good.
GateShutByFinalizer ==
  /\ \A r \in Runs : status[r] \in {"absent", "pending", "paused"} => ~closed[r]
  /\ \A w \in Workers : pc[w] = "closing" => Closing(intent[w])
  /\ \A w \in Workers :
       Owns(w) /\ closed[held[w]]
       => pc[w] \in {"flushing", "committing", "bailing"} /\ Closing(intent[w])

\* The owner's token is tripped by a cancel request or by the graph itself.
TokenMeansCancel ==
  \A w \in Workers :
    /\ intent[w] = "cancelled" => token[w]
    /\ Owns(w) /\ token[w] => status[held[w]] = "cancelling" \/ w \in tripped

\* A cancel request and the status it leads to go together.
CancelTracked ==
  \A r \in Runs :
    /\ r \in asked => status[r] \in {"cancelling", "cancelled"}
    /\ status[r] = "cancelling" => r \in asked

\* superseded_by_run_id and resumed_from_run_id point at each other.
LineageIsMutual ==
  \A r \in Runs :
    /\ successor[r] # 0 => status[r] = "paused" /\ origin[successor[r]] = r
    /\ origin[r] # 0 => successor[origin[r]] = r

\* Every reachable state satisfies all of it, and it is preserved by each step.
IndInv ==
  /\ TypeOK /\ UncreatedIsBlank /\ BusyIffHolding
  /\ OneActivePerThread /\ ActiveIffLeased /\ OwnerIsDelivering
  /\ GateShutByFinalizer /\ TokenMeansCancel /\ CancelTracked /\ LineageIsMutual

-----------------------------------------------------------------------------
(* Action properties                                                        *)

\* A delivery that lost its lease never passes the fence again, although
\* redrive resets the attempt counter the fence compares.
LostLeaseStaysLost ==
  [][\A w \in Workers :
       held[w] # 0 /\ held'[w] = held[w] /\ ~Owns(w) => ~Owns(w)']_vars

-----------------------------------------------------------------------------
(* Liveness                                                                 *)

\* An accepted cancel ends the run, even when its worker dies or stalls.
CancelTakesEffect == \A r \in Runs : r \in asked ~> status[r] = "cancelled"

\* A queued run is eventually handed to a worker or cancelled: no crash, lost
\* lease or cancel wedges the thread it waits on.
QueuedRunsAreServed == \A r \in Runs : status[r] = "pending" ~> status[r] # "pending"

-----------------------------------------------------------------------------
(* Refinement                                                               *)

Contract == INSTANCE RunContract

\* The queue and its workers implement what the run API promises.
ImplementsContract == Contract!Spec
=============================================================================
