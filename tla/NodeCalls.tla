------------------------------ MODULE NodeCalls ------------------------------
(***************************************************************************)
(* How one task of a superstep is carried out (graph/executor.py,          *)
(* _run_task, _execute_task, _attempt, _call): the node's concurrency      *)
(* limit, its middleware, the result cache, the attempts of its retry      *)
(* policy with their delays, its timeout, and cancellation.  A body of an  *)
(* async node ends when the call is cancelled; the body of a sync node is  *)
(* a thread that nothing can stop.                                         *)
(*                                                                         *)
(* Time is abstract: a timeout, the end of a delay and the expiry of a     *)
(* cache entry are steps of their own.  The random part of a delay         *)
(* (jitter) is left out.                                                   *)
(***************************************************************************)
EXTENDS Integers, FiniteSets, FiniteSetsExt

CONSTANTS
    Tasks,          \* the tasks of the superstep
    NodeOf,         \* the node of a task
    ArgOf,          \* the argument of a task, as far as the cache key sees it
    Limit,          \* max_concurrency of the nodes; 0: none
    MaxAttempts,    \* RetryPolicy.max_attempts; 1: no policy
    RetryOn,        \* RetryPolicy.retry_on, as a set of failures
    InitialInterval, BackoffFactor, MaxInterval,
    HasTimeout,     \* the nodes have a timeout
    Threads,        \* the nodes that are plain functions, run in threads
    Outcomes,       \* how a body may end
    CacheHangs,     \* the cache may never answer
    Supersteps      \* bound: supersteps of the run

ASSUME NodeCallsAssumption ==
    /\ IsFiniteSet(Tasks) /\ Limit \in Nat /\ MaxAttempts \in Nat \ {0}
    /\ InitialInterval \in Nat /\ MaxInterval \in Nat /\ BackoffFactor \in Nat \ {0}
    /\ HasTimeout \in BOOLEAN /\ CacheHangs \in BOOLEAN /\ Supersteps \in Nat \ {0}

VARIABLES
    phase,      \* where the coroutine of a task is
    attempt,    \* the attempt it is at
    interval,   \* the next delay
    delay,      \* the delay before the current attempt
    signal,     \* what ended the attempt before the current one
    outcome,    \* what the task ended with
    bodies,     \* the bodies that are running
    cache,      \* results by cache key
    cancelled,  \* the cancellation token
    superstep

vars == <<phase, attempt, interval, delay, signal, outcome, bodies, cache, cancelled, superstep>>

Failures == {"error", "fatal", "budget", "timeout", "cancelled"}
None == [kind |-> "none"]
Ended(kind) == [kind |-> kind]
Answer(t, kind) == [kind |-> kind, node |-> NodeOf[t], arg |-> ArgOf[t], step |-> superstep]
Body(t) == [task |-> t, attempt |-> attempt[t], step |-> superstep]
BodiesOf(node) == {b \in bodies : NodeOf[b.task] = node}

\* Mutant: the key leaves the node out.
KeyOfArgument(t) == <<ArgOf[t]>>
Key(t) == <<NodeOf[t], ArgOf[t]>>
Cacheable(kind) == kind = "mapping"

Fresh ==
    /\ phase' = [t \in Tasks |-> "queued"] /\ attempt' = [t \in Tasks |-> 1]
    /\ interval' = [t \in Tasks |-> InitialInterval] /\ delay' = [t \in Tasks |-> 0]
    /\ signal' = [t \in Tasks |-> "none"] /\ outcome' = [t \in Tasks |-> None]

Init ==
    /\ phase = [t \in Tasks |-> "queued"] /\ attempt = [t \in Tasks |-> 1]
    /\ interval = [t \in Tasks |-> InitialInterval] /\ delay = [t \in Tasks |-> 0]
    /\ signal = [t \in Tasks |-> "none"] /\ outcome = [t \in Tasks |-> None]
    /\ bodies = {} /\ cancelled = FALSE /\ superstep = 1
    /\ cache = [k \in {} |-> None]

Go(t, to) == phase' = [phase EXCEPT ![t] = to]
End(t, result) == Go(t, "over") /\ outcome' = [outcome EXCEPT ![t] = result]
Kept == <<attempt, interval, delay, signal>>

\* Mutant: a task that has ended keeps its place in the semaphore.
HoldersForGood(node) == {t \in Tasks : NodeOf[t] = node /\ phase[t] # "queued"}
\* The tasks that are inside the node's semaphore.
Holders(node) == {t \in Tasks : NodeOf[t] = node /\ phase[t] \notin {"queued", "over"}}
Admitted(node) == Limit > 0 => Cardinality(Holders(node)) < Limit

(***************************************************************************)
(* A task enters its node's semaphore, is refused when the run has been    *)
(* cancelled, and runs the node's before_node hooks, which may raise.      *)
(***************************************************************************)
Enter(t) ==
    /\ phase[t] = "queued" /\ Admitted(NodeOf[t])
    /\ \/ cancelled /\ End(t, Ended("cancelled"))
       \/ ~cancelled /\ Go(t, "looking") /\ UNCHANGED outcome
       \/ ~cancelled /\ "error" \in Outcomes /\ End(t, Ended("error"))
    /\ UNCHANGED <<Kept, bodies, cache, cancelled, superstep>>

\* A cache that fails is a cache that has nothing.
CacheHit(t) ==
    /\ phase[t] = "looking" /\ Key(t) \in DOMAIN cache
    /\ End(t, cache[Key(t)])
    /\ UNCHANGED <<Kept, bodies, cache, cancelled, superstep>>
CacheMiss(t) ==
    /\ phase[t] = "looking" /\ Go(t, "ready")
    /\ UNCHANGED <<Kept, outcome, bodies, cache, cancelled, superstep>>

(***************************************************************************)
(* An attempt checks the token and starts the body, in one go.  A token    *)
(* that is set raises inside the attempt, as the body would.               *)
(***************************************************************************)
\* Mutant: only the first attempt looks at the token.
MayStartAgain(t) == ~cancelled \/ attempt[t] > 1
MayStart(t) == ~cancelled
StartBody(t) ==
    /\ phase[t] = "ready" /\ MayStart(t)
    /\ Go(t, "calling") /\ bodies' = bodies \cup {Body(t)}
    /\ UNCHANGED <<Kept, outcome, cache, cancelled, superstep>>

Retried(t, failure) == attempt[t] < MaxAttempts /\ failure \in RetryOn \ {"timeout"}

Delay(t) == Min({interval[t], MaxInterval})

AttemptFails(t, failure) ==
    \/ /\ ~Retried(t, failure) /\ End(t, Ended(failure)) /\ UNCHANGED Kept
    \/ /\ Retried(t, failure) /\ Go(t, "sleeping") /\ UNCHANGED <<outcome, attempt>>
       /\ delay' = [delay EXCEPT ![t] = Delay(t)]
       /\ interval' = [interval EXCEPT ![t] = @ * BackoffFactor]
       /\ signal' = [signal EXCEPT ![t] = failure]

CheckFails(t) ==
    /\ phase[t] = "ready" /\ cancelled
    /\ AttemptFails(t, "cancelled")
    /\ UNCHANGED <<bodies, cache, cancelled, superstep>>

Retry(t) ==
    /\ phase[t] = "sleeping" /\ Go(t, "ready")
    /\ attempt' = [attempt EXCEPT ![t] = @ + 1]
    /\ UNCHANGED <<interval, delay, signal, outcome, bodies, cache, cancelled, superstep>>

(***************************************************************************)
(* How a body ends.  A mapping and a Command are results, an interrupt is  *)
(* a BaseException the retry never sees, and a body that raises            *)
(* TimeoutError is taken for one that was too slow.                        *)
(***************************************************************************)
Awaited(t) == phase[t] = "calling" /\ Body(t) \in bodies

BodyReturns(t, kind) ==
    /\ Awaited(t) /\ kind \in Outcomes \cap {"mapping", "command"}
    /\ bodies' = bodies \ {Body(t)}
    /\ outcome' = [outcome EXCEPT ![t] = Answer(t, kind)]
    /\ Go(t, IF Cacheable(kind) THEN "storing" ELSE "leaving")
    /\ UNCHANGED <<Kept, cache, cancelled, superstep>>

BodyInterrupts(t) ==
    /\ Awaited(t) /\ "interrupt" \in Outcomes
    /\ bodies' = bodies \ {Body(t)} /\ End(t, Ended("interrupt"))
    /\ UNCHANGED <<Kept, cache, cancelled, superstep>>

BodyFails(t, failure) ==
    /\ Awaited(t) /\ failure \in Outcomes \cap Failures
    /\ bodies' = bodies \ {Body(t)} /\ AttemptFails(t, failure)
    /\ UNCHANGED <<cache, cancelled, superstep>>

\* Cancelling the call ends the body of an async node, never a thread.
GivenUp(gone) == bodies' = {b \in bodies : b \in gone => NodeOf[b.task] \in Threads}

NodeTimeout(t) ==
    /\ HasTimeout /\ Awaited(t)
    /\ GivenUp({Body(t)}) /\ AttemptFails(t, "timeout")
    /\ UNCHANGED <<cache, cancelled, superstep>>

\* A thread nobody waits for any longer comes to its end.
ThreadEnds(b) ==
    /\ b \in bodies /\ ~(b.step = superstep /\ Awaited(b.task) /\ b = Body(b.task))
    /\ bodies' = bodies \ {b}
    /\ UNCHANGED <<phase, Kept, outcome, cache, cancelled, superstep>>

\* The result is stored; a cache that fails stores nothing.
CacheSet(t) ==
    /\ phase[t] = "storing" /\ Go(t, "leaving")
    /\ \E stored \in BOOLEAN :
         cache' = IF stored
                  THEN [k \in DOMAIN cache \cup {Key(t)} |-> IF k = Key(t) THEN outcome[t] ELSE cache[k]]
                  ELSE cache
    /\ UNCHANGED <<Kept, outcome, bodies, cancelled, superstep>>

\* The after_node hooks run, which may raise, and the semaphore is left.
Leave(t) ==
    /\ phase[t] = "leaving" /\ Go(t, "over")
    /\ \/ UNCHANGED outcome
       \/ "error" \in Outcomes /\ outcome' = [outcome EXCEPT ![t] = Ended("error")]
    /\ UNCHANGED <<Kept, bodies, cache, cancelled, superstep>>

Expire(k) ==
    /\ k \in DOMAIN cache /\ cache' = [j \in DOMAIN cache \ {k} |-> cache[j]]
    /\ UNCHANGED <<phase, Kept, outcome, bodies, cancelled, superstep>>

Cancel ==
    /\ ~cancelled /\ cancelled' = TRUE
    /\ UNCHANGED <<phase, Kept, outcome, bodies, cache, superstep>>

AllOver == \A t \in Tasks : phase[t] = "over"

\* The step times out or its consumer goes away: every task is cancelled.
StepAbandoned ==
    /\ ~AllOver /\ cancelled' = TRUE
    /\ phase' = [t \in Tasks |-> "over"]
    /\ outcome' = [t \in Tasks |-> IF phase[t] = "over" THEN outcome[t] ELSE Ended("dropped")]
    /\ GivenUp(bodies)
    /\ UNCHANGED <<Kept, cache, superstep>>

\* The next superstep, or the next delivery of the run; threads that were
\* given up may still be running.
NextSuperstep ==
    /\ AllOver /\ superstep < Supersteps /\ Fresh
    /\ superstep' = superstep + 1 /\ cancelled' = FALSE
    /\ UNCHANGED <<bodies, cache>>

Done == AllOver /\ superstep = Supersteps /\ UNCHANGED vars

Step(t) ==
    \/ Enter(t) \/ CacheHit(t) \/ CacheMiss(t) \/ StartBody(t) \/ CheckFails(t) \/ Retry(t)
    \/ BodyInterrupts(t) \/ NodeTimeout(t) \/ CacheSet(t) \/ Leave(t)
    \/ \E kind \in {"mapping", "command"} : BodyReturns(t, kind)
    \/ \E failure \in Failures : BodyFails(t, failure)

Next ==
    \/ \E t \in Tasks : Step(t)
    \/ \E b \in bodies : ThreadEnds(b)
    \/ \E k \in DOMAIN cache : Expire(k)
    \/ Cancel \/ StepAbandoned \/ NextSuperstep \/ Done

Spec == Init /\ [][Next]_vars

\* The event loop runs what is ready, delays end and timeouts fire; a body
\* need not end, and a cache that hangs need not answer.
Runnable(t) ==
    \/ Enter(t) \/ StartBody(t) \/ CheckFails(t) \/ Retry(t) \/ NodeTimeout(t) \/ Leave(t)
    \/ ~CacheHangs /\ (CacheHit(t) \/ CacheMiss(t) \/ CacheSet(t))
Fairness == \A t \in Tasks : WF_vars(Runnable(t))
FairSpec == Spec /\ Fairness

TypeOK ==
    /\ phase \in [Tasks -> {"queued", "looking", "ready", "calling", "sleeping", "storing", "leaving", "over"}]
    /\ attempt \in [Tasks -> 1..MaxAttempts] /\ cancelled \in BOOLEAN /\ superstep \in 1..Supersteps
    /\ \A t \in Tasks : delay[t] \in 0..MaxInterval

\* No more bodies of an async node run at the same time than its
\* max_concurrency allows, whatever is waiting, sleeping before a retry or
\* timing out (executor.py:1873).  It does not hold for a node in Threads.
ConcurrencyLimit ==
    Limit > 0 =>
        \A t \in Tasks : NodeOf[t] \notin Threads => Cardinality(BodiesOf(NodeOf[t])) <= Limit

\* A result the cache gives is one this node computed for this argument, in
\* whichever superstep (executor.py:2371).
CacheServesItsOwn ==
    \A k \in DOMAIN cache : \A t \in Tasks :
        Key(t) = k => cache[k].node = NodeOf[t] /\ cache[k].arg = ArgOf[t]

\* Commands and interrupts never come out of the cache, in any later
\* superstep or run: they would steer the graph a second time
\* (types.py CachePolicy, executor.py:2002).
OnlyStateIsCached == \A k \in DOMAIN cache : cache[k].kind = "mapping"

\* What the cache gives back is state, and the state of this node and argument.
CacheIsSound == CacheServesItsOwn /\ OnlyStateIsCached

\* A failure outside retry_on, and one nothing lists, ends the task: only
\* what the policy names is ever tried again (executor.py:2014).
RetriesAreWanted == \A t \in Tasks : signal[t] # "none" => signal[t] \in RetryOn

\* An attempt is made when a slot is free and the policy wants one, and is spared
\* when, and only when, the cache holds its result.
AttemptsAreSound == ConcurrencyLimit /\ CacheIsSound /\ RetriesAreWanted

\* The inductive invariant behind them.  The coroutines, with the types the
\* steps of a task need.
CallsOK ==
    /\ TypeOK /\ interval \in [Tasks -> Nat] /\ delay \in [Tasks -> 0..MaxInterval]
    /\ signal \in [Tasks -> Failures \cup {"none"}] /\ DOMAIN outcome = Tasks
    /\ \A t \in Tasks : phase[t] = "sleeping" => attempt[t] < MaxAttempts

\* The body of an async node never outlives the call that waits for it.
AsyncBodiesAreAwaited ==
    /\ \A b \in bodies : b.task \in Tasks
    /\ \A b \in bodies : NodeOf[b.task] \notin Threads => b = Body(b.task) /\ phase[b.task] = "calling"

\* The semaphore of every node: a task keeps its place while it sleeps.
WithinSemaphore == Limit > 0 => \A t \in Tasks : Cardinality(Holders(NodeOf[t])) <= Limit

\* What is about to be stored is state, and this node's answer to this argument.
StoresItsOwn ==
    \A t \in Tasks : phase[t] = "storing" =>
        outcome[t].kind = "mapping" /\ outcome[t].node = NodeOf[t] /\ outcome[t].arg = ArgOf[t]

CallsInv ==
    /\ CallsOK /\ AsyncBodiesAreAwaited /\ WithinSemaphore /\ StoresItsOwn
    /\ CacheIsSound /\ RetriesAreWanted

\* A run that was cancelled starts no body any more, neither a first
\* attempt nor one that was waiting for its delay (executor.py:1993).
NoBodyAfterCancel == [][cancelled => bodies' \subseteq bodies]_vars

\* Cancellation and an exhausted budget are never retried (types.py:93).
ControlNeverRetried == \A t \in Tasks : signal[t] \notin {"cancelled", "budget", "interrupt"}

\* The delay before attempt n is initial_interval * backoff_factor ** (n - 1),
\* at most max_interval (types.py:94).
DelayAsDocumented ==
    \A t \in Tasks : attempt[t] > 1 =>
        delay[t] = Min({InitialInterval * BackoffFactor ^ (attempt[t] - 1), MaxInterval})

=============================================================================
