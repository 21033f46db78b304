----------------------------- MODULE NodesProofs -----------------------------
(***************************************************************************)
(* Proofs about what a node may be: NodeCalls, for every set of tasks and   *)
(* nodes, every limit, retry policy and number of supersteps, Subgraph, for *)
(* every number of rounds, inputs and crashes, Teams, for every number of   *)
(* agents, turns and inputs, and CozeNodes, for every number of calls,      *)
(* turns, losses and attempts.                                              *)
(***************************************************************************)
EXTENDS NodeCalls, Subgraph, Teams, CozeNodes, FiniteSetTheorems, SequenceTheorems, TLAPS

-----------------------------------------------------------------------------
(* The call of a node: CallsInv is inductive                                *)

\* The delay of a retry is the interval, cut off at max_interval.
LEMMA DelayIsBounded ==
  ASSUME CallsOK, NEW t \in Tasks
  PROVE  Delay(t) \in 0..MaxInterval
<1>1. interval[t] \in Nat /\ MaxInterval \in Nat
  BY NodeCallsAssumption DEF CallsOK
<1>2. \E x \in {interval[t], MaxInterval} : \A y \in {interval[t], MaxInterval} : x =< y
  BY <1>1
<1>3. /\ Delay(t) \in {interval[t], MaxInterval}
      /\ \A y \in {interval[t], MaxInterval} : Delay(t) =< y
  BY <1>2 DEF Delay, Min
<1> QED
  BY <1>1, <1>3

\* An attempt that fails leaves the coroutine well typed: it is over, or it
\* sleeps and has an attempt left.
LEMMA FailureType ==
  ASSUME CallsOK, NEW t \in Tasks, NEW failure \in Failures,
         AttemptFails(t, failure), UNCHANGED <<cancelled, superstep>>
  PROVE  CallsOK'
<1> USE NodeCallsAssumption DEF CallsOK, TypeOK
<1>1. CASE ~Retried(t, failure)
  BY <1>1 DEF AttemptFails, End, Go, Kept
<1>2. CASE Retried(t, failure)
  <2>1. Delay(t) \in 0..MaxInterval
    BY DelayIsBounded
  <2>2. /\ phase' = [phase EXCEPT ![t] = "sleeping"] /\ UNCHANGED <<outcome, attempt>>
        /\ delay' = [delay EXCEPT ![t] = Delay(t)]
        /\ interval' = [interval EXCEPT ![t] = @ * BackoffFactor]
        /\ signal' = [signal EXCEPT ![t] = failure]
        /\ attempt[t] < MaxAttempts
    BY <1>2 DEF AttemptFails, Retried, Go
  <2>3. interval[t] * BackoffFactor \in Nat
    OBVIOUS
  <2>4. interval' \in [Tasks -> Nat] /\ delay' \in [Tasks -> 0..MaxInterval]
    BY <2>1, <2>2, <2>3
  <2>5. /\ signal' \in [Tasks -> Failures \cup {"none"}]
        /\ \A u \in Tasks : phase'[u] = "sleeping" => attempt'[u] < MaxAttempts
        /\ phase' \in [Tasks -> {"queued", "looking", "ready", "calling", "sleeping",
                                 "storing", "leaving", "over"}]
    BY <2>2
  <2> QED
    BY <2>2, <2>4, <2>5
<1> QED
  BY <1>1, <1>2

\* Every step of a task, of the cache and of the superstep keeps the coroutines
\* well typed; no attempt is ever beyond max_attempts.
LEMMA CallsStep == CallsOK /\ [Next]_vars => CallsOK'
<1> SUFFICES ASSUME CallsOK, [Next]_vars PROVE CallsOK'
  OBVIOUS
<1> USE NodeCallsAssumption DEF CallsOK, TypeOK
<1>1. ASSUME NEW t \in Tasks, Enter(t) PROVE CallsOK'
  BY <1>1 DEF Enter, End, Go, Kept
<1>2. ASSUME NEW t \in Tasks, CacheHit(t) \/ CacheMiss(t) PROVE CallsOK'
  BY <1>2 DEF CacheHit, CacheMiss, End, Go, Kept
<1>3. ASSUME NEW t \in Tasks, StartBody(t) PROVE CallsOK'
  BY <1>3 DEF StartBody, Go, Kept
<1>4. ASSUME NEW t \in Tasks, CheckFails(t) PROVE CallsOK'
  BY <1>4, FailureType DEF CheckFails, Failures
<1>5. ASSUME NEW t \in Tasks, Retry(t) PROVE CallsOK'
  BY <1>5 DEF Retry, Go
<1>6. ASSUME NEW t \in Tasks, BodyInterrupts(t) PROVE CallsOK'
  BY <1>6 DEF BodyInterrupts, End, Go, Kept
<1>7. ASSUME NEW t \in Tasks, NodeTimeout(t) PROVE CallsOK'
  BY <1>7, FailureType DEF NodeTimeout, Failures
<1>8. ASSUME NEW t \in Tasks, CacheSet(t) \/ Leave(t) PROVE CallsOK'
  BY <1>8 DEF CacheSet, Leave, Go, Kept
<1>9. ASSUME NEW t \in Tasks, NEW kind \in {"mapping", "command"}, BodyReturns(t, kind)
      PROVE  CallsOK'
  BY <1>9 DEF BodyReturns, Go, Kept
<1>10. ASSUME NEW t \in Tasks, NEW failure \in Failures, BodyFails(t, failure)
       PROVE  CallsOK'
  BY <1>10, FailureType DEF BodyFails
<1>11. ASSUME NEW b \in bodies, ThreadEnds(b) PROVE CallsOK'
  BY <1>11 DEF ThreadEnds, Kept
<1>12. ASSUME NEW k \in DOMAIN cache, Expire(k) PROVE CallsOK'
  BY <1>12 DEF Expire, Kept
<1>13. CASE Cancel
  BY <1>13 DEF Cancel, Kept
<1>14. CASE StepAbandoned
  BY <1>14 DEF StepAbandoned, Kept
<1>15. CASE NextSuperstep
  <2>0. superstep \in Nat \ {0} /\ Supersteps \in Nat /\ superstep < Supersteps
    BY <1>15 DEF NextSuperstep
  <2>1. superstep' = superstep + 1 /\ cancelled' = FALSE
    BY <1>15 DEF NextSuperstep
  <2>2. superstep + 1 \in 1..Supersteps
    BY <2>0
  <2>3. /\ phase' = [t \in Tasks |-> "queued"] /\ attempt' = [t \in Tasks |-> 1]
        /\ interval' \in [Tasks -> Nat] /\ delay' \in [Tasks -> 0..MaxInterval]
        /\ signal' = [t \in Tasks |-> "none"] /\ DOMAIN outcome' = Tasks
    BY <1>15 DEF NextSuperstep, Fresh
  <2>4. superstep' \in 1..Supersteps /\ cancelled' \in BOOLEAN
    <3> HIDE DEF CallsOK, TypeOK
    <3> QED
      BY <2>1, <2>2
  <2>5. /\ attempt' \in [Tasks -> 1..MaxAttempts]
        /\ \A t \in Tasks : phase'[t] # "sleeping" /\ delay'[t] \in 0..MaxInterval
    BY <2>3
  <2> QED
    BY <2>3, <2>4, <2>5
<1>16. CASE Done \/ UNCHANGED vars
  BY <1>16 DEF Done, vars
<1> QED
  BY <1>1, <1>2, <1>3, <1>4, <1>5, <1>6, <1>7, <1>8, <1>9, <1>10, <1>11, <1>12,
     <1>13, <1>14, <1>15, <1>16 DEF Next, Step

\* Every body of an async node belongs to the call that waits for it, whatever
\* times out, is cancelled, retried or abandoned.
LEMMA AwaitedStep == CallsOK /\ AsyncBodiesAreAwaited /\ [Next]_vars => AsyncBodiesAreAwaited'
<1> SUFFICES ASSUME CallsOK, AsyncBodiesAreAwaited, [Next]_vars
             PROVE  AsyncBodiesAreAwaited'
  OBVIOUS
<1> USE DEF CallsOK, TypeOK, AsyncBodiesAreAwaited
\* Enough: what still runs ran before, and an async body's task did not move.
<1>0. ASSUME NEW t \in Tasks,
             bodies' \subseteq bodies,
             \A b \in bodies' : b.task = t => NodeOf[t] \in Threads,
             superstep' = superstep,
             \A u \in Tasks \ {t} : phase'[u] = phase[u] /\ attempt'[u] = attempt[u]
      PROVE  AsyncBodiesAreAwaited'
  BY <1>0 DEF Body
<1>1. ASSUME NEW t \in Tasks,
             bodies' = bodies, superstep' = superstep, phase[t] # "calling",
             \A u \in Tasks \ {t} : phase'[u] = phase[u] /\ attempt'[u] = attempt[u]
      PROVE  AsyncBodiesAreAwaited'
  BY <1>0, <1>1
<1>2. ASSUME NEW t \in Tasks, Enter(t) \/ CacheHit(t) \/ CacheMiss(t) PROVE AsyncBodiesAreAwaited'
  BY <1>1, <1>2 DEF Enter, CacheHit, CacheMiss, End, Go, Kept
<1>3. ASSUME NEW t \in Tasks, StartBody(t) PROVE AsyncBodiesAreAwaited'
  BY <1>3 DEF StartBody, Go, Kept, Body
<1>4. ASSUME NEW t \in Tasks, NEW failure, AttemptFails(t, failure)
      PROVE  \A u \in Tasks \ {t} : phase'[u] = phase[u] /\ attempt'[u] = attempt[u]
  BY <1>4 DEF AttemptFails, End, Go, Kept
<1>5. ASSUME NEW t \in Tasks, CheckFails(t) PROVE AsyncBodiesAreAwaited'
  BY <1>1, <1>4, <1>5 DEF CheckFails
<1>6. ASSUME NEW t \in Tasks, Retry(t) \/ CacheSet(t) \/ Leave(t) PROVE AsyncBodiesAreAwaited'
  BY <1>1, <1>6 DEF Retry, CacheSet, Leave, Go, Kept
<1>7. ASSUME NEW t \in Tasks, bodies' = bodies \ {Body(t)}, superstep' = superstep,
             \A u \in Tasks \ {t} : phase'[u] = phase[u] /\ attempt'[u] = attempt[u]
      PROVE  AsyncBodiesAreAwaited'
  BY <1>0, <1>7
<1>8. ASSUME NEW t \in Tasks, BodyInterrupts(t) PROVE AsyncBodiesAreAwaited'
  BY <1>7, <1>8 DEF BodyInterrupts, End, Go, Kept
<1>9. ASSUME NEW t \in Tasks, NEW kind, BodyReturns(t, kind) PROVE AsyncBodiesAreAwaited'
  BY <1>7, <1>9 DEF BodyReturns, Go, Kept
<1>10. ASSUME NEW t \in Tasks, NEW failure, BodyFails(t, failure) PROVE AsyncBodiesAreAwaited'
  BY <1>4, <1>7, <1>10 DEF BodyFails
<1>11. ASSUME NEW t \in Tasks, NodeTimeout(t) PROVE AsyncBodiesAreAwaited'
  BY <1>0, <1>4, <1>11 DEF NodeTimeout, GivenUp
<1>12. ASSUME NEW b \in bodies, ThreadEnds(b) PROVE AsyncBodiesAreAwaited'
  BY <1>12 DEF ThreadEnds, Kept, Body
<1>13. ASSUME NEW k \in DOMAIN cache, Expire(k) PROVE AsyncBodiesAreAwaited'
  BY <1>13 DEF Expire, Kept, Body
<1>14. CASE Cancel
  BY <1>14 DEF Cancel, Kept, Body
<1>15. CASE StepAbandoned
  BY <1>15 DEF StepAbandoned, GivenUp
<1>16. CASE NextSuperstep
  BY <1>16 DEF NextSuperstep, AllOver
<1>17. CASE Done \/ UNCHANGED vars
  BY <1>17 DEF Done, vars, Body
<1> QED
  BY <1>2, <1>3, <1>5, <1>6, <1>8, <1>9, <1>10, <1>11, <1>12, <1>13, <1>14, <1>15,
     <1>16, <1>17 DEF Next, Step

\* A task that was not queued before a step and was over stays out; who enters
\* the semaphore does it through Enter, which counts.
LEMMA SemaphoreStep == CallsOK /\ WithinSemaphore /\ [Next]_vars => WithinSemaphore'
<1> SUFFICES ASSUME CallsOK, WithinSemaphore, [Next]_vars, Limit > 0, NEW u \in Tasks
             PROVE  Cardinality(Holders(NodeOf[u]))' <= Limit
  BY DEF WithinSemaphore
<1> USE DEF CallsOK, TypeOK
<1> DEFINE H == Holders(NodeOf[u])
<1>0. /\ IsFiniteSet(H) /\ Cardinality(H) \in Nat /\ Limit \in Nat
      /\ Cardinality(H) <= Limit
  BY NodeCallsAssumption, FS_Subset, FS_CardinalityType DEF Holders, WithinSemaphore
<1>1. ASSUME H' \subseteq H PROVE Cardinality(H') <= Limit
  <2>1. Cardinality(H') <= Cardinality(H) /\ Cardinality(H') \in Nat
    BY <1>0, <1>1, FS_Subset, FS_CardinalityType
  <2> QED
    BY <1>0, <2>1
<1>2. ASSUME NEW t \in Tasks, Enter(t) PROVE Cardinality(H') <= Limit
  <2>1. CASE H' \subseteq H
    BY <1>1, <2>1
  <2>2. CASE ~(H' \subseteq H)
    <3>1. phase' = [phase EXCEPT ![t] = "looking"] \/ phase' = [phase EXCEPT ![t] = "over"]
      BY <1>2 DEF Enter, End, Go
    <3>2. H' \subseteq H \cup {t} /\ NodeOf[t] = NodeOf[u]
      BY <2>2, <3>1 DEF Holders
    <3>3. Cardinality(H) < Limit
      BY <1>2, <3>2 DEF Enter, Admitted
    <3>4. IsFiniteSet(H \cup {t}) /\ Cardinality(H \cup {t}) <= Cardinality(H) + 1
      <4> HIDE DEF H
      <4>1. /\ IsFiniteSet(H \cup {t})
            /\ Cardinality(H \cup {t}) = IF t \in H THEN Cardinality(H) ELSE Cardinality(H) + 1
        BY <1>0, FS_AddElement
      <4> QED
        BY <1>0, <4>1
    <3>5. Cardinality(H') <= Cardinality(H \cup {t}) /\ Cardinality(H') \in Nat
          /\ Cardinality(H \cup {t}) \in Nat
      BY <3>2, <3>4, FS_Subset, FS_CardinalityType
    <3> QED
      BY <1>0, <3>3, <3>4, <3>5
  <2> QED
    BY <2>1, <2>2
<1>3. ASSUME \A t \in Tasks : phase[t] \in {"queued", "over"} =>
                              phase'[t] \in {"queued", "over"}
      PROVE  Cardinality(H') <= Limit
  BY <1>1, <1>3 DEF Holders
<1>4. ASSUME NEW t \in Tasks, NEW to, phase[t] \notin {"queued", "over"}, Go(t, to)
      PROVE  Cardinality(H') <= Limit
  BY <1>3, <1>4 DEF Go
<1>5. ASSUME NEW t \in Tasks, NEW failure, phase[t] \notin {"queued", "over"},
             AttemptFails(t, failure)
      PROVE  Cardinality(H') <= Limit
  BY <1>4, <1>5 DEF AttemptFails, End
<1>6. ASSUME NEW t \in Tasks,
             \/ CacheHit(t) \/ CacheMiss(t) \/ StartBody(t) \/ CheckFails(t) \/ Retry(t)
             \/ BodyInterrupts(t) \/ NodeTimeout(t) \/ CacheSet(t) \/ Leave(t)
             \/ \E kind \in {"mapping", "command"} : BodyReturns(t, kind)
             \/ \E failure \in Failures : BodyFails(t, failure)
      PROVE  Cardinality(H') <= Limit
  BY <1>4, <1>5, <1>6
     DEF CacheHit, CacheMiss, StartBody, CheckFails, Retry, BodyInterrupts, NodeTimeout,
         CacheSet, Leave, BodyReturns, BodyFails, End, Awaited
<1>7. CASE \/ \E b \in bodies : ThreadEnds(b)
           \/ \E k \in DOMAIN cache : Expire(k)
           \/ Cancel \/ Done \/ UNCHANGED vars
  BY <1>3, <1>7 DEF ThreadEnds, Expire, Cancel, Done, vars
<1>8. CASE StepAbandoned \/ NextSuperstep
  BY <1>3, <1>8 DEF StepAbandoned, NextSuperstep, Fresh
<1> QED
  BY <1>2, <1>6, <1>7, <1>8 DEF Next, Step

\* Only the answer of a body is ever stored, and only under the key of the call
\* that got it: results never cross nodes or arguments, and no Command and no
\* interrupt gets into the cache.
LEMMA CacheStep ==
  CallsOK /\ StoresItsOwn /\ CacheIsSound /\ [Next]_vars => StoresItsOwn' /\ CacheIsSound'
<1> SUFFICES ASSUME CallsOK, StoresItsOwn, CacheIsSound, [Next]_vars
             PROVE  StoresItsOwn' /\ CacheIsSound'
  OBVIOUS
<1> USE DEF CallsOK, TypeOK
<1> DEFINE Mine(t) == /\ outcome[t].kind = "mapping" /\ outcome[t].node = NodeOf[t]
                     /\ outcome[t].arg = ArgOf[t]
<1>0. \A t \in Tasks : phase[t] = "storing" => Mine(t)
  BY DEF StoresItsOwn
<1>1. ASSUME NEW t \in Tasks,
             \A u \in Tasks \ {t} : phase'[u] = phase[u] /\ outcome'[u] = outcome[u],
             phase'[t] = "storing" => Mine(t)'
      PROVE  StoresItsOwn'
  BY <1>0, <1>1 DEF StoresItsOwn
<1>2. ASSUME \A u \in Tasks : \/ phase'[u] = phase[u] /\ outcome'[u] = outcome[u]
                              \/ phase'[u] # "storing"
      PROVE  StoresItsOwn'
  BY <1>0, <1>2 DEF StoresItsOwn
<1>3. UNCHANGED cache => CacheIsSound'
  BY DEF CacheIsSound, CacheServesItsOwn, OnlyStateIsCached, Key
<1>4. ASSUME NEW t \in Tasks, NEW failure, AttemptFails(t, failure)
      PROVE  \A u \in Tasks : \/ phase'[u] = phase[u] /\ outcome'[u] = outcome[u]
                              \/ phase'[u] # "storing"
  BY <1>4 DEF AttemptFails, End, Go
<1>5. ASSUME NEW t \in Tasks,
             \/ Enter(t) \/ CacheHit(t) \/ CacheMiss(t) \/ StartBody(t) \/ Retry(t)
             \/ BodyInterrupts(t) \/ Leave(t)
      PROVE  StoresItsOwn' /\ CacheIsSound'
  <2>1. \A u \in Tasks : \/ phase'[u] = phase[u] /\ outcome'[u] = outcome[u]
                         \/ phase'[u] # "storing"
    BY <1>5 DEF Enter, CacheHit, CacheMiss, StartBody, Retry, BodyInterrupts, Leave, End, Go
  <2>2. UNCHANGED cache
    BY <1>5 DEF Enter, CacheHit, CacheMiss, StartBody, Retry, BodyInterrupts, Leave
  <2> QED
    BY <1>2, <1>3, <2>1, <2>2
<1>6. ASSUME NEW t \in Tasks,
             \/ CheckFails(t) \/ NodeTimeout(t)
             \/ \E failure \in Failures : BodyFails(t, failure)
      PROVE  StoresItsOwn' /\ CacheIsSound'
  BY <1>2, <1>3, <1>4, <1>6 DEF CheckFails, NodeTimeout, BodyFails
<1>7. ASSUME NEW t \in Tasks, NEW kind, BodyReturns(t, kind)
      PROVE  StoresItsOwn' /\ CacheIsSound'
  <2>1. outcome'[t] = Answer(t, kind) /\ (phase'[t] = "storing" => Cacheable(kind))
    BY <1>7 DEF BodyReturns, Go
  <2>2. phase'[t] = "storing" => Mine(t)'
    BY <2>1 DEF Answer, Cacheable
  <2>3. \A u \in Tasks \ {t} : phase'[u] = phase[u] /\ outcome'[u] = outcome[u]
    BY <1>7 DEF BodyReturns, Go
  <2>4. UNCHANGED cache
    BY <1>7 DEF BodyReturns
  <2> QED
    BY <1>1, <1>3, <2>2, <2>3, <2>4
<1>8. ASSUME NEW t \in Tasks, CacheSet(t)
      PROVE  StoresItsOwn' /\ CacheIsSound'
  <2>1. StoresItsOwn'
    BY <1>2, <1>8 DEF CacheSet, Go
  <2>2. CASE UNCHANGED cache
    BY <1>3, <2>1, <2>2
  <2>3. CASE cache' = [k \in DOMAIN cache \cup {Key(t)} |->
                         IF k = Key(t) THEN outcome[t] ELSE cache[k]]
    <3>1. Mine(t)
      BY <1>0, <1>8 DEF CacheSet
    <3>2. ASSUME NEW k \in DOMAIN cache'
          PROVE  /\ cache'[k].kind = "mapping"
                 /\ \A u \in Tasks :
                      Key(u) = k => cache'[k].node = NodeOf[u] /\ cache'[k].arg = ArgOf[u]
      <4>1. CASE k = Key(t)
        BY <2>3, <3>1, <4>1 DEF Key
      <4>2. CASE k # Key(t)
        BY <2>3, <3>2, <4>2 DEF CacheIsSound, CacheServesItsOwn, OnlyStateIsCached
      <4> QED
        BY <4>1, <4>2
    <3> QED
      BY <2>1, <3>2 DEF CacheIsSound, CacheServesItsOwn, OnlyStateIsCached, Key
  <2> QED
    BY <1>8, <2>2, <2>3 DEF CacheSet
<1>9. ASSUME NEW k \in DOMAIN cache, Expire(k) PROVE StoresItsOwn' /\ CacheIsSound'
  <2>1. StoresItsOwn'
    BY <1>2, <1>9 DEF Expire
  <2>2. CacheIsSound'
    BY <1>9 DEF Expire, CacheIsSound, CacheServesItsOwn, OnlyStateIsCached, Key
  <2> QED
    BY <2>1, <2>2
<1>10. CASE \/ \E b \in bodies : ThreadEnds(b)
            \/ Cancel \/ Done \/ UNCHANGED vars
  BY <1>2, <1>3, <1>10 DEF ThreadEnds, Cancel, Done, vars
<1>11. CASE StepAbandoned \/ NextSuperstep
  BY <1>2, <1>3, <1>11 DEF StepAbandoned, NextSuperstep, Fresh
<1> QED
  BY <1>5, <1>6, <1>7, <1>8, <1>9, <1>10, <1>11 DEF Next, Step

\* Only a failure the policy names sends an attempt to its delay.
LEMMA RetryStep == CallsOK /\ RetriesAreWanted /\ [Next]_vars => RetriesAreWanted'
<1> SUFFICES ASSUME CallsOK, RetriesAreWanted, [Next]_vars PROVE RetriesAreWanted'
  OBVIOUS
<1> USE DEF CallsOK, TypeOK, RetriesAreWanted
<1>1. UNCHANGED signal => RetriesAreWanted'
  OBVIOUS
<1>2. ASSUME NEW t \in Tasks, NEW failure, AttemptFails(t, failure) PROVE RetriesAreWanted'
  BY <1>1, <1>2 DEF AttemptFails, Retried, Kept
<1>3. ASSUME NEW t \in Tasks, Step(t) PROVE RetriesAreWanted'
  BY <1>1, <1>2, <1>3
     DEF Step, Enter, CacheHit, CacheMiss, StartBody, CheckFails, Retry, BodyInterrupts,
         NodeTimeout, CacheSet, Leave, BodyReturns, BodyFails, Kept
<1>4. CASE NextSuperstep
  BY <1>4 DEF NextSuperstep, Fresh
<1>5. CASE \/ \E b \in bodies : ThreadEnds(b)
           \/ \E k \in DOMAIN cache : Expire(k)
           \/ Cancel \/ StepAbandoned \/ Done \/ UNCHANGED vars
  BY <1>1, <1>5 DEF ThreadEnds, Expire, Cancel, StepAbandoned, Done, vars, Kept
<1> QED
  BY <1>3, <1>4, <1>5 DEF Next

-----------------------------------------------------------------------------
(* The theorems                                                             *)

\* Nothing runs and nothing is cached at first.
LEMMA CallsInit == Init => CallsInv
<1> SUFFICES ASSUME Init PROVE CallsInv
  OBVIOUS
<1> USE NodeCallsAssumption DEF Init
<1>1. CallsOK
  <2>1. superstep \in 1..Supersteps /\ cancelled \in BOOLEAN
    <3>1. 1 \in 1..Supersteps
      OBVIOUS
    <3> QED
      BY <3>1
  <2>2. phase \in [Tasks -> {"queued", "looking", "ready", "calling", "sleeping",
                            "storing", "leaving", "over"}]
    OBVIOUS
  <2>3. attempt \in [Tasks -> 1..MaxAttempts] /\ interval \in [Tasks -> Nat]
    OBVIOUS
  <2>4. delay \in [Tasks -> 0..MaxInterval] /\ \A t \in Tasks : delay[t] \in 0..MaxInterval
    OBVIOUS
  <2>5. /\ signal \in [Tasks -> Failures \cup {"none"}] /\ DOMAIN outcome = Tasks
        /\ \A t \in Tasks : phase[t] # "sleeping"
    OBVIOUS
  <2> QED
    BY <2>1, <2>2, <2>3, <2>4, <2>5 DEF CallsOK, TypeOK
<1>2. AsyncBodiesAreAwaited /\ StoresItsOwn /\ CacheIsSound /\ RetriesAreWanted
  BY DEF AsyncBodiesAreAwaited, StoresItsOwn, CacheIsSound, CacheServesItsOwn,
         OnlyStateIsCached, RetriesAreWanted
<1>3. WithinSemaphore
  <2>1. ASSUME NEW t \in Tasks PROVE Holders(NodeOf[t]) = {}
    BY DEF Holders
  <2>2. Cardinality({}) <= Limit
    BY FS_EmptySet
  <2> QED
    BY <2>1, <2>2 DEF WithinSemaphore
<1> QED
  BY <1>1, <1>2, <1>3 DEF CallsInv

\* The invariant holds in every reachable state of the calls of a run.
THEOREM CallsInvariance == Spec => []CallsInv
<1>1. CallsInv /\ [Next]_vars => CallsInv'
  BY CallsStep, AwaitedStep, SemaphoreStep, CacheStep, RetryStep DEF CallsInv
<1>2. QED
  BY CallsInit, <1>1, PTL DEF Spec

\* The bodies of an async node are at most as many as the tasks inside its
\* semaphore: each belongs to a task of its own that waits for it.
LEMMA BodiesHaveHolders ==
  ASSUME CallsInv, Limit > 0, NEW t \in Tasks, NodeOf[t] \notin Threads
  PROVE  Cardinality(BodiesOf(NodeOf[t])) <= Limit
<1> DEFINE B == BodiesOf(NodeOf[t])
           H == Holders(NodeOf[t])
           f == [b \in B |-> b.task]
<1>1. /\ IsFiniteSet(H) /\ Cardinality(H) \in Nat /\ Cardinality(H) <= Limit /\ Limit \in Nat
  BY NodeCallsAssumption, FS_Subset, FS_CardinalityType
     DEF Holders, CallsInv, WithinSemaphore
<1>2. \A b \in B : b.task \in H /\ b = Body(b.task)
  BY DEF CallsInv, AsyncBodiesAreAwaited, BodiesOf, Holders
<1>3. f \in Injection(B, H)
  BY <1>2 DEF Injection, IsInjective
<1>4. Cardinality(B) <= Cardinality(H) /\ IsFiniteSet(B)
  <2> HIDE DEF B, H, f
  <2> QED
    BY <1>1, <1>3, FS_Injection
<1>5. Cardinality(B) \in Nat
  BY <1>4, FS_CardinalityType
<1> QED
  BY <1>1, <1>4, <1>5

\* Whatever waits, sleeps, times out or is abandoned, no async node has more
\* bodies than its max_concurrency, the cache gives back this node's own state
\* for this argument, and only what the policy names is tried again.
THEOREM AttemptsSound == Spec => []AttemptsAreSound
<1>1. CallsInv => AttemptsAreSound
  BY BodiesHaveHolders DEF CallsInv, AttemptsAreSound, ConcurrencyLimit
<1>2. QED
  BY <1>1, CallsInvariance, PTL

\* After the token is tripped no body is started, whatever attempt or delay a
\* task is at.
THEOREM CancelStartsNothing == Spec => NoBodyAfterCancel
<1>1. [Next]_vars => [cancelled => bodies' \subseteq bodies]_vars
  <2> SUFFICES ASSUME Next, cancelled PROVE bodies' \subseteq bodies
    BY DEF vars
  <2>1. ASSUME NEW t \in Tasks, Step(t) PROVE bodies' \subseteq bodies
    BY <2>1
       DEF Step, Enter, CacheHit, CacheMiss, StartBody, MayStart, CheckFails, Retry,
           BodyInterrupts, NodeTimeout, GivenUp, CacheSet, Leave, BodyReturns, BodyFails
  <2> QED
    BY <2>1 DEF Next, ThreadEnds, Expire, Cancel, StepAbandoned, GivenUp, NextSuperstep,
                Done, vars
<1>2. QED
  BY <1>1, PTL DEF Spec, NoBodyAfterCancel

-----------------------------------------------------------------------------
(* A node that is a graph: NestedInv is inductive                           *)

LEMMA NestedStart == NestedInit => NestedInv
  BY DEF NestedInit, NestedInv, NestedTypes, CallsNest, QuestionsStand, PausesAreResumed,
         PauseHasItsQuestion, RoundsAreNumbered, NoCheckpoint, Idle

\* A delivery whose task is decided is the one it was, but for that outcome.
LEMMA DecidedFits ==
  ASSUME NestedTypes, NEW t, NEW w, Open(t), ex # Idle, ex' = Decided(t, w)
  PROVE  /\ ex' # Idle /\ DOMAIN ex' = DOMAIN ex
         /\ ex'.pc = ex.pc /\ ex'.step = ex.step /\ ex'.base = ex.base /\ ex'.log = ex.log
         /\ ex'.answered = ex.answered
         /\ DOMAIN ex'.outs = DOMAIN ex.outs \cup {t}
         /\ \A u \in DOMAIN ex.outs \cup {t} : ex'.outs[u] = IF u = t THEN w ELSE ex.outs[u]
  BY DEF NestedTypes, Open, Decided, Idle

\* No child and no delivery is at work when a delivery starts.
LEMMA TypesStep == NestedTypes /\ CallsNest /\ [NestedNext]_nestedVars => NestedTypes'
<1> SUFFICES ASSUME NestedTypes, CallsNest, [NestedNext]_nestedVars PROVE NestedTypes'
  OBVIOUS
<1> USE DEF NestedTypes, CallsNest, Idle, NoCheckpoint, c1, c2, Finished
<1>1. ASSUME Start PROVE NestedTypes'
  BY <1>1 DEF Start, FirstStep
<1>2. ASSUME Sibling PROVE NestedTypes'
  BY <1>2 DEF Sibling, Open, Decided
<1>3. ASSUME StartChild PROVE NestedTypes'
  <2>1. UNCHANGED <<persistence, parent, kids, writes, run, faults>> /\ ex # Idle
    BY <1>3 DEF StartChild, Open
  <2>2. CASE ~Durable \/ Here \notin DOMAIN kids
    BY <1>3, <2>1, <2>2 DEF StartChild, Invoked
  <2>3. CASE Durable /\ Here \in DOMAIN kids
    <3>1. PICK k : k = kids[Here]
      OBVIOUS
    <3>2. k.pos \in c1..Finished
      BY <2>3, <3>1
    <3>3. CASE k.asks /\ ~ex.answered
      BY <1>3, <2>1, <2>3, <3>1, <3>3 DEF StartChild, Decided
    <3>4. CASE ~(k.asks /\ ~ex.answered)
      <4>1. \/ child' = Invoked(k.log, ResumedAt(k), TRUE, k.for)
            \/ child' = Invoked(ReduceMerge(<<k.log>>, <<Write(ex.log)>>)[1], Reinvoked(k), FALSE, k.for)
        BY <1>3, <2>3, <3>1, <3>4 DEF StartChild
      <4>2. UNCHANGED ex
        BY <1>3, <2>3, <3>1, <3>4 DEF StartChild
      <4>3. ResumedAt(k) \in c1..Finished /\ Reinvoked(k) \in c1..Finished
        BY <3>2 DEF ResumedAt, Reinvoked
      <4> QED
        BY <2>1, <4>1, <4>2, <4>3 DEF Invoked
    <3> QED
      BY <3>3, <3>4
  <2> QED
    BY <2>2, <2>3
<1>4. ASSUME ChildNode PROVE NestedTypes'
  <2>1. UNCHANGED <<persistence, parent, writes, ex, run, faults>>
    BY <1>4 DEF ChildNode
  <2>2. child' # Idle => DOMAIN child' = DOMAIN child /\ child'.pc = "run" /\ child'.pos \in c1..Finished
    BY <1>4 DEF ChildNode
  <2>3. (\A ns \in DOMAIN kids : kids[ns].pos \in c1..Finished)'
    BY <1>4 DEF ChildNode, SaveChild
  <2> QED
    BY <2>1, <2>2, <2>3, <1>4 DEF ChildNode
<1>5. ASSUME ChildAsks PROVE NestedTypes'
  BY <1>5 DEF ChildAsks, Open, Decided, SaveChild
<1>6. ASSUME ChildReturns PROVE NestedTypes'
  BY <1>6 DEF ChildReturns, Decided
<1>7. ASSUME Gather PROVE NestedTypes'
  BY <1>7 DEF Gather
<1>8. ASSUME Pause PROVE NestedTypes'
  BY <1>8 DEF Pause, PauseStep
<1>9. ASSUME Commit PROVE NestedTypes'
  BY <1>9 DEF Commit
<1>10. ASSUME Crash PROVE NestedTypes'
  BY <1>10 DEF Crash
<1>11. ASSUME SubmitInput \/ SubmitResume PROVE NestedTypes'
  <2>1. UNCHANGED <<persistence, parent, kids, ex, child>>
    BY <1>11 DEF SubmitInput, SubmitResume
  <2>2. run' \in [kind : {"input", "resume"}, status : {"pending", "running", "paused", "done"},
                  inputs : Nat \ {0}]
    <3>1. CASE SubmitInput
      BY <3>1 DEF SubmitInput
    <3>2. CASE SubmitResume
      BY <3>2 DEF SubmitResume
    <3> QED
      BY <1>11, <3>1, <3>2
  <2> QED
    BY <2>1, <2>2
<1>12. ASSUME Over \/ UNCHANGED nestedVars PROVE NestedTypes'
  BY <1>12 DEF Over, nestedVars
<1> QED
  BY <1>1, <1>2, <1>3, <1>4, <1>5, <1>6, <1>7, <1>8, <1>9, <1>10, <1>11, <1>12 DEF NestedNext

\* A child that works is one a delivery waits for.
LEMMA ChildIsAwaited ==
  ASSUME CallsNest, child.pc = "run"
  PROVE  child # Idle /\ ex # Idle /\ Open("s")
<1>1. child # Idle
  BY DEF Idle
<1> QED
  BY <1>1 DEF CallsNest, Open

\* A delivery belongs to the run that runs, and a child to a delivery that waits for it.
LEMMA NestStep == NestedTypes /\ CallsNest /\ [NestedNext]_nestedVars => CallsNest'
<1> SUFFICES ASSUME NestedTypes, CallsNest, [NestedNext]_nestedVars PROVE CallsNest'
  OBVIOUS
<1> USE DEF CallsNest, Idle
<1>1. ASSUME Start PROVE CallsNest'
  BY <1>1 DEF Start, NestedTypes
<1>2. ASSUME Sibling PROVE CallsNest'
  BY <1>2, DecidedFits DEF Sibling, Open
<1>3. ASSUME StartChild PROVE CallsNest'
  <2>1. UNCHANGED run /\ Open("s") /\ child = Idle /\ ex # Idle
    BY <1>3 DEF StartChild, Open
  <2>2. (UNCHANGED ex) \/ (UNCHANGED child /\ ex' = Decided("s", Asking))
    BY <1>3 DEF StartChild
  <2> QED
    BY <2>1, <2>2, DecidedFits DEF Open
<1>4. ASSUME ChildNode PROVE CallsNest'
  BY <1>4 DEF ChildNode
<1>5. ASSUME ChildAsks \/ ChildReturns PROVE CallsNest'
  <2>1. UNCHANGED run /\ child' = Idle /\ Open("s") /\ ex # Idle
    BY <1>5, ChildIsAwaited DEF ChildAsks, ChildReturns
  <2>2. ex'.pc = "run"
    BY <1>5, <2>1, DecidedFits DEF ChildAsks, ChildReturns, Open
  <2> QED
    BY <2>1, <2>2
<1>6. ASSUME Gather PROVE CallsNest'
  <2>1. UNCHANGED <<run, child>> /\ ex # Idle /\ "s" \in DOMAIN ex.outs
    BY <1>6, PlanAssumption DEF Gather
  <2>2. ex'.outs = ex.outs
    BY <1>6, <2>1 DEF Gather, NestedTypes
  <2> QED
    BY <2>1, <2>2
<1>7. ASSUME Pause PROVE CallsNest'
  BY <1>7 DEF Pause
<1>8. ASSUME Commit PROVE CallsNest'
  BY <1>8 DEF Commit
<1>9. ASSUME Crash \/ SubmitInput \/ SubmitResume \/ Over \/ UNCHANGED nestedVars PROVE CallsNest'
  BY <1>9 DEF Crash, SubmitInput, SubmitResume, Over, nestedVars
<1> QED
  BY <1>1, <1>2, <1>3, <1>4, <1>5, <1>6, <1>7, <1>8, <1>9 DEF NestedNext

\* An update is not a question.
LEMMA NoWriteAsks == \A v : Write(v) # Asking /\ ReplaceValue(v) # Asking
<1> SUFFICES ASSUME NEW v, Write(v) = Asking \/ ReplaceValue(v) = Asking PROVE FALSE
  OBVIOUS
<1>1. /\ "replace" \in DOMAIN Write(v) /\ "replace" \in DOMAIN ReplaceValue(v)
      /\ "replace" \notin DOMAIN Asking
  BY DEF Write, ReplaceValue, Asking
<1> QED
  BY <1>1

\* What is stored as a result is not a question.
LEMMA ResultsAreNoQuestions ==
  ASSUME NEW base, \A w \in writes : w.write # Asking
  PROVE  \A w \in Put(base) : w.write # Asking
<1>1. \A t \in Succeeded : [base |-> base, task |-> t, write |-> Displayed(ex.outs[t])].write # Asking
  BY NoWriteAsks DEF Displayed
<1> QED
  BY <1>1 DEF Put

\* A question stands where the delivery will look for it, until it is answered.
LEMMA QuestionsStep ==
  NestedTypes /\ CallsNest /\ QuestionsStand /\ [NestedNext]_nestedVars => QuestionsStand'
<1> SUFFICES ASSUME NestedTypes, CallsNest, QuestionsStand, [NestedNext]_nestedVars
             PROVE  QuestionsStand'
  OBVIOUS
<1> USE DEF QuestionsStand, Here, Activation, Durable
<1>1. ASSUME Start PROVE QuestionsStand'
  <2>1. UNCHANGED <<persistence, kids, writes, child>> /\ child = Idle
    BY <1>1 DEF Start, CallsNest
  <2>2. CASE UNCHANGED ex
    BY <2>1, <2>2
  <2>3. CASE ~UNCHANGED ex
    <3>1. ASSUME NEW t \in DOMAIN ex'.outs, ex' # Idle PROVE ex'.outs[t] # Asking
      <4>1. /\ t \in {w.task : w \in {v \in writes : v.base = parent.id}}
            /\ ex'.outs[t] = (CHOOSE w \in writes : w.base = parent.id /\ w.task = t).write
        BY <1>1, <2>3, <3>1 DEF Start
      <4>2. (CHOOSE w \in writes : w.base = parent.id /\ w.task = t) \in writes
        BY <4>1
      <4> QED
        BY <4>1, <4>2
    <3> QED
      BY <2>1, <3>1
  <2> QED
    BY <2>2, <2>3
<1>2. ASSUME Sibling PROVE QuestionsStand'
  <2>1. UNCHANGED <<persistence, kids, writes, child>> /\ ex # Idle /\ Open("x")
    BY <1>2 DEF Sibling, Open, Idle
  <2>2. ex'.step = ex.step /\ ("s" \in DOMAIN ex'.outs => "s" \in DOMAIN ex.outs /\ ex'.outs["s"] = ex.outs["s"])
    BY <1>2, <2>1, DecidedFits DEF Sibling
  <2> QED
    BY <2>1, <2>2
<1>3. ASSUME StartChild PROVE QuestionsStand'
  <2>1. UNCHANGED <<persistence, kids, writes>> /\ ex # Idle /\ Open("s") /\ child = Idle
    BY <1>3 DEF StartChild, Open, Idle
  <2>2. CASE ~Durable \/ Here \notin DOMAIN kids
    <3>1. UNCHANGED ex /\ child' = Invoked(ex.log, c1, FALSE, parent.rounds)
      BY <1>3, <2>2 DEF StartChild
    <3>2. Here \notin DOMAIN kids
      BY <2>2
    <3> QED
      BY <2>1, <3>1, <3>2 DEF Open, Durable
  <2>3. CASE Durable /\ Here \in DOMAIN kids
    <3>1. PICK k : k = kids[Here]
      OBVIOUS
    <3>2. CASE k.asks /\ ~ex.answered
      <4>1. UNCHANGED child /\ ex' = Decided("s", Asking)
        BY <1>3, <2>3, <3>1, <3>2 DEF StartChild
      <4>2. ex'.step = ex.step
        BY <2>1, <4>1, DecidedFits
      <4> QED
        BY <2>1, <2>3, <3>1, <3>2, <4>1, <4>2
    <3>3. CASE ~(k.asks /\ ~ex.answered)
      <4>1. /\ UNCHANGED ex
            /\ child' = IF k.asks THEN Invoked(k.log, ResumedAt(k), TRUE, k.for)
                        ELSE Invoked(ReduceMerge(<<k.log>>, <<Write(ex.log)>>)[1],
                                     Reinvoked(k), FALSE, k.for)
        BY <1>3, <2>3, <3>1, <3>3 DEF StartChild
      <4> QED
        BY <2>1, <2>3, <3>1, <4>1 DEF Invoked, ResumedAt, Open
    <3> QED
      BY <3>2, <3>3
  <2> QED
    BY <2>2, <2>3
<1>4. ASSUME ChildNode PROVE QuestionsStand'
  <2>1. /\ UNCHANGED <<persistence, writes, ex>> /\ ex # Idle /\ "s" \notin DOMAIN ex.outs
        /\ SaveChild(child'.log, child.pos + 1, FALSE) /\ child.pos < Finished
    BY <1>4, ChildIsAwaited DEF ChildNode, Open, NestedTypes
  <2>2. UNCHANGED Here
    BY <2>1
  <2>3. (Here \in DOMAIN kids)' => ~(kids[Here].asks)'
    BY <2>1, <2>2 DEF SaveChild
  <2>4. (\A ns \in DOMAIN kids : kids[ns].asks => kids[ns].pos = c2)'
    BY <2>1 DEF SaveChild
  <2>5. (~Durable => DOMAIN kids = {})'
    BY <2>1 DEF SaveChild
  <2> QED
    BY <2>1, <2>3, <2>4, <2>5
<1>5. ASSUME ChildAsks PROVE QuestionsStand'
  <2>1. /\ UNCHANGED <<persistence, writes>> /\ child' = Idle /\ Durable /\ child.pos = c2
        /\ ex # Idle /\ Open("s") /\ ex' = Decided("s", Asking) /\ SaveChild(child.log, child.pos, TRUE)
    BY <1>5, ChildIsAwaited DEF ChildAsks
  <2>2. ex'.step = ex.step
    BY <2>1, DecidedFits
  <2>3. (Here \in DOMAIN kids)' /\ (kids[Here].asks)'
    BY <2>1, <2>2 DEF SaveChild
  <2>4. (\A ns \in DOMAIN kids : kids[ns].asks => kids[ns].pos = c2)'
    BY <2>1 DEF SaveChild
  <2> QED
    BY <2>1, <2>3, <2>4
<1>6. ASSUME ChildReturns PROVE QuestionsStand'
  <2>1. /\ UNCHANGED <<persistence, kids, writes>> /\ child' = Idle
        /\ ex # Idle /\ Open("s") /\ ex' = Decided("s", ReplaceValue(child.log))
    BY <1>6, ChildIsAwaited DEF ChildReturns
  <2>2. ex'.outs["s"] = ReplaceValue(child.log)
    BY <2>1, DecidedFits
  <2>3. ReplaceValue(child.log) # Asking
    BY NoWriteAsks
  <2> QED
    BY <2>1, <2>2, <2>3
<1>7. ASSUME Gather PROVE QuestionsStand'
  <2>1. UNCHANGED <<persistence, kids, child>> /\ writes' = Put(ex.base) /\ ex # Idle
    BY <1>7 DEF Gather, Idle
  <2>2. ex'.step = ex.step /\ ex'.outs = ex.outs
    BY <1>7, <2>1 DEF Gather, NestedTypes
  <2>3. (\A w \in writes : w.write # Asking)'
    BY <2>1, ResultsAreNoQuestions
  <2> QED
    BY <2>1, <2>2, <2>3
<1>8. ASSUME Pause PROVE QuestionsStand'
  <2>1. UNCHANGED <<persistence, kids, child>> /\ writes' = Put(parent.id + 1) /\ ex' = Idle
        /\ child = Idle
    BY <1>8 DEF Pause, CallsNest, Idle
  <2>2. (\A w \in writes : w.write # Asking)'
    BY <2>1, ResultsAreNoQuestions
  <2> QED
    BY <2>1, <2>2
<1>9. ASSUME Commit PROVE QuestionsStand'
  <2>1. UNCHANGED <<persistence, kids, writes, child>> /\ child = Idle
    BY <1>9 DEF Commit, CallsNest, Idle
  <2>2. ex' # Idle => "s" \notin DOMAIN ex'.outs
    BY <1>9 DEF Commit
  <2> QED
    BY <2>1, <2>2
<1>10. ASSUME Crash PROVE QuestionsStand'
  BY <1>10 DEF Crash
<1>11. ASSUME SubmitInput \/ SubmitResume \/ Over \/ UNCHANGED nestedVars PROVE QuestionsStand'
  BY <1>11 DEF SubmitInput, SubmitResume, Over, nestedVars
<1> QED
  BY <1>1, <1>2, <1>3, <1>4, <1>5, <1>6, <1>7, <1>8, <1>9, <1>10, <1>11 DEF NestedNext

\* A pause is taken up by a resume, which finds the question where it was asked.
LEMMA PausesStep ==
  ASSUME NestedTypes, CallsNest, QuestionsStand, PausesAreResumed, [NestedNext]_nestedVars
  PROVE  PausesAreResumed'
<1> USE DEF PausesAreResumed, PauseHasItsQuestion, Activation
<1>1. ASSUME Start PROVE PausesAreResumed'
  <2>1. UNCHANGED <<persistence, parent, kids>>
    BY <1>1 DEF Start
  <2>2. run'.kind = run.kind /\ run'.status \in {"done", "running", "paused"}
    BY <1>1 DEF Start, NestedTypes
  <2>3. ~(parent.asks /\ run.kind = "input")
    BY <1>1 DEF Start
  <2>4. run'.status # "paused"
    BY <1>1, <2>3 DEF Start, NestedTypes
  <2>5. parent.asks => run'.status # "done"
    <3>1. ASSUME parent.asks PROVE run' = [run EXCEPT !.status = "running"]
      BY <1>1, <2>3, <3>1 DEF Start, Entering, NestedTypes
    <3> QED
      BY <3>1 DEF NestedTypes
  <2>6. run.status = "pending" /\ (parent.asks => run.kind = "resume")
    BY <1>1 DEF Start
  <2> QED
    BY <2>1, <2>2, <2>4, <2>5, <2>6
<1>2. ASSUME Sibling \/ StartChild \/ Gather PROVE PausesAreResumed'
  <2>1. UNCHANGED <<persistence, parent, kids, run>>
    BY <1>2 DEF Sibling, StartChild, Gather
  <2> QED
    BY <2>1
<1>3. ASSUME ChildNode \/ ChildAsks \/ ChildReturns PROVE PausesAreResumed'
  <2>1. UNCHANGED <<parent, run>> /\ run.status = "running"
    BY <1>3, ChildIsAwaited DEF ChildNode, ChildAsks, ChildReturns, CallsNest
  <2> QED
    BY <2>1
<1>4. ASSUME Pause PROVE PausesAreResumed'
  <2>1. ex # Idle /\ UNCHANGED <<persistence, kids>> /\ ex.step \in Int
    BY <1>4 DEF Pause, Idle, NestedTypes
  <2>2. parent'.asks /\ parent'.next /\ parent'.step + 1 = ex.step /\ run'.status = "paused"
    BY <1>4, <2>1 DEF Pause, PauseStep, NestedTypes, NoCheckpoint
  <2>3. Here \in DOMAIN kids /\ kids[Here].asks
    BY <1>4, <2>1 DEF Pause, QuestionsStand, CallsNest
  <2> QED
    BY <2>1, <2>2, <2>3 DEF Here
<1>5. ASSUME Commit PROVE PausesAreResumed'
  BY <1>5 DEF Commit, CallsNest, Idle, NestedTypes
<1>6. ASSUME Crash PROVE PausesAreResumed'
  <2>1. UNCHANGED parent /\ run.status = "running"
    BY <1>6 DEF Crash, CallsNest
  <2>2. run'.kind = run.kind /\ run'.status = "pending"
    BY <1>6 DEF Crash, NestedTypes
  <2> QED
    BY <2>1, <2>2
<1>7. ASSUME SubmitInput \/ SubmitResume PROVE PausesAreResumed'
  <2>1. UNCHANGED parent /\ run.status \in {"done", "paused"}
    BY <1>7 DEF SubmitInput, SubmitResume
  <2>2. run'.status = "pending"
    <3>1. CASE SubmitInput
      BY <3>1 DEF SubmitInput
    <3>2. CASE SubmitResume
      BY <3>2 DEF SubmitResume, NestedTypes
    <3> QED
      BY <1>7, <3>1, <3>2
  <2>3. run.status = "paused" => run'.kind = "resume"
    BY <1>7 DEF SubmitInput, SubmitResume, NestedTypes
  <2> QED
    BY <2>1, <2>2, <2>3
<1>8. ASSUME Over \/ UNCHANGED nestedVars PROVE PausesAreResumed'
  BY <1>8 DEF Over, nestedVars
<1> QED
  BY <1>1, <1>2, <1>3, <1>4, <1>5, <1>6, <1>7, <1>8 DEF NestedNext

\* During the first run the superstep, the namespace and the child say the same number.
LEMMA RoundsStep ==
  ASSUME NestedTypes, CallsNest, PausesAreResumed, RoundsAreNumbered, [NestedNext]_nestedVars
  PROVE  RoundsAreNumbered'
<1> SUFFICES ASSUME run'.inputs = 1 PROVE RoundsAreNumbered'
  BY DEF RoundsAreNumbered
<1> USE DEF RoundsAreNumbered, Activation
<1>1. ASSUME Start PROVE RoundsAreNumbered'
  <2>1. UNCHANGED <<persistence, parent, kids, child>> /\ child = Idle /\ run'.kind = run.kind
        /\ run.inputs = 1 /\ run.status = "pending"
    BY <1>1 DEF Start, CallsNest, NestedTypes
  <2>2. ex' # Idle => ex'.step = FirstStep
    BY <1>1 DEF Start
  <2>3. FirstStep = parent.rounds
    BY <2>1 DEF FirstStep, Entering, NestedTypes
  <2> QED
    BY <2>1, <2>2, <2>3
<1>2. ASSUME Sibling \/ Gather PROVE RoundsAreNumbered'
  <2>1. UNCHANGED <<persistence, parent, kids, child, run>> /\ ex # Idle
    BY <1>2 DEF Sibling, Gather, Open, Idle
  <2>2. ex'.step = ex.step
    BY <1>2, <2>1, DecidedFits DEF Sibling, Gather, NestedTypes
  <2> QED
    BY <2>1, <2>2
<1>3. ASSUME StartChild PROVE RoundsAreNumbered'
  <2>1. UNCHANGED <<persistence, parent, kids, run>> /\ ex # Idle /\ Open("s") /\ child = Idle
    BY <1>3 DEF StartChild, Open, Idle
  <2>2. ex'.step = ex.step
    BY <1>3, <2>1, DecidedFits DEF StartChild
  <2>3. child' # Idle /\ persistence # "thread" => child'.for = parent.rounds
    <3>1. CASE ~Durable \/ Here \notin DOMAIN kids
      BY <1>3, <3>1 DEF StartChild, Invoked
    <3>2. CASE Durable /\ Here \in DOMAIN kids
      <4>1. PICK k : k = kids[Here]
        OBVIOUS
      <4>2. child' # Idle => child'.for = k.for
        BY <1>3, <2>1, <3>2, <4>1 DEF StartChild, Invoked
      <4>3. persistence # "thread" => Here = <<"s", ex.step>>
        BY DEF Here
      <4>4. persistence # "thread" => Here = <<"s", k.for>>
        BY <2>1, <3>2, <4>1
      <4> QED
        BY <2>1, <4>2, <4>3, <4>4
    <3> QED
      BY <3>1, <3>2
  <2> QED
    BY <2>1, <2>2, <2>3
<1>4. ASSUME ChildNode \/ ChildAsks PROVE RoundsAreNumbered'
  <2>1. UNCHANGED <<persistence, parent, run>> /\ ex # Idle /\ Open("s") /\ child # Idle
    BY <1>4, ChildIsAwaited DEF ChildNode, ChildAsks
  <2>2. ex' # Idle => ex'.step = ex.step
    BY <1>4, <2>1, DecidedFits DEF ChildNode, ChildAsks
  <2>3. child' # Idle => child'.for = child.for
    BY <1>4, <2>1 DEF ChildNode, ChildAsks, NestedTypes
  <2>4. \E log, pos, asks : SaveChild(log, pos, asks)
    BY <1>4 DEF ChildNode, ChildAsks
  <2>5. Here = Activation(child.for)
    BY <2>1 DEF Here
  <2>6. (\A ns \in DOMAIN kids : ns = Activation(kids[ns].for))'
    BY <2>1, <2>4, <2>5 DEF SaveChild
  <2> QED
    BY <2>1, <2>2, <2>3, <2>6
<1>5. ASSUME ChildReturns PROVE RoundsAreNumbered'
  <2>1. UNCHANGED <<persistence, parent, kids, run>> /\ ex # Idle /\ Open("s") /\ child' = Idle
    BY <1>5, ChildIsAwaited DEF ChildReturns
  <2>2. ex'.step = ex.step
    BY <1>5, <2>1, DecidedFits DEF ChildReturns
  <2> QED
    BY <2>1, <2>2
<1>6. ASSUME Pause PROVE RoundsAreNumbered'
  <2>1. ex # Idle /\ UNCHANGED <<persistence, kids, child>> /\ child = Idle /\ ex' = Idle
        /\ run.inputs = 1 /\ ex.step \in Int
    BY <1>6 DEF Pause, Idle, CallsNest, NestedTypes
  <2>2. parent'.next /\ parent'.step + 1 = ex.step /\ parent'.rounds = parent.rounds
    BY <1>6, <2>1 DEF Pause, PauseStep, NestedTypes, NoCheckpoint
  <2> QED
    BY <2>1, <2>2
<1>7. ASSUME Commit PROVE RoundsAreNumbered'
  <2>1. ex # Idle /\ UNCHANGED <<persistence, kids, child>> /\ child = Idle /\ run.inputs = 1
        /\ ex.step = parent.rounds
    BY <1>7 DEF Commit, Idle, CallsNest, NestedTypes
  <2>2. PICK again \in BOOLEAN :
            /\ parent'.step = ex.step /\ parent'.rounds = parent.rounds + 1 /\ parent'.next = again
            /\ ex' # Idle => ex'.step = ex.step + 1
            /\ run' = IF again THEN run ELSE [run EXCEPT !.status = "done"]
    BY <1>7 DEF Commit
  <2> QED
    BY <2>1, <2>2 DEF NestedTypes
<1>8. ASSUME Crash PROVE RoundsAreNumbered'
  BY <1>8 DEF Crash, CallsNest, NestedTypes
<1>9. ASSUME SubmitInput \/ SubmitResume PROVE RoundsAreNumbered'
  <2>1. ~SubmitInput
    BY DEF SubmitInput, NestedTypes
  <2> QED
    BY <1>9, <2>1 DEF SubmitResume, NestedTypes, PausesAreResumed
<1>10. ASSUME Over \/ UNCHANGED nestedVars PROVE RoundsAreNumbered'
  BY <1>10 DEF Over, nestedVars
<1> QED
  BY <1>1, <1>2, <1>3, <1>4, <1>5, <1>6, <1>7, <1>8, <1>9, <1>10 DEF NestedNext

\* The invariant holds in every reachable state of a parent and its child.
THEOREM NestedInvariance == NestedSpec => []NestedInv
<1>1. NestedInv /\ [NestedNext]_nestedVars => NestedInv'
  BY TypesStep, NestStep, QuestionsStep, PausesStep, RoundsStep DEF NestedInv
<1> QED
  BY NestedStart, <1>1, PTL DEF NestedSpec

\* Where a namespace belongs to one activation, a child of the first run works for the
\* superstep that called it, and a paused run has its question where the resume will look
\* (ChildMeetsItsParent), for every plan, number of rounds, inputs and crashes.
THEOREM ChildMeets ==
  ASSUME "thread" \notin Persistences
  PROVE  NestedSpec => []ChildMeetsItsParent
<1>1. NestedInv => ChildMeetsItsParent
  BY DEF NestedInv, NestedTypes, RoundsAreNumbered, PausesAreResumed, ChildMeetsItsParent,
         FreshActivation
<1> QED
  BY <1>1, NestedInvariance, PTL

\* A child that paused goes on from its pause (PausedChildGoesOn), under every persistence.
THEOREM PausedChildGoes == NestedSpec => PausedChildGoesOn
<1>1. NestedInv /\ [NestedNext]_nestedVars =>
        [\A ns \in DOMAIN kids :
            kids[ns].asks /\ kids'[ns] # kids[ns] => kids'[ns].pos = Finished]_nestedVars
  <2> SUFFICES ASSUME NestedInv, NestedNext, NEW ns \in DOMAIN kids,
                      kids[ns].asks, kids'[ns] # kids[ns]
               PROVE  kids'[ns].pos = Finished
    BY DEF nestedVars
  <2>1. ChildNode \/ ChildAsks
    BY DEF NestedNext, Start, Sibling, StartChild, ChildReturns, Gather, Pause, Commit, Crash,
           SubmitInput, SubmitResume, Over, nestedVars
  <2>2. CallsNest /\ QuestionsStand /\ child.pc = "run"
    BY <2>1 DEF NestedInv, ChildNode, ChildAsks
  <2>3. PICK log, pos, asks : SaveChild(log, pos, asks)
    BY <2>1 DEF ChildNode, ChildAsks
  <2>4. ns = Here
    BY <2>3 DEF SaveChild
  <2>5. child.answered /\ child.pos = c2
    BY <2>2, <2>4, ChildIsAwaited DEF QuestionsStand
  <2>6. ChildNode
    BY <2>1, <2>5 DEF ChildAsks
  <2> QED
    BY <2>4, <2>5, <2>6 DEF ChildNode, SaveChild, c2, Finished
<1> QED
  BY <1>1, NestedInvariance, PTL DEF NestedSpec, PausedChildGoesOn

-----------------------------------------------------------------------------
(* A node that is itself a graph: LogsHold is inductive                     *)

\* One write merged by the reducer.
Grown(cell, w) == IF w.replace \/ cell = Empty THEN <<w.value>> ELSE <<cell[1] \o w.value>>

LEMMA MaxOfTwo == Max({1}) = 1 /\ Max({2}) = 2 /\ Max({1, 2}) = 2
<1>1. \A x \in {1} : x = 1
  OBVIOUS
<1>2. Max({1}) = 1
  BY DEF Max
<1>3. Max({2}) = 2
  BY DEF Max
<1>4. Max({1, 2}) = 2
  BY DEF Max
<1> QED
  BY <1>2, <1>3, <1>4

\* A fold over one write, or over two in their order.
LEMMA WritesFold ==
  ASSUME NEW cell, NEW writing
  PROVE  /\ DOMAIN writing = {1} => ReduceMerge(cell, writing) = Grown(cell, writing[1])
         /\ DOMAIN writing = {1, 2} =>
               ReduceMerge(cell, writing) = Grown(Grown(cell, writing[1]), writing[2])
<1> SUFFICES ASSUME DOMAIN writing \in {{1}, {1, 2}}
             PROVE  ReduceMerge(cell, writing) =
                       IF DOMAIN writing = {1} THEN Grown(cell, writing[1])
                       ELSE Grown(Grown(cell, writing[1]), writing[2])
  <2>1. {1} # {1, 2}
    OBVIOUS
  <2> QED
    BY <2>1
<1> DEFINE D == DOMAIN writing
           step(f) == [s \in SUBSET D |-> IF s = {} THEN cell
                                          ELSE Grown(f[s \ {Max(s)}], writing[Max(s)])]
           iter == CHOOSE f : f = step(f)
           g == [s \in SUBSET D |-> IF s = {} THEN cell
                                    ELSE IF s = {1} THEN Grown(cell, writing[1])
                                    ELSE IF s = {2} THEN Grown(cell, writing[2])
                                    ELSE Grown(Grown(cell, writing[1]), writing[2])]
<1>1. ReduceMerge(cell, writing) = iter[D]
  BY DEF ReduceMerge, FoldLeft, MapThenFoldSet, Grown
<1>2. \A s \in SUBSET D : s \in {{}, {1}, {2}, {1, 2}}
  OBVIOUS
<1>3. g = step(g)
  <2>1. ASSUME NEW s \in SUBSET D PROVE g[s] = step(g)[s]
    <3>1. CASE s = {}
      BY <3>1
    <3>2. CASE s = {1}
      <4>1. s \ {Max(s)} = {} /\ Max(s) = 1
        BY <3>2, MaxOfTwo
      <4> HIDE DEF D
      <4> QED
        BY <3>2, <4>1
    <3>3. CASE s = {2}
      <4>1. s \ {Max(s)} = {} /\ Max(s) = 2
        BY <3>3, MaxOfTwo
      <4> HIDE DEF D
      <4> QED
        BY <3>3, <4>1
    <3>4. CASE s = {1, 2}
      <4>1. s \ {Max(s)} = {1} /\ Max(s) = 2 /\ {1} \in SUBSET D
        BY <3>4, MaxOfTwo
      <4> HIDE DEF D
      <4> QED
        BY <3>4, <4>1
    <3> QED
      BY <1>2, <3>1, <3>2, <3>3, <3>4
  <2> QED
    BY <2>1
<1> HIDE DEF g
<1>4. iter = step(iter)
  BY <1>3
<1> HIDE DEF iter
<1>5. iter[{}] = cell
  BY <1>4
<1>6. iter[{1}] = Grown(cell, writing[1])
  <2>1. {1} \in SUBSET D /\ {1} \ {Max({1})} = {} /\ Max({1}) = 1 /\ {1} # {}
    BY MaxOfTwo
  <2> HIDE DEF D
  <2> QED
    BY <1>4, <1>5, <2>1
<1>7. D = {1, 2} => iter[{1, 2}] = Grown(iter[{1}], writing[2])
  <2>1. D = {1, 2} => {1, 2} \in SUBSET D
    OBVIOUS
  <2>2. {1, 2} \ {Max({1, 2})} = {1} /\ Max({1, 2}) = 2 /\ {1, 2} # {}
    BY MaxOfTwo
  <2> HIDE DEF D
  <2> QED
    BY <1>4, <2>1, <2>2
<1> QED
  BY <1>1, <1>6, <1>7

\* One value added, and the two updates of a superstep.
LEMMA UpdatesMerge ==
  /\ \A log, name : Append1(log, name) = log \o <<name>>
  /\ \A cell, v, w, writing :
        DOMAIN writing = {1, 2} /\ writing[1] = ReplaceValue(v) /\ writing[2] = Write(w)
        => ReduceMerge(cell, writing) = <<v \o w>>
<1>1. ASSUME NEW log, NEW name PROVE Append1(log, name) = log \o <<name>>
  <2> DEFINE cell == <<log>>
             writing == <<Write(<<name>>)>>
  <2>1. DOMAIN writing = {1} /\ writing[1] = Write(<<name>>) /\ cell # Empty /\ cell[1] = log
    BY DEF Empty
  <2>2. Append1(log, name) = ReduceMerge(cell, writing)[1]
    BY DEF Append1
  <2> HIDE DEF cell, writing
  <2>3. ReduceMerge(cell, writing) = Grown(cell, Write(<<name>>))
    BY <2>1, WritesFold
  <2>4. ~Write(<<name>>).replace /\ Write(<<name>>).value = <<name>>
    BY DEF Write
  <2>5. Grown(cell, Write(<<name>>)) = <<log \o <<name>>>>
    BY <2>1, <2>4 DEF Grown
  <2> QED
    BY <2>2, <2>3, <2>5
<1>2. ASSUME NEW cell, NEW v, NEW w, NEW writing, DOMAIN writing = {1, 2},
             writing[1] = ReplaceValue(v), writing[2] = Write(w)
      PROVE  ReduceMerge(cell, writing) = <<v \o w>>
  <2>1. Grown(cell, ReplaceValue(v)) = <<v>>
    BY DEF Grown, ReplaceValue
  <2>2. Grown(<<v>>, Write(w)) = <<v \o w>>
    BY DEF Grown, Write, Empty
  <2>3. ReduceMerge(cell, writing) = Grown(Grown(cell, writing[1]), writing[2])
    BY <1>2, WritesFold
  <2> QED
    BY <1>2, <2>1, <2>2, <2>3
<1> QED
  BY <1>1, <1>2

\* An entry at the end of a log is one more of its name.
LEMMA EntryIsCounted ==
  ASSUME NEW log \in Seq(Entries), NEW e \in Entries
  PROVE  /\ log \o <<e>> \in Seq(Entries)
         /\ \A n : /\ Occurrences(log, n) \in Nat
                   /\ Occurrences(log \o <<e>>, n) = IF n = e THEN Occurrences(log, n) + 1
                                                     ELSE Occurrences(log, n)
<1> DEFINE longer == log \o <<e>>
<1>1. longer \in Seq(Entries) /\ Len(longer) = Len(log) + 1 /\ Len(log) \in Nat
  OBVIOUS
<1>2. /\ DOMAIN longer = DOMAIN log \cup {Len(log) + 1} /\ DOMAIN log = 1..Len(log)
      /\ \A i \in DOMAIN log : longer[i] = log[i]
      /\ longer[Len(log) + 1] = e
  BY <1>1
<1> HIDE DEF longer
<1>3. ASSUME NEW n
      PROVE  /\ Occurrences(log, n) \in Nat
             /\ Occurrences(longer, n) = IF n = e THEN Occurrences(log, n) + 1 ELSE Occurrences(log, n)
  <2> DEFINE at == {i \in DOMAIN log : log[i] = n}
  <2>1. IsFiniteSet(at)
    <3>1. IsFiniteSet(1..Len(log))
      BY <1>1, FS_Interval
    <3> QED
      BY <1>2, <3>1, FS_Subset
  <2>2. Cardinality(at) \in Nat /\ Len(log) + 1 \notin at
    <3>1. Len(log) + 1 \notin 1..Len(log)
      BY <1>1
    <3> QED
      BY <1>2, <2>1, <3>1, FS_CardinalityType
  <2>3. {i \in DOMAIN longer : longer[i] = n} = IF n = e THEN at \cup {Len(log) + 1} ELSE at
    BY <1>2
  <2>4. Cardinality(at \cup {Len(log) + 1}) = Cardinality(at) + 1
    BY <2>1, <2>2, FS_AddElement
  <2> QED
    BY <2>2, <2>3, <2>4 DEF Occurrences
<1> QED
  BY <1>1, <1>3 DEF longer

\* What a log holds with an entry more: an input, a step of the child, a step of the sibling.
LEMMA HoldsMore ==
  ASSUME NEW log, NEW rounds \in Nat, NEW pos \in c1..Finished, Holds(log, rounds, pos)
  PROVE  /\ Holds(log \o <<INPUT>>, rounds, pos)
         /\ pos = c1 => Holds(log \o <<"c1">>, rounds, pos + 1)
         /\ pos = c2 => Holds(log \o <<"c2">>, rounds, pos + 1)
         /\ pos = Finished => Holds(log \o <<"x">>, rounds + 1, c1)
<1>1. log \in Seq(Entries)
  BY DEF Holds
<1>2. INPUT \in Entries /\ "c1" \in Entries /\ "c2" \in Entries /\ "x" \in Entries
  BY DEF Entries
<1>3. INPUT # "c1" /\ INPUT # "c2" /\ INPUT # "x"
  BY DEF INPUT
<1>4. Holds(log \o <<INPUT>>, rounds, pos)
  BY <1>1, <1>2, <1>3, EntryIsCounted DEF Holds
<1>5. pos = c1 => Holds(log \o <<"c1">>, rounds, pos + 1)
  BY <1>1, <1>2, EntryIsCounted DEF Holds, c1, c2
<1>6. pos = c2 => Holds(log \o <<"c2">>, rounds, pos + 1)
  BY <1>1, <1>2, EntryIsCounted DEF Holds, c1, c2
<1>7. pos = Finished => Holds(log \o <<"x">>, rounds + 1, c1)
  BY <1>1, <1>2, EntryIsCounted DEF Holds, c1, c2, Finished
<1> QED
  BY <1>4, <1>5, <1>6, <1>7

\* What is stored, at a base, is what was or the result of a task that succeeded.
LEMMA PutAdds ==
  ASSUME NEW base, NEW w \in Put(base)
  PROVE  w \in writes \/ (w.base = base /\ w.task \in Succeeded /\ w.write = Displayed(ex.outs[w.task]))
  BY DEF Put

\* Checkpoints are numbered, and nothing is stored under one that is yet to come.
LEMMA BasesStep ==
  ASSUME NestedTypes, CallsNest, BasesAreKept, [NestedNext]_nestedVars
  PROVE  BasesAreKept'
<1> USE DEF BasesAreKept
<1>1. CASE Start
  <2>1. UNCHANGED <<parent, writes, faults>> /\ (ex' = ex \/ ex'.base = parent.id)
    BY <1>1 DEF Start
  <2> QED
    BY <2>1
<1>2. CASE Sibling \/ StartChild \/ ChildAsks \/ ChildReturns
  <2>1. UNCHANGED <<parent, writes, faults>>
    BY <1>2 DEF Sibling, StartChild, ChildAsks, ChildReturns
  <2>2. ex' = ex \/ \E t, w : Open(t) /\ ex' = Decided(t, w)
    BY <1>2, ChildIsAwaited DEF Sibling, StartChild, ChildAsks, ChildReturns
  <2>3. ex # Idle
    <3>1. CASE Sibling \/ StartChild
      <4>1. ex.pc = "run"
        BY <3>1 DEF Sibling, StartChild, Open
      <4> QED
        BY <4>1 DEF Idle
    <3>2. CASE ChildAsks \/ ChildReturns
      BY <3>2, ChildIsAwaited DEF ChildAsks, ChildReturns
    <3> QED
      BY <1>2, <3>1, <3>2
  <2>4. ex'.base = ex.base
    BY <2>2, <2>3, DecidedFits
  <2> QED
    BY <2>1, <2>3, <2>4
<1>3. CASE ChildNode
  BY <1>3 DEF ChildNode
<1>4. CASE Gather
  <2>1. UNCHANGED <<parent, faults>> /\ ex # Idle /\ writes' = Put(ex.base) /\ ex.base = parent.id
    BY <1>4 DEF Gather, Idle
  <2>2. ex'.base = ex.base
    BY <1>4, <2>1 DEF Gather, NestedTypes
  <2>3. \A w \in writes' : w.base \in 0..parent.id
    BY <2>1, PutAdds
  <2> QED
    BY <2>1, <2>2, <2>3
<1>5. CASE Pause
  <2>1. faults' = faults /\ ex' = Idle /\ writes' = Put(parent.id + 1)
    BY <1>5 DEF Pause
  <2>2. parent'.id = parent.id + 1
    <3>1. parent' = [parent EXCEPT !.id = @ + 1, !.log = ex.log, !.step = PauseStep(ex.step),
                                   !.next = TRUE, !.asks = TRUE]
      BY <1>5 DEF Pause
    <3> QED
      BY <3>1 DEF NestedTypes, NoCheckpoint
  <2>3. \A w \in writes' : w.base \in 0..(parent.id + 1)
    BY <2>1, PutAdds
  <2> QED
    BY <2>1, <2>2, <2>3
<1>6. CASE Commit
  BY <1>6 DEF Commit
<1>7. CASE Crash
  BY <1>7 DEF Crash
<1>8. CASE SubmitInput \/ SubmitResume \/ Over \/ UNCHANGED nestedVars
  BY <1>8 DEF SubmitInput, SubmitResume, Over, nestedVars
<1> QED
  BY <1>1, <1>2, <1>3, <1>4, <1>5, <1>6, <1>7, <1>8 DEF NestedNext

\* What was undisturbed is disturbed for good.
LEMMA DisturbedStays ==
  ASSUME NestedTypes, BasesAreKept, [NestedNext]_nestedVars, Undisturbed'
  PROVE  /\ Undisturbed /\ ~Crash /\ UNCHANGED persistence
         /\ Durable => run.inputs = 1 /\ run'.inputs = 1
<1>1. UNCHANGED persistence
  BY DEF NestedNext, Start, Sibling, StartChild, ChildNode, ChildAsks, ChildReturns, Gather,
         Pause, Commit, Crash, SubmitInput, SubmitResume, Over, nestedVars
<1>2. faults' = faults \/ Crash
  BY DEF NestedNext, Start, Sibling, StartChild, ChildNode, ChildAsks, ChildReturns, Gather,
         Pause, Commit, SubmitInput, SubmitResume, Over, nestedVars
<1>3. ~Crash /\ faults = 0
  BY <1>2 DEF Crash, Undisturbed, BasesAreKept
<1>4. run'.inputs = run.inputs \/ (SubmitInput /\ run'.inputs = run.inputs + 1)
  <2>1. CASE SubmitInput
    BY <2>1 DEF SubmitInput
  <2>2. CASE ~SubmitInput
    BY <2>2 DEF NestedNext, Start, Sibling, StartChild, ChildNode, ChildAsks, ChildReturns, Gather,
         Pause, Commit, Crash, SubmitResume, Over, nestedVars, NestedTypes
  <2> QED
    BY <2>1, <2>2
<1>5. run.inputs \in Nat \ {0} /\ run.inputs + 1 # 1
  BY DEF NestedTypes
<1> QED
  BY <1>1, <1>3, <1>4, <1>5 DEF Undisturbed, Durable

\* A child is accounted for while it, or the result of its node, stands.
LEMMA KidsStay ==
  ASSUME KidsHold, UNCHANGED kids, parent'.rounds = parent.rounds,
         child # Idle => child' # Idle \/ (ex' # Idle /\ "s" \in DOMAIN ex'.outs),
         ex # Idle /\ "s" \in DOMAIN ex.outs => ex' # Idle /\ "s" \in DOMAIN ex'.outs
  PROVE  KidsHold'
<1>1. ASSUME NEW ns \in DOMAIN kids
      PROVE  /\ kids'[ns].for \in 0..parent'.rounds
             /\ kids'[ns].asks => Holds(kids'[ns].log, kids'[ns].for, kids'[ns].pos)
             /\ kids'[ns].for = parent'.rounds =>
                   kids'[ns].asks \/ child' # Idle \/ (ex' # Idle /\ "s" \in DOMAIN ex'.outs)
  BY DEF KidsHold
<1> QED
  BY <1>1 DEF KidsHold, Holds, Occurrences

\* What every log holds, as a delivery starts and its tasks are decided.
LEMMA LogsStart ==
  ASSUME NestedInv, LogsHold, Undisturbed, Undisturbed', Start
  PROVE  LogsHold'
<1>1. /\ UNCHANGED <<persistence, parent, kids, writes, child, faults>> /\ ex = Idle /\ child = Idle
      /\ parent.rounds \in Nat
  BY DEF Start, NestedInv, CallsNest, NestedTypes
<1>2. Holds(parent.log, parent.rounds, c1) /\ KidsHold /\ WritesHold
  BY DEF LogsHold
<1>3. CASE UNCHANGED ex
  <2>1. KidsHold'
    BY <1>1, <1>2, <1>3, KidsStay
  <2>2. WritesHold'
    BY <1>1, <1>2, <1>3 DEF WritesHold
  <2> QED
    <3>1. Holds(parent.log, parent.rounds, c1)' /\ ex' = Idle /\ child' = Idle
      BY <1>1, <1>2, <1>3
    <3>2. (child # Idle => Holds(child.log, parent.rounds, child.pos))' /\ (ex # Idle => OutputsHold)'
      BY <3>1
    <3> QED
      BY <2>1, <2>2, <3>1, <3>2 DEF LogsHold
<1>4. CASE ~UNCHANGED ex
  <2> DEFINE log == IF run.kind = "input" THEN Append1(parent.log, INPUT) ELSE parent.log
             outs == [t \in {w.task : w \in {v \in writes : v.base = parent.id}} |->
                         (CHOOSE w \in writes : w.base = parent.id /\ w.task = t).write]
  <2>1. /\ ex' = [pc |-> "run", log |-> log, step |-> FirstStep, base |-> parent.id, outs |-> outs,
                  answered |-> parent.asks /\ run.kind = "resume"]
    BY <1>4 DEF Start
  <2>2. Holds(log, parent.rounds, c1)
    <3>1. c1 \in c1..Finished
      BY DEF c1, Finished
    <3>2. Holds(parent.log \o <<INPUT>>, parent.rounds, c1)
      BY <1>1, <1>2, <3>1, HoldsMore
    <3> QED
      BY <1>2, <3>2, UpdatesMerge
  <2>3. ASSUME NEW t \in DOMAIN outs PROVE t = "x" /\ outs[t] = Write(<<"x">>)
    <3>1. \E w \in writes : w.base = parent.id /\ w.task = t
      OBVIOUS
    <3> DEFINE w == CHOOSE w \in writes : w.base = parent.id /\ w.task = t
    <3>2. w \in writes /\ w.base = parent.id /\ w.task = t
      BY <3>1
    <3>3. outs[t] = w.write
      OBVIOUS
    <3> HIDE DEF w, outs
    <3> QED
      BY <1>1, <1>2, <3>2, <3>3 DEF WritesHold
  <2> HIDE DEF log, outs
  <2>4. ex'.log = log /\ ex'.outs = outs /\ ex'.pc = "run"
    BY <2>1
  <2>5. OutputsHold'
    BY <1>1, <2>2, <2>3, <2>4 DEF OutputsHold, Holds, Occurrences
  <2>6. KidsHold'
    BY <1>1, <1>2 DEF KidsHold, Holds, Occurrences
  <2>7. WritesHold'
    BY <1>1, <1>2 DEF WritesHold
  <2> QED
    BY <1>1, <1>2, <2>5, <2>6, <2>7 DEF LogsHold, Holds, Occurrences
<1> QED
  BY <1>3, <1>4

\* A task that is decided leaves the rest of a delivery as it is.
LEMMA OutputsGrow ==
  ASSUME NestedTypes, OutputsHold, UNCHANGED parent, ex # Idle, ex.pc = "run",
         NEW t \in {"s", "x"}, NEW w, Open(t), ex' = Decided(t, w),
         t = "x" => w = Write(<<"x">>),
         t = "s" => w = Asking \/ \E log : w = ReplaceValue(log) /\ Holds(log, parent.rounds, Finished)
  PROVE  OutputsHold' /\ ex' # Idle /\ ex'.pc = "run" /\ DOMAIN ex'.outs = DOMAIN ex.outs \cup {t}
<1>1. /\ ex' # Idle /\ ex'.pc = ex.pc /\ ex'.log = ex.log /\ DOMAIN ex'.outs = DOMAIN ex.outs \cup {t}
      /\ \A u \in DOMAIN ex.outs \cup {t} : ex'.outs[u] = IF u = t THEN w ELSE ex.outs[u]
  BY DecidedFits
<1>2. Holds(ex.log, parent.rounds, c1)' /\ DOMAIN ex'.outs \subseteq {"s", "x"} /\ ex'.pc = "run"
  BY <1>1 DEF OutputsHold, Holds, Occurrences
<1>3. "x" \in DOMAIN ex'.outs => ex'.outs["x"] = Write(<<"x">>)
  BY <1>1 DEF OutputsHold
<1>4. ASSUME "s" \in DOMAIN ex'.outs, ex'.outs["s"] # Asking
      PROVE  /\ ex'.outs["s"] = ReplaceValue(ex'.outs["s"].value)
             /\ Holds(ex'.outs["s"].value, parent.rounds, Finished)
  <2>1. CASE t = "s"
    <3>1. PICK log : w = ReplaceValue(log) /\ Holds(log, parent.rounds, Finished)
      BY <1>1, <1>4, <2>1
    <3>2. ReplaceValue(log).value = log
      BY DEF ReplaceValue
    <3>3. ex'.outs["s"] = w
      BY <1>1, <2>1
    <3> QED
      BY <3>1, <3>2, <3>3
  <2>2. CASE t # "s"
    <3>1. "s" \in DOMAIN ex.outs /\ ex'.outs["s"] = ex.outs["s"]
      BY <1>1, <1>4, <2>2
    <3> QED
      BY <1>4, <3>1 DEF OutputsHold
  <2> QED
    BY <2>1, <2>2
<1>5. OutputsHold'
  BY <1>2, <1>3, <1>4 DEF OutputsHold, Holds, Occurrences
<1> QED
  BY <1>1, <1>2, <1>5

\* What every log holds, as x succeeds.
LEMMA LogsSibling ==
  ASSUME NestedInv, LogsHold, Undisturbed, Undisturbed', Sibling
  PROVE  LogsHold'
<1>1. /\ UNCHANGED <<persistence, parent, kids, writes, child, run, faults>>
      /\ Open("x") /\ ex' = Decided("x", Write(<<"x">>)) /\ ex.pc = "run" /\ NestedTypes
  BY DEF Sibling, Open, NestedInv
<1>2. ex # Idle
  BY <1>1 DEF Idle
<1>3. /\ Holds(parent.log, parent.rounds, c1) /\ OutputsHold /\ KidsHold /\ WritesHold
      /\ child # Idle => Holds(child.log, parent.rounds, child.pos)
  BY <1>2 DEF LogsHold
<1>4. OutputsHold' /\ ex' # Idle /\ ex'.pc = "run" /\ DOMAIN ex'.outs = DOMAIN ex.outs \cup {"x"}
  BY <1>1, <1>2, <1>3, OutputsGrow
<1>5. KidsHold'
  BY <1>1, <1>2, <1>3, <1>4, KidsStay
<1>6. WritesHold'
  BY <1>1, <1>3, <1>4 DEF WritesHold
<1> QED
  BY <1>1, <1>3, <1>4, <1>5, <1>6 DEF LogsHold, Holds, Occurrences

\* What every log holds, as a child is invoked, resumed, or found asking.
LEMMA LogsStartChild ==
  ASSUME NestedInv, NestedInv', LogsHold, Undisturbed, Undisturbed', StartChild,
         "thread" \notin Persistences, Durable => run.inputs = 1 /\ run'.inputs = 1
  PROVE  LogsHold'
<1>1. /\ UNCHANGED <<persistence, parent, kids, writes, run, faults>> /\ Open("s") /\ child = Idle
      /\ ex.pc = "run" /\ "s" \notin DOMAIN ex.outs /\ NestedTypes
  BY DEF StartChild, Open, NestedInv
<1>2. ex # Idle /\ parent.rounds \in Nat /\ persistence # "thread"
  BY <1>1 DEF Idle, NestedTypes
<1>3. /\ Holds(parent.log, parent.rounds, c1) /\ OutputsHold /\ KidsHold /\ WritesHold
  BY <1>2 DEF LogsHold
<1>4. Holds(ex.log, parent.rounds, c1)
  BY <1>3 DEF OutputsHold
<1>5. CASE UNCHANGED ex
  <2>1. child' # Idle /\ child'.pos \in c1..Finished /\ Holds(child'.log, parent.rounds, child'.pos)
    <3>1. CASE ~Durable \/ Here \notin DOMAIN kids
      <4>1. child' = Invoked(ex.log, c1, FALSE, parent.rounds)
        BY <3>1 DEF StartChild
      <4> QED
        BY <1>4, <4>1 DEF Invoked, Idle, c1, Finished
    <3>2. CASE Durable /\ Here \in DOMAIN kids
      <4> DEFINE k == kids[Here]
      <4>1. k.asks => child' = Invoked(k.log, ResumedAt(k), TRUE, k.for)
        <5>1. ~(k.asks /\ ~ex.answered)
          <6>1. SUFFICES ASSUME k.asks /\ ~ex.answered PROVE FALSE
            OBVIOUS
          <6>2. ex' = Decided("s", Asking)
            BY <3>2, <6>1 DEF StartChild
          <6> QED
            BY <1>1, <1>2, <1>5, <6>2, DecidedFits
        <5> QED
          BY <3>2, <5>1 DEF StartChild
      <4>2. ~k.asks =>
               child' = Invoked(ReduceMerge(<<k.log>>, <<Write(ex.log)>>)[1], Reinvoked(k), FALSE, k.for)
        BY <3>2 DEF StartChild
      <4>3. child' # Idle /\ child'.for = k.for
        BY <4>1, <4>2 DEF Invoked, Idle
      <4>4. k.for = parent.rounds
        BY <1>1, <1>2, <3>2, <4>3 DEF NestedInv, RoundsAreNumbered
      <4>5. k.asks
        BY <1>1, <3>2, <4>4, <1>3 DEF KidsHold
      <4>6. Holds(k.log, parent.rounds, k.pos) /\ k.pos \in c1..Finished
        BY <1>1, <1>3, <3>2, <4>4, <4>5 DEF KidsHold, NestedTypes
      <4> HIDE DEF k
      <4> QED
        BY <4>1, <4>3, <4>5, <4>6 DEF Invoked, ResumedAt
    <3> QED
      BY <3>1, <3>2
  <2>2. OutputsHold'
    BY <1>1, <1>3, <1>5 DEF OutputsHold, Holds, Occurrences
  <2>3. KidsHold'
    BY <1>1, <1>2, <1>3, <1>5, <2>1, KidsStay
  <2>4. WritesHold'
    BY <1>1, <1>3, <1>5 DEF WritesHold
  <2> QED
    BY <1>1, <1>3, <2>1, <2>2, <2>3, <2>4 DEF LogsHold, Holds, Occurrences
<1>6. CASE ex' = Decided("s", Asking) /\ UNCHANGED child
  <2>1. OutputsHold' /\ ex' # Idle /\ ex'.pc = "run" /\ DOMAIN ex'.outs = DOMAIN ex.outs \cup {"s"}
    <3>1. "s" # "x"
      OBVIOUS
    <3> QED
      BY <1>1, <1>2, <1>3, <1>6, <3>1, OutputsGrow
  <2>2. KidsHold'
    BY <1>1, <1>2, <1>3, <2>1, KidsStay
  <2>3. WritesHold'
    BY <1>1, <1>3, <2>1 DEF WritesHold
  <2> QED
    BY <1>1, <1>3, <1>6, <2>1, <2>2, <2>3 DEF LogsHold, Holds, Occurrences
<1> QED
  BY <1>5, <1>6 DEF StartChild

\* What a child writes to the namespace it serves.
LEMMA SavedHolds ==
  ASSUME KidsHold, UNCHANGED parent, NEW log, NEW pos, NEW asks, SaveChild(log, pos, asks),
         ~Durable => DOMAIN kids = {},
         Durable => child.for = parent.rounds, parent.rounds \in Nat,
         asks => Holds(log, parent.rounds, pos),
         child' # Idle \/ (ex' # Idle /\ "s" \in DOMAIN ex'.outs)
  PROVE  KidsHold'
<1>1. CASE ~Durable
  BY <1>1 DEF SaveChild, KidsHold
<1>2. CASE Durable
  <2> DEFINE saved == [log |-> log, pos |-> pos, asks |-> asks, for |-> child.for]
  <2>1. kids' = [ns \in DOMAIN kids \cup {Here} |-> IF ns = Here THEN saved ELSE kids[ns]]
    BY <1>2 DEF SaveChild
  <2>2. ASSUME NEW ns \in DOMAIN kids'
        PROVE  /\ kids'[ns].for \in 0..parent'.rounds
               /\ kids'[ns].asks => Holds(kids'[ns].log, kids'[ns].for, kids'[ns].pos)
               /\ kids'[ns].for = parent'.rounds =>
                     kids'[ns].asks \/ child' # Idle \/ (ex' # Idle /\ "s" \in DOMAIN ex'.outs)
    <3>1. CASE ns = Here
      <4>1. kids'[ns] = saved
        BY <2>1, <3>1
      <4>2. saved.log = log /\ saved.pos = pos /\ saved.asks = asks /\ saved.for = parent.rounds
        BY <1>2
      <4> HIDE DEF saved
      <4> QED
        BY <4>1, <4>2
    <3>2. CASE ns # Here
      <4>1. kids'[ns] = kids[ns] /\ ns \in DOMAIN kids
        BY <2>1, <3>2
      <4> QED
        BY <4>1 DEF KidsHold
    <3> QED
      BY <3>1, <3>2
  <2> QED
    BY <2>2 DEF KidsHold, Holds, Occurrences
<1> QED
  BY <1>1, <1>2

\* What every log holds, as a child makes a step.
LEMMA LogsChildNode ==
  ASSUME NestedInv, LogsHold, Undisturbed, Undisturbed', ChildNode,
         "thread" \notin Persistences, Durable => run.inputs = 1 /\ run'.inputs = 1
  PROVE  LogsHold'
<1> DEFINE log == Append1(child.log, IF child.pos = c1 THEN "c1" ELSE "c2")
<1>1. /\ UNCHANGED <<persistence, parent, writes, ex, run, faults>> /\ child # Idle /\ ex # Idle
      /\ child.pos < Finished /\ NestedTypes /\ SaveChild(log, child.pos + 1, FALSE)
      /\ child' = [child EXCEPT !.log = log, !.pos = @ + 1]
  <2>1. child.pc = "run" /\ CallsNest /\ NestedTypes
    BY DEF ChildNode, NestedInv
  <2>2. child # Idle
    BY <2>1 DEF Idle
  <2> QED
    BY <2>1, <2>2 DEF ChildNode, CallsNest
<1>2. /\ parent.rounds \in Nat /\ persistence # "thread" /\ child.pos \in c1..Finished
      /\ DOMAIN child = {"pc", "log", "pos", "answered", "for"}
  BY <1>1 DEF NestedTypes
<1>3. /\ Holds(parent.log, parent.rounds, c1) /\ OutputsHold /\ KidsHold /\ WritesHold
      /\ Holds(child.log, parent.rounds, child.pos)
  BY <1>1 DEF LogsHold
<1>4. child.pos \in {c1, c2} /\ c1 # c2
  BY <1>1, <1>2 DEF c1, c2, Finished
<1>5. Holds(log, parent.rounds, child.pos + 1)
  <2>1. CASE child.pos = c1
    <3>1. log = child.log \o <<"c1">>
      BY <2>1, UpdatesMerge
    <3> QED
      BY <1>2, <1>3, <2>1, <3>1, HoldsMore
  <2>2. CASE child.pos = c2
    <3>1. log = child.log \o <<"c2">>
      BY <1>4, <2>2, UpdatesMerge
    <3> QED
      BY <1>2, <1>3, <2>2, <3>1, HoldsMore
  <2> QED
    BY <1>4, <2>1, <2>2
<1> HIDE DEF log
<1>6. child' # Idle /\ child'.log = log /\ child'.pos = child.pos + 1
  <2>1. DOMAIN child' = DOMAIN child /\ child'.log = log /\ child'.pos = child.pos + 1
    BY <1>1, <1>2
  <2>2. DOMAIN Idle = {"pc"} /\ "log" # "pc"
    BY DEF Idle
  <2> QED
    BY <1>2, <2>1, <2>2
<1>7. Durable => child.for = parent.rounds
  BY <1>1, <1>2 DEF NestedInv, RoundsAreNumbered
<1>8. KidsHold'
  <2>1. ~Durable => DOMAIN kids = {}
    BY DEF NestedInv, QuestionsStand
  <2> QED
    BY <1>1, <1>2, <1>3, <1>6, <1>7, <2>1, SavedHolds
<1>9. OutputsHold' /\ WritesHold'
  BY <1>1, <1>3 DEF OutputsHold, WritesHold, Holds, Occurrences
<1> QED
  BY <1>1, <1>3, <1>5, <1>6, <1>8, <1>9 DEF LogsHold, Holds, Occurrences

\* What every log holds, as a child asks or returns.
LEMMA LogsChildEnds ==
  ASSUME NestedInv, LogsHold, Undisturbed, Undisturbed', ChildAsks \/ ChildReturns,
         "thread" \notin Persistences, Durable => run.inputs = 1 /\ run'.inputs = 1
  PROVE  LogsHold'
<1>1. /\ UNCHANGED <<persistence, parent, writes, run, faults>> /\ child # Idle /\ ex # Idle
      /\ ex.pc = "run" /\ "s" \notin DOMAIN ex.outs /\ NestedTypes /\ child' = Idle
  <2>1. child.pc = "run" /\ CallsNest /\ NestedTypes
    BY DEF ChildAsks, ChildReturns, NestedInv
  <2>2. child # Idle
    BY <2>1 DEF Idle
  <2> QED
    BY <2>1, <2>2 DEF ChildAsks, ChildReturns, CallsNest
<1>2. /\ parent.rounds \in Nat /\ persistence # "thread"
  BY <1>1 DEF NestedTypes
<1>3. /\ Holds(parent.log, parent.rounds, c1) /\ OutputsHold /\ KidsHold /\ WritesHold
      /\ Holds(child.log, parent.rounds, child.pos)
  BY <1>1 DEF LogsHold
<1>4. PICK w : /\ ex' = Decided("s", w)
               /\ w = Asking \/ \E log : w = ReplaceValue(log) /\ Holds(log, parent.rounds, Finished)
  BY <1>3 DEF ChildAsks, ChildReturns
<1>5. OutputsHold' /\ ex' # Idle /\ ex'.pc = "run" /\ DOMAIN ex'.outs = DOMAIN ex.outs \cup {"s"}
  <2>1. "s" # "x" /\ Open("s")
    BY <1>1 DEF Open
  <2> QED
    BY <1>1, <1>3, <1>4, <2>1, OutputsGrow
<1>6. KidsHold'
  <2>1. CASE ChildReturns
    <3>1. UNCHANGED kids
      BY <2>1 DEF ChildReturns
    <3> QED
      BY <1>1, <1>3, <1>5, <3>1, KidsStay
  <2>2. CASE ChildAsks
    <3>1. SaveChild(child.log, child.pos, TRUE) /\ (~Durable => DOMAIN kids = {})
      BY <2>2 DEF ChildAsks, NestedInv, QuestionsStand
    <3>2. Durable => child.for = parent.rounds
      BY <1>1, <1>2 DEF NestedInv, RoundsAreNumbered
    <3> QED
      BY <1>1, <1>2, <1>3, <1>5, <3>1, <3>2, SavedHolds
  <2> QED
    BY <2>1, <2>2
<1>7. WritesHold'
  BY <1>1, <1>3, <1>5 DEF WritesHold
<1> QED
  BY <1>1, <1>3, <1>5, <1>6, <1>7 DEF LogsHold, Holds, Occurrences

\* What every log holds, as the tasks of a superstep are gathered.
LEMMA LogsGather ==
  ASSUME NestedInv, LogsHold, Undisturbed, Undisturbed', Gather
  PROVE  LogsHold'
<1>1. /\ UNCHANGED <<persistence, parent, kids, child, run, faults>>
      /\ ex.pc = "run" /\ DOMAIN ex.outs = ToSet(Plan) /\ ex' = [ex EXCEPT !.pc = "gathered"]
      /\ NestedTypes /\ CallsNest
  BY DEF Gather, NestedInv
<1>2. ex # Idle /\ ToSet(Plan) = {"s", "x"}
  BY <1>1, PlanAssumption DEF Idle
<1>3. /\ Holds(parent.log, parent.rounds, c1) /\ OutputsHold /\ KidsHold
      /\ child # Idle => Holds(child.log, parent.rounds, child.pos)
  BY <1>2 DEF LogsHold
<1>4. /\ DOMAIN ex' = DOMAIN ex /\ ex'.pc = "gathered" /\ ex'.outs = ex.outs /\ ex'.log = ex.log
  BY <1>1, <1>2 DEF NestedTypes
<1>5. ex' # Idle
  BY <1>4 DEF Idle
<1>6. OutputsHold'
  BY <1>1, <1>2, <1>3, <1>4 DEF OutputsHold, Holds, Occurrences
<1>7. KidsHold'
  BY <1>1, <1>2, <1>3, <1>4, <1>5, KidsStay
<1>8. WritesHold'
  BY <1>4, <1>5 DEF WritesHold
<1> QED
  BY <1>1, <1>3, <1>6, <1>7, <1>8 DEF LogsHold, Holds, Occurrences

\* What every log holds, as a superstep pauses: the log of the delivery is kept.
LEMMA LogsPause ==
  ASSUME NestedInv, BasesAreKept, LogsHold, Undisturbed, Undisturbed', Pause,
         "thread" \notin Persistences, Durable => run.inputs = 1 /\ run'.inputs = 1
  PROVE  LogsHold'
<1>1. /\ UNCHANGED <<persistence, kids, child, faults>> /\ ex.pc = "gathered" /\ ex.outs["s"] = Asking
      /\ parent' = [parent EXCEPT !.id = @ + 1, !.log = ex.log, !.step = PauseStep(ex.step),
                                  !.next = TRUE, !.asks = TRUE]
      /\ writes' = Put(parent.id + 1) /\ ex' = Idle /\ NestedTypes /\ CallsNest
  BY DEF Pause, NestedInv
<1>2. ex # Idle /\ persistence # "thread"
  BY <1>1 DEF Idle, NestedTypes
<1>3. OutputsHold /\ KidsHold /\ DOMAIN ex.outs = {"s", "x"} /\ child = Idle
  BY <1>1, <1>2 DEF LogsHold, OutputsHold, CallsNest
<1>4. parent'.id = parent.id + 1 /\ parent'.log = ex.log /\ parent'.rounds = parent.rounds
  BY <1>1 DEF NestedTypes, NoCheckpoint
<1>5. Holds(parent'.log, parent'.rounds, c1)
  BY <1>3, <1>4 DEF OutputsHold
<1>6. KidsHold'
  <2>1. Durable /\ Here \in DOMAIN kids /\ kids[Here].asks
    BY <1>1, <1>2, <1>3 DEF NestedInv, QuestionsStand
  <2>2. run.inputs = 1 /\ ex.step = parent.rounds
    BY <1>2, <2>1 DEF NestedInv, RoundsAreNumbered
  <2>3. ASSUME NEW ns \in DOMAIN kids, kids[ns].for = parent.rounds PROVE ns = Here
    BY <2>2, <2>3 DEF NestedInv, RoundsAreNumbered, Here
  <2>4. ASSUME NEW ns \in DOMAIN kids
        PROVE  /\ kids'[ns].for \in 0..parent'.rounds
               /\ kids'[ns].asks => Holds(kids'[ns].log, kids'[ns].for, kids'[ns].pos)
               /\ kids'[ns].for = parent'.rounds => kids'[ns].asks
    BY <1>1, <1>3, <1>4, <2>1, <2>3 DEF KidsHold
  <2> QED
    BY <1>1, <2>4 DEF KidsHold, Holds, Occurrences
<1>7. WritesHold'
  <2>1. ASSUME NEW w \in writes', w.base = parent'.id PROVE w.task = "x" /\ w.write = Write(<<"x">>)
    <3>1. w \notin writes
      BY <1>4, <2>1 DEF BasesAreKept
    <3>2. w.task \in Succeeded /\ w.write = Displayed(ex.outs[w.task])
      BY <1>1, <2>1, <3>1, PutAdds
    <3>3. w.task = "x" /\ ex.outs["x"] = Write(<<"x">>)
      BY <1>1, <1>3, <3>2 DEF Succeeded, OutputsHold
    <3>4. Displayed(Write(<<"x">>)) = Write(<<"x">>)
      BY DEF Displayed, Write
    <3> QED
      BY <3>2, <3>3, <3>4
  <2> QED
    BY <2>1 DEF WritesHold
<1> QED
  BY <1>1, <1>3, <1>5, <1>6, <1>7 DEF LogsHold, Holds, Occurrences

\* What every log holds, as a superstep commits: the child's log is taken, then x is added.
LEMMA LogsCommit ==
  ASSUME NestedInv, BasesAreKept, LogsHold, Undisturbed, Undisturbed', Commit, Plan = <<"s", "x">>
  PROVE  LogsHold'
<1> DEFINE writing == [i \in DOMAIN Plan |-> ex.outs[Plan[i]]]
           log == ReduceMerge(<<ex.log>>, writing)[1]
<1>1. /\ UNCHANGED <<persistence, kids, writes, child, faults>> /\ ex.pc = "gathered"
      /\ ex.outs["s"] # Asking /\ NestedTypes /\ CallsNest
  BY DEF Commit, NestedInv
<1>2. PICK again \in BOOLEAN :
        /\ parent' = [id |-> parent.id + 1, log |-> log, step |-> ex.step, next |-> again,
                      asks |-> FALSE, rounds |-> parent.rounds + 1]
        /\ ex' = IF again THEN [pc |-> "run", log |-> log, step |-> ex.step + 1,
                                base |-> parent.id + 1, outs |-> <<>>, answered |-> FALSE]
                 ELSE Idle
  BY DEF Commit
<1>3. ex # Idle /\ parent.rounds \in Nat /\ parent.id \in Nat
  BY <1>1 DEF Idle, NestedTypes, BasesAreKept
<1>4. OutputsHold /\ KidsHold /\ DOMAIN ex.outs = {"s", "x"} /\ child = Idle
  BY <1>1, <1>3 DEF LogsHold, OutputsHold, CallsNest
<1>5. Holds(log, parent.rounds + 1, c1)
  <2> DEFINE v == ex.outs["s"].value
  <2>1. /\ ex.outs["s"] = ReplaceValue(v) /\ Holds(v, parent.rounds, Finished)
        /\ ex.outs["x"] = Write(<<"x">>)
    BY <1>1, <1>4 DEF OutputsHold
  <2>2. DOMAIN writing = {1, 2} /\ writing[1] = ex.outs["s"] /\ writing[2] = ex.outs["x"]
    <3>1. DOMAIN Plan = {1, 2} /\ Plan[1] = "s" /\ Plan[2] = "x"
      OBVIOUS
    <3> QED
      BY <3>1
  <2> HIDE DEF writing, v
  <2>3. log = v \o <<"x">>
    <3>1. writing[1] = ReplaceValue(v) /\ writing[2] = Write(<<"x">>) /\ DOMAIN writing = {1, 2}
      BY <2>1, <2>2
    <3> DEFINE cell == <<ex.log>>
               added == <<"x">>
    <3>2. writing[2] = Write(added)
      BY <3>1
    <3> HIDE DEF cell, added
    <3>3. ReduceMerge(cell, writing) = <<v \o added>>
      BY <3>1, <3>2, UpdatesMerge
    <3> QED
      BY <3>3 DEF cell, added
  <2>4. Finished \in c1..Finished
    BY DEF c1, Finished
  <2> HIDE DEF log
  <2> QED
    BY <1>3, <2>1, <2>3, <2>4, HoldsMore
<1> HIDE DEF log, writing
<1>6. parent'.id = parent.id + 1 /\ parent'.log = log /\ parent'.rounds = parent.rounds + 1
  BY <1>2
<1>7. Holds(parent.log, parent.rounds, c1)'
  BY <1>5, <1>6 DEF Holds, Occurrences
<1>8. ex' # Idle => OutputsHold'
  <2>1. SUFFICES ASSUME again PROVE OutputsHold'
    BY <1>2
  <2>2. ex'.pc = "run" /\ ex'.log = log /\ ex'.outs = <<>>
    BY <1>2, <2>1
  <2> QED
    BY <1>5, <1>6, <2>2 DEF OutputsHold, Holds, Occurrences
<1>9. KidsHold'
  <2>1. ASSUME NEW ns \in DOMAIN kids
        PROVE  /\ kids[ns].for \in 0..(parent.rounds + 1) /\ kids[ns].for # parent.rounds + 1
               /\ kids[ns].asks => Holds(kids[ns].log, kids[ns].for, kids[ns].pos)
    BY <1>3, <1>4 DEF KidsHold
  <2> QED
    BY <1>1, <1>6, <2>1 DEF KidsHold, Holds, Occurrences
<1>10. WritesHold'
  <2>1. \A w \in writes' : w.base # parent'.id
    BY <1>1, <1>3, <1>6 DEF BasesAreKept
  <2> QED
    BY <2>1 DEF WritesHold
<1> QED
  BY <1>1, <1>4, <1>7, <1>8, <1>9, <1>10 DEF LogsHold

\* What every log holds, while no log changes.
LEMMA LogsIdle ==
  ASSUME LogsHold, Undisturbed, UNCHANGED <<persistence, parent, kids, writes, ex, child>>
  PROVE  LogsHold'
<1>1. /\ Holds(parent.log, parent.rounds, c1) /\ (ex # Idle => OutputsHold)
      /\ child # Idle => Holds(child.log, parent.rounds, child.pos)
      /\ KidsHold /\ WritesHold
  BY DEF LogsHold
<1>2. KidsHold' /\ WritesHold' /\ (ex' # Idle => OutputsHold')
  <2>1. KidsHold'
    BY <1>1, KidsStay
  <2>2. WritesHold'
    BY <1>1 DEF WritesHold
  <2>3. ex' # Idle => OutputsHold'
    BY <1>1 DEF OutputsHold, Holds, Occurrences
  <2> QED
    BY <2>1, <2>2, <2>3
<1> QED
  BY <1>1, <1>2 DEF LogsHold, Holds, Occurrences

\* Nothing is done yet.
LEMMA LogsBegin == NestedInit => BasesAreKept /\ LogsHold
<1> SUFFICES ASSUME NestedInit PROVE BasesAreKept /\ LogsHold
  OBVIOUS
<1>1. /\ parent = NoCheckpoint /\ kids = <<>> /\ writes = {} /\ ex = Idle /\ child = Idle /\ faults = 0
  BY DEF NestedInit
<1>2. parent.id = 0 /\ parent.log = <<>> /\ parent.rounds = 0
  BY <1>1 DEF NoCheckpoint
<1>3. Holds(<<>>, 0, c1)
  <2>1. <<>> \in Seq(Entries) /\ ~(c1 > c1) /\ ~(c1 > c2)
    BY DEF c1, c2
  <2>2. \A n : {i \in DOMAIN <<>> : <<>>[i] = n} = {}
    OBVIOUS
  <2>3. \A n : Occurrences(<<>>, n) = 0
    BY <2>2, FS_EmptySet DEF Occurrences
  <2> QED
    BY <2>1, <2>3 DEF Holds
<1> QED
  BY <1>1, <1>2, <1>3 DEF BasesAreKept, LogsHold, KidsHold, WritesHold

\* What every log holds, step by step.
LEMMA LogsStep ==
  ASSUME "thread" \notin Persistences, Plan = <<"s", "x">>,
         NestedInv, NestedInv', BasesAreKept, LogsHold, [NestedNext]_nestedVars
  PROVE  LogsHold'
<1> SUFFICES ASSUME Undisturbed' PROVE LogsHold'
  BY DEF LogsHold
<1>1. Undisturbed /\ ~Crash /\ (Durable => run.inputs = 1 /\ run'.inputs = 1) /\ UNCHANGED persistence
  BY DisturbedStays DEF NestedInv
<1>2. CASE Start
  BY <1>1, <1>2, LogsStart
<1>3. CASE Sibling
  BY <1>1, <1>3, LogsSibling
<1>4. CASE StartChild
  BY <1>1, <1>4, LogsStartChild
<1>5. CASE ChildNode
  BY <1>1, <1>5, LogsChildNode
<1>6. CASE ChildAsks \/ ChildReturns
  BY <1>1, <1>6, LogsChildEnds
<1>7. CASE Gather
  BY <1>1, <1>7, LogsGather
<1>8. CASE Pause
  BY <1>1, <1>8, LogsPause
<1>9. CASE Commit
  BY <1>1, <1>9, LogsCommit
<1>10. CASE SubmitInput \/ SubmitResume \/ Over \/ UNCHANGED nestedVars
  <2>1. UNCHANGED <<persistence, parent, kids, writes, ex, child>>
    BY <1>10 DEF SubmitInput, SubmitResume, Over, nestedVars
  <2> QED
    BY <1>1, <2>1, LogsIdle
<1> QED
  BY <1>1, <1>2, <1>3, <1>4, <1>5, <1>6, <1>7, <1>8, <1>9, <1>10 DEF NestedNext

\* Where a namespace belongs to one activation and s is planned before x, each superstep adds
\* what the child and its sibling contribute once, until a crash or a second input of a
\* durable child (RoundsCountOnce), for every number of rounds and of pauses.
THEOREM RoundsCount ==
  ASSUME "thread" \notin Persistences, Plan = <<"s", "x">>
  PROVE  NestedSpec => []RoundsCountOnce
<1>1. NestedInit => BasesAreKept /\ LogsHold
  BY LogsBegin
<1>2. NestedInv /\ NestedInv' /\ BasesAreKept /\ LogsHold /\ [NestedNext]_nestedVars
        => BasesAreKept' /\ LogsHold'
  BY BasesStep, LogsStep DEF NestedInv
<1>3. LogsHold => RoundsCountOnce
  <2> SUFFICES ASSUME LogsHold, Undisturbed PROVE ChildCountsOnce /\ SiblingIsKept
    BY DEF RoundsCountOnce
  <2>1. ~(c1 > c1) /\ ~(c1 > c2)
    BY DEF c1, c2
  <2> QED
    BY <2>1 DEF LogsHold, Holds, ChildCountsOnce, SiblingIsKept, Times
<1>4. NestedSpec => []NestedInv
  BY NestedInvariance
<1> QED
  BY <1>1, <1>2, <1>3, <1>4, PTL DEF NestedSpec

-----------------------------------------------------------------------------
(* A node that is an agent of a team: TeamInv is inductive                  *)

\* What the builders accept, of the team at hand.
LEMMA AgentsFit ==
  ASSUME PatternsAreSound, team \in Patterns
  PROVE  /\ Agents \in Seq(Names) /\ Nobody \notin Names /\ Len(Agents) \in Nat
         /\ team.pattern = "group" => "router" \notin Names
         /\ team.pattern = "review" => "source" \notin Names /\ "judge" \notin Names
         /\ DOMAIN Agents = 1..Len(Agents)
         /\ \A i, j \in DOMAIN Agents : Agents[i] = Agents[j] => i = j
         /\ team.pattern # "plan" => Len(Agents) > 0 /\ First \in Names
         /\ team.pattern = "group" => MaxTurns \in Nat \ {0}
<1>1. /\ Agents \in Seq(Names) /\ Names \cap (OwnNodes(team.pattern) \cup {Nobody}) = {}
      /\ \A i, j \in DOMAIN Agents : Agents[i] = Agents[j] => i = j
      /\ team.pattern # "plan" => Agents # <<>>
      /\ team.pattern = "group" => MaxTurns \in Nat \ {0}
  BY DEF PatternsAreSound, Agents, Names, MaxTurns
<1>2. Len(Agents) \in Nat /\ DOMAIN Agents = 1..Len(Agents)
  BY <1>1
<1>3. Agents # <<>> => Len(Agents) > 0
  BY <1>1
<1>4. /\ Nobody \notin Names
      /\ team.pattern = "group" => "router" \notin Names
      /\ team.pattern = "review" => "source" \notin Names /\ "judge" \notin Names
  BY <1>1 DEF OwnNodes
<1> QED
  BY <1>1, <1>2, <1>3, <1>4 DEF First, Names

\* The successor of an agent is the next of the sequence, which is a circle.
LEMMA SuccessorFollows ==
  ASSUME PatternsAreSound, team \in Patterns, NEW p \in DOMAIN Agents
  PROVE  Successor(Agents[p]) = Behind(p)
<1> DEFINE n == Len(Agents)
<1>1. n \in Nat /\ p \in 1..n /\ DOMAIN Agents = 1..n
  BY AgentsFit
<1>2. IndexOf(Agents[p]) = p
  BY AgentsFit DEF IndexOf
<1>3. p % n = IF p = n THEN 0 ELSE p
  <2> HIDE DEF n
  <2> QED
    BY <1>1
<1> QED
  BY <1>1, <1>2, <1>3 DEF Successor, Behind, First

\* Whoever the router picks is an agent.
LEMMA TargetsAreNames ==
  ASSUME PatternsAreSound, TeamTypes, team.pattern = "group"
  PROVE  Targets \subseteq Names
<1>1. Current \in Names
  BY AgentsFit DEF TeamTypes, Current
<1>2. PICK p \in DOMAIN Agents : Current = Agents[p]
  BY <1>1 DEF Names
<1>3. Successor(Current) \in Names
  <2>1. team \in Patterns
    BY DEF TeamTypes
  <2>2. Successor(Current) = Behind(p)
    BY <1>2, <2>1, SuccessorFollows
  <2>3. /\ Agents \in Seq(Names) /\ Len(Agents) \in Nat /\ DOMAIN Agents = 1 .. Len(Agents)
        /\ First \in Names
    BY <2>1, AgentsFit
  <2>4. p # Len(Agents) => p + 1 \in DOMAIN Agents /\ Agents[p + 1] \in Names
    BY <1>2, <2>3
  <2>5. Behind(p) \in Names
    BY <2>3, <2>4 DEF Behind
  <2> QED
    BY <2>2, <2>5
<1> QED
  BY <1>3 DEF Targets, Current

\* A speaker has spoken once more, the others as often as before.
LEMMA SpokenGrows ==
  ASSUME NEW S, said \in Seq(S), NEW a \in S, said' = Append(said, a), NEW b
  PROVE  /\ Spoken(b) \in Nat /\ Spoken(b) <= Len(said)
         /\ Spoken(b)' = IF b = a THEN Spoken(b) + 1 ELSE Spoken(b)
<1> DEFINE n == Len(said)
           B == {i \in DOMAIN said : said[i] = b}
           C == {i \in DOMAIN said' : said'[i] = b}
<1>1. n \in Nat /\ DOMAIN said = 1..n /\ DOMAIN said' = 1..(n + 1) /\ said'[n + 1] = a
      /\ \A i \in 1..n : said'[i] = said[i]
  OBVIOUS
<1>2. IsFiniteSet(1..n) /\ Cardinality(1..n) = n
  <2> HIDE DEF n
  <2>1. IsFiniteSet(1..n) /\ Cardinality(1..n) = IF 1 > n THEN 0 ELSE n - 1 + 1
    BY <1>1, FS_Interval
  <2> QED
    BY <1>1, <2>1
<1>3. B \subseteq 1..n
  BY <1>1
<1>4. IsFiniteSet(B) /\ Cardinality(B) \in Nat /\ Cardinality(B) <= n
  <2> HIDE DEF B, n
  <2> QED
    BY <1>2, <1>3, FS_Subset, FS_CardinalityType
<1>5. C = IF b = a THEN B \cup {n + 1} ELSE B
  BY <1>1
<1>6. n + 1 \notin B
  BY <1>1
<1>7. Cardinality(C) = IF b = a THEN Cardinality(B) + 1 ELSE Cardinality(B)
  <2> HIDE DEF B, C, n
  <2> QED
    BY <1>4, <1>5, <1>6, FS_AddElement
<1> QED
  BY <1>4, <1>7 DEF Spoken

\* Nobody has spoken yet.
LEMMA NoneSpoke == said' = <<>> => \A b : Spoken(b)' = 0
<1> SUFFICES ASSUME said' = <<>>, NEW b PROVE Spoken(b)' = 0
  OBVIOUS
<1>1. {i \in DOMAIN said' : said'[i] = b} = {}
  OBVIOUS
<1> QED
  BY <1>1, FS_EmptySet DEF Spoken

LEMMA TeamStart == PatternsAreSound /\ TeamInit => TeamInv
<1> SUFFICES ASSUME PatternsAreSound, TeamInit PROVE TeamInv
  OBVIOUS
<1>1. TeamTypes
  <2>1. <<>> \in Seq(Names \cup Roles)
    OBVIOUS
  <2> QED
    BY <2>1 DEF TeamInit, TeamTypes, Unset
<1>2. planned = {} /\ said = <<>> /\ began = "on" /\ owner = Nobody /\ state.active = owner
  BY DEF TeamInit, Unset
<1>3. GroupCounts
  BY <1>2, AgentsFit DEF TeamInit, GroupCounts
<1> QED
  BY <1>1, <1>2, <1>3 DEF TeamInv, RobinIsFair, SwarmIsOwned, OwnerAnswers, ReviewersAreHeard

LEMMA TeamTypesStep == PatternsAreSound /\ TeamTypes /\ [TeamNext]_teamVars => TeamTypes'
<1> SUFFICES ASSUME PatternsAreSound, TeamTypes, [TeamNext]_teamVars PROVE TeamTypes'
  OBVIOUS
<1> USE DEF TeamTypes
<1>1. ASSUME NEW reset \in BOOLEAN, Input(reset) PROVE TeamTypes'
  BY <1>1 DEF Input, Unset, Names, Agents
<1>2. ASSUME NEW a \in Names, GroupSpeaks(a) \/ PeerEnds(a) \/ ReportBack(a) PROVE TeamTypes'
  <2>1. UNCHANGED <<team, began, state, owner>> /\ said' = Append(said, a)
    BY <1>2 DEF GroupSpeaks, PeerEnds, ReportBack, Speak, TeamStep
  <2>2. said' \in Seq(Names \cup Roles)
    BY <1>2, <2>1
  <2> QED
    BY <2>1, <2>2 DEF Names, Agents
<1>3. ASSUME NEW a \in Names, PeerHandsOff(a) PROVE TeamTypes'
  BY <1>3 DEF PeerHandsOff, Handoff, Speak, TeamStep, Names, Agents
<1>4. ASSUME Supervise PROVE TeamTypes'
  BY <1>4 DEF Supervise, Handoff, Speak, TeamStep, Names, Agents, Roles, OwnNodes
<1>5. ASSUME Terminate \/ Fail \/ Quiet \/ UNCHANGED teamVars PROVE TeamTypes'
  BY <1>5 DEF Terminate, TeamStep, Fail, Quiet, teamVars, Names, Agents
<1>6. ASSUME Route PROVE TeamTypes'
  <2>1. UNCHANGED <<team, began, said, owner>>
    BY <1>6 DEF Route, TeamStep
  <2>2. team.pattern = "group" /\ Targets \subseteq Names
    BY <1>6, TargetsAreNames DEF Route
  <2>3. state' \in [active : Names \cup {Nobody}, turn : Nat]
    <3>1. CASE state' = [state EXCEPT !.turn = state.turn + 1]
      BY <3>1
    <3>2. CASE \E a \in Targets : state' = [active |-> a, turn |-> state.turn + 1]
      BY <2>2, <3>2
    <3> QED
      BY <1>6, <3>1, <3>2 DEF Route
  <2> QED
    BY <2>1, <2>3 DEF Names, Agents
<1>7. ASSUME PlanOn PROVE TeamTypes'
  <2>1. {"planner", "executor", "replanner"} \subseteq Roles
    BY DEF Roles, OwnNodes
  <2>2. PICK a \in {"planner", "executor", "replanner"} : said' = Append(said, a)
    BY <1>7 DEF PlanOn, Speak
  <2>3. said' \in Seq(Names \cup Roles)
    BY <2>1, <2>2 DEF TeamTypes
  <2> QED
    BY <1>7, <2>3 DEF PlanOn, Speak, TeamStep, TeamTypes, Names, Agents
<1>8. ASSUME Review PROVE TeamTypes'
  <2>1. UNCHANGED <<team, began, state, owner>>
    BY <1>8 DEF Review, Speak, TeamStep
  <2>2. \/ said' = said \o Agents
        \/ \E a \in Roles : said' = Append(said, a)
    BY <1>8 DEF Review, Speak, Roles, OwnNodes
  <2>3. Agents \in Seq(Names \cup Roles)
    BY AgentsFit
  <2>4. said' \in Seq(Names \cup Roles)
    <3> DEFINE S == Names \cup Roles
    <3>1. said \in Seq(S) /\ Agents \in Seq(S) /\ Roles \subseteq S
      BY <2>3
    <3> HIDE DEF S
    <3>2. said \o Agents \in Seq(S) /\ \A a \in S : Append(said, a) \in Seq(S)
      BY <3>1
    <3>3. said' \in Seq(S)
      BY <2>2, <3>1, <3>2
    <3> QED
      BY <3>3 DEF S
  <2> QED
    BY <2>1, <2>4 DEF Names, Agents
<1> QED
  BY <1>1, <1>2, <1>3, <1>4, <1>5, <1>6, <1>7, <1>8 DEF TeamNext

\* The router counts every speaker before it lets another one speak.
LEMMA GroupStep ==
  ASSUME PatternsAreSound, TeamTypes, GroupCounts, [TeamNext]_teamVars
  PROVE  GroupCounts'
<1> SUFFICES ASSUME team'.pattern = "group" PROVE GroupCounts'
  BY DEF GroupCounts
<1>1. UNCHANGED team /\ team.pattern = "group" /\ MaxTurns' = MaxTurns
  BY DEF TeamNext, Quiet, Input, GroupSpeaks, PeerHandsOff, PeerEnds, ReportBack, Terminate, Route,
         Supervise, PlanOn, Review, Fail, Handoff, Speak, TeamStep, teamVars, MaxTurns
<1>2. MaxTurns \in Nat \ {0} /\ state.turn \in Nat /\ First \in Names /\ {Nobody, "router"} \cap Names = {}
  BY <1>1, AgentsFit DEF TeamTypes
<1> USE DEF GroupCounts
<1>3. ASSUME NEW reset \in BOOLEAN, Input(reset) PROVE GroupCounts'
  <2>1. said' = <<>> /\ state'.turn \in Nat
    BY <1>2, <1>3 DEF Input, Unset
  <2>2. Names' = Names
    BY <1>1 DEF Names, Agents
  <2>3. planned' \in {{}, {"router"}} \/ \E a \in Names : planned' = {a}
    BY <1>1, <1>2, <1>3 DEF Input, Entry, First, Agents
  <2> QED
    BY <1>1, <1>2, <2>1, <2>2, <2>3
<1>4. ASSUME NEW a \in Names, GroupSpeaks(a) PROVE GroupCounts'
  <2>1. planned = {a} /\ planned' = {"router"} /\ said' = Append(said, a) /\ UNCHANGED state
    BY <1>4 DEF GroupSpeaks, Speak, TeamStep
  <2>2. Len(said) \in Nat /\ Len(said') = Len(said) + 1 /\ (said # <<>> \/ Len(said) = 0)
    BY <2>1 DEF TeamTypes
  <2>3. planned \notin {{}, {"router"}}
    BY <1>2, <2>1
  <2> QED
    BY <1>1, <1>2, <2>1, <2>2, <2>3
<1>5. ASSUME Terminate PROVE GroupCounts'
  BY <1>1, <1>5 DEF Terminate, TeamStep
<1>6. ASSUME Route PROVE GroupCounts'
  <2>1. planned = {"router"} /\ UNCHANGED said
    BY <1>6 DEF Route, TeamStep
  <2>2. CASE planned' = {}
    BY <1>1, <2>1, <2>2
  <2>3. CASE planned' # {}
    <3>1. ~TurnsOver(state.turn + 1)
      BY <1>6, <2>3 DEF Route, TeamStep
    <3>2. PICK a \in Targets : planned' = {a} /\ state'.turn = state.turn + 1
      BY <1>6, <3>1 DEF Route, TeamStep
    <3>3. a \in Names /\ Names' = Names
      BY <1>1, TargetsAreNames DEF Names, Agents
    <3> QED
      BY <1>1, <1>2, <2>1, <3>1, <3>2, <3>3 DEF TurnsOver
  <2> QED
    BY <2>2, <2>3
<1>7. ASSUME Fail \/ Quiet \/ UNCHANGED teamVars PROVE GroupCounts'
  BY <1>1, <1>7 DEF Fail, Quiet, teamVars, Names, Agents
<1> QED
  BY <1>1, <1>3, <1>4, <1>5, <1>6, <1>7
     DEF TeamNext, PeerHandsOff, PeerEnds, ReportBack, Supervise, PlanOn, Review

\* The next speaker is the one that has been silent longest.
LEMMA RobinStep ==
  ASSUME PatternsAreSound, TeamTypes, GroupCounts, RobinIsFair, [TeamNext]_teamVars
  PROVE  RobinIsFair'
<1> SUFFICES ASSUME team'.pattern = "group", team'.strategy = "round_robin", began' = "anew"
             PROVE  RobinIsFair'
  BY DEF RobinIsFair
<1> DEFINE n == Len(Agents)
           Fair(p, c) ==
             /\ \A k \in DOMAIN Agents : Spoken(Agents[k]) = IF k <= p THEN c + 1 ELSE c
             /\ planned = {"router"} => p > 0 /\ Current = Agents[p]
             /\ planned \notin {{}, {"router"}} => planned = {Current} /\ Current = Behind(p)
<1>1. UNCHANGED team /\ team.pattern = "group" /\ team.strategy = "round_robin"
  BY DEF TeamNext, Quiet, Input, GroupSpeaks, PeerHandsOff, PeerEnds, ReportBack, Terminate, Route,
         Supervise, PlanOn, Review, Fail, Handoff, Speak, TeamStep, teamVars
<1>2. /\ Agents' = Agents /\ Names' = Names /\ First' = First
      /\ n \in Nat /\ n > 0 /\ DOMAIN Agents = 1..n /\ First = Agents[1] /\ First \in Names
      /\ {Nobody, "router"} \cap Names = {} /\ \A i, j \in 1..n : Agents[i] = Agents[j] => i = j
      /\ \A i \in 1..n : Agents[i] \in Names
  <2>1. Agents' = Agents /\ Names' = Names /\ First' = First
    BY <1>1 DEF Agents, Names, First
  <2>2. /\ n \in Nat /\ n > 0 /\ DOMAIN Agents = 1..n /\ First \in Names
        /\ {Nobody, "router"} \cap Names = {} /\ \A i, j \in 1..n : Agents[i] = Agents[j] => i = j
    BY <1>1, AgentsFit DEF TeamTypes
  <2>3. \A i \in 1..n : Agents[i] \in Names
    BY <2>2 DEF Names
  <2> QED
    BY <2>1, <2>2, <2>3 DEF First
<1>3. ASSUME NEW p PROVE Behind(p)' = Behind(p)
  <2>1. Agents' = Agents /\ First' = First
    BY <1>2
  <2> QED
    BY <2>1 DEF Behind
<1>4. ASSUME NEW reset \in BOOLEAN, Input(reset) PROVE RobinIsFair'
  <2>1. reset /\ said' = <<>> /\ state' = Unset /\ planned' = {First}
    BY <1>1, <1>4 DEF Input, Entry
  <2>2. \A b : Spoken(b)' = 0
    BY <2>1, NoneSpoke
  <2>3. Fair(0, 0)'
    <3>1. Current' = First /\ Behind(0)' = First
      BY <1>2, <1>3, <2>1 DEF Current, Behind, Unset
    <3>2. DOMAIN Agents' = 1..n /\ planned' # {"router"}
      BY <1>2, <2>1
    <3> QED
      BY <1>2, <2>1, <2>2, <3>1, <3>2
  <2>4. 0 \in (0..Len(Agents))' /\ 0 \in (0..Len(said))'
    BY <1>2, <2>1
  <2> QED
    BY <2>3, <2>4 DEF RobinIsFair
<1>5. ASSUME ~ \E reset \in BOOLEAN : Input(reset) PROVE RobinIsFair'
  <2>1. began = "anew"
    BY <1>1, <1>5
       DEF TeamNext, Quiet, GroupSpeaks, PeerHandsOff, PeerEnds, ReportBack, Terminate, Route,
           Supervise, PlanOn, Review, Fail, Handoff, Speak, TeamStep, teamVars
  <2>2. Len(said) \in Nat
    BY DEF TeamTypes
  <2>3. PICK p \in Nat, c \in Nat : p <= n /\ c <= Len(said) /\ Fair(p, c)
    BY <1>1, <1>2, <2>1, <2>2 DEF RobinIsFair
  <2>4. ASSUME NEW a \in Names, GroupSpeaks(a) PROVE RobinIsFair'
    <3>1. planned = {a} /\ planned' = {"router"} /\ said' = Append(said, a) /\ UNCHANGED state
      BY <2>4 DEF GroupSpeaks, Speak, TeamStep
    <3>2. a = Current /\ a = Behind(p)
      BY <1>2, <2>3, <3>1
    <3>3. /\ \A b : Spoken(b)' = IF b = a THEN Spoken(b) + 1 ELSE Spoken(b)
          /\ Len(said') = Len(said) + 1 /\ Len(said) \in Nat
      BY <3>1, SpokenGrows DEF TeamTypes
    <3>4. Current' = a
      BY <1>2, <3>1, <3>2 DEF Current
    <3>5. CASE p < n
      <4>1. a = Agents[p + 1]
        BY <3>2, <3>5 DEF Behind
      <4>2. Fair(p + 1, c)'
        BY <1>2, <2>3, <3>1, <3>3, <3>4, <3>5, <4>1
      <4> QED
        <5>1. p + 1 \in (0..Len(Agents))' /\ c \in (0..Len(said))'
          BY <1>2, <2>3, <3>3, <3>5
        <5> QED
          BY <4>2, <5>1 DEF RobinIsFair
    <3>6. CASE p = n
      <4>1. a = Agents[1]
        BY <1>2, <3>2, <3>6 DEF Behind
      <4>2. Spoken(a) = c + 1 /\ Spoken(a) <= Len(said)
        BY <1>2, <2>3, <3>1, <3>6, <4>1, SpokenGrows DEF TeamTypes
      <4>3. Fair(1, c + 1)'
        BY <1>2, <2>3, <3>1, <3>3, <3>4, <3>6, <4>1
      <4>4. 1 \in (0..Len(Agents))' /\ c + 1 \in (0..Len(said))'
        BY <1>2, <2>3, <3>3, <4>2
      <4> QED
        BY <4>3, <4>4 DEF RobinIsFair
    <3>7. p < n \/ p = n
      <4>1. p \in Nat /\ n \in Nat /\ p <= n
        BY <1>2, <2>3
      <4> HIDE DEF n
      <4> QED
        BY <4>1
    <3> QED
      BY <3>5, <3>6, <3>7
  <2>5. ASSUME Terminate \/ Fail \/ Quiet \/ UNCHANGED teamVars PROVE RobinIsFair'
    <3>1. UNCHANGED <<said, state>> /\ (planned' = planned \/ planned' = {})
      BY <2>5 DEF Terminate, TeamStep, Fail, Quiet, teamVars
    <3>2. \A b : Spoken(b)' = Spoken(b)
      BY <3>1 DEF Spoken
    <3>3. Current' = Current /\ Behind(p)' = Behind(p)
      BY <1>2, <1>3, <3>1 DEF Current
    <3>4. Fair(p, c)'
      BY <1>2, <2>3, <3>1, <3>2, <3>3
    <3> QED
      BY <1>2, <2>3, <3>1, <3>4 DEF RobinIsFair
  <2>6. ASSUME Route PROVE RobinIsFair'
    <3>1. UNCHANGED said /\ planned = {"router"}
      BY <2>6 DEF Route, TeamStep
    <3>2. \A b : Spoken(b)' = Spoken(b)
      BY <3>1 DEF Spoken
    <3>3. planned' = {} \/ (planned' = {state'.active} /\ state'.active = Behind(p))
      <4>1. p \in DOMAIN Agents /\ Current = Agents[p]
        BY <1>2, <2>3, <3>1
      <4>2. Successor(Current) = Behind(p)
        BY <4>1, SuccessorFollows DEF TeamTypes
      <4>3. Targets = {Behind(p)}
        BY <1>1, <4>2 DEF Targets, Current
      <4>4. CASE TurnsOver(state.turn + 1)
        BY <2>6, <4>4 DEF Route, TeamStep
      <4>5. CASE ~TurnsOver(state.turn + 1)
        <5>1. PICK a \in Targets : TeamStep({"router"}, {a}) /\ state' = [active |-> a, turn |-> state.turn + 1]
          BY <2>6, <4>5, Zenon DEF Route
        <5> QED
          BY <4>3, <5>1 DEF TeamStep
      <4> QED
        BY <4>4, <4>5
    <3>4. Behind(p) \in Names
      <4>1. CASE p = n
        BY <1>2, <4>1 DEF Behind
      <4>2. CASE p # n
        <5>1. p + 1 \in 1..n
          <6>1. p \in Nat /\ n \in Nat /\ p <= n
            BY <1>2, <2>3
          <6>2. p + 1 \in Nat /\ 1 <= p + 1 /\ p + 1 <= n
            <7> HIDE DEF n
            <7> QED
              BY <4>2, <6>1
          <6> QED
            BY <6>2
        <5> QED
          BY <1>2, <4>2, <5>1 DEF Behind
      <4> QED
        BY <4>1, <4>2
    <3>5. planned' # {} => Current' = Behind(p) /\ planned' # {"router"}
      BY <1>2, <3>3, <3>4 DEF Current
    <3>6. Fair(p, c)'
      BY <1>2, <1>3, <2>3, <3>2, <3>3, <3>5
    <3> QED
      BY <1>2, <2>3, <3>1, <3>6 DEF RobinIsFair
  <2> QED
    BY <1>1, <1>5, <2>4, <2>5, <2>6
       DEF TeamNext, PeerHandsOff, PeerEnds, ReportBack, Supervise, PlanOn, Review
<1> QED
  BY <1>4, <1>5
\* A conversation stays with the agent it was handed to.
LEMMA SwarmStep ==
  ASSUME PatternsAreSound, TeamTypes, SwarmIsOwned, [TeamNext]_teamVars
  PROVE  SwarmIsOwned'
<1> SUFFICES ASSUME team'.pattern = "swarm" PROVE SwarmIsOwned'
  BY DEF SwarmIsOwned
<1>1. UNCHANGED team /\ team.pattern = "swarm"
  BY DEF TeamNext, Quiet, Input, GroupSpeaks, PeerHandsOff, PeerEnds, ReportBack, Terminate, Route,
         Supervise, PlanOn, Review, Fail, Handoff, Speak, TeamStep, teamVars
<1>2. First' = First /\ Names' = Names
  BY <1>1 DEF First, Names, Agents
<1>3. state.active = owner /\ OwnerAnswers /\ First \in Names /\ Nobody \notin Names
  BY <1>1, AgentsFit DEF SwarmIsOwned, TeamTypes
<1>4. ASSUME NEW reset \in BOOLEAN, Input(reset) PROVE SwarmIsOwned'
  <2>1. state'.active = owner' /\ said' = <<>>
    BY <1>3, <1>4 DEF Input, Unset
  <2>2. CASE planned = {}
    <3>1. planned' = {IF owner' = Nobody THEN First ELSE owner'}
      BY <1>1, <1>4, <2>1, <2>2 DEF Input, Entry, ActiveAgent
    <3> QED
      BY <1>2, <2>1, <3>1 DEF SwarmIsOwned, OwnerAnswers, Owner
  <2>3. CASE planned # {}
    <3>1. planned' = planned /\ (began' # "astray" => owner' = owner /\ began # "astray")
      BY <1>4, <2>3 DEF Input
    <3> QED
      BY <1>1, <1>2, <1>3, <2>1, <2>3, <3>1 DEF SwarmIsOwned, OwnerAnswers, Owner
  <2> QED
    BY <2>2, <2>3
<1>5. ASSUME NEW a \in Names, PeerHandsOff(a) PROVE SwarmIsOwned'
  <2>1. PICK b \in Names : Handoff(a, b)
    BY <1>5 DEF PeerHandsOff
  <2>2. planned' = {b} /\ owner' = b /\ state'.active = b
    BY <2>1 DEF Handoff, Speak, TeamStep, TeamTypes
  <2> QED
    BY <1>1, <1>2, <1>3, <2>2 DEF SwarmIsOwned, OwnerAnswers, Owner
<1>6. ASSUME NEW a \in Names, PeerEnds(a) PROVE SwarmIsOwned'
  <2>1. /\ planned = {a} /\ planned' = {} /\ UNCHANGED <<state, owner, began>>
        /\ said' = Append(said, a)
    BY <1>6 DEF PeerEnds, Speak, TeamStep
  <2>2. said'[Len(said')] = a
    BY <2>1 DEF TeamTypes
  <2>3. began # "astray" => a = Owner
    BY <1>1, <1>3, <2>1 DEF OwnerAnswers
  <2>4. Owner' = Owner
    BY <1>2, <2>1 DEF Owner
  <2> QED
    BY <1>1, <1>3, <2>1, <2>2, <2>3, <2>4 DEF SwarmIsOwned, OwnerAnswers
<1>7. ASSUME Fail \/ Quiet \/ UNCHANGED teamVars PROVE SwarmIsOwned'
  <2>1. UNCHANGED <<state, owner, planned, said, began>>
    BY <1>7 DEF Fail, Quiet, teamVars
  <2>2. Owner' = Owner
    BY <1>2, <2>1 DEF Owner
  <2> QED
    BY <1>1, <1>3, <2>1, <2>2 DEF SwarmIsOwned, OwnerAnswers
<1> QED
  BY <1>1, <1>4, <1>5, <1>6, <1>7
     DEF TeamNext, GroupSpeaks, ReportBack, Terminate, Route, Supervise, PlanOn, Review

\* The reviewers speak between the source and the judge.
LEMMA ReviewStep ==
  ASSUME PatternsAreSound, TeamTypes, ReviewersAreHeard, [TeamNext]_teamVars
  PROVE  ReviewersAreHeard'
<1> SUFFICES ASSUME team'.pattern = "review" PROVE ReviewersAreHeard'
  BY DEF ReviewersAreHeard
<1>1. UNCHANGED team /\ team.pattern = "review"
  BY DEF TeamNext, Quiet, Input, GroupSpeaks, PeerHandsOff, PeerEnds, ReportBack, Terminate, Route,
         Supervise, PlanOn, Review, Fail, Handoff, Speak, TeamStep, teamVars
<1>2. Agents' = Agents /\ Names' = Names
  BY <1>1 DEF Names, Agents
<1>3. /\ First \in Names /\ "source" \notin Names /\ "judge" \notin Names
      /\ Names # {} /\ Names # {"source"} /\ Names # {"judge"}
  BY <1>1, AgentsFit DEF TeamTypes
<1>4. ASSUME NEW reset \in BOOLEAN, Input(reset) PROVE ReviewersAreHeard'
  BY <1>1, <1>2, <1>4 DEF Input, Entry, ReviewersAreHeard
<1>5. ASSUME Review PROVE ReviewersAreHeard'
  <2>1. CASE Speak("source", Names)
    <3>1. planned = {"source"} /\ planned' = Names /\ said' = Append(said, "source")
      BY <2>1 DEF Speak, TeamStep
    <3>2. said' = <<"source">>
      BY <1>1, <3>1 DEF ReviewersAreHeard
    <3> QED
      BY <1>2, <1>3, <3>1, <3>2 DEF ReviewersAreHeard
  <2>2. CASE TeamStep(Names, {"judge"}) /\ said' = said \o Agents
    <3>1. planned = Names /\ planned' = {"judge"}
      BY <2>2 DEF TeamStep
    <3>2. said' \in {Agents, <<"source">> \o Agents}
      <4>1. said \in {<<>>, <<"source">>} /\ said' = said \o Agents
        BY <1>1, <2>2, <3>1 DEF ReviewersAreHeard
      <4>2. Agents \in Seq(Names)
        BY AgentsFit DEF TeamTypes
      <4>3. <<>> \o Agents = Agents
        BY <4>2
      <4> QED
        BY <4>1, <4>3
    <3> QED
      BY <1>2, <1>3, <3>1, <3>2 DEF ReviewersAreHeard
  <2>3. CASE Speak("judge", {})
    BY <1>2, <1>3, <2>3 DEF Speak, TeamStep, ReviewersAreHeard
  <2> QED
    BY <1>5, <2>1, <2>2, <2>3 DEF Review
<1>6. ASSUME Fail \/ Quiet \/ UNCHANGED teamVars PROVE ReviewersAreHeard'
  <2>1. UNCHANGED <<planned, said>>
    BY <1>6 DEF Fail, Quiet, teamVars
  <2> QED
    BY <1>1, <1>2, <2>1 DEF ReviewersAreHeard
<1> QED
  BY <1>1, <1>4, <1>5, <1>6
     DEF TeamNext, GroupSpeaks, PeerHandsOff, PeerEnds, ReportBack, Terminate, Route, Supervise, PlanOn

\* If those who spoke are a sequence without repetition, behind a head that is none of its
\* members or none, each member spoke once.
LEMMA OnceEach ==
  ASSUME NEW S, NEW q \in Seq(S), \A i, j \in DOMAIN q : q[i] = q[j] => i = j,
         NEW h, NEW k \in DOMAIN q, h # q[k], said = q \/ said = <<h>> \o q
  PROVE  Spoken(q[k]) = 1
<1> DEFINE r == <<h>> \o q
<1>1. /\ DOMAIN q = 1..Len(q) /\ Len(q) \in Nat /\ DOMAIN r = 1..(Len(q) + 1) /\ r[1] = h
      /\ \A i \in 2..(Len(q) + 1) : r[i] = q[i - 1]
  OBVIOUS
<1>2. {i \in DOMAIN q : q[i] = q[k]} = {k}
  OBVIOUS
<1>3. {i \in DOMAIN r : r[i] = q[k]} = {k + 1}
  <2>1. k \in Nat /\ k + 1 \in DOMAIN r /\ r[k + 1] = q[k]
    BY <1>1
  <2>2. ASSUME NEW i \in DOMAIN r, r[i] = q[k] PROVE i = k + 1
    <3>1. i # 1 /\ i \in 2..(Len(q) + 1) /\ i - 1 \in DOMAIN q
      BY <1>1, <2>2
    <3>2. q[i - 1] = q[k]
      BY <1>1, <2>2, <3>1
    <3>3. i - 1 = k
      BY <3>1, <3>2
    <3> QED
      BY <2>1, <3>1, <3>3
  <2> QED
    BY <2>1, <2>2
<1>4. \A x : Cardinality({x}) = 1
  BY FS_Singleton
<1>5. CASE said = q
  BY <1>2, <1>4, <1>5 DEF Spoken
<1>6. CASE said = r
  BY <1>3, <1>4, <1>6 DEF Spoken
<1> QED
  BY <1>5, <1>6

\* The invariant holds in every reachable state of a team.
THEOREM TeamInvariance ==
  ASSUME PatternsAreSound
  PROVE  TeamSpec => []TeamInv
<1>1. TeamInit => TeamInv
  BY TeamStart
<1>2. TeamInv /\ [TeamNext]_teamVars => TeamInv'
  BY TeamTypesStep, GroupStep, RobinStep, SwarmStep, ReviewStep DEF TeamInv
<1> QED
  BY <1>1, <1>2, PTL DEF TeamSpec

\* Who speaks next is who the topology says (TurnsAreTaken), for any number of agents, turns
\* and inputs.
THEOREM TurnsTaken ==
  ASSUME PatternsAreSound
  PROVE  TeamSpec => []TurnsAreTaken
<1>1. TeamInv => TurnsAreTaken
  <2> SUFFICES ASSUME TeamInv PROVE TurnsAreTaken
    OBVIOUS
  <2> USE DEF TeamInv
  <2>1. SpeakersAreBounded /\ OwnerAnswers
    BY DEF SpeakersAreBounded, GroupCounts, SwarmIsOwned, OwnerAnswers
  <2>2. EveryoneSpeaks
    <3> SUFFICES ASSUME team.pattern = "group", team.strategy = "round_robin", began = "anew",
                        NEW a \in Names, NEW b \in Names
                 PROVE  Spoken(a) <= Spoken(b) + 1
      BY DEF EveryoneSpeaks
    <3>1. PICK p \in 0..Len(Agents), c \in 0..Len(said) :
              \A k \in DOMAIN Agents : Spoken(Agents[k]) = IF k <= p THEN c + 1 ELSE c
      BY DEF RobinIsFair
    <3>2. c \in Nat /\ Spoken(a) \in {c, c + 1} /\ Spoken(b) \in {c, c + 1}
      BY <3>1 DEF Names, TeamTypes
    <3> QED
      BY <3>2
  <2>3. JudgeHearsAll
    <3> SUFFICES ASSUME team.pattern = "review", planned = {"judge"}, said # <<>>, NEW a \in Names
                 PROVE  Spoken(a) = 1
      BY DEF JudgeHearsAll
    <3>1. said = Agents \/ said = <<"source">> \o Agents
      BY DEF ReviewersAreHeard
    <3>2. PICK k \in DOMAIN Agents : a = Agents[k]
      BY DEF Names
    <3>3. "source" # a
      BY AgentsFit DEF TeamTypes
    <3>4. Agents \in Seq(Names) /\ \A i, j \in DOMAIN Agents : Agents[i] = Agents[j] => i = j
      BY AgentsFit DEF TeamTypes
    <3>5. "source" # Agents[k]
      BY <3>2, <3>3
    <3> QED
      BY <3>1, <3>2, <3>4, <3>5, OnceEach, Zenon
  <2> QED
    BY <2>1, <2>2, <2>3 DEF TurnsAreTaken
<1> QED
  BY <1>1, TeamInvariance, PTL

-----------------------------------------------------------------------------
(* The nodes that hand a turn to Coze: CozeInv is inductive                 *)

\* What BotsAreSound says of the bot at hand.
LEMMA BotFits ==
  ASSUME BotsAreSound, bot \in Bots
  PROVE  /\ bot.kind \in {"agent", "model", "workflow"}
         /\ bot.stream \in BOOLEAN /\ bot.tools \in BOOLEAN /\ bot.hitl \in BOOLEAN
         /\ bot.asks \subseteq Nat
         /\ bot.kind = "workflow" => bot.asks \subseteq {0, 1}
  BY DEF BotsAreSound

\* A node that has not been started, in a conversation or none.
LEMMA UnstartedFits ==
  /\ Unstarted \in Execution
  /\ \A conv \in Nat : [Unstarted EXCEPT !.conv = conv] \in Execution
<1>1. NoCall \in Call
  BY DEF NoCall, Call, Requests, Nothing
<1>2. <<>> \in Seq(Nat \X Nat) /\ {} \in SUBSET Nat /\ 0 \in Nat
  OBVIOUS
<1> QED
  BY <1>1, <1>2 DEF Execution, Unstarted, Nothing

\* A call that is sent.
LEMMA SendFits ==
  ASSUME NEW e \in Execution, NEW to \in Requests, NEW job \in Nat, NEW round \in Nat, NEW conv \in Nat
  PROVE  LET call == [to |-> to, job |-> job, round |-> round, conv |-> conv]
             sent == Send(e, call)
         IN  /\ sent \in Execution /\ sent.pc = "send" /\ sent.call = call
             /\ sent.last = 0 /\ sent.seen = {} /\ sent.got = e.got
             /\ sent.job = e.job /\ sent.conv = e.conv
<1> DEFINE call == [to |-> to, job |-> job, round |-> round, conv |-> conv]
<1>1. call \in Call
  BY DEF Call
<1> DEFINE e1 == [e EXCEPT !.pc = "send"]
           e2 == [e1 EXCEPT !.call = call]
           e3 == [e2 EXCEPT !.n = 0]
           e4 == [e3 EXCEPT !.last = 0]
           e5 == [e4 EXCEPT !.seen = {}]
<1>2. e1 \in Execution
  BY DEF Execution
<1> HIDE DEF call, e1
<1>3. e2 \in Execution
  BY <1>1, <1>2 DEF Execution
<1> HIDE DEF e2
<1>4. e3 \in Execution
  BY <1>3 DEF Execution
<1> HIDE DEF e3
<1>5. e4 \in Execution
  BY <1>4 DEF Execution
<1> HIDE DEF e4
<1>6. e5 \in Execution
  BY <1>5 DEF Execution
<1>7. Send(e, call) = e5
  BY DEF e5, e4, e3, e2, e1, Send
<1>8. /\ Send(e, call).pc = "send" /\ Send(e, call).call = call
      /\ Send(e, call).last = 0 /\ Send(e, call).seen = {} /\ Send(e, call).got = e.got
      /\ Send(e, call).job = e.job /\ Send(e, call).conv = e.conv
  BY DEF Send, Execution
<1> QED
  BY <1>6, <1>7, <1>8 DEF call

\* The same of the node.
LEMMA NodeSends ==
  ASSUME NEW e \in Execution, NEW to \in Requests, NEW job \in Nat, NEW round \in Nat, NEW conv \in Nat,
         node' = Send(e, [to |-> to, job |-> job, round |-> round, conv |-> conv])
  PROVE  /\ node' \in Execution /\ node'.pc = "send" /\ node'.last = 0 /\ node'.seen = {}
         /\ node'.call = [to |-> to, job |-> job, round |-> round, conv |-> conv]
  BY SendFits

\* A conversation begins with nothing remembered.
LEMMA CozeStart == BotsAreSound /\ CozeInit /\ Deduplicates => CozeInv
<1> SUFFICES ASSUME BotsAreSound, CozeInit, Deduplicates PROVE CozeInv
  OBVIOUS
<1> USE DEF CozeInit
<1>1. CozeTypes
  <2>1. node \in Execution
    BY UnstartedFits
  <2>2. kept \in [conv : Nat, turn : Positive, pauses : Nat, subject : Nat, job : Nat, asked : Nat,
                 decision : {"none", "approve", "reject"}]
    BY DEF Opened, Nothing, Positive
  <2> QED
    BY <2>1, <2>2 DEF CozeTypes
<1>2. MarksAreKept /\ \A to : Own(to) = {}
  BY DEF MarksAreKept, Own
<1>3. AgentsKey /\ ModelsKey /\ WorkflowsKey
  BY <1>2 DEF AgentsKey, ModelsKey, WorkflowsKey, Opened
<1>4. CallsFit /\ StreamsFit /\ AnswersFit
  BY DEF CallsFit, StreamsFit, AnswersFit, Unstarted
<1>5. RepliesFit
  BY DEF RepliesFit, AnswerIsWhole, OutputsFit, WorkflowGoesOn, OfKind, Delivered
<1> QED
  BY <1>1, <1>2, <1>3, <1>4, <1>5 DEF CozeInv

-----------------------------------------------------------------------------
(* Steps of the node alone                                                  *)

\* A node that is not under way fits whatever it was.
LEMMA RestFits ==
  ASSUME node'.pc \in {"off", "failed", "gone"}
  PROVE  (CallsFit /\ StreamsFit /\ AnswersFit)'
  BY DEF CallsFit, StreamsFit, AnswersFit

\* A new call fits if it is one the node may make, a new stream if nothing was said yet.
LEMMA NewCallFits ==
  ASSUME CallsFit', node'.pc = "send", node'.last = 0, node'.seen = {},
         Streamed(node.call)' /\ node'.call.to = "chat" => node'.got = <<>>
  PROVE  (CallsFit /\ StreamsFit /\ AnswersFit)'
<1>1. AnswersFit'
  BY DEF AnswersFit
<1>2. StreamsFit'
  BY DEF StreamsFit, Length
<1> QED
  BY <1>1, <1>2

\* Cancelling at Coze always fits, once the token is set.
LEMMA StopFits ==
  ASSUME node \in Execution, token', node' = Stop(node)
  PROVE  (CallsFit /\ StreamsFit /\ AnswersFit)' /\ node' \in Execution
<1>1. CASE node' = Gone(node)
  BY <1>1, RestFits DEF Gone, Execution
<1>2. CASE node' = Send(node, [to |-> "cancel", job |-> node.job, round |-> 0, conv |-> node.conv])
  <2>1. node' \in Execution
    <3>1. node.job \in Nat /\ node.conv \in Nat
      BY DEF Execution
    <3> QED
      BY <1>2, <3>1, SendFits DEF Requests
  <2>2. /\ node'.pc = "send" /\ node'.call.to = "cancel"
        /\ node'.last = 0 /\ node'.seen = {}
    BY <1>2 DEF Send, Execution
  <2>3. CallsFit'
    BY <2>2 DEF CallsFit
  <2> QED
    BY <2>1, <2>2, <2>3, NewCallFits
<1> QED
  BY <1>1, <1>2 DEF Stop

\* What does not concern the node stays as it is.
LEMMA QuietStep ==
  ASSUME CozeInv, node' \in Execution, UNCHANGED <<bot, remote, served, kept, replies>>
  PROVE  (CozeTypes /\ MarksAreKept /\ AgentsKey /\ ModelsKey /\ WorkflowsKey /\ RepliesFit)'
<1> USE DEF CozeInv
<1>1. CozeTypes'
  BY DEF CozeTypes, Job, Deduplicates
<1>2. \A to : Own(to)' = Own(to)
  BY DEF Own, RequestKey
<1>3. MarksAreKept'
  BY DEF MarksAreKept
<1>4. (AgentsKey /\ ModelsKey /\ WorkflowsKey)'
  BY <1>2 DEF AgentsKey, ModelsKey, WorkflowsKey, Owned
<1>5. RepliesFit'
  BY DEF RepliesFit, AnswerIsWhole, OutputsFit, WorkflowGoesOn, OfKind, Delivered, Waits, CozeTypes, Deduplicates
<1> QED
  BY <1>1, <1>3, <1>4, <1>5

\* The parts of the invariant that speak of the node.
NodeFits == CallsFit /\ StreamsFit /\ AnswersFit

\* A turn is posted.
LEMMA BeginStep ==
  ASSUME BotsAreSound, CozeInv, Begin
  PROVE  NodeFits' /\ node' \in Execution
<1> DEFINE conv == IF bot.kind = "agent" THEN kept.conv ELSE Nothing
           to == IF bot.kind = "workflow" THEN "workflow" ELSE "chat"
           e == [Unstarted EXCEPT !.conv = conv]
<1>1. conv \in Nat /\ to \in Requests /\ 0 \in Nat
  BY DEF CozeInv, CozeTypes, Nothing, Requests
<1>2. e \in Execution /\ e.got = <<>>
  BY <1>1, UnstartedFits DEF Unstarted
<1>3. node' = Send(e, [to |-> to, job |-> 0, round |-> 0, conv |-> conv])
  BY DEF Begin, Nothing
<1> HIDE DEF e
<1>4. /\ node' \in Execution /\ node'.pc = "send" /\ node'.last = 0 /\ node'.seen = {}
      /\ node'.call = [to |-> to, job |-> 0, round |-> 0, conv |-> conv] /\ node'.got = <<>>
  BY <1>1, <1>2, <1>3, SendFits
<1>5. node'.call.to = to /\ node'.call.round = 0 /\ node'.call.conv = conv
  BY <1>4
<1>6. CallsFit'
  BY <1>5, BotFits DEF CallsFit, Begin
<1> QED
  BY <1>4, <1>6, NewCallFits DEF NodeFits

\* Or its results are handed in, to the chat that asked for them.
LEMMA HandInStep ==
  ASSUME BotsAreSound, CozeInv, HandIn
  PROVE  NodeFits' /\ node' \in Execution
<1> DEFINE e == [Unstarted EXCEPT !.conv = remote[kept.job].conv]
<1>1. kept.asked > 0 /\ kept.asked \in Nat /\ bot.kind = "model" /\ kept.job \in DOMAIN remote
  BY DEF CozeInv, CozeTypes, ModelsKey, HandIn
<1>2. remote[kept.job].conv \in Nat /\ kept.job \in Nat
  <2>1. remote \in Seq(Job) /\ kept.job \in Nat
    BY DEF CozeInv, CozeTypes
  <2>2. remote[kept.job] \in Job
    BY <1>1, <2>1
  <2> QED
    BY <2>1, <2>2 DEF Job, Positive
<1>3. e \in Execution
  BY <1>2, UnstartedFits
<1>4. node' = Send(e, [to |-> "submit", job |-> kept.job, round |-> kept.asked, conv |-> 0])
  BY DEF HandIn, Nothing
<1> HIDE DEF e
<1>5. "submit" \in Requests /\ 0 \in Nat
  BY DEF Requests
<1>6. /\ node' \in Execution /\ node'.pc = "send" /\ node'.last = 0 /\ node'.seen = {}
      /\ node'.call = [to |-> "submit", job |-> kept.job, round |-> kept.asked, conv |-> 0]
  BY <1>1, <1>2, <1>3, <1>4, <1>5, SendFits
<1>7. node'.call.to = "submit" /\ node'.call.job = kept.job /\ node'.call.round = kept.asked
  BY <1>6
<1>8. CallsFit'
  BY <1>1, <1>7 DEF CallsFit, HandIn
<1> QED
  BY <1>6, <1>7, <1>8, NewCallFits DEF NodeFits

\* A request of a cancelled run is not made.
LEMMA RaiseStep ==
  ASSUME CozeInv, Raise
  PROVE  NodeFits' /\ node' \in Execution
<1>1. node \in Execution /\ token'
  BY DEF CozeInv, CozeTypes, Raise
<1>2. CASE node' = Stop(node)
  BY <1>1, <1>2, StopFits DEF NodeFits
<1>3. CASE node' = Gone(node)
  BY <1>1, <1>3, RestFits DEF NodeFits, Gone, Execution
<1> QED
  BY <1>2, <1>3 DEF Raise

\* What is known of the job stays known while the node is about it.
LEMMA KnownStays ==
  ASSUME Known, UNCHANGED <<bot, remote, served, kept>>,
         node'.job = node.job, node'.conv = node.conv
  PROVE  Known'
  BY DEF Known, Owned, Own, RequestKey

\* The chat is looked at again.
LEMMA PollStep ==
  ASSUME CozeInv, Poll
  PROVE  NodeFits' /\ node' \in Execution
<1>1. node \in Execution /\ Known
  BY DEF CozeInv, CozeTypes, AnswersFit, Poll
<1>2. CASE token
  BY <1>1, <1>2, StopFits DEF NodeFits, Poll
<1>3. CASE ~token
  <2>1. node' = Send(node, [to |-> "retrieve", job |-> node.job, round |-> node.rounds, conv |-> node.conv])
    BY <1>3 DEF Poll, Request
  <2>2. "retrieve" \in Requests /\ node.job \in Nat /\ node.rounds \in Nat /\ node.conv \in Nat
    BY <1>1 DEF Requests, Execution
  <2>3. /\ node' \in Execution /\ node'.pc = "send" /\ node'.last = 0 /\ node'.seen = {}
        /\ node'.call = [to |-> "retrieve", job |-> node.job, round |-> node.rounds, conv |-> node.conv]
        /\ node'.job = node.job /\ node'.conv = node.conv
    BY <1>1, <2>1, <2>2, SendFits
  <2>4. node'.call.to = "retrieve" /\ node'.call.job = node.job
    BY <2>3
  <2>5. Known'
    BY <1>1, <2>3, KnownStays DEF Poll
  <2>6. CallsFit'
    BY <2>3, <2>4, <2>5 DEF CallsFit
  <2> QED
    BY <2>3, <2>4, <2>6, NewCallFits DEF NodeFits
<1> QED
  BY <1>2, <1>3

\* The token is set.
LEMMA CancelStep ==
  ASSUME CozeInv, CancelTurn
  PROVE  NodeFits' /\ node' \in Execution
<1> USE DEF CozeInv, CancelTurn
<1>1. CallsFit'
  BY DEF CallsFit, Known, Owned, Own, RequestKey, Waits
<1>2. StreamsFit'
  BY DEF StreamsFit, Heard, Known, Owned, Own, RequestKey, Streamed, Length, Whole
<1>3. AnswersFit'
  BY DEF AnswersFit, CallsWait, Known, Owned, Own, RequestKey, Waits, Whole, CallsRejected
<1> QED
  BY <1>1, <1>2, <1>3 DEF NodeFits, CozeTypes

\* The calls are put before a human.
LEMMA AskStep ==
  ASSUME CozeInv, Ask
  PROVE  NodeFits' /\ node' \in Execution
<1>1. node \in Execution /\ node' = [node EXCEPT !.pc = "paused"] /\ bot.kind = "agent" /\ bot' = bot
  BY DEF CozeInv, CozeTypes, Ask
<1>2. node' \in Execution /\ node'.pc = "paused"
  BY <1>1 DEF Execution
<1> QED
  BY <1>1, <1>2 DEF NodeFits, CallsFit, StreamsFit, AnswersFit

\* The calls are carried out and handed in, or the node is done.
LEMMA DecideStep ==
  ASSUME BotsAreSound, CozeInv, Decide
  PROVE  NodeFits' /\ node' \in Execution
<1>1. node \in Execution /\ Known /\ bot \in Bots /\ node.asked \in Nat
  BY DEF CozeInv, CozeTypes, AnswersFit, Decide, Execution
<1>2. /\ node.got \in {<<>>, Whole(node.job)}
      /\ node.asked = 0 => Waits(node.job) = 0 /\ node.got = Whole(node.job)
      /\ node.asked > 0 => CallsWait /\ node.asked <= remote[node.job].answered + 1
      /\ bot.kind = "model" /\ node.asked > 0 => node.asked = remote[node.job].answered + 1
  BY DEF CozeInv, AnswersFit, Decide
<1> DEFINE turned == token /\ node.rounds = 0 /\ bot.kind = "agent"
<1>3. CASE turned
  BY <1>1, <1>3, StopFits DEF NodeFits, Decide
<1>4. CASE ~turned /\ (bot.kind # "agent" \/ ~RunsTools)
  <2>1. node' = [node EXCEPT !.pc = "back"] /\ UNCHANGED <<bot, remote, served, kept>>
    BY <1>4 DEF Decide
  <2>2. /\ node' \in Execution /\ node'.pc = "back" /\ node'.job = node.job /\ node'.conv = node.conv
        /\ node'.got = node.got /\ node'.asked = node.asked
    BY <1>1, <2>1 DEF Execution
  <2>3. Known'
    BY <1>1, <2>1, <2>2, KnownStays
  <2>4. node.got = Whole(node.job) \/ (node.asked > 0 /\ node.got = <<>>)
    BY <1>1, <1>2
  <2>5. bot.kind = "agent" /\ bot.tools /\ ~CallsRejected => node.asked = 0 /\ Waits(node.job) = 0
    BY <1>1, <1>2, <1>4 DEF RunsTools
  <2>6. bot.kind # "workflow"
    BY <1>1 DEF Known
  <2>7. AnswersFit'
    BY <1>2, <2>1, <2>2, <2>3, <2>4, <2>5, <2>6 DEF AnswersFit, Whole, CallsRejected, Waits, CallsWait
  <2> QED
    BY <2>2, <2>7 DEF NodeFits, CallsFit, StreamsFit
<1>5. CASE node' = [node EXCEPT !.pc = "failed"]
  <2>1. node' \in Execution /\ node'.pc = "failed"
    BY <1>1, <1>5 DEF Execution
  <2> QED
    BY <2>1, RestFits DEF NodeFits
<1>6. CASE /\ bot.kind = "agent" /\ RunsTools
           /\ node' = Send([node EXCEPT !.rounds = @ + 1], Request("submit", node.job, node.asked))
  <2> DEFINE e == [node EXCEPT !.rounds = @ + 1]
  <2>1. /\ e \in Execution /\ e.job = node.job /\ e.conv = node.conv
        /\ node.job \in Nat /\ node.conv \in Nat /\ "submit" \in Requests
    <3>1. node.rounds + 1 \in Nat /\ node.job \in Nat /\ node.conv \in Nat
      BY <1>1 DEF Execution
    <3>2. e \in Execution
      BY <1>1, <3>1 DEF Execution
    <3>3. e.job = node.job /\ e.conv = node.conv
      BY <1>1 DEF Execution
    <3> QED
      BY <3>1, <3>2, <3>3 DEF Requests
  <2>2. node' = Send(e, [to |-> "submit", job |-> node.job, round |-> node.asked, conv |-> node.conv])
    BY <1>6 DEF Request
  <2> HIDE DEF e
  <2>3. /\ node' \in Execution /\ node'.pc = "send" /\ node'.last = 0 /\ node'.seen = {}
        /\ node'.call = [to |-> "submit", job |-> node.job, round |-> node.asked, conv |-> node.conv]
        /\ node'.job = node.job /\ node'.conv = node.conv
    BY <1>1, <2>1, <2>2, SendFits
  <2>4. node'.call.to = "submit" /\ node'.call.job = node.job /\ node'.call.round = node.asked
    BY <2>3
  <2>5. Known'
    BY <1>1, <2>3, KnownStays DEF Decide
  <2>6. /\ node.asked > 0 /\ node.asked <= remote[node.job].asks
        /\ node.asked <= remote[node.job].answered + 1
    BY <1>2, <1>6 DEF RunsTools, CallsWait
  <2>7. remote[node.job].answered \in Nat
    <3>1. remote \in Seq(Job) /\ node.job \in DOMAIN remote
      BY <1>1 DEF CozeInv, CozeTypes, Known
    <3>2. remote[node.job] \in Job
      BY <3>1
    <3> QED
      BY <3>2 DEF Job
  <2>8. node.asked \in 1..(remote[node.job].answered + 1)
    BY <1>1, <2>6, <2>7
  <2>9. bot' = bot /\ remote' = remote
    BY DEF Decide
  <2>10. CallsFit'
    BY <1>6, <2>3, <2>4, <2>5, <2>6, <2>8, <2>9 DEF CallsFit
  <2> QED
    BY <2>3, <2>4, <2>10, NewCallFits DEF NodeFits
<1> QED
  BY <1>3, <1>4, <1>5, <1>6 DEF Decide

-----------------------------------------------------------------------------
(* What is at Coze grows                                                    *)

\* A job that is waited for is open, one that is not waits for nothing.
LEMMA WaitsFit ==
  ASSUME BotsAreSound, CozeInv, NEW j \in DOMAIN remote
  PROVE  /\ remote[j].asks \in Nat /\ remote[j].asks \in bot.asks /\ remote[j].answered \in Nat
         /\ remote[j].answered <= remote[j].asks /\ remote[j].conv \in Positive
         /\ (Waits(j) = 0) <=> (remote[j].answered = remote[j].asks)
<1>1. remote \in Seq(Job) /\ bot \in Bots /\ remote[j].answered <= remote[j].asks
  BY DEF CozeInv, CozeTypes
<1>2. remote[j] \in Job
  BY <1>1
<1>3. /\ remote[j].asks \in bot.asks /\ remote[j].answered \in Nat /\ remote[j].conv \in Positive
  BY <1>2 DEF Job
<1>4. remote[j].asks \in Nat
  BY <1>1, <1>3, BotFits
<1> QED
  BY <1>1, <1>3, <1>4 DEF Waits

\* A mark of the key at hand is one per kind of request.
LEMMA OwnIsOne ==
  ASSUME MarksAreKept, NEW to \in {"chat", "workflow", "resume"},
         NEW i, NEW j, Owned(to, i), Owned(to, j)
  PROVE  i = j /\ i \in DOMAIN remote
<1>1. PICK s \in Own(to) : s.job = i
  BY DEF Owned
<1>2. PICK t \in Own(to) : t.job = j
  BY DEF Owned
<1> QED
  BY <1>1, <1>2 DEF MarksAreKept, Own

\* Jobs and marks are added, and answers; nothing else changes.
RemoteGrows ==
  /\ bot' = bot /\ kept' = kept /\ served \subseteq served'
  /\ \A j \in DOMAIN remote :
        /\ j \in DOMAIN remote' /\ remote'[j].conv = remote[j].conv /\ remote'[j].asks = remote[j].asks
        /\ remote'[j].answered \in Nat /\ remote'[j].answered >= remote[j].answered
        /\ remote'[j].answered <= remote'[j].asks

\* That includes a step in which nothing is added.
LEMMA StaysGrows ==
  ASSUME BotsAreSound, CozeInv, UNCHANGED <<bot, remote, served, kept>>
  PROVE  RemoteGrows
  BY WaitsFit DEF RemoteGrows

\* The marks of the key at hand stay.
LEMMA OwnGrows ==
  ASSUME RemoteGrows, NEW to
  PROVE  Own(to) \subseteq Own(to)'
  BY DEF RemoteGrows, Own, RequestKey

\* A job that waits for nothing does not begin to.
LEMMA WaitsGrows ==
  ASSUME BotsAreSound, CozeInv, RemoteGrows, NEW j \in DOMAIN remote, Waits(j) = 0
  PROVE  ~(remote'[j].answered < remote'[j].asks)
<1>1. remote[j].asks \in Nat /\ remote[j].answered = remote[j].asks
  BY WaitsFit
<1> QED
  BY <1>1 DEF RemoteGrows

\* What is known of the job stays known as Coze goes on.
LEMMA KnownGrows ==
  ASSUME RemoteGrows, Known, node'.job = node.job, node'.conv = node.conv
  PROVE  Known'
<1>1. Own("chat") \subseteq Own("chat")'
  BY OwnGrows
<1> QED
  BY <1>1 DEF Known, Owned, RemoteGrows

\* A call under way stays one the node may make.
LEMMA CallGrows ==
  ASSUME BotsAreSound, CozeInv, RemoteGrows, token' = token, node.pc \in {"send", "read"},
         node'.call = node.call, node'.job = node.job, node'.conv = node.conv
  PROVE  CallsFit'
<1>1. CallsFit /\ bot' = bot /\ kept' = kept
  BY DEF CozeInv, RemoteGrows
<1>2. Known => Known'
  BY KnownGrows
<1>3. Known => /\ node.job \in DOMAIN remote /\ remote'[node.job].asks = remote[node.job].asks
               /\ remote[node.job].answered \in Nat /\ remote'[node.job].answered \in Nat
               /\ remote[node.job].answered <= remote'[node.job].answered
  BY WaitsFit DEF Known, RemoteGrows
<1>4. Known /\ Waits(node.job) = 0 => ~(remote'[node.job].answered < remote'[node.job].asks)
  BY <1>3, WaitsGrows
<1>5. Known /\ Waits(node.job) = 0 => Waits(node.job)' = 0
  BY <1>4 DEF Waits
<1>6. CASE node.call.to = "submit" /\ bot.kind = "agent"
  <2>1. Known /\ node.call.round \in 1..(remote[node.job].answered + 1)
    BY <1>1, <1>6 DEF CallsFit
  <2>2. node.call.round \in 1..(remote'[node.job].answered + 1)
    BY <1>3, <2>1
  <2> QED
    BY <1>1, <1>2, <1>3, <1>6, <2>1, <2>2 DEF CallsFit
<1>7. CASE node.call.to = "list"
  BY <1>1, <1>2, <1>5, <1>7 DEF CallsFit
<1>8. CASE ~(node.call.to = "submit" /\ bot.kind = "agent") /\ node.call.to # "list"
  BY <1>1, <1>2, <1>8 DEF CallsFit
<1> QED
  BY <1>6, <1>7, <1>8

\* What was heard of a stream is as it was.
LEMMA HeardGrows ==
  ASSUME RemoteGrows, Heard, node.src \in DOMAIN remote, node'.call = node.call,
         node'.src = node.src, node'.last = node.last, node'.got = node.got,
         node'.job = node.job, node'.conv = node.conv, node'.asked = node.asked
  PROVE  Heard'
<1>1. Known => Known'
  BY KnownGrows
<1>2. remote'[node.src].asks = remote[node.src].asks
  BY DEF RemoteGrows
<1> QED
  BY <1>1, <1>2 DEF Heard, Whole

\* A stream that is to be opened again.
LEMMA StreamGrows ==
  ASSUME BotsAreSound, CozeInv, RemoteGrows, node.pc \in {"send", "read"}, node'.pc = "send",
         node'.call = node.call, node'.src = node.src, node'.last = node.last,
         node'.seen = node.seen, node'.got = node.got, node'.job = node.job,
         node'.conv = node.conv, node'.asked = node.asked
  PROVE  StreamsFit'
<1>1. StreamsFit /\ MarksAreKept /\ bot' = bot /\ node \in Execution
  BY DEF CozeInv, CozeTypes, RemoteGrows
<1>2. Streamed(node.call)' <=> Streamed(node.call)
  BY <1>1 DEF Streamed
<1>3. SUFFICES ASSUME Streamed(node.call)
               PROVE  /\ node.last <= Length' /\ node.seen = 1..node.last
                      /\ IF node.last > 0 THEN Owned(node.call.to, node.src)' /\ Heard'
                         ELSE node.call.to = "chat" => node.got = <<>>
  BY <1>1, <1>2 DEF StreamsFit
<1>4. /\ node.last <= Length /\ node.seen = 1..node.last
      /\ IF node.last > 0 THEN Owned(node.call.to, node.src) /\ Heard
         ELSE node.call.to = "chat" => node.got = <<>>
  BY <1>1, <1>3 DEF StreamsFit
<1>5. node.call.to \in {"chat", "workflow", "resume"} /\ Length' = Length
  BY <1>3 DEF Streamed, Length
<1>6. CASE node.last > 0
  <2>1. node.src \in DOMAIN remote
    BY <1>1, <1>4, <1>5, <1>6, OwnIsOne
  <2>2. Own(node.call.to) \subseteq Own(node.call.to)'
    BY DEF RemoteGrows, Own, RequestKey
  <2>3. Owned(node.call.to, node.src)'
    BY <1>4, <1>6, <2>2 DEF Owned
  <2>4. Heard'
    BY <1>4, <1>6, <2>1, HeardGrows
  <2> QED
    BY <1>4, <1>5, <1>6, <2>3, <2>4
<1>7. CASE ~(node.last > 0)
  BY <1>4, <1>5, <1>7
<1> QED
  BY <1>6, <1>7

-----------------------------------------------------------------------------
(* Streams                                                                  *)

\* The node while it reads.
LEMMA Reading ==
  ASSUME BotsAreSound, CozeInv, node.pc = "read"
  PROVE  /\ node \in Execution /\ bot \in Bots /\ Deduplicates
         /\ node.call.to \in {"chat", "workflow", "resume"} /\ Streamed(node.call)
         /\ (node.call.to = "chat") <=> (bot.kind # "workflow")
         /\ Owned(node.call.to, node.src) /\ node.src \in DOMAIN remote
         /\ node.cursor \in 0..node.last /\ node.last \in 0..Length /\ Length \in Nat
         /\ node.seen = 1..node.last
         /\ IF node.last > 0 THEN Heard ELSE node.call.to = "chat" => node.got = <<>>
<1>1. /\ node \in Execution /\ bot \in Bots /\ CallsFit /\ StreamsFit /\ MarksAreKept
      /\ Deduplicates
  BY DEF CozeInv, CozeTypes
<1>2. node.cursor \in Nat /\ node.last \in Nat
  BY <1>1 DEF Execution
<1>3. node.call.to \in {"chat", "workflow", "resume"}
  BY <1>1 DEF StreamsFit, Streamed
<1>4. (node.call.to = "chat") <=> (bot.kind # "workflow")
  BY <1>1, <1>3 DEF CallsFit
<1>5. Owned(node.call.to, node.src) /\ node.src \in DOMAIN remote
  BY <1>1, <1>3, OwnIsOne DEF StreamsFit
<1>6. Length \in Nat
  BY DEF Length
<1> QED
  BY <1>1, <1>2, <1>3, <1>4, <1>5, <1>6 DEF StreamsFit

\* The next attempt at a call is at the same call, with what was seen of its stream.
LEMMA AttemptFits ==
  ASSUME BotsAreSound, CozeInv, RemoteGrows, token' = token, node.pc \in {"send", "read"},
         node' = NextAttempt(node)
  PROVE  NodeFits' /\ node' \in Execution
<1>1. node \in Execution /\ node.n + 1 \in Nat
  BY DEF CozeInv, CozeTypes, Execution
<1>2. CASE node' = [node EXCEPT !.pc = "failed"]
  <2>1. node' \in Execution /\ node'.pc = "failed"
    BY <1>1, <1>2 DEF Execution
  <2> QED
    BY <2>1, RestFits DEF NodeFits
<1>3. CASE node' = [node EXCEPT !.pc = "send", !.n = @ + 1]
  <2> DEFINE e == [node EXCEPT !.pc = "send"]
  <2>1. e \in Execution /\ e.n = node.n
    BY <1>1 DEF Execution
  <2>2. node' = [e EXCEPT !.n = node.n + 1]
    BY <1>1, <1>3 DEF Execution
  <2>3. node' \in Execution
    <3> HIDE DEF e
    <3> QED
      BY <1>1, <2>1, <2>2 DEF Execution
  <2>4. /\ node'.pc = "send"
        /\ node'.call = node.call /\ node'.src = node.src /\ node'.last = node.last
        /\ node'.seen = node.seen /\ node'.got = node.got /\ node'.job = node.job
        /\ node'.conv = node.conv /\ node'.asked = node.asked
    BY <1>1, <1>3 DEF Execution
  <2>5. CallsFit' /\ StreamsFit'
    BY <2>4, CallGrows, StreamGrows
  <2> QED
    BY <2>3, <2>4, <2>5 DEF NodeFits, AnswersFit
<1> QED
  BY <1>2, <1>3 DEF NextAttempt

\* A stream that breaks is opened again with what it has seen, or the call fails.
LEMMA BreakStep ==
  ASSUME BotsAreSound, CozeInv, Break
  PROVE  NodeFits' /\ node' \in Execution
<1>1. RemoteGrows
  BY StaysGrows DEF Break
<1>2. CASE node' = NextAttempt(node)
  BY <1>1, <1>2, AttemptFits DEF Break
<1>3. CASE node' = [node EXCEPT !.pc = "failed"]
  <2>1. node' \in Execution /\ node'.pc = "failed"
    BY <1>3 DEF CozeInv, CozeTypes, Execution
  <2> QED
    BY <2>1, RestFits DEF NodeFits
<1> QED
  BY <1>2, <1>3 DEF Break

\* The end of a stream: everything was heard.
LEMMA EndStep ==
  ASSUME BotsAreSound, CozeInv, EndOfStream \/ ModelReply
  PROVE  NodeFits' /\ node' \in Execution
<1> DEFINE to == IF bot.kind = "agent" THEN "tools" ELSE "back"
<1>1. /\ node \in Execution /\ node' = [node EXCEPT !.pc = to] /\ node.pc = "read"
      /\ node.cursor = Length /\ UNCHANGED <<bot, remote, served, kept, token>>
  BY DEF CozeInv, CozeTypes, EndOfStream, ModelReply
<1>2. /\ node' \in Execution /\ node'.pc = to /\ node'.job = node.job /\ node'.conv = node.conv
      /\ node'.got = node.got /\ node'.asked = node.asked
  BY <1>1 DEF Execution
<1>3. /\ node.call.to \in {"chat", "workflow", "resume"} /\ node.src \in DOMAIN remote
      /\ (node.call.to = "chat") <=> (bot.kind # "workflow")
      /\ Owned(node.call.to, node.src) /\ node.last = Length /\ bot \in Bots
      /\ Heard
  <2>1. /\ Length > 0 /\ Length \in Nat
    BY DEF Length
  <2>2. /\ node.cursor \in 0..node.last /\ node.last \in 0..Length
    BY <1>1, Reading
  <2>3. node.last = Length /\ node.last > 0
    BY <1>1, <2>1, <2>2
  <2> QED
    BY <1>1, <2>3, Reading
<1>4. /\ remote[node.src].asks \in Nat /\ remote[node.src].answered \in Nat
      /\ remote[node.src].answered <= remote[node.src].asks
      /\ (Waits(node.src) = 0) <=> (remote[node.src].answered = remote[node.src].asks)
  BY <1>3, WaitsFit
<1>5. CASE node.call.to = "chat"
  <2>1. /\ node.got = Whole(node.src) /\ Known /\ node.job = node.src
        /\ node.asked = IF remote[node.src].asks > 0 THEN 1 ELSE 0
    BY <1>3, <1>5 DEF Heard, Length
  <2>2. Known'
    BY <1>1, <1>2, <2>1, KnownStays
  <2>3. bot.kind \in {"agent", "model"}
    BY <1>3, <1>5, BotFits
  <2>4. node.asked > 0 => CallsWait /\ node.asked <= remote[node.job].answered + 1
    BY <1>4, <2>1 DEF CallsWait
  <2>5. node.asked = 0 => Waits(node.job) = 0
    BY <1>4, <2>1
  <2>6. bot.kind = "model" /\ node.asked > 0 => node.asked = remote[node.job].answered + 1
    BY <1>3, <1>5, <2>1 DEF CozeInv, ModelsKey, Owned
  <2>7. AnswersFit'
    BY <1>1, <1>2, <2>1, <2>2, <2>3, <2>4, <2>5, <2>6 DEF AnswersFit, CallsWait, Waits, Whole, CallsRejected
  <2> QED
    BY <1>2, <2>7 DEF NodeFits, CallsFit, StreamsFit
<1>6. CASE node.call.to = "workflow"
  <2>1. bot.kind = "workflow" /\ remote[node.src].asks = 0 /\ node.got = <<<<node.src, 2>>>>
    BY <1>3, <1>6 DEF Heard, Length
  <2>2. AnswersFit'
    BY <1>1, <1>2, <1>3, <2>1 DEF AnswersFit
  <2> QED
    BY <1>2, <2>2 DEF NodeFits, CallsFit, StreamsFit
<1>7. CASE node.call.to = "resume"
  <2>1. bot.kind = "workflow" /\ node.got = <<<<node.src, 2>>>> /\ Owned("resume", node.src)
    BY <1>3, <1>7 DEF Heard
  <2>2. node.src = kept.subject /\ remote[node.src].asks = 1 /\ remote[node.src].answered = 1
    BY <2>1 DEF CozeInv, WorkflowsKey, Owned
  <2>3. Waits(node.src) = 0
    BY <1>4, <2>2
  <2>4. AnswersFit'
    BY <1>1, <1>2, <1>3, <2>1, <2>2, <2>3 DEF AnswersFit, Waits
  <2> QED
    BY <1>2, <2>4 DEF NodeFits, CallsFit, StreamsFit
<1> QED
  BY <1>3, <1>5, <1>6, <1>7

\* An event that is read.
LEMMA ReadFits ==
  ASSUME node \in Execution, Deduplicates, NEW i \in Nat
  PROVE  /\ Read(i) \in Execution
         /\ Read(i).pc = node.pc /\ Read(i).call = node.call /\ Read(i).src = node.src
         /\ Read(i).cursor = i /\ Read(i).last = i /\ Read(i).seen = node.seen \cup {i}
         /\ Read(i).got = node.got /\ Read(i).job = node.job /\ Read(i).conv = node.conv
         /\ Read(i).asked = node.asked
<1> DEFINE e1 == [node EXCEPT !.cursor = i]
           e2 == [e1 EXCEPT !.last = i]
           e3 == [e2 EXCEPT !.seen = @ \cup {i}]
<1>1. e1 \in Execution
  BY DEF Execution
<1> HIDE DEF e1
<1>2. e2 \in Execution
  BY <1>1 DEF Execution
<1> HIDE DEF e2
<1>3. e3 \in Execution
  <2>1. e2.seen \cup {i} \in SUBSET Nat
    BY <1>2 DEF Execution
  <2> QED
    BY <1>2, <2>1 DEF Execution
<1>4. Read(i) = e3
  BY DEF Read, e1, e2, e3, Deduplicates
<1>5. /\ Read(i).pc = node.pc /\ Read(i).call = node.call /\ Read(i).src = node.src
      /\ Read(i).cursor = i /\ Read(i).last = i /\ Read(i).seen = node.seen \cup {i}
      /\ Read(i).got = node.got /\ Read(i).job = node.job /\ Read(i).conv = node.conv
      /\ Read(i).asked = node.asked
  BY DEF Read, Execution, Deduplicates
<1> QED
  BY <1>3, <1>4, <1>5

\* The stream goes on with what was not seen yet, or over what was.
LEMMA ReadOn ==
  ASSUME BotsAreSound, CozeInv, node.pc = "read", node'.pc = "read",
         UNCHANGED <<bot, remote, served, kept, token>>,
         node'.call = node.call, node'.src = node.src,
         node'.last \in Nat, node'.last <= Length, node'.cursor <= node'.last,
         node'.seen = 1..node'.last, IF node'.last > 0 THEN Heard' ELSE node'.got = <<>>
  PROVE  NodeFits'
<1>1. /\ node.call.to \in {"chat", "workflow", "resume"} /\ Streamed(node.call)
      /\ Owned(node.call.to, node.src) /\ CallsFit
  BY Reading DEF CozeInv
<1>2. CallsFit'
  BY <1>1 DEF CallsFit
<1>3. Owned(node.call.to, node.src)' /\ Streamed(node.call)' /\ Length' = Length
  BY <1>1 DEF Owned, Own, RequestKey, Streamed, Length
<1>4. StreamsFit'
  BY <1>3 DEF StreamsFit
<1> QED
  BY <1>2, <1>4 DEF NodeFits, AnswersFit

\* Sequences that grow from the empty one.
LEMMA AppendTwice ==
  ASSUME NEW S, NEW x \in S, NEW y \in S
  PROVE  Append(<<>>, x) = <<x>> /\ Append(<<x>>, y) = <<x, y>>
<1>1. Append(<<>>, x) = <<x>>
  <2>1. /\ Append(<<>>, x) \in Seq(S) /\ <<x>> \in Seq(S)
        /\ Len(Append(<<>>, x)) = 1 /\ Len(<<x>>) = 1
        /\ Append(<<>>, x)[1] = x /\ <<x>>[1] = x
    OBVIOUS
  <2> QED
    BY <2>1, SeqEqual
<1>2. Append(<<x>>, y) = <<x, y>>
  <2>1. <<x>> \in Seq(S) /\ Len(<<x>>) = 1 /\ <<x>>[1] = x
    OBVIOUS
  <2>2. /\ Append(<<x>>, y) \in Seq(S) /\ Len(Append(<<x>>, y)) = 2
        /\ Append(<<x>>, y)[1] = x /\ Append(<<x>>, y)[2] = y
    BY <2>1, AppendProperties
  <2>3. <<x, y>> \in Seq(S) /\ Len(<<x, y>>) = 2 /\ <<x, y>>[1] = x /\ <<x, y>>[2] = y
    OBVIOUS
  <2>4. \A i \in 1..2 : Append(<<x>>, y)[i] = <<x, y>>[i]
    BY <2>2, <2>3
  <2> QED
    BY <2>2, <2>3, <2>4, SeqEqual
<1> QED
  BY <1>1, <1>2

\* The next event of a chat.
LEMMA ChatEventStep ==
  ASSUME BotsAreSound, CozeInv, node.pc = "read", node.call.to = "chat",
         UNCHANGED <<bot, remote, served, kept, token>>,
         NEW i \in 1..4, i = node.last + 1, node' = ChatEvent(i)
  PROVE  NodeFits' /\ node' \in Execution
<1> DEFINE e == [Read(i) EXCEPT !.job = node.src, !.conv = remote[node.src].conv]
           f == [Read(i) EXCEPT !.job = node.src]
<1>1. /\ node \in Execution /\ Deduplicates /\ node.src \in DOMAIN remote /\ Owned("chat", node.src)
      /\ node.last \in Nat /\ node.seen = 1..node.last /\ bot.kind # "workflow" /\ bot \in Bots
      /\ IF node.last > 0 THEN Heard ELSE node.got = <<>>
  BY Reading
<1>2. node.src \in Nat /\ remote[node.src].conv \in Nat
  BY <1>1, WaitsFit DEF Execution, Positive
<1>3. Read(i) \in Execution
  BY <1>1, ReadFits
<1>4. f \in Execution
  BY <1>2, <1>3 DEF Execution
<1>5. e \in Execution
  <2>1. e = [f EXCEPT !.conv = remote[node.src].conv]
    OBVIOUS
  <2> HIDE DEF f
  <2> QED
    BY <1>2, <1>4, <2>1 DEF Execution
<1>6. /\ e.pc = node.pc /\ e.call = node.call /\ e.src = node.src /\ e.cursor = i /\ e.last = i
      /\ e.seen = 1..i /\ e.got = node.got /\ e.job = node.src
      /\ e.conv = remote[node.src].conv /\ e.asked = node.asked
  <2> DEFINE r == Read(i)
  <2>1. node.seen \cup {i} = 1..i /\ i \in Nat
    BY <1>1
  <2>2. /\ r \in Execution /\ r.pc = node.pc /\ r.call = node.call /\ r.src = node.src
        /\ r.cursor = i /\ r.last = i /\ r.seen = 1..i
        /\ r.got = node.got /\ r.asked = node.asked
    BY <1>1, <2>1, ReadFits
  <2> HIDE DEF r
  <2>3. e = [r EXCEPT !.job = node.src, !.conv = remote[node.src].conv]
    BY DEF r
  <2> HIDE DEF e
  <2> QED
    BY <2>2, <2>3 DEF Execution
<1>7. node' = CASE i = 1 -> e
                [] i \in {2, 3} -> [e EXCEPT !.got = Append(@, <<node.src, i>>)]
                [] OTHER -> [e EXCEPT !.asked = IF remote[node.src].asks > 0 THEN 1 ELSE 0]
  BY DEF ChatEvent
<1>8. i = 1 => node.got = <<>>
  BY <1>1
<1>9. i = 2 => node.got = <<>>
  BY <1>1 DEF Heard
<1>10. i = 3 => node.got = <<<<node.src, 2>>>>
  BY <1>1 DEF Heard
<1>11. i = 4 => node.got = Whole(node.src)
  BY <1>1 DEF Heard
<1>15. Length = 4
  BY DEF Length
<1> HIDE DEF e
<1>12. CASE i = 1
  <2>1. node' = e
    BY <1>7, <1>12
  <2>2. Heard'
    BY <1>1, <1>6, <1>8, <1>12, <2>1 DEF Heard, Known, Owned, Own, RequestKey
  <2>3. node'.last = 1 /\ node'.cursor = 1 /\ node'.seen = 1..1
    BY <1>6, <1>12, <2>1
  <2> QED
    BY <1>5, <1>6, <1>12, <2>1, <2>2, <2>3, <1>15, ReadOn
<1>13. CASE i \in {2, 3}
  <2> DEFINE got == Append(node.got, <<node.src, i>>)
  <2>1. node' = [e EXCEPT !.got = got]
    <3>1. i # 1 /\ i \in {2, 3} /\ e.got = node.got
      BY <1>6, <1>13
    <3>2. node' = [e EXCEPT !.got = Append(@, <<node.src, i>>)]
      BY <1>7, <3>1
    <3> QED
      BY <3>1, <3>2
  <2>2. got \in Seq(Nat \X Nat)
    BY <1>1, <1>2 DEF Execution
  <2>3. /\ node' \in Execution /\ node'.got = got
        /\ node'.pc = node.pc /\ node'.call = node.call /\ node'.src = node.src
        /\ node'.cursor = i /\ node'.last = i /\ node'.seen = 1..i
        /\ node'.job = node.src /\ node'.conv = remote[node.src].conv
    <3> HIDE DEF got
    <3> QED
      BY <1>5, <1>6, <2>1, <2>2 DEF Execution
  <2> DEFINE x == <<node.src, 2>>
             y == <<node.src, 3>>
  <2>x. x \in Nat \X Nat /\ y \in Nat \X Nat
    BY <1>2
  <2>4. i = 2 => node'.got = <<x>>
    <3> HIDE DEF x
    <3>1. Append(<<>>, x) = <<x>>
      BY <2>x, AppendTwice
    <3> QED
      BY <1>9, <2>3, <3>1 DEF x
  <2>5. i = 3 => node'.got = <<x, y>>
    <3> HIDE DEF x, y
    <3>1. Append(<<x>>, y) = <<x, y>>
      BY <2>x, AppendTwice
    <3> QED
      BY <1>10, <2>3, <3>1 DEF x, y
  <2>6. Known'
    BY <1>1, <2>3 DEF Known, Owned, Own, RequestKey
  <2>7. Heard'
    <3>1. node'.call.to = "chat" /\ node'.last = i /\ node'.src = node.src /\ node'.job = node.src
      BY <2>3
    <3>2. CASE i = 2
      BY <2>4, <2>6, <3>1, <3>2 DEF Heard
    <3>3. CASE i = 3
      BY <2>5, <2>6, <3>1, <3>3 DEF Heard, Whole
    <3> QED
      BY <1>13, <3>2, <3>3
  <2> QED
    BY <1>13, <1>15, <2>3, <2>7, ReadOn
<1>14. CASE i = 4
  <2> DEFINE asked == IF remote[node.src].asks > 0 THEN 1 ELSE 0
  <2>1. node' = [e EXCEPT !.asked = asked] /\ asked \in Nat
    BY <1>7, <1>14
  <2>2. /\ node' \in Execution /\ node'.asked = asked /\ node'.got = node.got
        /\ node'.pc = node.pc /\ node'.call = node.call /\ node'.src = node.src
        /\ node'.cursor = i /\ node'.last = i /\ node'.seen = 1..i
        /\ node'.job = node.src /\ node'.conv = remote[node.src].conv
    <3> HIDE DEF asked
    <3> QED
      BY <1>5, <1>6, <2>1 DEF Execution
  <2>3. Known'
    BY <1>1, <2>2 DEF Known, Owned, Own, RequestKey
  <2>4. Heard'
    BY <1>1, <1>11, <1>14, <2>2, <2>3 DEF Heard, Whole
  <2> QED
    BY <1>14, <1>15, <2>2, <2>4, ReadOn
<1> QED
  BY <1>12, <1>13, <1>14

\* What an event says that is a whole message.
LEMMA SaysFits ==
  ASSUME node \in Execution, Deduplicates, NEW i \in Nat, NEW k \in Nat,
         node' = [Read(i) EXCEPT !.got = <<<<node.src, k>>>>]
  PROVE  /\ node' \in Execution /\ node'.pc = node.pc /\ node'.call = node.call
         /\ node'.src = node.src /\ node'.cursor = i /\ node'.last = i
         /\ node'.seen = node.seen \cup {i} /\ node'.got = <<<<node.src, k>>>>
<1> DEFINE r == Read(i)
           got == <<<<node.src, k>>>>
<1>1. got \in Seq(Nat \X Nat)
  <2>1. <<node.src, k>> \in Nat \X Nat
    BY DEF Execution
  <2> DEFINE x == <<node.src, k>>
  <2> HIDE DEF x
  <2>2. <<x>> \in Seq(Nat \X Nat)
    BY <2>1 DEF x
  <2> QED
    BY <2>2 DEF x
<1>2. /\ r \in Execution /\ r.pc = node.pc /\ r.call = node.call /\ r.src = node.src
      /\ r.cursor = i /\ r.last = i /\ r.seen = node.seen \cup {i}
  BY ReadFits
<1>3. node' = [r EXCEPT !.got = got]
  OBVIOUS
<1>4. SUFFICES /\ node' \in Execution /\ node'.pc = node.pc /\ node'.call = node.call
               /\ node'.src = node.src /\ node'.cursor = i /\ node'.last = i
               /\ node'.seen = node.seen \cup {i} /\ node'.got = got
  OBVIOUS
<1> HIDE DEF r, got
<1> QED
  BY <1>1, <1>2, <1>3 DEF Execution

\* The next event of a workflow, and of a workflow that was resumed.
LEMMA WorkflowEventStep ==
  ASSUME BotsAreSound, CozeInv, node.pc = "read", node.call.to \in {"workflow", "resume"},
         UNCHANGED <<bot, remote, served, kept, token>>,
         NEW i \in 1..Length, i = node.last + 1,
         node' = IF node.call.to = "workflow" THEN WorkflowEvent(i)
                 ELSE [Read(i) EXCEPT !.got = <<<<node.src, 2>>>>]
  PROVE  NodeFits' /\ node' \in Execution
<1>1. /\ node \in Execution /\ Deduplicates /\ node.src \in DOMAIN remote /\ Owned(node.call.to, node.src)
      /\ node.last \in Nat /\ node.seen = 1..node.last /\ bot.kind = "workflow"
  BY Reading
<1>2. i \in Nat /\ node.seen \cup {i} = 1..i /\ i <= Length /\ i > 0
  BY <1>1 DEF Length
<1>3. CASE node.call.to = "resume"
  <2>1. node' = [Read(i) EXCEPT !.got = <<<<node.src, 2>>>>]
    BY <1>3
  <2>2. /\ node' \in Execution /\ node'.pc = node.pc /\ node'.call = node.call
        /\ node'.src = node.src /\ node'.cursor = i /\ node'.last = i
        /\ node'.seen = 1..i /\ node'.got = <<<<node.src, 2>>>>
    BY <1>1, <1>2, <2>1, SaysFits
  <2>3. Heard'
    BY <1>3, <2>2 DEF Heard
  <2> QED
    BY <1>2, <2>2, <2>3, ReadOn
<1>4. CASE node.call.to = "workflow" /\ (i = 1 \/ remote[node.src].asks = 0)
  <2>1. node' = [Read(i) EXCEPT !.got = <<<<node.src, i>>>>]
    BY <1>4 DEF WorkflowEvent
  <2>2. /\ node' \in Execution /\ node'.pc = node.pc /\ node'.call = node.call
        /\ node'.src = node.src /\ node'.cursor = i /\ node'.last = i
        /\ node'.seen = 1..i /\ node'.got = <<<<node.src, i>>>>
    BY <1>1, <1>2, <2>1, SaysFits
  <2>3. Heard'
    BY <1>4, <2>2 DEF Heard
  <2> QED
    BY <1>2, <2>2, <2>3, ReadOn
<1>5. CASE /\ node.call.to = "workflow" /\ i # 1 /\ remote[node.src].asks # 0
           /\ kept.decision = "none"
  <2> DEFINE r == [Read(i) EXCEPT !.pc = "paused"]
  <2>1. node' = [r EXCEPT !.job = node.src] /\ node.src \in Nat
    BY <1>1, <1>5 DEF WorkflowEvent, Execution
  <2>2. r \in Execution /\ r.pc = "paused"
    <3> DEFINE e == Read(i)
    <3>1. e \in Execution
      BY <1>1, <1>2, ReadFits
    <3>2. r = [e EXCEPT !.pc = "paused"]
      OBVIOUS
    <3> HIDE DEF e, r
    <3> QED
      BY <3>1, <3>2 DEF Execution
  <2>3. node' \in Execution /\ node'.pc = "paused" /\ node'.job = node.src
    <3> HIDE DEF r
    <3> QED
      BY <2>1, <2>2 DEF Execution
  <2>4. remote[node.src].asks > 0
    BY <1>1, <1>5, WaitsFit
  <2>5. Owned("workflow", node.job)'
    BY <1>1, <1>5, <2>3 DEF Owned, Own, RequestKey
  <2>6. AnswersFit'
    BY <1>1, <1>5, <2>3, <2>4, <2>5 DEF AnswersFit
  <2> QED
    BY <2>3, <2>6 DEF NodeFits, CallsFit, StreamsFit
<1>6. CASE /\ node.call.to = "workflow" /\ i # 1 /\ remote[node.src].asks # 0
           /\ kept.decision # "none"
  <2> DEFINE r == Read(i)
  <2>1. node' = Send(r, [to |-> "resume", job |-> kept.subject, round |-> 1, conv |-> node.conv])
    BY <1>6 DEF WorkflowEvent, Request, Resumed
  <2>2. /\ r \in Execution /\ kept.subject \in Nat /\ node.conv \in Nat
        /\ "resume" \in Requests /\ 1 \in Nat
    BY <1>1, <1>2, ReadFits DEF CozeInv, CozeTypes, Execution, Requests
  <2> HIDE DEF r
  <2>3. /\ node' \in Execution /\ node'.pc = "send" /\ node'.last = 0 /\ node'.seen = {}
        /\ node'.call = [to |-> "resume", job |-> kept.subject, round |-> 1, conv |-> node.conv]
    BY <2>1, <2>2, NodeSends
  <2>4. node'.call.to = "resume" /\ node'.call.job = kept.subject /\ node'.call.round = 1
    BY <2>3
  <2>5. CallsFit'
    BY <1>1, <1>6, <2>3, <2>4 DEF CallsFit
  <2> QED
    BY <2>3, <2>4, <2>5, NewCallFits DEF NodeFits
<1> QED
  BY <1>3, <1>4, <1>5, <1>6

\* The next event of a stream is heard once, and the end of a workflow or its question is acted on.
LEMMA EventStep ==
  ASSUME BotsAreSound, CozeInv, Event
  PROVE  NodeFits' /\ node' \in Execution
<1> DEFINE i == node.cursor + 1
<1>1. /\ node \in Execution /\ node.call.to \in {"chat", "workflow", "resume"}
      /\ node.cursor \in 0..node.last /\ node.last \in 0..Length /\ Length \in Nat
      /\ node.seen = 1..node.last /\ node.src \in DOMAIN remote
      /\ IF node.last > 0 THEN Heard ELSE node.call.to = "chat" => node.got = <<>>
      /\ node.pc = "read"
  BY Reading DEF Event
<1>2. UNCHANGED <<bot, remote, served, kept, token>> /\ node.cursor < Length
  BY DEF Event
<1>3. i \in 1..Length /\ i \in Nat
  BY <1>1, <1>2
<1>4. CASE token
  BY <1>1, <1>2, <1>4, StopFits DEF NodeFits, Event
<1>5. CASE ~token /\ ~New(i)
  <2>1. node' = [node EXCEPT !.cursor = i]
    BY <1>5 DEF Event
  <2>2. i <= node.last /\ node.last > 0
    BY <1>1, <1>3, <1>5 DEF New, CozeInv, CozeTypes, Deduplicates
  <2> HIDE DEF i
  <2>3. /\ node' \in Execution /\ node'.pc = node.pc /\ node'.call = node.call
        /\ node'.src = node.src /\ node'.cursor = i /\ node'.last = node.last
        /\ node'.seen = node.seen /\ node'.got = node.got /\ node'.job = node.job
        /\ node'.conv = node.conv /\ node'.asked = node.asked
    BY <1>1, <1>3, <2>1 DEF Execution
  <2>4. RemoteGrows
    BY <1>2, StaysGrows
  <2>5. Heard'
    BY <1>1, <2>2, <2>3, <2>4, HeardGrows
  <2> QED
    BY <1>1, <1>2, <2>2, <2>3, <2>5, ReadOn
<1>6. CASE ~token /\ New(i)
  <2>1. i = node.last + 1
    BY <1>1, <1>3, <1>6 DEF New, CozeInv, CozeTypes, Deduplicates
  <2>2. node' = CASE node.call.to = "chat" -> ChatEvent(i)
                  [] node.call.to = "workflow" -> WorkflowEvent(i)
                  [] OTHER -> [Read(i) EXCEPT !.got = <<<<node.src, 2>>>>]
    BY <1>6 DEF Event
  <2>3. CASE node.call.to = "chat"
    <3>1. node' = ChatEvent(i) /\ i \in 1..4
      BY <1>3, <2>2, <2>3 DEF Length
    <3> HIDE DEF i
    <3> QED
      BY <1>1, <1>2, <2>1, <2>3, <3>1, ChatEventStep
  <2>4. CASE node.call.to \in {"workflow", "resume"}
    <3>1. node' = IF node.call.to = "workflow" THEN WorkflowEvent(i)
                  ELSE [Read(i) EXCEPT !.got = <<<<node.src, 2>>>>]
      BY <2>2, <2>4
    <3> HIDE DEF i
    <3> QED
      BY <1>1, <1>2, <1>3, <2>1, <2>4, <3>1, WorkflowEventStep
  <2> QED
    BY <1>1, <2>3, <2>4
<1> QED
  BY <1>4, <1>5, <1>6

-----------------------------------------------------------------------------
(* Requests                                                                 *)

\* What a request that was carried out, now or before, leaves behind.
RequestHandled(job) ==
  /\ RemoteGrows /\ remote' \in Seq(Job)
  /\ \A j \in DOMAIN remote' : ~remote'[j].refused /\ remote'[j].answered <= remote'[j].asks
  /\ (MarksAreKept /\ AgentsKey /\ ModelsKey /\ WorkflowsKey)'
  /\ job \in DOMAIN remote'
  /\ node.call.to \in {"chat", "workflow", "submit", "resume"} =>
        \E s \in served' : s.key = RequestKey /\ s.to = node.call.to /\ s.job = job
  /\ node.call.to \in {"submit", "retrieve", "list"} => job = node.call.job

\* A request that is sent is one of these.
LEMMA Sending ==
  ASSUME BotsAreSound, CozeInv, node.pc = "send", ~token
  PROVE  /\ node \in Execution /\ node.call \in Call /\ bot \in Bots /\ remote \in Seq(Job)
         /\ node.call.to \in {"chat", "workflow", "submit", "retrieve", "list", "resume"}
         /\ node.call.to \in {"submit", "retrieve", "list", "resume"} =>
                node.call.job \in DOMAIN remote
         /\ node.call.to \in {"workflow", "resume"} <=> bot.kind = "workflow"
<1>1. /\ node \in Execution /\ bot \in Bots /\ remote \in Seq(Job) /\ CallsFit
      /\ ModelsKey /\ WorkflowsKey
  BY DEF CozeInv, CozeTypes
<1>2. node.call \in Call
  BY <1>1 DEF Execution
<1>3. bot.kind \in {"agent", "model", "workflow"}
  BY <1>1, BotFits
<1>4. node.call.to \in {"chat", "workflow", "submit", "retrieve", "list", "resume"}
  BY <1>1 DEF CallsFit
<1>5. CASE node.call.to = "chat"
  BY <1>1, <1>2, <1>5 DEF CallsFit
<1>6. CASE node.call.to = "workflow"
  BY <1>1, <1>2, <1>6 DEF CallsFit
<1>7. CASE node.call.to = "submit"
  BY <1>1, <1>2, <1>3, <1>7 DEF CallsFit, Known, ModelsKey
<1>8. CASE node.call.to \in {"retrieve", "list"}
  BY <1>1, <1>2, <1>8 DEF CallsFit, Known
<1>9. CASE node.call.to = "resume"
  BY <1>1, <1>2, <1>9 DEF CallsFit, WorkflowsKey
<1> QED
  BY <1>1, <1>2, <1>4, <1>5, <1>6, <1>7, <1>8, <1>9

\* A request that is remembered.
LEMMA HandledBefore ==
  ASSUME BotsAreSound, CozeInv, node.pc = "send", ~token, UNCHANGED <<bot, kept, remote, served>>,
         NEW s \in Remembered
  PROVE  RequestHandled(s.job)
<1>1. RemoteGrows
  BY StaysGrows
<1>2. remote' \in Seq(Job) /\ \A j \in DOMAIN remote' : ~remote'[j].refused /\ remote'[j].answered <= remote'[j].asks
  BY DEF CozeInv, CozeTypes
<1>3. \A to : Own(to)' = Own(to)
  BY DEF Own, RequestKey
<1>4. (MarksAreKept /\ AgentsKey /\ ModelsKey /\ WorkflowsKey)'
  BY <1>3 DEF CozeInv, MarksAreKept, AgentsKey, ModelsKey, WorkflowsKey, Owned
<1>5. s \in Own(node.call.to) /\ s \in served
  BY DEF Remembered, Own
<1>6. s.job \in DOMAIN remote /\ s.to \in {"chat", "workflow", "submit", "resume"}
  BY <1>5 DEF CozeInv, MarksAreKept
<1>7. node.call.to = s.to
  BY <1>5 DEF Own
<1>8. node.call.to = "submit" => s.job = node.call.job
  <2> SUFFICES ASSUME node.call.to = "submit" PROVE s.job = node.call.job
    OBVIOUS
  <2>1. bot.kind \in {"agent", "model"} /\ CallsFit
    BY Sending, BotFits DEF CozeInv
  <2>2. CASE bot.kind = "agent"
    <3>1. Known /\ node.call.job = node.job
      BY <2>1, <2>2 DEF CallsFit
    <3>2. Owned("chat", s.job) /\ Owned("chat", node.job)
      BY <1>5, <2>2, <3>1 DEF CozeInv, AgentsKey, Known
    <3> QED
      BY <3>1, <3>2, OwnIsOne DEF CozeInv
  <2>3. CASE bot.kind = "model"
    BY <1>5, <2>1, <2>3 DEF CallsFit, CozeInv, ModelsKey
  <2> QED
    BY <2>1, <2>2, <2>3
<1> QED
  BY <1>1, <1>2, <1>4, <1>5, <1>6, <1>7, <1>8 DEF RequestHandled, Own

\* A chat or an execution that is created.
LEMMA HandledAnew ==
  ASSUME BotsAreSound, CozeInv, node.pc = "send", ~token, UNCHANGED <<bot, kept>>,
         Remembered = {}, Creates, NEW asks \in bot.asks,
         remote' = Append(remote, NewJob(asks)), served' = served \cup {Mark(Len(remote) + 1)}
  PROVE  RequestHandled(Len(remote) + 1)
<1> DEFINE n == Len(remote)
           m == Mark(n + 1)
           to == node.call.to
<1>1. /\ node \in Execution /\ node.call \in Call /\ bot \in Bots /\ remote \in Seq(Job)
      /\ to \in {"chat", "workflow"} /\ (to = "workflow" <=> bot.kind = "workflow")
      /\ CallsFit /\ MarksAreKept /\ AgentsKey /\ ModelsKey /\ WorkflowsKey
  BY Sending DEF Creates, CozeInv
<1>2. node.call.round = 0 /\ (bot.kind = "agent" => node.call.conv = kept.conv)
  BY <1>1 DEF CallsFit
<1>3. n \in Nat /\ DOMAIN remote = 1..n
  BY <1>1
<1>4. NewJob(asks) \in Job /\ ~NewJob(asks).refused /\ NewJob(asks).answered = 0
      /\ NewJob(asks).asks = asks /\ asks \in Nat
      /\ (node.call.conv # Nothing => NewJob(asks).conv = node.call.conv)
  <2>1. asks \in Nat /\ node.call.conv \in Nat
    BY <1>1, BotFits DEF Call
  <2> QED
    BY <1>3, <2>1 DEF NewJob, Job, Positive, Nothing
<1>5. /\ remote' \in Seq(Job) /\ DOMAIN remote' = 1..(n + 1) /\ remote'[n + 1] = NewJob(asks)
      /\ \A j \in DOMAIN remote : remote'[j] = remote[j]
  <2> DEFINE new == NewJob(asks)
  <2>1. new \in Job /\ remote' = Append(remote, new) /\ remote \in Seq(Job)
    BY <1>1, <1>4
  <2> HIDE DEF new
  <2>2. /\ remote' \in Seq(Job) /\ DOMAIN remote' = 1..(n + 1) /\ remote'[n + 1] = new
        /\ \A j \in DOMAIN remote : remote'[j] = remote[j]
    BY <1>3, <2>1
  <2> QED
    BY <2>2 DEF new
<1>6. RemoteGrows
  BY <1>3, <1>5, WaitsFit DEF RemoteGrows
<1>7. \A j \in DOMAIN remote' : ~remote'[j].refused /\ remote'[j].answered <= remote'[j].asks
  BY <1>3, <1>4, <1>5 DEF CozeInv, CozeTypes
<1>8. m.key = RequestKey /\ m.to = to /\ m.job = n + 1 /\ m \in served'
  BY DEF Mark
<1>9. /\ kept.turn \in Positive /\ kept.pauses \in Nat
      /\ RequestKey[1] = kept.turn /\ RequestKey[2] = kept.pauses
      /\ RequestKey \in Nat \X Nat \X {0} \X {0}
  BY DEF CozeInv, CozeTypes, RequestKey, Positive
<1>10. Own(to) = {}
  BY DEF Remembered, Own, CozeInv, CozeTypes, Deduplicates
<1>11. \A k : Own(k)' = IF k = to THEN {m} ELSE Own(k)
  <2> SUFFICES ASSUME NEW k PROVE Own(k)' = IF k = to THEN {m} ELSE Own(k)
    OBVIOUS
  <2>1. Own(k)' = {s \in served' : s.key = RequestKey /\ s.to = k}
    BY DEF Own, RequestKey
  <2>2. CASE k = to
    BY <1>8, <1>10, <2>1, <2>2 DEF Own
  <2>3. CASE k # to
    BY <1>8, <2>1, <2>3 DEF Own
  <2> QED
    BY <2>2, <2>3
<1> HIDE DEF m
<1>12. MarksAreKept'
  <2> DEFINE S == [key : Nat \X Nat \X {0} \X {0}, to : Requests, job : 1..(n + 1)]
  <2>1. m \in S
    BY <1>1, <1>2, <1>3, <1>9 DEF m, Mark, Requests
  <2>2. \A s \in served : s \in S
    BY <1>1, <1>3 DEF MarksAreKept
  <2>3. served' \subseteq S
    BY <2>1, <2>2 DEF m
  <2>4. \A s, t \in served' : s.key = t.key /\ s.to = t.to => s.job = t.job
    BY <1>1, <1>8, <1>10 DEF MarksAreKept, Own, m
  <2>5. \A s \in served' : s.key[1] < kept.turn \/ (s.key[1] = kept.turn /\ s.key[2] <= kept.pauses)
    <3>1. m.key[1] = kept.turn /\ m.key[2] = kept.pauses /\ kept.pauses <= kept.pauses
      BY <1>8, <1>9
    <3>2. \A s \in served : s.key[1] < kept.turn \/ (s.key[1] = kept.turn /\ s.key[2] <= kept.pauses)
      BY <1>1 DEF MarksAreKept
    <3>3. \A s \in served' : s \in served \/ s = m
      BY DEF m
    <3> QED
      BY <3>1, <3>2, <3>3
  <2>6. \A s \in served' :
          \/ s.to \in {"chat", "submit"} /\ bot.kind # "workflow"
          \/ s.to \in {"workflow", "resume"} /\ bot.kind = "workflow"
    BY <1>1, <1>8 DEF MarksAreKept, m
  <2> QED
    BY <1>5, <2>3, <2>4, <2>5, <2>6 DEF MarksAreKept
<1>13. AgentsKey'
  <2> SUFFICES ASSUME bot.kind = "agent"
               PROVE  /\ \A s \in Own("submit")' : \E c \in Own("chat")' : c.job = s.job
                      /\ \A c \in Own("chat")' :
                            /\ kept.conv # Nothing => remote'[c.job].conv = kept.conv
                            /\ Own("submit")' = {} => remote'[c.job].answered = 0
    BY DEF AgentsKey, Owned
  <2>1. to = "chat" /\ Own("chat")' = {m} /\ m.job = n + 1
    BY <1>1, <1>8, <1>11
  <2>2. /\ remote'[n + 1].answered = 0
        /\ kept.conv # Nothing => remote'[n + 1].conv = kept.conv
    BY <1>2, <1>4, <1>5
  <2>3. Own("submit")' = {}
    BY <1>1, <1>10, <1>11, <2>1 DEF AgentsKey, Owned
  <2> QED
    BY <2>1, <2>2, <2>3
<1>14. ModelsKey'
  <2> SUFFICES ASSUME bot.kind = "model"
               PROVE  /\ \A c \in Own("chat")' :
                            remote'[c.job].answered = 0 /\ (kept.asked > 0 => c.job # kept.job)
                      /\ \A s \in Own("submit")' : s.job = kept.job
                      /\ kept.asked > 0 =>
                            /\ kept.job \in DOMAIN remote' /\ kept.asked <= remote'[kept.job].asks
                            /\ kept.asked = remote'[kept.job].answered + IF Own("submit")' = {} THEN 1 ELSE 0
    BY DEF ModelsKey
  <2>1. to = "chat" /\ Own("chat")' = {m} /\ m.job = n + 1 /\ Own("submit")' = Own("submit")
    BY <1>1, <1>8, <1>11
  <2>2. remote'[n + 1].answered = 0
    BY <1>4, <1>5
  <2>3. kept.asked > 0 => kept.job \in DOMAIN remote /\ kept.job # n + 1 /\ remote'[kept.job] = remote[kept.job]
    BY <1>1, <1>3, <1>5 DEF ModelsKey
  <2>4. kept.asked > 0 => kept.job \in DOMAIN remote'
    BY <1>3, <1>5, <2>3
  <2> QED
    BY <1>1, <2>1, <2>2, <2>3, <2>4 DEF ModelsKey
<1>15. WorkflowsKey'
  <2> SUFFICES ASSUME bot.kind = "workflow"
               PROVE  /\ \A w \in Own("workflow")' :
                            remote'[w.job].answered = 0 /\ (kept.decision # "none" => w.job # kept.subject)
                      /\ \A s \in Own("resume")' : kept.decision # "none" /\ s.job = kept.subject
                      /\ kept.decision # "none" =>
                            /\ kept.subject \in DOMAIN remote' /\ remote'[kept.subject].asks = 1
                            /\ remote'[kept.subject].answered = IF Own("resume")' = {} THEN 0 ELSE 1
    BY DEF WorkflowsKey
  <2>1. to = "workflow" /\ Own("workflow")' = {m} /\ m.job = n + 1 /\ Own("resume")' = Own("resume")
    BY <1>1, <1>8, <1>11
  <2>2. remote'[n + 1].answered = 0
    BY <1>4, <1>5
  <2>3. kept.decision # "none" =>
          kept.subject \in DOMAIN remote /\ kept.subject # n + 1 /\ remote'[kept.subject] = remote[kept.subject]
    BY <1>1, <1>3, <1>5 DEF WorkflowsKey
  <2>4. kept.decision # "none" => kept.subject \in DOMAIN remote'
    BY <1>3, <1>5, <2>3
  <2> QED
    BY <1>1, <2>1, <2>2, <2>3, <2>4 DEF WorkflowsKey
<1>16. n + 1 \in DOMAIN remote' /\ node.call.to \notin {"submit", "retrieve", "list"}
  BY <1>1, <1>3, <1>5
<1> QED
  BY <1>5, <1>6, <1>7, <1>8, <1>12, <1>13, <1>14, <1>15, <1>16 DEF RequestHandled

\* Outputs and answers are what the job waits for.
LEMMA FitsTheJob ==
  ASSUME BotsAreSound, CozeInv, node.pc = "send", ~token, Remembered = {},
         node.call.to \in {"submit", "resume"}
  PROVE  LET job == node.call.job
         IN  /\ job \in DOMAIN remote /\ node.call.round \in Nat
             /\ node.call.round = remote[job].answered + 1 /\ node.call.round <= remote[job].asks
             /\ bot.kind = "agent" => Owned("chat", job)
             /\ bot.kind = "model" => Own("submit") = {} /\ job = kept.job /\ node.call.round = kept.asked
                                       /\ kept.asked > 0
             /\ bot.kind = "workflow" => Own("resume") = {} /\ job = kept.subject /\ node.call.round = 1
                                          /\ kept.decision # "none"
<1> DEFINE job == node.call.job
           round == node.call.round
<1>1. /\ node.call \in Call /\ bot \in Bots /\ job \in DOMAIN remote /\ CallsFit
      /\ MarksAreKept /\ AgentsKey /\ ModelsKey /\ WorkflowsKey
      /\ (node.call.to = "resume" <=> bot.kind = "workflow")
  BY Sending DEF CozeInv
<1>2. round \in Nat /\ remote[job].answered \in Nat /\ remote[job].asks \in Nat
  BY <1>1, WaitsFit DEF Call
<1>3. Own(node.call.to) = {}
  BY DEF Remembered, Own, CozeInv, CozeTypes, Deduplicates
<1>4. CASE bot.kind = "agent"
  <2>1. /\ node.call.to = "submit" /\ Known /\ job = node.job
        /\ round \in 1..(remote[job].answered + 1) /\ round <= remote[job].asks
    BY <1>1, <1>4 DEF CallsFit
  <2>2. PICK c \in Own("chat") : c.job = job
    BY <1>4, <2>1 DEF Known, Owned
  <2>3. remote[job].answered = 0
    BY <1>1, <1>3, <1>4, <2>1, <2>2 DEF AgentsKey
  <2> QED
    BY <1>1, <1>2, <1>4, <2>1, <2>3 DEF Known
<1>5. CASE bot.kind = "model"
  <2>1. node.call.to = "submit" /\ job = kept.job /\ round = kept.asked /\ kept.asked > 0
    BY <1>1, <1>5 DEF CallsFit
  <2>2. Own("submit") = {}
    BY <1>3, <2>1
  <2> QED
    BY <1>1, <1>2, <1>5, <2>1, <2>2 DEF ModelsKey
<1>6. CASE bot.kind = "workflow"
  <2>1. node.call.to = "resume" /\ job = kept.subject /\ round = 1 /\ kept.decision # "none"
    BY <1>1, <1>6 DEF CallsFit
  <2>2. Own("resume") = {}
    BY <1>3, <2>1
  <2> QED
    BY <1>1, <1>2, <1>6, <2>1, <2>2 DEF WorkflowsKey
<1> QED
  BY <1>1, <1>4, <1>5, <1>6, BotFits

\* Outputs or an answer that a job takes.
LEMMA HandledAnswer ==
  ASSUME BotsAreSound, CozeInv, node.pc = "send", ~token, UNCHANGED <<bot, kept>>,
         Remembered = {}, node.call.to \in {"submit", "resume"},
         remote' = [remote EXCEPT ![node.call.job] = Answered(@, node.call.round)],
         served' = served \cup {Mark(node.call.job)}
  PROVE  RequestHandled(node.call.job)
<1> DEFINE job == node.call.job
           round == node.call.round
           m == Mark(job)
           to == node.call.to
           done == Answered(remote[job], round)
<1>1. /\ job \in DOMAIN remote /\ round \in Nat
      /\ round = remote[job].answered + 1 /\ round <= remote[job].asks
      /\ bot.kind = "agent" => Owned("chat", job)
      /\ bot.kind = "model" => Own("submit") = {} /\ job = kept.job /\ round = kept.asked
                                /\ kept.asked > 0
      /\ bot.kind = "workflow" => Own("resume") = {} /\ job = kept.subject /\ round = 1
                                   /\ kept.decision # "none"
  BY FitsTheJob
<1>2. /\ bot \in Bots /\ remote \in Seq(Job) /\ (to = "resume" <=> bot.kind = "workflow")
      /\ MarksAreKept /\ AgentsKey /\ ModelsKey /\ WorkflowsKey
  BY Sending DEF CozeInv
<1>3. remote[job] \in Job
  BY <1>1, <1>2
<1>4. /\ done \in Job /\ done.conv = remote[job].conv /\ done.asks = remote[job].asks
      /\ done.answered = round /\ done.refused = remote[job].refused
  BY <1>1, <1>3 DEF Answered, Job
<1>5. /\ remote' \in Seq(Job) /\ DOMAIN remote' = DOMAIN remote
      /\ \A j \in DOMAIN remote : remote'[j] = IF j = job THEN done ELSE remote[j]
  <2>1. remote' = [remote EXCEPT ![job] = done]
    OBVIOUS
  <2> HIDE DEF done
  <2> QED
    BY <1>1, <1>2, <1>4, <2>1
<1>6. RemoteGrows
  BY <1>1, <1>4, <1>5, WaitsFit DEF RemoteGrows
<1>7. \A j \in DOMAIN remote' : ~remote'[j].refused /\ remote'[j].answered <= remote'[j].asks
  BY <1>1, <1>4, <1>5 DEF CozeInv, CozeTypes
<1>8. m.key = RequestKey /\ m.to = to /\ m.job = job /\ m \in served'
  BY DEF Mark
<1>9. /\ kept.turn \in Positive /\ kept.pauses \in Nat
      /\ RequestKey[1] = kept.turn /\ RequestKey[2] = kept.pauses
      /\ RequestKey \in Nat \X Nat \X {0} \X {0}
  BY DEF CozeInv, CozeTypes, RequestKey, Positive
<1>10. \A k : Own(k)' = IF k = to THEN Own(k) \cup {m} ELSE Own(k)
  <2> SUFFICES ASSUME NEW k PROVE Own(k)' = IF k = to THEN Own(k) \cup {m} ELSE Own(k)
    OBVIOUS
  <2>1. Own(k)' = {s \in served' : s.key = RequestKey /\ s.to = k}
    BY DEF Own, RequestKey
  <2>2. CASE k = to
    BY <1>8, <2>1, <2>2 DEF Own
  <2>3. CASE k # to
    BY <1>8, <2>1, <2>3 DEF Own
  <2> QED
    BY <2>2, <2>3
<1>11. Own(to) = {}
  BY DEF Remembered, Own, CozeInv, CozeTypes, Deduplicates
<1> HIDE DEF m, done
<1>12. MarksAreKept'
  <2> DEFINE S == [key : Nat \X Nat \X {0} \X {0}, to : Requests, job : DOMAIN remote]
  <2>1. m \in S
    BY <1>1, <1>9 DEF m, Mark, Requests
  <2>2. served' \subseteq S
    BY <1>2, <2>1 DEF MarksAreKept, m
  <2>3. \A s \in served' : s \in served \/ s = m
    BY DEF m
  <2>4. \A s, t \in served' : s.key = t.key /\ s.to = t.to => s.job = t.job
    BY <1>2, <1>8, <1>11, <2>3 DEF MarksAreKept, Own
  <2>5. \A s \in served' : s.key[1] < kept.turn \/ (s.key[1] = kept.turn /\ s.key[2] <= kept.pauses)
    <3>1. m.key[1] = kept.turn /\ m.key[2] = kept.pauses /\ kept.pauses <= kept.pauses
      BY <1>8, <1>9
    <3>2. \A s \in served : s.key[1] < kept.turn \/ (s.key[1] = kept.turn /\ s.key[2] <= kept.pauses)
      BY <1>2 DEF MarksAreKept
    <3> QED
      BY <2>3, <3>1, <3>2
  <2>6. \A s \in served' :
          \/ s.to \in {"chat", "submit"} /\ bot.kind # "workflow"
          \/ s.to \in {"workflow", "resume"} /\ bot.kind = "workflow"
    BY <1>1, <1>2, <1>8, <2>3 DEF MarksAreKept
  <2> QED
    BY <1>5, <2>2, <2>4, <2>5, <2>6 DEF MarksAreKept
<1>13. AgentsKey'
  <2> SUFFICES ASSUME bot.kind = "agent"
               PROVE  /\ \A s \in Own("submit")' : \E c \in Own("chat")' : c.job = s.job
                      /\ \A c \in Own("chat")' :
                            /\ kept.conv # Nothing => remote'[c.job].conv = kept.conv
                            /\ Own("submit")' = {} => remote'[c.job].answered = 0
    BY DEF AgentsKey, Owned
  <2>1. Own("chat")' = Own("chat") /\ Own("submit")' = Own("submit") \cup {m}
    BY <1>2, <1>10
  <2>2. \A s \in Own("submit")' : \E c \in Own("chat")' : c.job = s.job
    BY <1>1, <1>2, <1>8, <2>1 DEF AgentsKey, Owned
  <2>3. SUFFICES ASSUME NEW c \in Own("chat")
                 PROVE  /\ kept.conv # Nothing => remote'[c.job].conv = kept.conv
                        /\ Own("submit")' = {} => remote'[c.job].answered = 0
    BY <2>1, <2>2
  <2>4. c.job = job /\ c.job \in DOMAIN remote
    BY <1>1, <1>2, OwnIsOne DEF Owned
  <2>5. kept.conv # Nothing => remote'[c.job].conv = kept.conv
    BY <1>2, <1>4, <1>5, <2>4 DEF AgentsKey
  <2>6. Own("submit")' # {}
    BY <2>1
  <2> QED
    BY <2>5, <2>6
<1>14. ModelsKey'
  <2> SUFFICES ASSUME bot.kind = "model"
               PROVE  /\ \A c \in Own("chat")' :
                            remote'[c.job].answered = 0 /\ (kept.asked > 0 => c.job # kept.job)
                      /\ \A s \in Own("submit")' : s.job = kept.job
                      /\ kept.asked > 0 =>
                            /\ kept.job \in DOMAIN remote' /\ kept.asked <= remote'[kept.job].asks
                            /\ kept.asked = remote'[kept.job].answered + IF Own("submit")' = {} THEN 1 ELSE 0
    BY DEF ModelsKey
  <2>1. Own("chat")' = Own("chat") /\ Own("submit")' = {m}
    BY <1>1, <1>2, <1>10
  <2>2. /\ remote'[kept.job].answered = kept.asked /\ kept.asked <= remote'[kept.job].asks
        /\ kept.asked \in Nat
    BY <1>1, <1>4, <1>5
  <2>3. \A c \in Own("chat") : c.job \in DOMAIN remote /\ c.job # kept.job /\ remote[c.job].answered = 0
    BY <1>1, <1>2 DEF ModelsKey, MarksAreKept, Own
  <2>4. \A c \in Own("chat") : remote'[c.job].answered = 0 /\ c.job # kept.job
    BY <1>1, <1>5, <2>3
  <2>5. m.job = kept.job /\ kept.job \in DOMAIN remote'
    BY <1>1, <1>5, <1>8
  <2>6. kept.asked = remote'[kept.job].answered + IF Own("submit")' = {} THEN 1 ELSE 0
    BY <2>1, <2>2
  <2> QED
    BY <2>1, <2>2, <2>4, <2>5, <2>6
<1>15. WorkflowsKey'
  <2> SUFFICES ASSUME bot.kind = "workflow"
               PROVE  /\ \A w \in Own("workflow")' :
                            remote'[w.job].answered = 0 /\ (kept.decision # "none" => w.job # kept.subject)
                      /\ \A s \in Own("resume")' : kept.decision # "none" /\ s.job = kept.subject
                      /\ kept.decision # "none" =>
                            /\ kept.subject \in DOMAIN remote' /\ remote'[kept.subject].asks = 1
                            /\ remote'[kept.subject].answered = IF Own("resume")' = {} THEN 0 ELSE 1
    BY DEF WorkflowsKey
  <2>1. Own("workflow")' = Own("workflow") /\ Own("resume")' = {m}
    BY <1>1, <1>2, <1>10
  <2>2. remote'[kept.subject].answered = 1 /\ remote'[kept.subject].asks = 1
    BY <1>1, <1>2, <1>4, <1>5 DEF WorkflowsKey
  <2>3. \A w \in Own("workflow") : w.job \in DOMAIN remote /\ w.job # kept.subject /\ remote[w.job].answered = 0
    BY <1>1, <1>2 DEF WorkflowsKey, MarksAreKept, Own
  <2> QED
    BY <1>1, <1>5, <1>8, <2>1, <2>2, <2>3
<1>16. job \in DOMAIN remote'
  BY <1>1, <1>5
<1> QED
  BY <1>5, <1>6, <1>7, <1>8, <1>12, <1>13, <1>14, <1>15, <1>16 DEF RequestHandled

\* A request that is carried out, or was.
LEMMA HandleStep ==
  ASSUME BotsAreSound, CozeInv, node.pc = "send", ~token, UNCHANGED <<bot, kept>>,
         NEW job \in 1..(Len(remote) + 1), Handle(job)
  PROVE  RequestHandled(job)
<1>1. CASE \E s \in Remembered : s.job = job /\ UNCHANGED <<remote, served>>
  BY <1>1, HandledBefore
<1>2. CASE /\ Remembered = {} /\ Creates /\ job = Len(remote) + 1
           /\ \E asks \in bot.asks : remote' = Append(remote, NewJob(asks))
           /\ served' = served \cup {Mark(job)}
  BY <1>2, HandledAnew
<1>3. CASE /\ Remembered = {} /\ job = node.call.job /\ node.call.to \in {"submit", "resume"}
           /\ remote' = [remote EXCEPT ![job] = Answered(@, node.call.round)]
           /\ served' = served \cup {Mark(job)}
  BY <1>3, HandledAnswer
<1>4. CASE /\ Remembered = {} /\ job = node.call.job /\ node.call.to \in {"retrieve", "list"}
           /\ remote' = remote /\ served' = served
  <2>1. job \in DOMAIN remote
    BY <1>4, Sending
  <2>2. RemoteGrows
    BY <1>4, StaysGrows
  <2>3. remote' \in Seq(Job) /\ \A j \in DOMAIN remote' : ~remote'[j].refused /\ remote'[j].answered <= remote'[j].asks
    BY <1>4 DEF CozeInv, CozeTypes
  <2>4. \A to : Own(to)' = Own(to)
    BY <1>4 DEF Own, RequestKey
  <2>5. (MarksAreKept /\ AgentsKey /\ ModelsKey /\ WorkflowsKey)'
    BY <1>4, <2>4 DEF CozeInv, MarksAreKept, AgentsKey, ModelsKey, WorkflowsKey, Owned
  <2> QED
    BY <1>4, <2>1, <2>2, <2>3, <2>5 DEF RequestHandled
<1>5. node.call.to \in {"chat", "workflow", "submit", "retrieve", "list", "resume"}
  BY Sending
<1> QED
  BY <1>1, <1>2, <1>3, <1>4, <1>5 DEF Handle, Creates

\* The replies stay what they are, whatever happens at Coze.
LEMMA RepliesGrow ==
  ASSUME BotsAreSound, CozeInv, RemoteGrows, replies' = replies,
         \A j \in DOMAIN remote' : ~remote'[j].refused
  PROVE  RepliesFit'
<1>1. RepliesFit /\ bot' = bot /\ kept' = kept
  BY DEF CozeInv, RemoteGrows
<1>2. \A kind : OfKind(kind)' = OfKind(kind)
  BY <1>1 DEF OfKind, Delivered
<1>3. AnswerIsWhole'
  BY <1>1, <1>2 DEF RepliesFit, AnswerIsWhole, Whole, CozeInv, CozeTypes, Deduplicates
<1>4. \A j \in DOMAIN remote : /\ j \in DOMAIN remote' /\ remote'[j].asks = remote[j].asks
                               /\ Waits(j) = 0 => ~(remote'[j].answered < remote'[j].asks)
  BY WaitsGrows DEF RemoteGrows
<1>5. OutputsFit'
  <2>1. bot.tools => \A i \in OfKind("agent") :
            replies[i].asked = 0 /\ ~(remote'[replies[i].job].answered < remote'[replies[i].job].asks)
    BY <1>1, <1>4 DEF RepliesFit, OutputsFit
  <2>2. OfKind("agent")' = OfKind("agent")
    BY <1>2
  <2> QED
    BY <1>1, <2>1, <2>2 DEF OutputsFit, Waits
<1>6. WorkflowGoesOn'
  <2>1. \A i \in OfKind("workflow") :
          LET job == replies[i].got[1][1]
          IN  /\ Len(replies[i].got) = 1 /\ replies[i].got[1][2] = 2 /\ job \in DOMAIN remote
              /\ remote[job].asks > 0 => job = replies[i].subject /\ Waits(job) = 0
    BY <1>1 DEF RepliesFit, WorkflowGoesOn
  <2>2. \A i \in OfKind("workflow") :
          LET job == replies[i].got[1][1]
          IN  /\ Len(replies[i].got) = 1 /\ replies[i].got[1][2] = 2
              /\ remote'[job].asks > 0 =>
                    job = replies[i].subject /\ ~(remote'[job].answered < remote'[job].asks)
    BY <1>4, <2>1
  <2>3. OfKind("workflow")' = OfKind("workflow")
    BY <1>2
  <2> QED
    BY <2>2, <2>3 DEF WorkflowGoesOn, Waits
<1>7. /\ replies' \in Seq(Reply)
      /\ \A i \in OfKind("agent") :
            /\ replies[i].job \in DOMAIN remote'
            /\ kept.conv # Nothing /\ replies[i].conv = kept.conv
      /\ \A i \in OfKind("workflow") : replies[i].got[1][1] \in DOMAIN remote'
  BY <1>1, <1>4 DEF RepliesFit
<1>8. OfKind("agent")' = OfKind("agent") /\ OfKind("workflow")' = OfKind("workflow")
  BY <1>2
<1> QED
  BY <1>1, <1>3, <1>5, <1>6, <1>7, <1>8 DEF RepliesFit

\* An attempt that was carried out fits, if the node does.
LEMMA RequestKeeps ==
  ASSUME BotsAreSound, CozeInv, NEW job, RequestHandled(job), replies' = replies, drops' \in {drops, drops + 1},
         NodeFits', node' \in Execution
  PROVE  CozeInv'
<1>1. RemoteGrows /\ bot' = bot /\ kept' = kept
  BY DEF RequestHandled, RemoteGrows
<1>2. CozeTypes'
  BY <1>1 DEF CozeInv, CozeTypes, RequestHandled, Job, Deduplicates
<1>3. RepliesFit'
  BY <1>1, RepliesGrow DEF RequestHandled
<1> QED
  BY <1>2, <1>3 DEF CozeInv, RequestHandled, NodeFits

\* A reply that does not arrive.
LEMMA DropStep ==
  ASSUME BotsAreSound, CozeInv, Drop
  PROVE  CozeInv'
<1>1. /\ node.pc = "send" /\ ~token /\ UNCHANGED <<bot, kept, token, replies>>
      /\ node' = NextAttempt(node) /\ drops' = drops + 1
  BY DEF Drop
<1>2. CASE \E job \in 1..(Len(remote) + 1) : Handle(job)
  <2>1. PICK job \in 1..(Len(remote) + 1) : Handle(job)
    BY <1>2
  <2>2. RequestHandled(job)
    BY <1>1, <2>1, HandleStep
  <2>3. NodeFits' /\ node' \in Execution
    BY <1>1, <2>2, AttemptFits DEF RequestHandled
  <2> QED
    BY <1>1, <2>2, <2>3, RequestKeeps
<1>3. CASE UNCHANGED <<remote, served>>
  <2>1. NodeFits' /\ node' \in Execution
    BY <1>1, <1>3, StaysGrows, AttemptFits
  <2> QED
    BY <1>1, <1>3, <2>1, QuietStep DEF CozeInv, NodeFits
<1> QED
  BY <1>2, <1>3 DEF Drop

\* A call whose reply came opens its stream, ...
LEMMA OpenStep ==
  ASSUME BotsAreSound, CozeInv, node.pc = "send", ~token, NEW job, RequestHandled(job),
         Streamed(node.call), token' = token, NEW from \in {0, node.last},
         node' = [node EXCEPT !.pc = "read", !.src = job, !.cursor = from]
  PROVE  NodeFits' /\ node' \in Execution
<1>1. /\ node \in Execution /\ CallsFit /\ StreamsFit /\ MarksAreKept' /\ RemoteGrows
      /\ bot' = bot /\ kept' = kept /\ job \in DOMAIN remote' /\ remote' \in Seq(Job)
  BY DEF CozeInv, CozeTypes, RequestHandled, RemoteGrows
<1>2. job \in Nat /\ from \in Nat /\ from <= node.last /\ node.last \in Nat
  BY <1>1 DEF Execution
<1>3. node.call.to \in {"chat", "workflow", "resume"}
  BY DEF Streamed
<1> DEFINE e == [node EXCEPT !.pc = "read"]
           f == [e EXCEPT !.src = job]
<1>4. e \in Execution
  BY <1>1 DEF Execution
<1>5. f \in Execution
  <2> HIDE DEF e
  <2> QED
    BY <1>2, <1>4 DEF Execution
<1>6. node' \in Execution
  <2>1. node' = [f EXCEPT !.cursor = from]
    OBVIOUS
  <2> HIDE DEF f
  <2> QED
    BY <1>2, <1>5, <2>1 DEF Execution
<1>7. /\ node'.pc = "read" /\ node'.src = job /\ node'.cursor = from /\ node'.call = node.call
      /\ node'.last = node.last /\ node'.seen = node.seen /\ node'.got = node.got
      /\ node'.job = node.job /\ node'.conv = node.conv /\ node'.asked = node.asked
  BY <1>1 DEF Execution
<1>8. CallsFit'
  BY <1>7, CallGrows, <1>1
<1>9. PICK s \in served' : s.key = RequestKey /\ s.to = node.call.to /\ s.job = job
  BY <1>3 DEF RequestHandled
<1>10. Owned(node.call.to, node.src)'
  BY <1>1, <1>7, <1>9 DEF Owned, Own, RequestKey
<1>11. /\ node.last <= Length /\ node.seen = 1..node.last
       /\ IF node.last > 0 THEN Owned(node.call.to, node.src) /\ Heard
          ELSE node.call.to = "chat" => node.got = <<>>
  BY <1>1 DEF StreamsFit
<1>12. node.last > 0 => node.src = job /\ Heard'
  <2> SUFFICES ASSUME node.last > 0 PROVE node.src = job /\ Heard'
    OBVIOUS
  <2>1. PICK t \in served : t.key = RequestKey /\ t.to = node.call.to /\ t.job = node.src
    BY <1>11 DEF Owned, Own
  <2>2. t \in served' /\ t.job \in DOMAIN remote
    BY <1>1, <2>1 DEF RemoteGrows, CozeInv, MarksAreKept
  <2>4. node.src = job
    BY <1>1, <1>9, <2>1, <2>2 DEF MarksAreKept
  <2>5. Heard'
    BY <1>1, <1>7, <1>11, <2>1, <2>2, <2>4, HeardGrows
  <2> QED
    BY <2>4, <2>5
<1>13. Streamed(node.call)' /\ Length' = Length
  BY <1>1, <1>7 DEF Streamed, Length
<1>14. StreamsFit'
  BY <1>2, <1>7, <1>10, <1>11, <1>12, <1>13 DEF StreamsFit
<1> QED
  BY <1>6, <1>7, <1>8, <1>14 DEF NodeFits, AnswersFit

\* ... or says how the chat is: it is polled again, its calls are looked at, or it is over.
LEMMA StatusStep ==
  ASSUME BotsAreSound, CozeInv, node.pc = "send", ~token, NEW job, RequestHandled(job),
         node.call.to \in {"chat", "submit", "retrieve"}, ~Streamed(node.call), token' = token,
         Status([node EXCEPT !.job = job, !.conv = remote'[job].conv], job,
                IF remote'[job].answered < remote'[job].asks THEN remote'[job].answered + 1 ELSE 0)
  PROVE  NodeFits' /\ node' \in Execution
<1> DEFINE asked == IF remote'[job].answered < remote'[job].asks THEN remote'[job].answered + 1 ELSE 0
           conv == remote'[job].conv
           known == [node EXCEPT !.job = job, !.conv = conv]
<1>1. /\ node \in Execution /\ CallsFit /\ MarksAreKept' /\ RemoteGrows
      /\ bot' = bot /\ kept' = kept /\ job \in DOMAIN remote' /\ remote' \in Seq(Job)
      /\ bot.kind # "workflow" /\ bot \in Bots
  BY Sending DEF CozeInv, CozeTypes, RequestHandled, RemoteGrows
<1>2. remote'[job] \in Job
  <2> DEFINE r == remote'
  <2>1. r \in Seq(Job) /\ job \in DOMAIN r
    BY <1>1
  <2> HIDE DEF r
  <2>2. r[job] \in Job
    BY <2>1
  <2> QED
    BY <2>2 DEF r
<1>3. /\ remote'[job].asks \in Nat /\ remote'[job].answered \in Nat /\ conv \in Nat /\ job \in Nat
      /\ remote'[job].answered <= remote'[job].asks
  BY <1>1, <1>2, BotFits DEF Job, Positive, RequestHandled
<1>4. asked \in Nat
  BY <1>3
<1>5. /\ known \in Execution /\ known.job = job /\ known.conv = conv /\ known.rounds \in Nat
      /\ known.got = node.got /\ known.asked = node.asked
  <2> DEFINE e == [node EXCEPT !.job = job]
  <2>1. e \in Execution
    BY <1>1, <1>3 DEF Execution
  <2>2. known = [e EXCEPT !.conv = conv]
    OBVIOUS
  <2>3. known \in Execution
    <3> HIDE DEF e, known, conv
    <3> QED
      BY <1>3, <2>1, <2>2 DEF Execution
  <2>4. known.job = job /\ known.conv = conv /\ known.got = node.got /\ known.asked = node.asked
    <3> HIDE DEF conv
    <3> QED
      BY <1>1 DEF Execution
  <2>5. known.rounds \in Nat
    <3> HIDE DEF known
    <3> QED
      BY <2>3 DEF Execution
  <2> QED
    BY <2>3, <2>4, <2>5
\* The chat is the one of the key at hand.
<1>6. bot.kind = "agent" => \E c \in Own("chat")' : c.job = job
  <2> SUFFICES ASSUME bot.kind = "agent" PROVE \E c \in Own("chat")' : c.job = job
    OBVIOUS
  <2>1. CASE node.call.to = "chat"
    <3>1. PICK s \in served' : s.key = RequestKey /\ s.to = node.call.to /\ s.job = job
      BY <2>1 DEF RequestHandled
    <3> QED
      BY <1>1, <2>1, <3>1 DEF Own, RequestKey
  <2>2. CASE node.call.to \in {"submit", "retrieve"}
    <3>1. Known /\ node.call.job = node.job /\ job = node.call.job
      BY <1>1, <2>2 DEF CallsFit, RequestHandled
    <3>2. PICK c \in Own("chat") : c.job = job
      BY <3>1 DEF Known, Owned
    <3> QED
      BY <1>1, <3>2, OwnGrows
  <2> QED
    BY <2>1, <2>2
<1>7. ASSUME node'.job = job, node'.conv = conv PROVE Known'
  BY <1>1, <1>6, <1>7 DEF Known, Owned
<1>8. \/ node' = [known EXCEPT !.pc = "poll"]
      \/ asked > 0 /\ node' = [known EXCEPT !.pc = "tools", !.asked = asked, !.got = <<>>]
      \/ asked = 0 /\ node' = Send(known, [to |-> "list", job |-> job, round |-> known.rounds, conv |-> known.conv])
  BY DEF Status
<1> HIDE DEF known, asked, conv
<1>9. CASE node' = [known EXCEPT !.pc = "poll"]
  <2>1. node' \in Execution /\ node'.pc = "poll" /\ node'.job = job /\ node'.conv = conv
    BY <1>5, <1>9 DEF Execution
  <2>2. AnswersFit'
    BY <1>7, <2>1 DEF AnswersFit
  <2> QED
    BY <2>1, <2>2 DEF NodeFits, CallsFit, StreamsFit
<1>10. CASE asked > 0 /\ node' = [known EXCEPT !.pc = "tools", !.asked = asked, !.got = <<>>]
  <2> DEFINE e == [known EXCEPT !.pc = "tools"]
             f == [e EXCEPT !.asked = asked]
  <2>1. e \in Execution
    BY <1>5 DEF Execution
  <2>2. f \in Execution
    <3> HIDE DEF e
    <3> QED
      BY <1>4, <2>1 DEF Execution
  <2>3. node' \in Execution
    <3>1. node' = [f EXCEPT !.got = <<>>] /\ <<>> \in Seq(Nat \X Nat)
      BY <1>10
    <3> HIDE DEF f
    <3> QED
      BY <2>2, <3>1 DEF Execution
  <2>4. /\ node'.pc = "tools" /\ node'.asked = asked /\ node'.got = <<>>
        /\ node'.job = job /\ node'.conv = conv
    BY <1>5, <1>10 DEF Execution
  <2>5. /\ asked = remote'[job].answered + 1 /\ asked <= remote'[job].asks /\ asked > 0
    BY <1>3, <1>10 DEF asked
  <2>6. AnswersFit'
    BY <1>3, <1>7, <2>4, <2>5 DEF AnswersFit, CallsWait
  <2> QED
    BY <2>3, <2>4, <2>6 DEF NodeFits, CallsFit, StreamsFit
<1>11. CASE asked = 0 /\ node' = Send(known, [to |-> "list", job |-> job, round |-> known.rounds, conv |-> known.conv])
  <2>1. "list" \in Requests /\ known.rounds \in Nat /\ known.conv \in Nat /\ job \in Nat
    BY <1>3, <1>5 DEF Requests
  <2>2. /\ node' \in Execution /\ node'.pc = "send" /\ node'.last = 0 /\ node'.seen = {}
        /\ node'.call = [to |-> "list", job |-> job, round |-> known.rounds, conv |-> known.conv]
        /\ node'.job = known.job /\ node'.conv = known.conv
    BY <1>5, <1>11, <2>1, SendFits
  <2>3. node'.call.to = "list" /\ node'.call.job = job /\ node'.job = job /\ node'.conv = conv
    BY <1>5, <2>2
  <2>4. ~(remote'[job].answered < remote'[job].asks)
    BY <1>3, <1>11 DEF asked
  <2>5. CallsFit'
    BY <1>7, <2>2, <2>3, <2>4 DEF CallsFit, Waits
  <2> QED
    BY <2>2, <2>3, <2>5, NewCallFits DEF NodeFits, Streamed
<1> QED
  BY <1>8, <1>9, <1>10, <1>11

\* A request that was carried out and answered.
LEMMA AnswerStep ==
  ASSUME BotsAreSound, CozeInv, AnswerRequest
  PROVE  CozeInv'
<1>1. /\ node.pc = "send" /\ ~token /\ UNCHANGED <<bot, kept, token, drops, replies>>
      /\ node \in Execution /\ CallsFit
  BY DEF AnswerRequest, CozeInv, CozeTypes
<1>2. PICK job \in 1..(Len(remote) + 1) : Handle(job) /\ Receive(job)
  BY DEF AnswerRequest
<1>3. RequestHandled(job)
  BY <1>1, <1>2, HandleStep
<1>4. node.call.to \in {"chat", "workflow", "submit", "retrieve", "list", "resume"}
  BY <1>1, Sending
<1>8. ~remote'[job].refused
  BY <1>3 DEF RequestHandled
<1>5. CASE Streamed(node.call)
  <2>1. PICK from \in {0, node.last} : node' = [node EXCEPT !.pc = "read", !.src = job, !.cursor = from]
    BY <1>2, <1>5, <1>8 DEF Receive
  <2>2. NodeFits' /\ node' \in Execution
    BY <1>1, <1>3, <1>5, <2>1, OpenStep
  <2> QED
    BY <1>1, <1>3, <2>2, RequestKeeps
<1>6. CASE node.call.to = "list"
  <2>1. node' = [node EXCEPT !.pc = "back", !.got = Polled(job), !.asked = 0]
    BY <1>2, <1>6, <1>8 DEF Receive, Streamed
  <2>2. job = node.job /\ Known /\ Waits(node.job) = 0 /\ bot' = bot /\ kept' = kept
    BY <1>1, <1>3, <1>6 DEF CallsFit, RequestHandled
  <2>3. job \in Nat /\ node.job \in DOMAIN remote
    BY <2>2 DEF Known, CozeInv, CozeTypes
  <2> DEFINE got == Polled(job)
             e == [node EXCEPT !.pc = "back"]
             f == [e EXCEPT !.got = got]
  <2>4. got \in Seq(Nat \X Nat) /\ got = Whole(job)
    <3>1. <<job, 2>> \in Nat \X Nat /\ <<job, 3>> \in Nat \X Nat
      BY <2>3
    <3> DEFINE x == <<job, 2>>
               y == <<job, 3>>
    <3> HIDE DEF x, y
    <3>2. <<x, y>> \in Seq(Nat \X Nat)
      BY <3>1 DEF x, y
    <3> QED
      BY <3>2 DEF x, y, Polled, Whole
  <2>5. e \in Execution
    BY <1>1 DEF Execution
  <2>6. f \in Execution
    <3> HIDE DEF e, got
    <3> QED
      BY <2>4, <2>5 DEF Execution
  <2>7. node' \in Execution
    <3>1. node' = [f EXCEPT !.asked = 0]
      BY <2>1
    <3> HIDE DEF f
    <3> QED
      BY <2>6, <3>1 DEF Execution
  <2>8. /\ node'.pc = "back" /\ node'.got = got /\ node'.asked = 0
        /\ node'.job = node.job /\ node'.conv = node.conv
    <3> HIDE DEF got
    <3>1. node' = [node EXCEPT !.pc = "back", !.got = got, !.asked = 0]
      BY <2>1 DEF got
    <3> QED
      BY <1>1, <3>1 DEF Execution
  <2>9. Known'
    BY <1>3, <2>2, <2>8, KnownGrows DEF RequestHandled
  <2>10. ~(remote'[node.job].answered < remote'[node.job].asks)
    BY <1>3, <2>2, <2>3, WaitsGrows DEF RequestHandled
  <2>11. node'.got = Whole(node.job)
    BY <2>2, <2>4, <2>8
  <2>12. bot.kind # "workflow"
    BY <2>2 DEF Known
  <2> HIDE DEF got, e, f
  <2>13. AnswersFit'
    BY <2>2, <2>8, <2>9, <2>10, <2>11, <2>12 DEF AnswersFit, Waits, Whole
  <2>14. NodeFits'
    BY <2>8, <2>13 DEF NodeFits, CallsFit, StreamsFit
  <2> QED
    BY <1>1, <1>3, <2>7, <2>14, RequestKeeps
<1>7. CASE ~Streamed(node.call) /\ node.call.to # "list"
  <2>1. node.call.to \in {"chat", "submit", "retrieve"}
    BY <1>4, <1>7 DEF Streamed
  <2>2. Status([node EXCEPT !.job = job, !.conv = remote'[job].conv], job,
               IF remote'[job].answered < remote'[job].asks THEN remote'[job].answered + 1 ELSE 0)
    BY <1>2, <1>7, <1>8, <2>1 DEF Receive
  <2>3. NodeFits' /\ node' \in Execution
    BY <1>1, <1>3, <1>7, <2>1, <2>2, StatusStep
  <2> QED
    BY <1>1, <1>3, <2>3, RequestKeeps
<1> QED
  BY <1>5, <1>6, <1>7

-----------------------------------------------------------------------------
(* Checkpoints                                                              *)

\* With a new key nothing is remembered.
LEMMA NewKey ==
  ASSUME CozeInv, served' = served, kept'.turn \in Nat, kept'.pauses \in Nat,
         kept'.turn > kept.turn \/ (kept'.turn = kept.turn /\ kept'.pauses > kept.pauses),
         UNCHANGED <<bot, remote>>
  PROVE  MarksAreKept' /\ \A to : Own(to)' = {}
<1>1. MarksAreKept /\ kept.turn \in Nat /\ kept.pauses \in Nat
  BY DEF CozeInv, CozeTypes, Positive
<1>2. \A s \in served : s.key[1] \in Nat /\ s.key[2] \in Nat
  BY <1>1 DEF MarksAreKept
<1>3. \A s \in served : s.key[1] < kept.turn \/ (s.key[1] = kept.turn /\ s.key[2] <= kept.pauses)
  BY <1>1 DEF MarksAreKept
<1>4. \A s \in served : s.key[1] < kept'.turn \/ (s.key[1] = kept'.turn /\ s.key[2] < kept'.pauses)
  BY <1>1, <1>2, <1>3
<1>5. MarksAreKept'
  BY <1>1, <1>2, <1>4 DEF MarksAreKept
<1>6. ASSUME NEW s \in served PROVE s.key # RequestKey'
  <2>1. RequestKey'[1] = kept'.turn /\ RequestKey'[2] = kept'.pauses
    BY DEF RequestKey
  <2> QED
    BY <1>2, <1>4, <2>1
<1> QED
  BY <1>5, <1>6 DEF Own

\* A pause is answered: the node begins anew, with the decision.
LEMMA ResolveStep ==
  ASSUME BotsAreSound, CozeInv, Resolve
  PROVE  CozeInv'
<1>1. PICK d \in {"approve", "reject"} :
          kept' = [kept EXCEPT !.pauses = @ + 1, !.decision = d, !.subject = node.job]
  BY DEF Resolve
<1>2. /\ node.pc = "paused" /\ node' = Unstarted
      /\ UNCHANGED <<bot, remote, served, token, drops, replies>>
  BY DEF Resolve
<1>3. /\ kept \in [conv : Nat, turn : Positive, pauses : Nat, subject : Nat, job : Nat, asked : Nat,
                   decision : {"none", "approve", "reject"}]
      /\ node.job \in Nat /\ kept.pauses + 1 \in Nat
      /\ AnswersFit /\ WorkflowsKey /\ MarksAreKept /\ bot \in Bots
  BY DEF CozeInv, CozeTypes, Execution
<1>4. /\ kept' \in [conv : Nat, turn : Positive, pauses : Nat, subject : Nat, job : Nat, asked : Nat,
                    decision : {"none", "approve", "reject"}]
      /\ kept'.pauses = kept.pauses + 1 /\ kept'.decision = d /\ kept'.subject = node.job
      /\ kept'.turn = kept.turn /\ kept'.conv = kept.conv
      /\ kept'.job = kept.job /\ kept'.asked = kept.asked
  BY <1>1, <1>3
<1>5. MarksAreKept' /\ \A to : Own(to)' = {}
  BY <1>2, <1>3, <1>4, NewKey DEF Positive
<1>6. CozeTypes'
  BY <1>2, <1>4, UnstartedFits DEF CozeInv, CozeTypes, Job, Deduplicates
<1>7. AgentsKey'
  BY <1>5 DEF AgentsKey
<1>8. ModelsKey'
  BY <1>2, <1>3 DEF AnswersFit, ModelsKey
<1>9. WorkflowsKey'
  <2> SUFFICES ASSUME bot.kind = "workflow"
               PROVE  /\ node.job \in DOMAIN remote /\ remote[node.job].asks = 1
                      /\ remote[node.job].answered = 0
    BY <1>2, <1>4, <1>5 DEF WorkflowsKey
  <2>1. Owned("workflow", node.job) /\ remote[node.job].asks > 0
    BY <1>2, <1>3 DEF AnswersFit
  <2>2. PICK w \in Own("workflow") : w.job = node.job
    BY <2>1 DEF Owned
  <2>3. node.job \in DOMAIN remote /\ remote[node.job].answered = 0
    BY <1>3, <2>2 DEF WorkflowsKey, MarksAreKept, Own
  <2>4. remote[node.job].asks \in {0, 1}
    BY <1>3, <2>3, WaitsFit, BotFits
  <2> QED
    BY <2>1, <2>3, <2>4
<1>10. RepliesFit'
  BY <1>2, <1>4
     DEF CozeInv, CozeTypes, Deduplicates, RepliesFit, AnswerIsWhole, OutputsFit, WorkflowGoesOn, OfKind, Delivered, Waits, Whole
<1>11. NodeFits'
  BY <1>2, RestFits DEF Unstarted, NodeFits
<1> QED
  BY <1>5, <1>6, <1>7, <1>8, <1>9, <1>10, <1>11 DEF CozeInv, NodeFits

\* What the node hands to the checkpoint at the end of a turn.
LEMMA TurnEnds ==
  ASSUME BotsAreSound, CozeInv, CommitTurn
  PROVE  /\ UNCHANGED <<bot, remote, served, token, drops>> /\ node' = Unstarted
         /\ kept' = [conv |-> Conversation, turn |-> kept.turn + 1, pauses |-> 0, decision |-> "none",
                     subject |-> 0, job |-> node.job, asked |-> IF CallsRejected THEN 0 ELSE node.asked]
         /\ Conversation \in Nat /\ node.job \in Nat /\ node.asked \in Nat /\ CallsRejected \in BOOLEAN
         /\ [job |-> node.job, got |-> node.got, asked |-> node.asked, conv |-> node.conv,
             rejected |-> CallsRejected, subject |-> kept.subject] \in Reply
<1>1. node \in Execution /\ kept.conv \in Nat /\ kept.subject \in Nat
  BY DEF CozeInv, CozeTypes
<1>2. /\ node.job \in Nat /\ node.asked \in Nat /\ node.conv \in Nat /\ node.got \in Seq(Nat \X Nat)
  BY <1>1 DEF Execution
<1>3. CallsRejected \in BOOLEAN
  BY DEF CallsRejected
<1>4. [job |-> node.job, got |-> node.got, asked |-> node.asked, conv |-> node.conv,
       rejected |-> CallsRejected, subject |-> kept.subject] \in Reply
  BY <1>1, <1>2, <1>3 DEF Reply
<1>5. kept' = [conv |-> Conversation, turn |-> kept.turn + 1, pauses |-> 0, decision |-> "none",
               subject |-> 0, job |-> node.job, asked |-> IF CallsRejected THEN 0 ELSE node.asked]
  BY DEF CommitTurn, Opened, Nothing
<1>6. Conversation \in Nat
  BY <1>1, <1>2 DEF Conversation
<1> QED
  BY <1>2, <1>3, <1>4, <1>5, <1>6 DEF CommitTurn

\* The reply that is added is whole, and of the conversation the bot is in.
LEMMA ReplyFits ==
  ASSUME BotsAreSound, CozeInv, CommitTurn, NEW reply \in Reply,
         reply = [job |-> node.job, got |-> node.got, asked |-> node.asked, conv |-> node.conv,
                  rejected |-> CallsRejected, subject |-> kept.subject]
  PROVE  /\ bot.kind # "workflow" =>
              /\ reply.job \in DOMAIN remote
              /\ reply.got = Whole(reply.job) \/ (reply.asked > 0 /\ reply.got = <<>>)
         /\ bot.kind = "agent" =>
              /\ reply.conv # Nothing /\ (kept.conv # Nothing => reply.conv = kept.conv)
              /\ bot.tools /\ ~reply.rejected => reply.asked = 0 /\ Waits(reply.job) = 0
         /\ bot.kind = "workflow" =>
              /\ Len(reply.got) = 1 /\ reply.got[1][2] = 2 /\ reply.got[1][1] \in DOMAIN remote
              /\ LET job == reply.got[1][1]
                 IN  remote[job].asks > 0 => job = reply.subject /\ Waits(job) = 0
<1>1. AnswersFit /\ AgentsKey /\ node.pc = "back"
  BY DEF CozeInv, CommitTurn
<1>2. /\ reply.job = node.job /\ reply.got = node.got /\ reply.asked = node.asked
      /\ reply.conv = node.conv /\ reply.rejected = CallsRejected /\ reply.subject = kept.subject
  OBVIOUS
<1>3. ASSUME bot.kind # "workflow"
      PROVE  /\ Known /\ (node.got = Whole(node.job) \/ (node.asked > 0 /\ node.got = <<>>))
             /\ bot.kind = "agent" /\ bot.tools /\ ~CallsRejected => node.asked = 0 /\ Waits(node.job) = 0
  BY <1>1, <1>3 DEF AnswersFit
<1>4. ASSUME bot.kind = "agent"
      PROVE  node.conv # Nothing /\ (kept.conv # Nothing => node.conv = kept.conv)
  <2>1. Known
    BY <1>3, <1>4
  <2>2. node.job \in DOMAIN remote /\ node.conv = remote[node.job].conv /\ Owned("chat", node.job)
    BY <1>4, <2>1 DEF Known
  <2>3. node.conv # 0
    BY <2>2, WaitsFit DEF Positive
  <2>4. PICK c \in Own("chat") : c.job = node.job
    BY <2>2 DEF Owned
  <2> QED
    BY <1>1, <1>4, <2>2, <2>3, <2>4 DEF AgentsKey, Nothing
<1>5. ASSUME bot.kind = "workflow"
      PROVE  \E j \in DOMAIN remote : /\ node.got = <<<<j, 2>>>>
                                      /\ remote[j].asks > 0 => j = kept.subject /\ Waits(j) = 0
  BY <1>1, <1>5 DEF AnswersFit
<1>6. ASSUME bot.kind = "workflow"
      PROVE  /\ Len(node.got) = 1 /\ node.got[1][2] = 2 /\ node.got[1][1] \in DOMAIN remote
             /\ LET job == node.got[1][1]
                IN  remote[job].asks > 0 => job = kept.subject /\ Waits(job) = 0
  <2>1. PICK j \in DOMAIN remote : /\ node.got = <<<<j, 2>>>>
                                   /\ remote[j].asks > 0 => j = kept.subject /\ Waits(j) = 0
    BY <1>5, <1>6
  <2>2. Len(node.got) = 1 /\ node.got[1][2] = 2 /\ node.got[1][1] = j
    BY <2>1
  <2> QED
    BY <2>1, <2>2
<1> QED
  BY <1>2, <1>3, <1>4, <1>6 DEF Known

\* The replies with one more.
LEMMA ReplyIsAdded ==
  ASSUME BotsAreSound, CozeInv, CommitTurn
  PROVE  RepliesFit'
<1> DEFINE reply == [job |-> node.job, got |-> node.got, asked |-> node.asked, conv |-> node.conv,
                     rejected |-> CallsRejected, subject |-> kept.subject]
<1>1. /\ reply \in Reply /\ bot' = bot /\ remote' = remote
      /\ replies' = Append(replies, reply) /\ replies \in Seq(Reply) /\ RepliesFit
      /\ kept'.conv = Conversation /\ reply.rejected = CallsRejected
  BY TurnEnds DEF CommitTurn, CozeInv, RepliesFit
<1>2. /\ bot.kind # "workflow" =>
              /\ reply.job \in DOMAIN remote
              /\ reply.got = Whole(reply.job) \/ (reply.asked > 0 /\ reply.got = <<>>)
      /\ bot.kind = "agent" =>
              /\ reply.conv # Nothing /\ (kept.conv # Nothing => reply.conv = kept.conv)
              /\ bot.tools /\ ~reply.rejected => reply.asked = 0 /\ Waits(reply.job) = 0
      /\ bot.kind = "workflow" =>
              /\ Len(reply.got) = 1 /\ reply.got[1][2] = 2 /\ reply.got[1][1] \in DOMAIN remote
              /\ LET job == reply.got[1][1]
                 IN  remote[job].asks > 0 => job = reply.subject /\ Waits(job) = 0
  BY <1>1, ReplyFits
<1>3. ~CallsRejected /\ bot.kind = "agent" => Conversation = reply.conv
  BY DEF Conversation
<1>4. CallsRejected => Conversation = kept.conv
  BY DEF Conversation
<1> HIDE DEF reply
<1> DEFINE n == Len(replies) + 1
<1>5. /\ n \in Nat /\ replies' \in Seq(Reply) /\ DOMAIN replies' = DOMAIN replies \cup {n}
      /\ n \notin DOMAIN replies /\ replies'[n] = reply
      /\ \A i \in DOMAIN replies : replies'[i] = replies[i]
  BY <1>1
<1>6. \A kind, i : i \in OfKind(kind)' <=>
          i \in OfKind(kind) \/ (i = n /\ bot.kind = kind /\ ~CallsRejected)
  BY <1>1, <1>5 DEF OfKind, Delivered
<1>7. \A kind : OfKind(kind) \subseteq DOMAIN replies
  BY DEF OfKind, Delivered
<1> HIDE DEF n
<1>8. AnswerIsWhole'
  <2>1. \A i \in OfKind("agent") \cup OfKind("model") :
            \/ replies[i].got = Whole(replies[i].job)
            \/ replies[i].asked > 0 /\ replies[i].got = <<>>
    BY <1>1 DEF RepliesFit, AnswerIsWhole, CozeInv, CozeTypes
  <2>2. ASSUME NEW i \in OfKind("agent")' \cup OfKind("model")'
        PROVE  \/ replies'[i].got = Whole(replies'[i].job)
               \/ replies'[i].asked > 0 /\ replies'[i].got = <<>>
    <3>1. CASE i \in OfKind("agent") \cup OfKind("model")
      BY <1>5, <1>7, <2>1, <3>1
    <3>2. CASE i = n /\ bot.kind # "workflow"
      BY <1>2, <1>5, <3>2
    <3> QED
      BY <1>6, <2>2, <3>1, <3>2
  <2> QED
    BY <2>2 DEF AnswerIsWhole, Whole
<1>9. OutputsFit'
  <2>1. /\ \A j \in DOMAIN remote : ~remote[j].refused
        /\ bot.tools => \A i \in OfKind("agent") : replies[i].asked = 0 /\ Waits(replies[i].job) = 0
    BY <1>1 DEF RepliesFit, OutputsFit, CozeInv, CozeTypes, Deduplicates
  <2>2. ASSUME bot.tools, NEW i \in OfKind("agent")'
        PROVE  replies'[i].asked = 0 /\ Waits(replies'[i].job) = 0
    <3>1. CASE i \in OfKind("agent")
      BY <1>5, <1>7, <2>1, <2>2, <3>1
    <3>2. CASE i = n /\ bot.kind = "agent" /\ ~CallsRejected
      BY <1>1, <1>2, <1>5, <2>2, <3>2
    <3> QED
      BY <1>6, <2>2, <3>1, <3>2
  <2> QED
    BY <1>1, <2>1, <2>2 DEF OutputsFit, Waits
<1>10. WorkflowGoesOn' /\ \A i \in OfKind("workflow")' : replies'[i].got[1][1] \in DOMAIN remote
  <2>1. \A i \in OfKind("workflow") :
          LET job == replies[i].got[1][1]
          IN  /\ Len(replies[i].got) = 1 /\ replies[i].got[1][2] = 2 /\ job \in DOMAIN remote
              /\ remote[job].asks > 0 => job = replies[i].subject /\ Waits(job) = 0
    BY <1>1 DEF RepliesFit, WorkflowGoesOn
  <2>2. ASSUME NEW i \in OfKind("workflow")'
        PROVE  LET job == replies'[i].got[1][1]
               IN  /\ Len(replies'[i].got) = 1 /\ replies'[i].got[1][2] = 2 /\ job \in DOMAIN remote
                   /\ remote[job].asks > 0 => job = replies'[i].subject /\ Waits(job) = 0
    <3>1. CASE i \in OfKind("workflow")
      BY <1>5, <1>7, <2>1, <3>1
    <3>2. CASE i = n /\ bot.kind = "workflow"
      BY <1>2, <1>5, <3>2
    <3> QED
      BY <1>6, <2>2, <3>1, <3>2
  <2> QED
    BY <1>1, <2>2 DEF WorkflowGoesOn, Waits
<1>11. ASSUME NEW i \in OfKind("agent")'
       PROVE  /\ replies'[i].job \in DOMAIN remote
              /\ Conversation # Nothing /\ replies'[i].conv = Conversation
  <2>1. \A k \in OfKind("agent") :
            /\ replies[k].job \in DOMAIN remote
            /\ kept.conv # Nothing /\ replies[k].conv = kept.conv
    BY <1>1 DEF RepliesFit
  <2>2. bot.kind = "agent"
    BY <1>1 DEF OfKind
  <2>3. CASE i \in OfKind("agent")
    BY <1>2, <1>3, <1>4, <1>5, <1>7, <2>1, <2>2, <2>3 DEF CallsRejected
  <2>4. CASE i = n /\ ~CallsRejected
    BY <1>2, <1>3, <1>5, <2>2, <2>4
  <2> QED
    BY <1>6, <2>3, <2>4
<1> QED
  BY <1>1, <1>5, <1>8, <1>9, <1>10, <1>11 DEF RepliesFit

\* The end of a turn is checkpointed: the next one has a key of its own.
LEMMA CommitStep ==
  ASSUME BotsAreSound, CozeInv, CommitTurn
  PROVE  CozeInv'
<1> DEFINE conv == Conversation
           asked == IF CallsRejected THEN 0 ELSE node.asked
<1>1. /\ UNCHANGED <<bot, remote, served, token, drops>> /\ node' = Unstarted
      /\ conv \in Nat /\ node.job \in Nat /\ asked \in Nat
      /\ kept' = [conv |-> conv, turn |-> kept.turn + 1, pauses |-> 0, decision |-> "none",
                  subject |-> 0, job |-> node.job, asked |-> asked]
  BY TurnEnds
<1>2. /\ kept.turn \in Positive /\ kept.turn \in Nat /\ AnswersFit /\ node.pc = "back"
  BY DEF CozeInv, CozeTypes, Positive, CommitTurn
<1>3. asked > 0 => asked = node.asked
  BY <1>1
<1> HIDE DEF conv, asked
<1>4. /\ kept' \in [conv : Nat, turn : Positive, pauses : Nat, subject : Nat, job : Nat, asked : Nat,
                    decision : {"none", "approve", "reject"}]
      /\ kept'.turn = kept.turn + 1 /\ kept'.pauses = 0 /\ kept'.decision = "none"
      /\ kept'.job = node.job /\ kept'.asked = asked
  BY <1>1, <1>2 DEF Positive
<1>5. MarksAreKept' /\ \A to : Own(to)' = {}
  BY <1>1, <1>2, <1>4, NewKey
<1>6. CozeTypes'
  BY <1>1, <1>4, UnstartedFits DEF CozeInv, CozeTypes, Job, Deduplicates
<1>7. AgentsKey'
  BY <1>5 DEF AgentsKey
<1>8. ModelsKey'
  <2> SUFFICES ASSUME bot.kind = "model", asked > 0
               PROVE  /\ node.job \in DOMAIN remote /\ asked <= remote[node.job].asks
                      /\ asked = remote[node.job].answered + 1
    BY <1>1, <1>4, <1>5 DEF ModelsKey
  <2> QED
    BY <1>2, <1>3 DEF AnswersFit, CallsWait, Known
<1>9. WorkflowsKey'
  BY <1>4, <1>5 DEF WorkflowsKey
<1>10. NodeFits'
  BY <1>1, RestFits DEF Unstarted, NodeFits
<1> QED
  BY <1>5, <1>6, <1>7, <1>8, <1>9, <1>10, ReplyIsAdded DEF CozeInv, NodeFits

\* A node that is executed anew under the same key may do what it did.
LEMMA AgainStep ==
  ASSUME CozeInv, Again
  PROVE  NodeFits' /\ node' \in Execution
<1>1. node' = Unstarted
  BY DEF Again
<1> QED
  BY <1>1, UnstartedFits, RestFits DEF Unstarted, NodeFits

\* Nothing happens.
LEMMA TurnOverStep ==
  ASSUME CozeInv, UNCHANGED cozeVars
  PROVE  CozeInv'
<1>1. UNCHANGED <<bot, remote, served, node, kept, token, drops, replies>>
  BY DEF cozeVars
<1>2. (CozeTypes /\ MarksAreKept /\ AgentsKey /\ ModelsKey /\ WorkflowsKey /\ RepliesFit)'
  BY <1>1, QuietStep DEF CozeInv, CozeTypes
<1>3. CallsFit'
  BY <1>1 DEF CozeInv, CallsFit, Known, Owned, Own, RequestKey, Waits
<1>4. StreamsFit'
  BY <1>1 DEF CozeInv, StreamsFit, Heard, Known, Owned, Own, RequestKey, Streamed, Length, Whole
<1>5. AnswersFit'
  BY <1>1 DEF CozeInv, AnswersFit, CallsWait, Known, Owned, Own, RequestKey, Waits, Whole, CallsRejected
<1> QED
  BY <1>2, <1>3, <1>4, <1>5 DEF CozeInv

\* Whatever is lost, what Coze has done, what its key remembers and where the node is fit
\* together, at a Coze that honours the key and numbers its events.
THEOREM CozeInvariance ==
  ASSUME BotsAreSound
  PROVE  Deduplicates /\ CozeSpec => []CozeInv
<1>1. CozeInit /\ Deduplicates => CozeInv
  BY CozeStart
<1>2. ASSUME CozeInv, [CozeNext]_cozeVars PROVE CozeInv'
  <2> DEFINE quiet == \/ Begin \/ HandIn \/ Raise \/ Poll \/ CancelTurn \/ Event \/ Break
                      \/ EndOfStream \/ ModelReply \/ Ask \/ Decide \/ Again
  <2>1. CASE quiet
    <3>1. NodeFits' /\ node' \in Execution
      BY <1>2, <2>1, BeginStep, HandInStep, RaiseStep, PollStep, CancelStep, EventStep, BreakStep,
         EndStep, AskStep, DecideStep, AgainStep
    <3>2. UNCHANGED <<bot, remote, served, kept, replies>>
      BY <2>1 DEF Begin, HandIn, Raise, Poll, CancelTurn, Event, Break, EndOfStream, ModelReply,
                  Ask, Decide, Again
    <3> QED
      BY <1>2, <3>1, <3>2, QuietStep DEF CozeInv, NodeFits
  <2>2. CASE AnswerRequest
    BY <1>2, <2>2, AnswerStep
  <2>3. CASE Drop
    BY <1>2, <2>3, DropStep
  <2>4. CASE Resolve
    BY <1>2, <2>4, ResolveStep
  <2>5. CASE CommitTurn
    BY <1>2, <2>5, CommitStep
  <2>6. CASE TurnOver \/ UNCHANGED cozeVars
    BY <1>2, <2>6, TurnOverStep DEF TurnOver
  <2> QED
    BY <1>2, <2>1, <2>2, <2>3, <2>4, <2>5, <2>6 DEF CozeNext
<1> QED
  BY <1>1, <1>2, PTL DEF CozeSpec

\* Turns survive lost replies, broken streams, crashes and pauses (TurnsAreWhole), for any
\* number of turns, calls and losses, at a Coze that honours the key and numbers its events.
THEOREM TurnsWhole ==
  ASSUME BotsAreSound
  PROVE  Deduplicates /\ CozeSpec => []TurnsAreWhole
<1>1. CozeInv => TurnsAreWhole
  <2> SUFFICES ASSUME CozeInv PROVE TurnsAreWhole
    OBVIOUS
  <2>1. AnswerIsWhole /\ OutputsFit /\ WorkflowGoesOn
    BY DEF CozeInv, RepliesFit
  <2>2. OneConversation
    BY DEF CozeInv, RepliesFit, OneConversation
  <2> QED
    BY <2>1, <2>2 DEF TurnsAreWhole
<1> QED
  BY <1>1, CozeInvariance, PTL

=============================================================================
