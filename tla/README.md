# Verification of LingxiGraph

TLA+ models of LingxiGraph, their TLC instances, and TLAPS proofs. Paths are
relative to the repository; `server/...`, `graph/...` stand for
`src/lingxigraph/server/...`, `src/lingxigraph/graph/...`.

## The system

LingxiGraph runs user-defined graphs. Embedded, a graph is a library object that
executes supersteps over a checkpointer; behind the **Agent Server** it is executed by
workers that take *runs* from a durable queue.

| component | state | operations | hard because | module |
|---|---|---|---|---|
| Run queue (`server/repository.py`) | per run: status, lease, attempt, steering gate, successor | create, resume, claim (which recovers leases), heartbeat, fenced finish / retry / finalize, cancel, redrive | workers stall and die between two operations | `RunQueue`, `RunContract` |
| PostgreSQL runs table | rows, locks, unique indexes | the same, statement by statement | rows are locked, skipped and re-read while others commit | `PgRuns` |
| Worker (`server/worker.py`) | the delivery in hand, its token, its intent, the drain flag | claim, execute, heartbeat, close gate, flush, write outcome | a delivery is a chain of awaits beside a heartbeat task | `RunQueue`, `Steering` |
| Steering (`server/repository.py`, `steering.py`) | inbox rows, lifecycle events, the channel of a delivery | submit, list, ingest, drain, commit, transfer, supersede | three parties read, drain and commit; commits fail, repeat and arrive late | `Steering` |
| Event log and stream (`server/app.py`, `eventbus.py`) | events per run, streams, waiters | append, publish, list, follow | zombies append, wakes are missed, connections break | `EventStream` |
| Executor (`graph/executor.py`, `runtime.py`) | plan, pending writes, checkpoints, token | supersteps, pauses, redelivery, three durability modes | crash between any two steps; results and keys outlive the memory they came from | `Superstep`, `SuperstepContract` |
| Subgraphs | the child's checkpoints in a namespace | activate, pause, return | the parent's checkpoint and the child's are two | `Subgraph` |
| Node calls, node cache (`cache.py`, `cache_redis.py`) | attempts, semaphore, cached results | retry, time out, cancel, hit, store | tasks share slots; a thread cannot be stopped | `NodeCalls` |
| Channels (`channels.py`) | the values of a state | merge | the order of concurrent updates | `Channels`, `ChannelHistory` |
| Checkpoint savers (`checkpoint/`) | checkpoints and pending writes of a thread | put, put_writes, get, list, delete | statements of two connections interleave | `Savers`, `CheckpointStore` |
| One thread between runs, forks and its deletion | checkpoints of the thread | claim, step, fork, delete | nobody looks at the lease when a checkpoint is put | `ThreadState` |
| Prebuilt agent (`prebuilt.py`, `tools.py`) | messages, budgets, side effects | model, approval, tools, structured output | batches, budgets, edits and crashes meet in one message | `AgentLoop`, `ToolBlocks` |
| Cache-first context (`cache_first/`) | the request derived from the messages | repair, bound, compact | results out of order, a window that is full | `ModelHistory`, `ToolBlocks` |
| Coze (`integrations/coze.py`) | chats at a remote service | chat, stream, poll, submit, resume, cancel | lost replies, reopened streams, nodes executed anew | `CozeNodes` |
| Multi-agent patterns (`patterns/multi_agent.py`) | active agent, turn | route, hand off, report back | both keys outlive the input and the failure they stem from | `Teams` |
| HTTP API (`server/app.py`) | connection counters | run control, steering, stream | a request is several repository calls | the clients of the models above |
| Builder, schema, skills, store, SDK, CLI, adapters, studio, site | - | validation, conversion, I/O | - | not modelled |

Clients call the API; the API and the workers share the repository, which is the only
place where they meet. A worker owns one delivery at a time; within it the executor runs
the graph and the heartbeat task renews the lease, reads the cancel flag and moves
steering between inbox and channel. The executor calls nodes (plain functions, agents,
Coze nodes, child graphs), merges their updates into channels and puts checkpoints and
pending writes. The event bus carries wakes, never facts.

The modules meet where the code does: `Steering` extends `RunQueue`; `RunQueue` and
`PgRuns` both implement `RunContract`; `Superstep` implements `SuperstepContract`;
`Savers` implements `CheckpointStore`, which `Superstep`, `Subgraph` and `ThreadState`
assume of their checkpointer; `Subgraph` and `ChannelHistory` extend `Channels`;
`AgentLoop` and `ModelHistory` extend `ToolBlocks`. What a layer leaves to the one
below is an action of that kind: a delivery of `RunQueue` ends in any of `Outcomes`, a
task of `Superstep` succeeds, raises or asks.

## Modules

### RunQueue

Every operation of `InMemoryRepository` holds one `asyncio.Lock`, and its
PostgreSQL counterpart is one transaction that locks the row, so each is one
action. `ClaimRun` includes the recovery of *all* expired leases, as `claim_run`
does before it looks for work; `SweepOnly` is the same call finding nothing.
Time is reduced to three states of a lease: none, live, expired.

A delivery (`Worker._execute`) goes through the phases of `pc`:

    idle -> executing -> closing -> flushing -> committing -> idle
                  \______________/      \-> bailing --------/

`GraphEnds` computes the intent: any outcome of `Outcomes`, `cancelled` only if
the token is tripped, `retry` or `dead_letter` by the attempts left. Terminal
intents pass through `CloseSteering`. The write at the end is one of
`FinalizeRun`, `PauseRun`, `RetryRun`, `DeadLetter`, each behind the fence `Owns`
(owner, attempt, active), or `Abandon` when the fence fails. In each of them a
cancel request that arrived in the meantime wins (`CancelWins`).

`StalledLapses` lets the lease of a live worker pass (stalled loop, partition, dead
heartbeat task); the worker goes on, which is how zombies arise. `Crash` stops a
worker for good: a restarted process is another worker, because a worker's name is
`host:uuid4`. `asked` is a history variable, the set of runs with an accepted
cancel request; `tripped` is one, the workers whose own graph tripped the token of their delivery
(`TripToken`, with the parameter `TokenTrips`).

Mapping of state: `status`, `thread`, `owner`, `lease`, `attempt`, `closed`,
`successor`, `origin` are the columns `status`, `thread_id`, `lease_owner`,
`lease_expires_at`, `attempt`, `steering_closed`, `superseded_by_run_id` and
`metadata.resumed_from_run_id`. `held` and `heldAttempt` are the worker's copy of
the run it claimed.

### Steering

Each action is a conjunction of an action of `RunQueue`, or of none, with what
the same code does to inbox, events and channel. The heartbeat is the
variable `beat`: read the inbox (`ReadInbox`), fill the channel and peek at the
consumption log (`Ingest`), commit (`CommitBatch`), renew (`Renew`). The graph
drains between any two of these (`DrainSteering`). `late` is a commit whose
caller was cancelled: `asyncio.to_thread` does not stop the thread, so it may
land at any later time. `CommitFails` is a call that raises, whether or not it
wrote. A row carries the submission it stems from (`source`), so that the
transfer on resume can be followed.

A finer view of time than the code's is not needed: draining a channel, ingesting
rows and peeking at the log hold the lock of `SteeringChannel`.

### EventStream

One run, seen from its log. The state of the run is reduced to what decides who may
append and when a stream closes; deliveries are numbered by claim (`owner` is
the fence, justified by `LostLeaseStaysLost`), and one that lost its lease stays in
`alive`. An append is `Begin` (row lock, checks, `MAX(sequence) + 1`), `Commit`
(insert) and `Publish`; ordinary events are not fenced, `retry` and `finish` are.
`generate()` of `stream_run` is `Connect`, `ListEvents`, `SendEvent` per event,
then `CloseWhenOver` or `StartWaiting`, with `TimesOut` or a `Publish` to wake it.
`Publish` covers both buses: heard by those who wait, remembered, or lost. The
client is modelled from the documentation (reconnect with the last id received).
`Disconnect`, `RestartApi`, `ConnectInVain` and `Crash` are the faults. In
memory an append is one step; the model's finer one covers it. The steering events
that a heartbeat's commit or a resume logs are fenced or gated appends like
`retry` and `accept` and have no transaction of their own here.

### PgRuns

The transactions of `PostgresRepository` on `runs` and `run_steering_events`, under READ
COMMITTED. A session is a worker or an API request; its transaction is a record with
the rows it has found (`todo`), the rows it has locked (`locks`) and what it will write.
A statement selects among the committed rows when it starts, locks them one at a time
(`LockOne`, `SweepOne`), and looks again at the version it got. No UPDATE says in which order, so
a sweep takes its rows in any. `Deadlock` is PostgreSQL's answer to sessions that wait for each
other (`WaitsFor`, `InCircle`): one of them is rolled back. `Pick` is FOR UPDATE SKIP
LOCKED. `TakeKey` and `LockThread` are the advisory locks, `Enter` and `Raise` the unique
index on the active run of a thread: an entry that is committed raises, one that is open
makes the claim wait. A `UniqueViolation` or a deadlock leaves `run_forever` (`up`). Nothing of a
transaction is visible before its commit; `Fail` is a broken connection, which a worker may survive or be replaced after.
The model shows that the single steps of `RunQueue` are what clients see. Events are left
out; `EventStream` has their transactions.

### Superstep

`_run` and what it calls, on one thread: restore the head, merge the input or route the
answer (`Start`), plan (`Plan`), execute tasks in any order (`TaskReturns`, `TaskRaises`,
`TaskInterrupts`), wait for all (`Gather`), store pending writes and pause, fail, or merge in plan
order, publish, route and save (`Merge`, `RouteAndSave`). SYNC saves in the step, ASYNC
through a writer task that lags behind (`WriterStep`, `Close`), EXIT at the end. `Crash`
drops all that is in memory at any of these points; the run is delivered again while
it has attempts. `Fork` stands for `update_state` and `fork`. The state is a log of task
results: enough to tell in which order, how often and from which state each was computed.
`setup` is the graph: static edges, fan-ins of all or any, conditional routes, `Send`s, gotos,
interrupts, deferred nodes. The server's queue is reduced to attempts; exclusion of
executions is `OneActivePerThread`.

### Subgraph

A parent with a plain node beside a node that is a graph of two nodes. The child's
checkpoints live under `Activation`, the namespace of task and step. `SiblingFirst` is the
other order of the two.

### NodeCalls

`_run_task`, `_execute_task`, `_attempt` and `_call` for the tasks of a superstep: semaphore, cache
lookup, attempts with their delays, timeout, cancellation, cache write. A body is a
coroutine that ends with its call, or a thread (`Threads`) that goes on. Time is
steps: a delay that ends, a timeout that fires, an entry that expires; jitter is left out.

### Channels, ChannelHistory

`merge_updates` and the four channels as operators on sequences of writes. `ChannelHistory`
writes them in every way and keeps the writes; each value is defined a second time from
that history, and the two must agree.

### Savers, CheckpointStore, ThreadState

`CheckpointStore` is what the documents promise of a checkpointer, `Savers` the three
implementations: the in-memory one atomic, SQLite one transaction at a time, PostgreSQL a
transaction per call, in which a row takes its `seq` when it is inserted and is seen when it
commits. The refinement maps rows in order of `seq` to the history (`Ordered`, by
`InOrder` of `Ordering`, which the other inboxes and logs are read with too). Two connections that
write *one* namespace at once are left out of the instances (the executor of a thread
is one): see the disagreements.

`ThreadState` puts runs, redelivered runs, stalled executions, forks and the deletion of the
thread on one list of checkpoints. A state is the path of steps and forks that led to it. Any
pending run may be claimed (`Claim`), as `SKIP LOCKED` allows; an execution succeeds (`Finish`), is
retried, fails or is cancelled (`Break`), or loses its lease (`Lapse`); a failed run may be redriven.
All but the first leave planned nodes, and results saved for them, at the head, and whoever is
claimed next goes on with them.

### AgentLoop, ToolBlocks, ModelHistory

`AgentLoop` is the graph of `create_agent`: model, approval, tools, structured output. A reply
is a sequence of tool names; a call is named by message and position. `ToolNode` runs read-only calls
in batches and the others alone (`Group`); `ExecutionBudget` is per delivery. `effects` is the
service behind the tools, which drops a key it has seen. A plain function runs in a thread, which
its timeout does not stop: the call is answered (`TimeOut`) and the thread goes on beside whatever
comes next (`outlived`, `EndOutlived`). An answer that is no decision raises (`Misanswer`).
Edits that leave out an id or give it twice are left out. `ModelHistory` is the pure part:
from a conversation of any shape to the request, with sizes in tokens, by `Repair`,
`Hygiene` and `Compact`. `ToolBlocks` is shared: what a block is and how it is repaired.

### CozeNodes

The three nodes, the client and the remote service (external: modelled by the requests
`src/` sends). A request is carried out or not and its reply arrives or not (`AnswerRequest`, `Drop`);
the service may honour `X-Idempotency-Key` per endpoint (`keyed`) or not, may give its events
ids (`ids`) or not, and after `Last-Event-ID` sends the
rest or the whole stream again. `Deduplicates` says that it does both, which is what the code relies on
and cannot enforce: a client drops repeated events by their id only, and every request of an execution
carries one key, the outputs of a second round that of the first. A node
that pauses or crashes is executed anew (`Resolve`, `Again`) while its first chat lives on.
The key changes with a pause, because the base checkpoint does. An event is about the chat or a
message of it; the model keeps the chat, which the last event names. Files, the listing of
conversations and `astream()` are left out, and so is a stream that ends early without an error.

### Teams

Who speaks next in the seven topologies of `patterns/multi_agent.py`, over inputs that set the
keys `active_agent` and `turn` anew or not, failing nodes and the recursion limit. An input after a
failure goes on with the node that was planned, whatever keys it sets (`began`: anew, on, or astray
from the agent it names).
What agents say is left out; a manager with agents as tools is one node and needs no model.

### Instances

| module | holds |
|---|---|
| `MCRunQueue`, `MCSteering` | two scopes each, as a constraint over one state space |
| `MCEventStream`, `MCSuperstep`, `MCPgRuns` | setups: records that a behaviour picks from and keeps |
| `MCNodes` | `NodeCalls`, `Subgraph`, `CozeNodes`, `Teams`: what a node may be |
| `MCAgents` | `AgentLoop`, `ModelHistory`, `ChannelHistory`, `Savers`, `ThreadState`: an agent and what keeps its state |

The last two are sums: `part` says which of the modules moves, the others rest in one initial
state. They are not compositions; each part is checked as it would be alone. Each property
speaks of one part, and holds of a resting one at once; a liveness property of one part is
stated for that part.

## Runs

| run | instance | shows |
|---|---|---|
| `RunQueueSafety` | 2 workers (1 mortal), tokens that trip: 2 runs of one thread with 2 attempts, 1 lapse, 1 redrive; 3 runs of any thread | gates, no cancel without a reason, one active run per thread, one continuation, lost leases stay lost, refinement of `RunContract` |
| `RunQueueLiveness` | 2 runs, 1 of 2 workers mortal, 1 lapse, tokens that trip | cancels take effect, queued runs are served |
| `SteeringSafety` | 2 keys and rows; one run with 2 workers, a lapse, a fault and a redrive; a chain of two runs | inboxes are settled, graph and inbox agree, rows are told of once and disposed of once |
| `SteeringLiveness` | 1 run, 1 of 2 workers mortal, 1 row, 1 lapse, 1 fault | every accepted row is settled or parked |
| `EventStream` | 2 deliveries, 3 events, 1 client; 2 clients for 1 slot | numbering, order, prefixes, quota, delivery and closing |
| `PgRuns` | 2 workers and 1 request at a time; 1 worker and 2 requests; two strategies with a broken connection; the runs that two crashed workers left on two threads, swept by two others | isolation, refinement of `RunContract`, who may wait in a circle, every transaction ends |
| `Superstep` | a fan-in with a deferred node that asks; the same under EXIT; a loop with `Send`s and static interrupts under ASYNC; a chain of questions on an edited thread; 2 or 3 faults | refinement of `SuperstepContract`, fan-ins, stored results, keys, durability, termination |
| `Nodes` | 3 tasks of 2 nodes over 2 supersteps; a loop of child graphs with 2 inputs and 2 crashes; 14 nodes at Coze with up to 2 losses, with and without keys and event ids; 7 topologies with up to 3 inputs | attempts, cancels, children, turns |
| `Agents` | 3 agents with a crash, two of them with a tool that outlives its timeout; every conversation of 4 messages; every 2 supersteps of updates; 3 savers; 3 threads with runs that fail, are cancelled and redriven | calls, requests, channels, savers, histories |
| `SuperstepAnswers` | 2 questions, a redelivered resume | violated: finding 1 |
| `PgRunsOrder` | 1 worker, 2 runs, 1 request that steers | violated: finding 2 |
| `NodesCancel` | the parts of `Nodes` | violated: finding 3 |

Bounds. Two runs of one thread are the smallest number for which claim, sweep and
multitask strategies interact; three let a resumed run meet another run of its
thread. Two workers give a zombie and its successor, and one lapse makes one zombie; by
`LostLeaseStaysLost` further ones cannot write. The sweeps of `PgRuns` have two lapsed leases, the
fewest that two of them can take in opposite orders. Two attempts distinguish a retry from the last
attempt. With two rows the batch that fails can differ from what has been drained since. Three
events let a stream be behind, abreast and between two of two writers. In `Superstep` two faults are
needed for a crash during recovery, and three where a pause lies between; the recursion limit
of 4 supersteps covers two rounds of the loop. Three read-only calls are more
than a batch; four messages hold a request, a block of two calls and a result that is out of
place. Two losses at Coze are one more than `max_retries`, so that calls fail for good as well. One recent
tool result is kept whole, and the cache answers (`CacheHangs` is FALSE): with none kept, or none
coming, the code does what the disagreements say.
`StepLimit` of 4 to 6 ends a swarm in the middle of a hand-off.
`Mortal` separates workers that crash or drain from those that do not, so that liveness has
somebody left to serve the queue. `Outcomes` is reduced to the classes the code tells apart.
Names starting with `Max`, the fields of setups and `Scope` are bounds of the instances, except
`MaxActive`, `MaxQueued`, `MaxDelivery`, `MaxSse`, `MaxAttempts`, `MaxInterval`, `MaxRetries`,
`MaxOutput`, `MaxResult` and the budgets of the agents, which are parameters of the code. Deadlock is checked in
`Superstep` and `Nodes`, whose ends are steps of their own (`Quiescent`, `Done`, `Over`, `Quiet`);
elsewhere `CHECK_DEADLOCK FALSE`, because the system rests when no client asks for anything.

Fairness. `Progress(w)` is what a live worker does on its own account: `run_forever` loops
over `claim_run`, and a delivery only awaits calls that return, graphs that end and a
flush that is tried again. This assumes what the code leaves to the user, that nodes end (a
timeout is optional). Only dead workers' leases are sure to expire (`OrphanLapses`). In
`EventStream` only the steps of a stream are fair: the replica runs its coroutines, the 15 s timer
goes off, a client that was cut off connects again (the SDK leaves that to its caller,
`sdk.py:202-220`, and so it is an assumption about clients). In `Superstep` a delivery that was started
goes on, and a pending run is delivered. In `NodeCalls` the event loop runs what is ready,
delays end and timeouts fire; bodies need not end. In `AgentLoop` a call ends or its timeout fires;
the human may never answer, and a thread that outlived its timeout need not end.
In `PgRuns` each session is strongly fair, the detection of a deadlock included: PostgreSQL queues
waiters of a lock first come first served, so one that waits is not passed over for ever, and looks
for circles after `deadlock_timeout`. Nothing else is assumed of clients, nor of crashes,
drains of the channel, heartbeats or the lapse of a live worker's lease.

## Properties

Each is explained where it is defined, and broken by at least one change of the code that
`PROJECT.json` lists. The ones that took several actors to break when we tried:

* `LostLeaseStaysLost`: redrive resets `attempt`, so the fence (owner, attempt) of a zombie
  could match again. It never does: a worker delivers one run at a time, and while it holds a
  run nobody else's claim can name it as owner.
* `GateOpenWhileDeliverable`: the gate is reset by lease recovery, retry and redrive but not by an
  ordinary claim. `docs/.../steering-operations.mdx` says every fresh claim resets it; the
  invariant shows that the two are the same.
* `CancelledForAReason`: a run ends cancelled when somebody asked or its own graph tripped the token
  (`graph/executor.py:1336`); a cancel that was requested, or a token tripped, in one delivery does not
  pass to another run of the same worker, and no sweep cancels a run that was not being cancelled.
* `CancelTakesEffect`: holds although the heartbeat may die, because an expired `cancelling`
  lease is swept straight to `cancelled`.
* `InboxIsSettled`: rows accepted after the last drain, and before the gate closes, are superseded
  in the very write that ends the run; a submission moved by a resume has one live row.
* `ToldOnce`, `DispositionIsFinal`: commits may be repeated, fail after writing or land
  late, and still each row has one disposition and one event about it. What rests on the fence is
  claimed until a run is redriven (`Unrepeated`), since a redrive makes the number of an attempt come
  again. `DispositionIsFinal` goes on: after a redrive too, nothing changes a disposition but a late
  commit of the same worker (`ConsumedLate`), which is listed below.
* `StreamsDeliver`: rests on the timeout of the wait and on reconnecting. A stream lists
  first and looks at the status afterwards, so it may close before it has sent the last events
  of a run; a client that takes the end of the stream for the end of the log misses them.
* `IsolationHolds`, `KeepsContract`: rows are re-read after every wait, so that
  overlapping transactions behave as if they came one after another.
* `TransactionsEnd`: no statement says ORDER BY where it updates several rows, so two workers that
  sweep the leases of several threads can wait for each other. Only they can (`OnlySweepsMeet`): all
  other transactions lock one row, or the rows of one thread behind its advisory lock. The database
  breaks the circle, so whoever asked has an end.
* `ImplementsContract` (Superstep): whatever crashes, the saved states of a thread are those of
  atomic supersteps that run every planned task once.
* `ResultsAndKeysFit`: stored results and idempotency keys stand for one activation of a
  task; the exceptions (EXIT, a second input, and for the last conjunct ASYNC, forks and a pause
  between the two executions) are conditions of its conjuncts and are listed below.
* `EveryCallIsServed`: a tool node that is repeated after a crash in the middle of a batch
  repeats no effect, given a service that honours the keys, threads that end late included. Every call
  has its answer when the model is asked again, but for those beside a rejected one.
* `CallsRunAsAllowed`: a call that writes has the run to itself but for threads that outlived their
  timeout, and is itself the only thing that runs beside them.
* `RoundsCountOnce` counts what a child and its sibling add per superstep, in rounds without a crash;
  after one the child's result is folded in again (see below).
* `TurnsAreWhole`: a bot's answer is in the thread once, in order and from one chat, whatever
  was lost, at a Coze that deduplicates, or as long as nothing is lost; a workflow goes on from the
  question that was answered, although the node has started another execution on the way.
* `TurnsAreTaken`: over several inputs and failures, a swarm answers with the agent it was handed to,
  unless an input after a failure names another one than the planned node.
* `HistoryIsSerial`: whichever runs are claimed out of order, fail, are cancelled, retried or redriven,
  the checkpoints stay one line, no saved task is done again, and whoever executes has the last
  step of every run that succeeded. What it does not say, because it is not so: that the steps of a
  run are together (`RunsDoNotMix`), or that a run begins with its own first step (`RunsStartAnew`).
* `LoopEnds`: for an agent whose human never answers it says no more than that the loop gets to the
  question or ends.

Cancelled runs may keep pending rows: when a pause or retry is coerced to `cancelled`, or an
expired `cancelling` lease is swept, nothing disposes of them. The documentation
concedes pending steering on cancelled runs, so `InboxIsSettled` and `AcceptedIsSettled` leave
them out.

## Findings

1. `AnswerReachesItsQuestion` (`graph/executor.py:1816`). A resume value that names no pending
   interrupt goes to the first pending one. A resume that is redelivered after the node it
   answered completed and another one paused answers a question nobody was asked.
2. `StartsInOrder` (`server/repository.py:3451`). A claim skips locked rows: while `/steer`, a cancel
   or a late event holds the oldest pending run of a thread, a newer run of that thread
   starts, whereas `enqueue` promises the order of creation.
3. `CancelReachesCoze` (`integrations/coze.py:130`). `docs/integrations-coze.md:68` says that a
   cancelled run cancels its chat. The request for it raises in `_headers`, because the run
   is cancelled, and is never sent.

## Other disagreements of code and documents

Each of these was met while modelling. The properties in question are stated with the
condition under which they hold, and the unconditional statement is kept, where it is one, as a
definition at the end of the module. They are not checked by a run of their own. Rows that no document
speaks of are what a reader of the code might expect otherwise.

| where | what | definition |
|---|---|---|
| `server/repository.py:2888` | A commit of steering rows whose caller was cancelled may land after a redrive has reset `attempt` and the same worker has claimed the run again: owner and attempt match, and the fence lets a delivery write that lost its lease long ago, although "a worker that has already lost its lease can never observe a stale 'still owned' result" (lines 2908-2910). A row that was superseded at the end of the failed delivery becomes consumed. | `DispositionIsFinal` without `ConsumedLate` |
| `graph/executor.py:1336`, `1344` | A failing or late superstep of a child trips the token of the whole run, which ends `cancelled` although nobody asked. | `CancelledForAReason` without `tripped` |
| `server/repository.py:3404` | Two workers sweep the expired leases of several threads in one UPDATE each, without an order: they may lock each other's rows, and the one PostgreSQL rolls back leaves `run_forever`. No document speaks of it. | `NeverDeadlocks` |
| `server/repository.py:238` | `max_active_runs` is looked at when runs are created, not when they are claimed (`docs/security.md:63`). | `ActiveWithinQuota` |
| `server/repository.py:316` | Lease recovery has no regard to `max_delivery_attempts` (`docs/architecture.md:117`). | `DeliveryBudget` |
| `server/app.py:709` | A response whose generator never starts keeps its slot; the gauge counts it as an active client (line 889). | `SlotPerStream` |
| `graph/executor.py:1007` | A redelivered input is merged again (`docs/operations.md:70`). | `InputMergedOnce` |
| `graph/executor.py:1360` | Results are stored when all tasks have ended, not at once (`docs/architecture.md:57`). | `FinishedTaskSurvives` |
| `graph/executor.py:1472` | SYNC publishes a state before it is saved (`docs/architecture.md:132`). | `PublishedIsSaved` |
| `graph/executor.py:2322` | Under ASYNC a recovery may execute an activation under another key (lines 2314-2316). A fork is latest as well: what is executed again from there has a key of its own. | `RecoveryKeepsKey` without its conditions |
| `graph/executor.py:1389`, `1412` | A superstep that pauses saves the checkpoint of the pause first and copies the results beside the question to it afterwards. After a crash between the two a task that had ended is executed again, under SYNC too, and under another key (lines 2314-2317: recovery of the same superstep reuses the key). | `KeyOutlivesPause` |
| `graph/executor.py:1034`, `1228` | A new input on a thread with tasks pending reuses the keys of the run before, and is served results that were computed for the input before it. | `KeyNamesOneActivation`, `ResultsFitTheirSnapshot` without their condition |
| `graph/executor.py:1565` | Under EXIT a loop that re-enters a node is served the result of its first round, without any crash, and its later rounds carry the key of the first. | `ResultsFitTheirSnapshot`, `KeyNamesOneActivation` without their condition |
| `graph/executor.py:1594` | Under EXIT an `interrupt_after` saves nothing: the run is `paused`, and a resume does not find what clients were shown. `docs/architecture.md:135` calls EXIT unsuited to interrupts, but nothing refuses the combination (line 2522). | `OutcomeIsDurable` without its condition |
| `graph/executor.py:2448` | A recovered child result is folded through the reducer again (`channels.py:21`). | `ChildCountsOnce` |
| `graph/executor.py:2086` | `step` restarts with each input, so a second input re-enters the child threads of the first (lines 2081-2082). | `FreshActivation` |
| `graph/executor.py:1005` | An input on a thread whose run failed, lapsed or was cancelled goes on with the nodes that run had planned, and with the results saved for them; with claims that skip locked rows (`server/repository.py:3451`) or redrives, the steps of two runs alternate. No document speaks of it. | `RunsStartAnew`, `RunsDoNotMix` |
| `graph/executor.py:2131` | A child's result replaces the channel, writes of siblings planned before it included (`docs/architecture.md:38`). | `SiblingIsKept` with `SiblingFirst` |
| `graph/executor.py:2001` | A timed-out thread goes on outside its semaphore (`docs/architecture.md:85`); a cache that never answers stops the run (line 2404). | `ConcurrencyLimit` for `Threads`; `CacheHangs` |
| `graph/executor.py:2017`, `2024` | Cancellation and exhausted budgets match the default `retry_on`; the first delay has no factor (`types.py:93`). | `ControlNeverRetried`, `DelayAsDocumented` |
| `cache_first/history.py:316` | `tool_result_indexes[-0:]` is the whole list: with `keep_recent_tool_results = 0` nothing is bounded. | `ResultsAreBounded` with `KeepResults = 0` |
| `cache_first/compaction.py:320` | A long summary drives out a tool block the window has room for. | `RecentBlockIsSent` |
| `tools.py:334` | A plain function that timed out goes on in its thread: beside the next call, though a call that writes is to run alone (line 240), and beside the supersteps that follow. No document speaks of it. | `WritesRunAlone` without `outlived` |
| `prebuilt.py:183` | A rejection leaves the calls beside it unanswered; the repair then drops the whole block. | `HistoryIsLegal` |
| `graph/executor.py:895` | Budgets are per delivery (`docs/api.md:28`). | `RunWithinBudget` |
| `graph/executor.py:2319` | Two calls of one tool in a message share a key. | `EveryCallHasItsEffect` |
| `prebuilt.py:145` | With two steps left tools are still run, and the answer exceeds the recursion limit. | `StopsInTime` |
| `integrations/coze.py:131` | Every request of an execution carries the same `X-Idempotency-Key`. At a Coze that honours it per endpoint, an agent without `hitl` cannot finish a chat with two rounds of outputs: the second is taken for the first (`docs/integrations-coze.md:68`). | `OutputsFit` says what is left: a chat with open calls is not committed |
| `integrations/coze.py:204` | Repeated events are dropped by their id; without ids a stream that is opened again doubles the answer. | `AnswerIsWhole` without `Deduplicates` |
| `checkpoint/postgres.py:151` | Of two open transactions the one that commits last may have the lower `seq` and is never read. | `LatestIsNewest` |
| `checkpoint/memory.py:60` | The in-memory saver adds a repeated put again. | `PutIsIdempotent` |
| `server/app.py:459` | A fork made between a crash and the redelivery becomes its base: finished tasks run again. | `CompletedOnce` with forks |
| `graph/executor.py:2288` | A stalled execution adds checkpoints after its run has succeeded, and the next run starts from them. | `RunsFollowEachOther` with `Zombies` |
| `server/repository.py:1751` | A pending run of a deleted thread is still delivered. | `DeletedThreadLeavesNothing` |

Observations at Coze and in teams, about which no document says anything: a bot with `hitl` that is
approved starts a second chat (its key has changed), and the approval applies to that chat's calls
unseen; only the first round of calls is put before the human; a rejection leaves the
conversation unwritten; a resumed workflow that asks again returns the question as its output,
and one that, executed anew, asks nothing drops the answer; without a checkpoint the key is a
digest of graph and state, so equal first inputs of two threads share it. `turn` and `active_agent`
survive in the thread: a later input that does not reset `turn` gets one speaker, a round robin
goes on behind the last speaker, and an input after a failure continues at the planned node, even
one that sets `active_agent`: the agent that was planned answers it, and the next input goes to the one
it named (`executor.py:1005-1010`).

## Proofs

TLAPS checks the theorems below for every value of the constants, under the ASSUMEs of the modules
(bounds are naturals, sets of actors that are counted are finite, the names of nobody and nothing
are no actors, a graph is one that `compile()` accepts). Each invariant was an INVARIANT of a TLC run before it was proved, on the instance
of the module's run or a larger one. `OrderLemmas` holds what several proofs need of ordered lists;
an induction over a number is made by the least counterexample (`LeastNat`), because the induction
theorems of the library take operators that the provers cannot instantiate.

| module | theorem | statement |
|---|---|---|
| `QueueProofs` | `Typing`, `Invariance` | `SafetySpec => []TypeOK`, `SafetySpec => []IndInv` |
| | `ThreadExclusion` | `SafetySpec => []OneActivePerThread` |
| | `LeaseDiscipline` | `SafetySpec => []ActiveIffLeased` |
| | `GateDiscipline` | `SafetySpec => []GateOpenWhileDeliverable` |
| | `SingleContinuation` | `SafetySpec => []OneContinuation` |
| | `CancelledOnRequest` | `SafetySpec => CancelledForAReason` |
| | `LostLeaseIsFinal` | `SafetySpec => LostLeaseStaysLost` |
| | `Refinement` | `SafetySpec => ImplementsContract` |
| | `QueueRefinement` | `SteeringSafetySpec => SafetySpec` |
| | `ChannelInvariance` | `SteeringSafetySpec => []ChannelInv` |
| | `NoRowIsStranded` | `SteeringSafetySpec => []NothingStranded` |
| | `ResumeMovesAll` | `SteeringSafetySpec => []ResumedInboxIsSettled /\ ResumeMovesPending` |
| | `GraphReadsInOrder` | `SteeringSafetySpec => []HandedInOrder` |
| | `SteeringInvariance` | `SteeringSafetySpec => []SteeringInv` |
| | `InboxSettles` | `SteeringSafetySpec => []InboxIsSettled` |
| | `GraphMeetsItsInbox` | `SteeringSafetySpec => []GraphMeetsInbox` |
| | `EventsTellOnce` | `SteeringSafetySpec => []ToldOnce` |
| | `DispositionsAreFinal` | `SteeringSafetySpec => DispositionIsFinal` |
| `EventStreamProofs` | `StreamInvariance` | `Spec => []StreamInv` |
| | `ClientsFollow` | `Spec => []ClientsFollowTheLog` |
| | `QuotaHolds` | `Spec => []WithinSseQuota` |
| `NodesProofs` | `CallsInvariance` | `Spec => []CallsInv` |
| | `AttemptsSound` | `Spec => []AttemptsAreSound` |
| | `CancelStartsNothing` | `Spec => NoBodyAfterCancel` |
| | `NestedInvariance` | `NestedSpec => []NestedInv` |
| | `ChildMeets` | `"thread" \notin Persistences => (NestedSpec => []ChildMeetsItsParent)` |
| | `PausedChildGoes` | `NestedSpec => PausedChildGoesOn` |
| | `RoundsCount` | `"thread" \notin Persistences /\ Plan = <<"s", "x">> => (NestedSpec => []RoundsCountOnce)` |
| | `TeamInvariance` | `PatternsAreSound => (TeamSpec => []TeamInv)` |
| | `TurnsTaken` | `PatternsAreSound => (TeamSpec => []TurnsAreTaken)` |
| | `CozeInvariance` | `BotsAreSound => (Deduplicates /\ CozeSpec => []CozeInv)` |
| | `TurnsWhole` | `BotsAreSound => (Deduplicates /\ CozeSpec => []TurnsAreWhole)` |
| `PgRunsProofs` | `PgInvariance` | `Spec => []PgInv` |
| | `Isolation` | `Spec => []IsolationHolds` |
| | `TableKeepsContract` | `Spec => KeepsContract` |
| `AgentLoopProofs` | `LoopInvariance` | `Spec => []LoopInv` |
| | `CallsAreAllowed` | `Spec => []CallsRunAsAllowed` |
| | `CallsAreServed` | `Spec => []EveryCallIsServed` |
| `SuperstepProofs` | `TypeInvariance` | `Spec => []TypeInv` |
| | `ResultsAreServed` | `Spec => StoredResultIsNotRecomputed` |
| | `CommittedSurvives` | `Spec => []CommittedStateSurvives` |
| | `SuperstepsAreAtomic` | `Spec => ImplementsContract` |
| | `ResultsAndKeys` | `Spec => []ResultsAndKeysFit` |
| | `NodesRunInTurn` | `Spec => []NodesFireInTurn` |
| `CheckpointProofs` | `SaversAreTyped` | `StoresAreApart /\ BatchesAreKeyed => (SaversSpec => []SaversTypeOK)` |
| | `SaversAreStores` | `StoresAreApart /\ BatchesAreKeyed => (SaversSpec => Implements)` |
| | `ThreadInvariance` | `RunsHaveSteps => (ThreadSpec => []ThreadInv)` |
| | `ThreadIsTyped` | `RunsHaveSteps => (ThreadSpec => []ThreadTypeOK)` |
| | `HistorySerial` | `RunsHaveSteps => (ThreadSpec => []HistoryIsSerial)` |

**RunQueue.** The properties are not inductive. `IndInv` adds what they rest on: a run not yet
created is blank; a worker holds a run exactly while it delivers; the owner of a
lease, unless dead, is delivering this very attempt (`OwnerIsDelivering`, which
carries the fence); the gate is shut only behind a graph that ended for good; an
owner's tripped token means a cancel request or a graph that tripped it; the two lineage fields point at each
other. The proof is split by conjunct (`BlankStep`, `ThreadStep`, `LeaseStep`,
`CancelStep`, `LineageStep`, `BusyStep`, `OwnerStep`, `GateStep`, `TokenStep`) and, in
each, by action; `Steps` enumerates the actions once and `QuietActions` disposes
of the ones a conjunct does not depend on.

**Steering.** Every action is a step of `RunQueue` or leaves it alone (`QueueSteps`), so
`IndInv` and all theorems above hold of the composition. `ChannelInv` then says what a worker knows
of an inbox: drained rows were handed over, a commit in flight is a part of what was drained
(`ChannelFits`), a heartbeat runs beside a graph (`BeatFits`), and what was passed over when
the inbox was read is not pending any more (`ReadsInOrder`). The last one gives the order: a
row that is read later was accepted later. `FenceInv` says what the fence of a commit gives:
attempts only grow, so a delivery that lost the run stays behind it (`AttemptsGrow`), and whoever
passes it has read rows that are live (`FencedRowsAreLive`); one row per submission and
one event per row follow. A redrive resets the attempt. After it a *late* commit, one whose
caller was cancelled while the thread went on, can name the current owner and attempt again, and
the fence lets it pass. So most of `FenceInv` holds until the first redrive (`Unrepeated`), and the
properties say so. What holds after it too: an owner's rows are not superseded (`OwnedRowsStand`), so
that the only disposition that ever changes is the one of `ConsumedLate`. `ResumeMovesAll` is about
the step: `ResumeMovesPending` says what a resume writes and that no later step touches it.

**EventStream.** `StreamInv`: who is between its numbering and its commit holds the row lock, so
its number is still the next one and, if it is fenced, it is still the owner (`TransactionsFit`);
hence the log has no gap and no clash. A client has the log up to its cursor, and the batch it is
being sent is what comes next (`StreamFits`); it survives steps of the writers because the log only
grows at its end. Open streams have a slot each (`SlotsFit`); a response that never starts keeps
one, which is why this is an inequality.

**NodeCalls.** `CallsInv`: async bodies do not outlive the call that waits for them, every task
that sleeps or calls has its place in the semaphore, what is about to be stored is state and this
node's answer to this argument. A thread that timed out is left out of the limit, as in the code.

**Subgraph.** `NestedInv`: a child belongs to a delivery that waits for it (`CallsNest`); a question is
asked by `c2` and stands in the namespace the delivery looks into until it is answered, and no
stored result is one (`QuestionsStand`); a pause is taken up by a resume (`PausesAreResumed`); in
the first run superstep, rounds, namespace and child carry the same number (`RoundsAreNumbered`).
`ChildMeets` excludes `subgraph_persistence="thread"`, where one namespace serves all activations by
intent. `RoundsCount` needs what every log holds (`LogsHold`): that of a child at its position, of a
question under the rounds it was asked in, of a delivery and of its results. A child is new to its
superstep or is waited for (`KidsHold`), and nothing is stored under a checkpoint yet to come
(`BasesAreKept`), so a delivery starts with results of x alone. A merge of two updates is a fold
over a set of two, whose steps the lemmas write out (`WritesFold`, `UpdatesMerge`). The hypotheses
are the two the property needs: with x planned first `SiblingIsKept` is violated
(one of the disagreements listed above), and with one namespace per thread a later activation merges the parent's
log into the one the child already has. Like the run, the theorem speaks of a thread until a crash or a second
input of a durable child (`Undisturbed`).

**Teams.** `TeamInv` has a part for each property. Every speaker of a group chat is counted by the
router before the next one is chosen (`GroupCounts`). In a round robin that began afresh the first
*p* agents have spoken once more than the others and the one behind them is next (`RobinIsFair`). The
active agent of a swarm is the one it was handed to, whether its last run ended or failed
(`SwarmIsOwned`), until an input sets the keys while another one is planned (`began`). Reviewers run once, between the source and the judge (`ReviewersAreHeard`).
`PatternsAreSound` is what the builders ensure: at least one agent, each with a name of its own
that no other node of the graph has, and `max_turns >= 1`; TLC evaluates it (`PatternsAssumption`). It says nothing
of the entry, since the agents of a `team` are listed with the entry first.

**CozeNodes.** The theorems are of a Coze that deduplicates. The node is forgetful, so `CozeInv` is about what its idempotency key has been used
for: an agent's for one chat and, since every round has the same key, for one round of outputs
(`AgentsKey`); a model's for a new chat or for the outputs of the last one (`ModelsKey`); a
workflow's for an execution and for the answer to the one before it (`WorkflowsKey`). No mark has a
key that is yet to come (`MarksAreKept`). From these it follows that a call that is made again is
remembered or still fits what the job waits for (`CallsFit`), so no output is refused, and a job
whose outputs were taken for earlier ones keeps its open calls and is not committed; that
whatever was read of a stream is of one job and once, wherever the next attempt goes on
(`StreamsFit`, `Heard`); and that what is committed is whole, in the conversation the bot was in
(`AnswersFit`, `RepliesFit`). `BotsAreSound` limits a workflow to one question: a second one is
returned as the output of the node (see the observations above). TLC evaluates it
(`BotsAssumption`). `CancelReachesCoze` is no part of it, since the code violates it.

**PgRuns.** `PgInv` relates the committed rows to the open transactions. A row that a transaction has
locked is, but for its lease, as the transaction last saw it (`Agree`): time may end a lease
under a lock, nothing else can. So what `CommitOne` writes is the outcome of the row as it is
(`CommitFacts`), what a claim writes comes from rows that are still active (`ClaimWrites`), and a paused
run that was found resumable still is (`InsertWrites`). Locks, advisory locks of keys and
entries in the index of active runs exclude each other (`LocksExclude`, `KeysExclude`,
`EntriesExclude`): what one transaction writes is nothing another relies on (`Considerate`,
`TxsWrite`). A run that a request is about to insert finds an identity (`RoomFits`). With that,
every committed transaction moves each row as `RunContract` allows (`StepAllowed`), the two sweeps
and the claim of one transaction included.

**AgentLoop.** `LoopInv` holds for any tools, replies, answers of the human, budgets and number of
deliveries; `ToolsAreDistinct` and `AgentsAreSound` say what `create_agent` is given. Wherever the
model is asked, each call of the history has its answer behind it, in order; where a human
rejected, each call that was put before them (`AnswerInv`). In the tool node every call that needs
a human has had one (`AcceptInv`); what runs belongs to the message at hand, alone if it
writes (`ToolInv`); what all deliveries spent is bounded by the budget of one and their
number (`BudgetInv`). `KeyInv` tells calls and their keys apart by the superstep in which they were
asked, so an effect that is repeated after a crash meets its own key and no other (`EffectInv`); so
does one of a function that outlived its timeout, whose key is of its own superstep (`ThreadInv`).

**Superstep.** The theorems hold of every graph, mode of durability, number of runs and faults.
What they rest on is relative to what is *known*: the checkpoints that are saved or queued.

* `ResultsAreServed`: what is stored under the base for a planned task was found when the
  superstep was planned (`StoredInv`).
* `CommittedSurvives`: at the points where a run may end well or pause, what was shown is known
  (`ShownInv`), and `Close` waits for the queue. An execution, its queue and all that is saved after an
  edit carry the edit (`QuietInv`).
* `SuperstepsAreAtomic`: each queued checkpoint follows the one before it, and an execution the last
  of them, by a step of the contract (`LineageInv`); ASYNC appends them in that order or, in a
  crash, drops the rest.
* `ResultsAndKeys`: ids are drawn once (`IdInv`) and a thread with one input has one (`FirstInputInv`), so a
  base tells the state its results are of (`BaseInv`). The converse, under SYNC and without
  forks, counts: the tasks that have run plus the pauses there were grow with
  every checkpoint (`Marked`), so an activation that is executed again with no pause in between starts from the same
  checkpoint and has the same key (`KeyInv`).
* `NodesRunInTurn` needs two invariants of every point between supersteps that is known or in
  memory. One counts (`JoinInv`): a fan-in's firings and the round it is collecting are no more than each
  source ran. The other (`TurnInv`) looks at the last run of a target in the log: a source
  that ran since is collected, or the target is scheduled or put off (`Waits`); no fan-in has
  collected enough to fire (`Open`); once a deferred node ran on an input, only such nodes are
  scheduled (`DeferredWait`). EXIT gives up what was collected at the end of a run, and only there
  (`Settled`). `EdgesAreFollowed` is of every graph that `compile()` accepts, `JoinIsNotEarly` of
  fan-ins whose edge is the only way to their target, `DeferredRunsLast` of deferred
  nodes that nothing follows: elsewhere a loop or a goto may well run them again.

**Savers.** A row counts in the abstract history from the commit that makes it visible. `SaversInv`
says that it is then a new row and the last of its namespace (`PutFits`), which is where the
condition on PostgreSQL comes in: of two open transactions on one namespace the one that
commits last may have the lower `seq`. `StoresAreApart` therefore gives each namespace one writer
there, lets only someone who is alone delete the thread (its two statements then see all there is,
`DeleteFits`), and puts no checkpoint twice in memory; TLC evaluates it on the instances
(`StoresAssumption`), and the disagreements below the runs tell what happens without it. Each call
is then one step of `CheckpointStore` or none (`Kept`): the readers' `ORDER BY` lists are the
abstract history (`OrderedAppends`, `OrderedHasRows`), and SQL's upsert is the abstract one.

**ThreadState.** `HistoryIsSerial` says different things of different threads, and so does
`ThreadInv`. Unless the thread is deleted, what an execution holds is the state of its
base (`BasesHold`), stalled executions and forks included, so a checkpoint extends its parent.
Where executions end with their lease, there is one execution at most, that of the running run
(`Queued`), whichever run was claimed. Without forks, until the thread is
deleted, each checkpoint goes on from the one before it and the execution stands at the end
(`Line`); hence the
number of steps of a state names its checkpoint, a task that was executed has its result
under that checkpoint, and the head has the last step of every run that has succeeded (`Recorded`).
`RunsHaveSteps` (`Steps > 0`) is the only condition; TLC evaluates it (`ThreadsAssumption`).

## What is only model-checked

* Liveness (`CancelTakesEffect`, `QueuedRunsAreServed`, `AcceptedIsSettled`, `StreamsDeliver`,
  `EveryRunEnds`, `EveryStepEnds`, `LoopEnds`, `TransactionsEnd`): TLAPS treats neither fairness nor ENABLED.
* The pure functions of `ChannelHistory` and `ModelHistory`, which recurse over data.
* What every proof leaves to its conditions: the theorems at Coze are of one that deduplicates (the run
  has others), and what `GraphMeetsInbox`, `ToldOnce` and `InboxIsSettled` claim until a redrive only fails
  after one.

## Not modelled

* The unfenced `finish_run` and `retry_run` (public for compatibility, called by nothing) and the
  repository's unused superseding call.
* Assistants, schedules, audit records, request quotas and authentication: maps behind one lock,
  and checks without state.
* The long-term store: key-value operations under one lock; expiry is looked at when read.
* The builder, schemas, serialization, canonical JSON: validation and conversion, no state that
  changes afterwards.
* Skills: reading directories and rendering a catalog. SDK (but for its reconnecting stream),
  CLI, scaffold, MCP, A2A and OpenAI adapters, studio, documentation site, deployment: I/O.
* Of the cache-first wrapper: fingerprints, usage and diagnostics, which decide nothing.
