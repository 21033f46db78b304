------------------------------ MODULE Superstep ------------------------------
(***************************************************************************)
(* The graph executor on one thread: deliveries of runs that plan, execute *)
(* and commit supersteps over a checkpointer, with pending writes, pauses, *)
(* the three durability modes, and crashes with redelivery between any two *)
(* steps.  The state of the graph is a log channel (a reducer that         *)
(* appends) plus the number of the run whose input it last took.           *)
(***************************************************************************)
EXTENDS Integers, Sequences, FiniteSets, SequencesExt

CONSTANT Setups  \* bound: the graphs, modes of delivery and limits that are explored

VARIABLE setup   \* the one in force: what compile() and the run requests fixed

NodeSeq == setup.nodes         \* the nodes of the graph in the order they were added
Edges == setup.edges           \* static edges [from : set of nodes, to : node, any : BOOLEAN]
Entry == setup.entry           \* targets of the edges out of START
Routes == setup.routes         \* node or "START" -> conditional outcomes, {} if it has none
Gotos == setup.gotos           \* node -> set of goto target sets its Command may carry
Asks == setup.asks             \* node -> how many times it calls interrupt()
Deferred == setup.deferred     \* nodes added with defer=True
Before == setup.before         \* interrupt_before
After == setup.after           \* interrupt_after
Forks == setup.forks           \* whether clients edit the thread through fork()
Durability == setup.durability \* "sync", "async" or "exit"
StepLimit == setup.limit       \* recursion_limit
MaxAttempts == setup.attempts  \* deliveries of one run
MaxRuns == setup.runs          \* bound on the runs submitted to the thread
MaxInputs == setup.inputs      \* bound on those among them that bring a new input
MaxFaults == setup.faults      \* bound on crashes, failures, timeouts, cancellations, forks

START == "START"
INPUT == "INPUT"
EDIT == "EDIT"

\* What compile() and the requests have been checked for: a name is of one node, every name
\* is of a node, limits are positive.
ASSUME SuperstepAssumption ==
    \A s \in Setups :
        /\ s.durability \in {"sync", "async", "exit"}
        /\ {s.limit, s.attempts, s.runs, s.inputs} \subseteq Nat \ {0} /\ s.faults \in Nat
        /\ s.nodes \in Seq(ToSet(s.nodes)) /\ {START, INPUT, EDIT} \cap ToSet(s.nodes) = {}
        /\ \A i, j \in DOMAIN s.nodes : s.nodes[i] = s.nodes[j] => i = j
        /\ (s.entry \cup s.deferred) \subseteq ToSet(s.nodes)
        /\ \A e \in s.edges : e.from # {} /\ e.from \subseteq ToSet(s.nodes)
        /\ \A n \in {START} \cup ToSet(s.nodes) : \A r \in s.routes[n] :
                r.names \subseteq ToSet(s.nodes) /\ r.sends \in Seq(ToSet(s.nodes))

VARIABLES
    ckpts,   \* checkpoints of the thread in the order they were saved
    writes,  \* pending writes: task results saved under a checkpoint id
    ids,     \* number of checkpoint ids drawn so far
    ex,      \* the delivery being executed, in the memory of its worker
    run,     \* the last run submitted to the thread
    faults,  \* faults so far
    effects, \* (history) task executions that succeeded, with their idempotency key
    heard,   \* (history) answers a task consumed
    asked,   \* (history) per run: the questions its client was answering
    shown    \* (history) the last state published in a STATE_UPDATED event

stored == <<ckpts, writes, ids>>
history == <<effects, heard, asked, shown>>
vars == <<ckpts, writes, ids, ex, run, faults, effects, heard, asked, shown, setup>>

NodeSet == ToSet(NodeSeq)
None == 0
NotAsked == -1
Off == [pc |-> "off"]
Ended == {"paused", "done", "failed", "timed_out", "cancelled", "dead_letter"}

\* The elements of a list that are in S, in its order.
Among(S, list) ==
    LET upTo[i \in 0..Len(list)] ==
            IF i = 0 THEN <<>>
            ELSE IF list[i] \in S THEN Append(upTo[i - 1], list[i]) ELSE upTo[i - 1]
    IN  upTo[Len(list)]

\* A task is a node of the active set (index 0) or the index-th Send.
InPlanOrder(names) == Among(names, NodeSeq)
PlanTasks(names, sends) ==
    LET order == InPlanOrder(names)
    IN  [i \in 1..Len(order) |-> <<order[i], 0>>]
            \o [i \in 1..Len(sends) |-> <<sends[i], i>>]

\* The nodes put off: a deferred node waits while anything else is to run.
PutOff(names, sends) ==
    IF names \ Deferred # {} \/ sends # <<>> THEN names \cap Deferred ELSE {}
Runs(names, sends) == PlanTasks(names \ PutOff(names, sends), sends)

TaskNames(plan) == {plan[i][1] : i \in DOMAIN plan}
LogOf(plan) == [i \in DOMAIN plan |-> plan[i][1]]
AppendInput(state, n) == [log |-> Append(state.log, INPUT), q |-> n]
Count(log, name) == Cardinality({i \in DOMAIN log : log[i] = name})
TasksIn(log) == Len(log) - Count(log, INPUT) - Count(log, EDIT)

\* What a task result is a result of: how much had run, and on whose input.
Stamp(state) == [n |-> TasksIn(state.log), q |-> state.q]

NoTask == <<INPUT, 0>>
Joins == {e \in Edges : Cardinality(e.from) > 1}
NoProgress == [e \in Joins |-> {}]

Latest == ckpts[Len(ckpts)]
Parked(c) == c.asks # <<>> \/ c.skip # {}

(***************************************************************************)
(* Checkpoints and pending writes.                                         *)
(***************************************************************************)
Checkpoint(state, names, sends, kind) ==
    [id |-> ids + 1, parent |-> ex.parent, state |-> state, next |-> names, sends |-> sends,
     asks |-> <<>>, skip |-> {}, joins |-> ex.joins, deferred |-> ex.deferred,
     resume |-> ex.resume, kind |-> kind]

\* _save_checkpoint: written at once, or queued behind the earlier ones (ASYNC).
Save(c, e) ==
    /\ ids' = ids + 1
    /\ IF Durability = "async"
       THEN ckpts' = ckpts /\ ex' = [e EXCEPT !.queue = Append(@, c)]
       ELSE ckpts' = Append(ckpts, c) /\ ex' = e

\* _put_pending_results: rows are keyed by checkpoint id and task, the last write wins.
PutWrites(base, tasks) ==
    LET rows == {[base |-> base, task |-> t, from |-> ex.outs[t].from,
                  goto |-> ex.outs[t].goto] : t \in tasks}
    IN  {w \in writes : w.base # base \/ w.task \notin tasks} \cup rows

WritesUnder(base) == {w \in writes : w.base = base}

(***************************************************************************)
(* One delivery: the worker hands the run to the executor, which reads the *)
(* latest checkpoint and applies the input or the resume command.          *)
(***************************************************************************)
Loaded ==
    IF ckpts = <<>>
    THEN [state |-> [log |-> <<>>, q |-> None], next |-> {}, sends |-> <<>>, asks |-> <<>>,
          skip |-> {}, joins |-> NoProgress, deferred |-> {}, id |-> None, resume |-> {}]
    ELSE Latest

\* _deliver_resume: to the interrupt the client names if it is pending, else to the first.
DeliveredTo(asks) == IF run.to \in ToSet(asks) THEN run.to ELSE asks[1]

Applied ==
    [state  |-> IF run.kind = "input" THEN AppendInput(Loaded.state, run.n) ELSE Loaded.state,
     resume |-> IF run.kind = "resume" /\ Loaded.asks # <<>>
                THEN Loaded.resume \cup {[task |-> DeliveredTo(Loaded.asks), run |-> run.n,
                                          at |-> Cardinality(Loaded.resume)]}
                ELSE Loaded.resume]

\* _entry_tasks: the static entries plus what the conditional entry selects.
NoRoute == [names |-> {}, sends |-> <<>>]
RoutesOf(name) == IF Routes[name] = {} THEN {NoRoute} ELSE Routes[name]
EntryTasks == {[names |-> Entry \cup r.names, sends |-> r.sends] : r \in RoutesOf(START)}

NeedsEntry == run.kind = "input" /\ Loaded.next = {} /\ Loaded.sends = <<>>
StartTasks == IF NeedsEntry THEN EntryTasks
              ELSE {[names |-> Loaded.next, sends |-> Loaded.sends]}

Execution(pc, outcome, from) ==
    [pc |-> pc, outcome |-> outcome, state |-> Applied.state, next |-> from.names,
     sends |-> from.sends, plan |-> <<>>, outs |-> <<>>, parent |-> Loaded.id,
     base |-> IF Loaded.id = None THEN <<INPUT, Stamp(Applied.state)>> ELSE <<Loaded.id>>,
     joins |-> Loaded.joins, deferred |-> Loaded.deferred, resume |-> Applied.resume,
     skip |-> Loaded.skip, steps |-> 0, queue |-> <<>>, stop |-> FALSE,
     pauses |-> Cardinality({i \in DOMAIN ckpts : Parked(ckpts[i])})]

Start ==
    /\ run.status = "pending" /\ ex = Off
    /\ run' = [run EXCEPT !.status = "running", !.attempt = @ + 1]
    /\ \E from \in StartTasks :
        ex' = IF ckpts = <<>> /\ run.kind = "resume"
              THEN Execution("close", "failed", from)   \* EmptyInputError
              ELSE IF Loaded.asks # <<>> /\ run.kind # "resume"
              THEN Execution("close", "paused", from)   \* the pause is raised again
              ELSE IF from.names = {} /\ from.sends = <<>>
              THEN Execution("close", "done", from)
              ELSE Execution("plan", "none", from)
    /\ shown' = {}
    /\ UNCHANGED <<setup, stored, faults, effects, heard, asked>>

(***************************************************************************)
(* The superstep loop.                                                     *)
(***************************************************************************)
Stopping(outcome) == [ex EXCEPT !.pc = "close", !.outcome = outcome]

StopAtLoopHead ==
    /\ ex.pc = "plan"
    /\ \/ ex.stop /\ ex' = Stopping("cancelled")
       \/ ~ex.stop /\ ex.steps >= StepLimit /\ ex' = Stopping("failed")
    /\ UNCHANGED <<setup, stored, run, faults, history>>

\* Deferral, planning, and the results of an earlier delivery found under the base.
Planned == Runs(ex.next, ex.sends)
Held == (TaskNames(Planned) \cap Before) \ ex.skip
Deferring == ex.deferred \cup PutOff(ex.next, ex.sends)

\* Mutant: the pending writes are not read.
FoundNothing == <<>>

FoundOutcomes ==
    LET found == {w \in WritesUnder(ex.base) : w.task \in ToSet(Planned)}
    IN  [t \in {w.task : w \in found} |->
            LET w == CHOOSE w \in found : w.task = t
            IN  [kind |-> "ok", from |-> w.from, goto |-> w.goto]]

Looping == ex.pc = "plan" /\ ~ex.stop /\ ex.steps < StepLimit

Plan ==
    /\ Looping /\ Held = {}
    /\ ex' = [ex EXCEPT !.pc = "run", !.plan = Planned, !.outs = FoundOutcomes, !.skip = {},
                        !.next = @ \ PutOff(ex.next, ex.sends), !.deferred = Deferring]
    /\ UNCHANGED <<setup, stored, run, faults, history>>

InterruptBefore ==
    /\ Looping /\ Held # {}
    /\ Save([Checkpoint(ex.state, ex.next \ PutOff(ex.next, ex.sends), ex.sends, "before")
                EXCEPT !.skip = Held, !.deferred = Deferring],
            Stopping("paused"))
    /\ UNCHANGED <<setup, writes, run, faults, history>>

Undecided == ToSet(ex.plan) \ DOMAIN ex.outs
Decide(t, o) == ex' = [ex EXCEPT !.outs = [u \in DOMAIN @ \cup {t} |-> IF u = t THEN o ELSE @[u]]]
Answers(t) == {a \in ex.resume : a.task = t}

\* Mutants: the key is that of the run, or of this delivery of it.
KeyOfRun(t) == <<run.n, t>>
KeyOfDelivery(t) == <<run.n, run.attempt, ex.base, t>>

\* The idempotency key of a task: nothing in it but the base checkpoint and the task.
KeyOf(t) == <<ex.base, t>>

TaskReturns(t) ==
    /\ ex.pc = "run" /\ t \in Undecided
    /\ Cardinality(Answers(t)) >= Asks[t[1]]
    /\ \E goto \in Gotos[t[1]] :
        Decide(t, [kind |-> "ok", from |-> Stamp(ex.state), goto |-> goto])
    /\ effects' = effects \cup {[key |-> KeyOf(t), task |-> t, from |-> Stamp(ex.state),
                                 pauses |-> ex.pauses, delivery |-> <<run.n, run.attempt>>]}
    /\ heard' = heard \cup {[run |-> a.run, task |-> t, n |-> TasksIn(ex.state.log)] :
                              a \in Answers(t)}
    /\ UNCHANGED <<setup, stored, run, faults, asked, shown>>

TaskInterrupts(t) ==
    /\ ex.pc = "run" /\ t \in Undecided
    /\ Cardinality(Answers(t)) < Asks[t[1]]
    /\ Decide(t, [kind |-> "ask", from |-> Stamp(ex.state), goto |-> {}])
    /\ UNCHANGED <<setup, stored, run, faults, history>>

\* The action raised and its retry policy gave up.
TaskRaises(t) ==
    /\ ex.pc = "run" /\ t \in Undecided /\ faults < MaxFaults
    /\ Decide(t, [kind |-> "error", from |-> Stamp(ex.state), goto |-> {}])
    /\ faults' = faults + 1
    /\ UNCHANGED <<setup, stored, run, history>>

\* raise_if_cancelled() in front of an attempt.
TaskStops(t) ==
    /\ ex.pc = "run" /\ t \in Undecided /\ ex.stop
    /\ Decide(t, [kind |-> "stop", from |-> Stamp(ex.state), goto |-> {}])
    /\ UNCHANGED <<setup, stored, run, faults, history>>

\* step_timeout: every task is cancelled and no result is kept.
StepTimesOut ==
    /\ ex.pc = "run" /\ Undecided # {} /\ faults < MaxFaults
    /\ ex' = Stopping("timed_out")
    /\ faults' = faults + 1
    /\ UNCHANGED <<setup, stored, run, history>>

OutcomesOf(kind) == {t \in ToSet(ex.plan) : ex.outs[t].kind = kind}

\* gather() is done: the results of the tasks that succeeded are saved first.
Gather ==
    /\ ex.pc = "run" /\ Undecided = {}
    /\ writes' = PutWrites(ex.base, OutcomesOf("ok"))
    /\ ex' = [ex EXCEPT !.pc = "gathered"]
    /\ UNCHANGED <<setup, ckpts, ids, run, faults, history>>

Failures == Among(OutcomesOf("error") \cup OutcomesOf("stop"), ex.plan)

Redeliver == IF run.attempt < MaxAttempts THEN "retry" ELSE "dead_letter"

\* The first failure in plan order is raised; the worker requeues a retryable one.
RaiseFailure ==
    /\ ex.pc = "gathered" /\ Failures # <<>>
    /\ IF ex.outs[Failures[1]].kind = "stop" THEN ex' = Stopping("cancelled")
       ELSE \E outcome \in {"failed", Redeliver} : ex' = Stopping(outcome)
    /\ UNCHANGED <<setup, stored, run, faults, history>>

PauseSave ==
    /\ ex.pc = "gathered" /\ Failures = <<>> /\ OutcomesOf("ask") # {}
    /\ Save([Checkpoint(ex.state, ex.next, ex.sends, "pause")
                EXCEPT !.asks = Among(OutcomesOf("ask"), ex.plan)],
            [ex EXCEPT !.pc = "pausing", !.parent = ids + 1])
    /\ UNCHANGED <<setup, writes, run, faults, history>>

\* After the flush barrier the finished siblings are saved under the pause itself.
PausePut ==
    /\ ex.pc = "pausing" /\ ex.queue = <<>>
    /\ writes' = PutWrites(<<ex.parent>>, OutcomesOf("ok"))
    /\ ex' = Stopping("paused")
    /\ UNCHANGED <<setup, ckpts, ids, run, faults, history>>

\* Every task succeeded: merge in plan order and publish the new state.
Merge ==
    /\ ex.pc = "gathered" /\ OutcomesOf("ok") = ToSet(ex.plan)
    /\ LET merged == [ex.state EXCEPT !.log = @ \o LogOf(ex.plan)]
       IN  /\ ex' = [ex EXCEPT !.pc = "route", !.state = merged]
           /\ shown' = {merged}
    /\ UNCHANGED <<setup, stored, run, faults, effects, heard, asked>>

(***************************************************************************)
(* Scheduling of the next superstep: static edges, fan-ins, conditional    *)
(* edges, gotos, and the deferred nodes once nothing else is left.         *)
(***************************************************************************)
Completed == TaskNames(ex.plan)
Arrived(e) == ex.joins[e] \cup (Completed \cap e.from)
Fires(e) == IF e.any THEN Arrived(e) # {} ELSE e.from \subseteq Arrived(e)
\* Mutant: the progress of a fan-in that fired is not cleared.
ProgressKept == [e \in Joins |-> Arrived(e)]

Progress == [e \in Joins |-> IF Fires(e) THEN {} ELSE Arrived(e)]

FollowedEdges ==
    {e \in Edges : IF e \in Joins THEN Fires(e) ELSE e.from \subseteq Completed}

SendsOf(choice) ==
    LET order == InPlanOrder(Completed)
    IN  FlattenSeq([i \in DOMAIN order |-> choice[order[i]].sends])

NextTasks(choice) ==
    [names |-> ({e.to : e \in FollowedEdges} \cup (UNION {choice[n].names : n \in Completed})
                  \cup (UNION {ex.outs[t].goto : t \in ToSet(ex.plan)})) \cap NodeSet,
     sends |-> SendsOf(choice)]

Woken(next) == next.names = {} /\ next.sends = <<>> /\ ex.deferred # {}

Advance(next, c) ==
    LET e == [ex EXCEPT !.next = c.next, !.sends = c.sends, !.joins = Progress,
                        !.resume = {}, !.deferred = c.deferred, !.plan = <<>>, !.outs = <<>>,
                        !.parent = IF Durability = "exit" THEN @ ELSE c.id,
                        !.base = IF Durability = "exit" THEN @ ELSE <<c.id>>,
                        !.steps = @ + 1]
    IN  IF Completed \cap After # {} THEN [e EXCEPT !.pc = "close", !.outcome = "paused"]
        ELSE IF c.next = {} /\ c.sends = <<>> THEN [e EXCEPT !.pc = "exit"]
        ELSE [e EXCEPT !.pc = "plan"]

RouteAndSave ==
    /\ ex.pc = "route"
    /\ \E choice \in [Completed -> UNION {RoutesOf(n) : n \in NodeSet}] :
        /\ \A n \in Completed : choice[n] \in RoutesOf(n)
        /\ LET next == NextTasks(choice)
               c == [Checkpoint(ex.state, IF Woken(next) THEN ex.deferred ELSE next.names,
                                next.sends, "loop")
                        EXCEPT !.joins = Progress, !.resume = {},
                               !.deferred = IF Woken(next) THEN {} ELSE @]
           IN  IF Durability = "exit"
               THEN ex' = Advance(next, c) /\ UNCHANGED <<ckpts, ids>>
               ELSE Save(c, Advance(next, c))
    /\ UNCHANGED <<setup, writes, run, faults, history>>

\* Mutant: EXIT completes without its checkpoint.
CompleteUnsaved ==
    /\ ex.pc = "exit" /\ ex' = Stopping("done")
    /\ UNCHANGED <<setup, stored, run, faults, history>>

\* Nothing is left to run: EXIT saves its only checkpoint, then the run is complete.
Complete ==
    /\ ex.pc = "exit"
    /\ IF Durability = "exit"
       THEN Save([Checkpoint(ex.state, {}, <<>>, "exit")
                    EXCEPT !.joins = NoProgress, !.deferred = {}, !.resume = {}],
                 Stopping("done"))
       ELSE ex' = Stopping("done") /\ UNCHANGED <<ckpts, ids>>
    /\ UNCHANGED <<setup, writes, run, faults, history>>

(***************************************************************************)
(* The ASYNC writer, the end of a delivery, and what may go wrong.         *)
(***************************************************************************)
\* Mutant: queued writes run in any order.
WriterAnyStep ==
    /\ ex # Off
    /\ \E i \in DOMAIN ex.queue :
        /\ ckpts' = Append(ckpts, ex.queue[i])
        /\ ex' = [ex EXCEPT !.queue = RemoveAt(@, i)]
    /\ UNCHANGED <<setup, writes, ids, run, faults, history>>

WriterStep ==
    /\ ex # Off /\ ex.queue # <<>>
    /\ ckpts' = Append(ckpts, Head(ex.queue))
    /\ ex' = [ex EXCEPT !.queue = Tail(@)]
    /\ UNCHANGED <<setup, writes, ids, run, faults, history>>

\* A failed write fails every write queued behind it and surfaces at the barrier.
WriterFails ==
    /\ ex # Off /\ ex.queue # <<>> /\ faults < MaxFaults
    /\ ex.pc \in {"pausing", "close"}
    /\ faults' = faults + 1
    /\ ex' = [Stopping(Redeliver) EXCEPT !.queue = <<>>]
    /\ UNCHANGED <<setup, stored, run, history>>

\* The finally block flushed; the worker commits the outcome it computed.
Close ==
    /\ ex.pc = "close" /\ ex.queue = <<>>
    /\ run' = [run EXCEPT !.status = IF ex.outcome = "retry" THEN "pending" ELSE ex.outcome]
    /\ ex' = Off
    /\ UNCHANGED <<setup, stored, faults, history>>

\* Mutant: nobody recovers the run.
CrashForgotten ==
    /\ ex # Off /\ faults < MaxFaults
    /\ ex' = Off /\ faults' = faults + 1
    /\ UNCHANGED <<setup, stored, run, history>>

Crash ==
    /\ ex # Off /\ faults < MaxFaults
    /\ ex' = Off
    /\ run' = [run EXCEPT !.status = IF run.attempt < MaxAttempts THEN "pending"
                                     ELSE "dead_letter"]
    /\ faults' = faults + 1
    /\ UNCHANGED <<setup, stored, history>>

Cancel ==
    /\ ex # Off /\ ex.pc # "close" /\ ~ex.stop /\ faults < MaxFaults
    /\ ex' = [ex EXCEPT !.stop = TRUE]
    /\ faults' = faults + 1
    /\ UNCHANGED <<setup, stored, run, history>>

(***************************************************************************)
(* Clients: new inputs, and answers to the pause they were shown.          *)
(***************************************************************************)
SubmitInput ==
    /\ run.status \in Ended /\ run.n < MaxRuns
    /\ Cardinality({k \in DOMAIN asked : asked[k].n = NotAsked}) < MaxInputs
    /\ run' = [n |-> run.n + 1, kind |-> "input", to |-> NoTask, status |-> "pending",
               attempt |-> 0]
    /\ asked' = Append(asked, [tasks |-> {}, n |-> NotAsked])
    /\ UNCHANGED <<setup, stored, ex, faults, effects, heard, shown>>

SubmitResume ==
    /\ run.status = "paused" /\ run.n < MaxRuns
    /\ \E to \in {NoTask} \cup ToSet(Loaded.asks) :
        run' = [n |-> run.n + 1, kind |-> "resume", to |-> to, status |-> "pending",
                attempt |-> 0]
    /\ asked' = Append(asked, [tasks |-> ToSet(Loaded.asks), n |-> TasksIn(Loaded.state.log)])
    /\ UNCHANGED <<setup, stored, ex, faults, effects, heard, shown>>

\* fork() / update_state(): a new latest checkpoint that continues the i-th one, whether or
\* not a delivery is executing.
Fork(i) ==
    /\ Forks /\ faults < MaxFaults
    /\ ckpts' = Append(ckpts, [ckpts[i] EXCEPT !.id = ids + 1, !.parent = ckpts[i].id,
                                              !.state.log = Append(@, EDIT),
                                              !.kind = IF ex = Off THEN "edit" ELSE "overtaken"])
    /\ ids' = ids + 1 /\ faults' = faults + 1
    /\ UNCHANGED <<setup, writes, ex, run, history>>

Init ==
    /\ setup \in Setups
    /\ ckpts = <<>> /\ writes = {} /\ ids = 0
    /\ ex = Off /\ faults = 0
    /\ run = [n |-> 1, kind |-> "input", to |-> NoTask, status |-> "pending", attempt |-> 0]
    /\ effects = {} /\ heard = {} /\ shown = {}
    /\ asked = <<[tasks |-> {}, n |-> NotAsked]>>

Tasks == IF ex = Off THEN {} ELSE ToSet(ex.plan)

Delivery ==
    \/ Start \/ StopAtLoopHead \/ Plan \/ InterruptBefore
    \/ \E t \in Tasks : TaskReturns(t) \/ TaskInterrupts(t) \/ TaskStops(t)
    \/ Gather \/ RaiseFailure \/ PauseSave \/ PausePut \/ Merge \/ RouteAndSave \/ Complete
    \/ WriterStep \/ Close

Faults ==
    \/ \E t \in Tasks : TaskRaises(t)
    \/ StepTimesOut \/ WriterFails \/ Crash \/ Cancel
    \/ \E i \in DOMAIN ckpts : Fork(i)

\* Nothing executes: a worker or a client may take its time.
Quiescent == ex = Off /\ UNCHANGED vars

Next == Delivery \/ Faults \/ SubmitInput \/ SubmitResume \/ Quiescent
Spec == Init /\ [][Next]_vars
FairSpec == Spec /\ WF_vars(Delivery)

(***************************************************************************)
(* Properties.                                                             *)
(***************************************************************************)
Idle(c) == c.next = {} /\ c.sends = <<>>
SavedStates == {ckpts[i].state : i \in DOMAIN ckpts}

\* Types of the stored state and of the control state of the delivery.
TypeOK ==
    /\ ids \in Nat /\ faults \in 0..MaxFaults
    /\ run.status \in Ended \cup {"pending", "running"}
    /\ run.n \in 1..MaxRuns /\ run.attempt \in 0..MaxAttempts
    /\ ex.pc \in {"off", "plan", "run", "gathered", "pausing", "route", "exit", "close"}
    /\ \A i \in DOMAIN ckpts : ckpts[i].id \in 1..ids /\ ckpts[i].parent \in 0..ids

\* Nothing but the fan-in schedules its target: no other edge, no choice, no goto, no Send.
OnlyWayIn(e) ==
    /\ e.to \notin Entry /\ \A f \in Edges : f.to = e.to => f = e
    /\ \A n \in {START} \cup NodeSet : \A r \in Routes[n] : e.to \notin r.names \cup ToSet(r.sends)
    /\ \A n \in NodeSet : \A goto \in Gotos[n] : e.to \notin goto

FanIns == {e \in Joins : ~e.any /\ e.to \in NodeSet /\ OnlyWayIn(e)}

\* How often a fan-in has fired: runs of its target, and the one that is still to come.
Fired(e, c) == Count(c.state.log, e.to) + (IF e.to \in c.next \cup c.deferred THEN 1 ELSE 0)

\* A fan-in of all sources does not fire early, and not twice for one round of its sources:
\* in no saved state has it fired more often than any of them ran.
JoinIsNotEarly ==
    \A e \in FanIns : \A i \in DOMAIN ckpts : \A n \in e.from :
        Fired(e, ckpts[i]) <= Count(ckpts[i].state.log, n)

\* Since the last of the marks in the log, n has run.
RanSince(log, n, marks) ==
    \E i \in DOMAIN log : log[i] = n /\ \A k \in DOMAIN log : k > i => log[k] \notin marks

\* A run of the target answers for the runs of its sources before it; under EXIT the end of
\* a run gives up what fan-ins have collected.
IsDirect(e) == e \notin Joins \/ e.any
Answer(e) == {e.to} \cup (IF Durability = "exit" /\ ~IsDirect(e) THEN {INPUT} ELSE {})

\* An edge is due once its source ran, a fan-in of some once one of them did, a fan-in of all
\* once each of them did, and its target has not run since.
IsDue(e, log) ==
    IF IsDirect(e) THEN \E n \in e.from : RanSince(log, n, Answer(e))
    ELSE \A n \in e.from : RanSince(log, n, Answer(e))

\* No edge is forgotten when the thread comes to rest, whatever pauses, crashes and deferrals
\* came between.
EdgesAreFollowed ==
    \A i \in DOMAIN ckpts : Idle(ckpts[i]) =>
        \A e \in Edges : e.to \in NodeSet => ~IsDue(e, ckpts[i].state.log)

\* The deferred nodes are the last of their run: nothing follows them, and no Send starts them.
DeferredAreLast ==
    /\ \A n \in Deferred : Routes[n] = {} /\ Gotos[n] \subseteq {{}}
    /\ \A e \in Edges : e.from \cap Deferred = {}
    /\ \A n \in {START} \cup NodeSet : \A r \in Routes[n] : ToSet(r.sends) \cap Deferred = {}

\* Such a node runs after everything else that was scheduled on its input, even when the
\* delivery that put it off is not the one that runs it.
LastIn(log) ==
    \A p, q \in DOMAIN log :
        p < q /\ log[p] \in Deferred /\ log[q] \in NodeSet \ Deferred
            => \E m \in p..q : log[m] = INPUT
DeferredRunsLast == DeferredAreLast => \A i \in DOMAIN ckpts : LastIn(ckpts[i].state.log)

\* Fan-ins, edges and deferred nodes are scheduled as the graph says, over supersteps, pauses
\* and crashes.
NodesFireInTurn == JoinIsNotEarly /\ EdgesAreFollowed /\ DeferredRunsLast

\* The base checkpoint moves with every superstep, and no second input is laid over pending
\* tasks: elsewhere stored results and keys may be those of an earlier activation.  Under EXIT
\* a loop is served the result of its first round; an input that meets pending tasks is
\* served what was computed for the input before it.
BasesMoveOn == Durability # "exit" /\ MaxInputs = 1

\* A result merged into a state was computed from that state, not from that of an earlier
\* activation of the task or of another input.
ResultsFitTheirSnapshot ==
    ex.pc = "gathered" /\ BasesMoveOn => \A t \in OutcomesOf("ok") : ex.outs[t].from = Stamp(ex.state)

\* Two executions with one idempotency key are executions of one activation: a service
\* that deduplicates on the key drops no effect it has not seen.
KeyNamesOneActivation ==
    BasesMoveOn => \A e, f \in effects : e.key = f.key => e.task = f.task /\ e.from = f.from

SameActivation(e, f) == e.task = f.task /\ e.from = f.from

\* An activation executed again after a crash or a retry carries the same key, as long as no
\* pause was saved in between.  A pause is a checkpoint of its own, under which the results of
\* the tasks that finished are stored next (and are not computed again from then on): a crash
\* between the two makes those tasks run again under the key of the pause.  Under ASYNC and
\* EXIT the checkpoint the key is made of may be lost with the worker, and a fork is an
\* activation of its own.
RecoveryKeepsKey ==
    Durability = "sync" /\ ~Forks =>
        \A e, f \in effects : SameActivation(e, f) /\ e.pauses = f.pauses => e.key = f.key

\* Stored results and idempotency keys stand for one activation of a task each, and an
\* activation has one key for as long as no pause comes between its executions.
ResultsAndKeysFit == ResultsFitTheirSnapshot /\ KeyNamesOneActivation /\ RecoveryKeepsKey

\* A task whose result is stored under its base checkpoint is not executed again.
StoredResultIsNotRecomputed ==
    [][\A e \in effects' \ effects : \A w \in writes : <<w.base, w.task>> # e.key]_vars

\* A run that ended well or paused has saved the last state it published.  Not where EXIT
\* meets interrupt_after: such a pause saves nothing.
OutcomeIsDurable ==
    ex = Off /\ run.status \in {"done", "paused"} /\ ~(Durability = "exit" /\ After # {})
        => shown \subseteq SavedStates

\* An edit made while nothing executes is part of every state saved after it, until a later
\* edit starts from elsewhere in the history.
QuietEditSurvives ==
    \A i, k \in DOMAIN ckpts :
        (/\ i < k /\ ckpts[i].kind = "edit"
         /\ \A m \in (i + 1)..k : ckpts[m].kind \notin {"edit", "overtaken"})
            => Count(ckpts[k].state.log, EDIT) = Count(ckpts[i].state.log, EDIT)

\* What clients were told is part of the thread: a final state, an edit between two runs.
CommittedStateSurvives == OutcomeIsDurable /\ QuietEditSurvives

\* Each run is delivered until it ends or its attempts are used up.
EveryRunEnds == run.status \notin Ended ~> run.status \in Ended

\* Without forks, and when checkpoints are saved at every step, the supersteps of the
\* executor implement the atomic ones of the contract.
Judged == Durability # "exit" /\ ~Forks
EntryPlans == {LogOf(Runs(t.names, t.sends)) : t \in EntryTasks}
Lineage ==
    IF Judged
    THEN [i \in DOMAIN ckpts |-> [log |-> ckpts[i].state.log,
                                 plan |-> LogOf(Runs(ckpts[i].next, ckpts[i].sends))]]
    ELSE <<>>
Contract ==
    INSTANCE SuperstepContract WITH
        entryPlans <- EntryPlans, Stimulus <- INPUT, lineage <- Lineage
ImplementsContract == Contract!ContractSpec

(***************************************************************************)
(* Statements of the documents that the executor does not keep.            *)
(***************************************************************************)
\* docs/operations.md:70 -- a worker killed after a checkpoint commit and before it
\* acknowledges does not merge the state twice: one input, one contribution.
InputMergedOnce ==
    \A s \in SavedStates :
        Count(s.log, INPUT) <= Cardinality({k \in DOMAIN asked : asked[k].n = NotAsked})

\* docs/architecture.md:57 -- a task's result is persisted as soon as it succeeds, so a
\* crash makes nothing run twice but the tasks that had not finished.
FinishedTaskSurvives == \A e, f \in effects : SameActivation(e, f) => e = f

\* executor.py:2314 -- a retry or lease recovery receives the same key: whatever was saved
\* between the executions, a pause included.
KeyOutlivesPause ==
    Durability = "sync" /\ ~Forks => \A e, f \in effects : SameActivation(e, f) => e.key = f.key

\* docs/architecture.md:132 -- SYNC saves the checkpoint of a superstep before its state
\* is published: a state clients were shown is never lost in a crash.
PublishedIsSaved == ex = Off => shown \subseteq SavedStates

\* executor.py:1803 -- a resume value reaches a task whose interrupt it answers.
AnswerReachesItsQuestion ==
    \A h \in heard : h.task \in asked[h.run].tasks /\ h.n = asked[h.run].n
==============================================================================
