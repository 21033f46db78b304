------------------------------- MODULE Subgraph -------------------------------
(***************************************************************************)
(* A parent graph whose supersteps run a plain node x beside a node s that *)
(* is itself a compiled graph of two nodes, c1 and c2.  Parent and child   *)
(* share one reduced channel and one checkpointer; the child's checkpoints *)
(* live in a namespace of their own.  The parent loops, the child may ask  *)
(* a question, workers crash and inputs follow one another on one thread.  *)
(***************************************************************************)
EXTENDS Integers, FiniteSets, Channels

CONSTANTS
    Persistences, \* values of subgraph_persistence to consider
    Plan,        \* the order of x and s among the nodes
    Asks,        \* whether c2 may call interrupt()
    MaxRounds,   \* bound on the supersteps of the parent
    MaxInputs,   \* bound on the runs that bring an input
    MaxFaults    \* bound on crashes

ASSUME PlanAssumption == ToSet(Plan) = {"s", "x"}

VARIABLES
    persistence, \* subgraph_persistence: "invocation", "thread" or "stateless"; fixed
    parent, \* latest checkpoint of the parent
    kids,   \* namespace -> latest checkpoint of the child that ran in it
    writes, \* pending writes of the parent's checkpoints
    ex,     \* the parent's delivery in the memory of its worker
    child,  \* the child it is executing
    run,    \* the last run submitted
    faults  \* crashes so far

nestedVars == <<persistence, parent, kids, writes, ex, child, run, faults>>

Idle == [pc |-> "idle"]
INPUT == "INPUT"
c1 == 1  \* positions in the child's chain of nodes
c2 == 2
Finished == 3

\* rounds is a history variable: supersteps committed on the thread so far.
NoCheckpoint == [id |-> 0, log |-> <<>>, step |-> -1, next |-> FALSE, asks |-> FALSE, rounds |-> 0]

Append1(log, name) == ReduceMerge(<<log>>, <<Write(<<name>>)>>)[1]

(***************************************************************************)
(* The parent: _run as far as its subgraph node can tell.                  *)
(***************************************************************************)
Entering == run.kind = "input" /\ ~parent.next
FirstStep == IF Entering THEN 0 ELSE parent.step + 1

Start ==
    /\ run.status = "pending" /\ ex = Idle
    /\ LET log == IF run.kind = "input" THEN Append1(parent.log, INPUT) ELSE parent.log
       IN  IF parent.asks /\ run.kind = "input"
           THEN /\ run' = [run EXCEPT !.status = "paused"]  \* the pause is raised again
                /\ UNCHANGED ex
           ELSE IF ~Entering /\ ~parent.next
           THEN /\ run' = [run EXCEPT !.status = "done"]
                /\ UNCHANGED ex
           ELSE /\ run' = [run EXCEPT !.status = "running"]
                /\ ex' = [pc |-> "run", log |-> log, step |-> FirstStep, base |-> parent.id,
                          outs |-> [t \in {w.task : w \in {v \in writes : v.base = parent.id}} |->
                                      (CHOOSE w \in writes : w.base = parent.id /\ w.task = t).write],
                          answered |-> parent.asks /\ run.kind = "resume"]
    /\ UNCHANGED <<persistence, parent, kids, writes, child, faults>>

Open(t) == ex.pc = "run" /\ t \notin DOMAIN ex.outs
Decided(t, w) == [ex EXCEPT !.outs = [u \in DOMAIN @ \cup {t} |-> IF u = t THEN w ELSE @[u]]]
Asking == [ask |-> TRUE]
Succeeded == {t \in DOMAIN ex.outs : ex.outs[t] # Asking}

Sibling ==
    /\ Open("x")
    /\ ex' = Decided("x", Write(<<"x">>))
    /\ UNCHANGED <<persistence, parent, kids, writes, child, run, faults>>

(***************************************************************************)
(* The subgraph node: _run_subgraph.                                       *)
(***************************************************************************)
Durable == persistence # "stateless"

\* Mutant: the activation does not name the superstep.
OneActivation(step) == <<"s">>

\* The namespace of an activation: the node, and the superstep unless it is kept per thread.
Activation(step) == IF persistence = "thread" THEN <<"s">> ELSE <<"s", step>>
Here == Activation(ex.step)

\* The child's own _run: its input is merged into what its namespace already holds.
Invoked(log, pos, answered, for) ==
    [pc |-> "run", log |-> log, pos |-> pos, answered |-> answered, for |-> for]

\* A child that is done starts over, one that crashed goes on.
Reinvoked(k) == IF k.pos = Finished THEN c1 ELSE k.pos

\* Mutant: the answer starts the child over.
RestartedAt(k) == c1

ResumedAt(k) == k.pos

StartChild ==
    /\ Open("s") /\ child = Idle
    /\ IF ~Durable \/ Here \notin DOMAIN kids
       THEN child' = Invoked(ex.log, c1, FALSE, parent.rounds) /\ UNCHANGED ex
       ELSE LET k == kids[Here]
            IN  IF k.asks /\ ~ex.answered
                THEN ex' = Decided("s", Asking) /\ UNCHANGED child
                ELSE /\ child' = IF k.asks THEN Invoked(k.log, ResumedAt(k), TRUE, k.for)
                                 ELSE Invoked(ReduceMerge(<<k.log>>, <<Write(ex.log)>>)[1],
                                              Reinvoked(k), FALSE, k.for)
                     /\ UNCHANGED ex
    /\ UNCHANGED <<persistence, parent, kids, writes, run, faults>>

SaveChild(log, pos, asks) ==
    kids' = IF ~Durable THEN kids
            ELSE [ns \in DOMAIN kids \cup {Here} |->
                    IF ns = Here THEN [log |-> log, pos |-> pos, asks |-> asks, for |-> child.for]
                    ELSE kids[ns]]

ChildNode ==
    /\ child.pc = "run" /\ child.pos < Finished
    /\ LET log == Append1(child.log, IF child.pos = c1 THEN "c1" ELSE "c2")
       IN  /\ child' = [child EXCEPT !.log = log, !.pos = @ + 1]
           /\ SaveChild(log, child.pos + 1, FALSE)
    /\ UNCHANGED <<persistence, parent, writes, ex, run, faults>>

ChildAsks ==
    /\ child.pc = "run" /\ child.pos = c2 /\ ~child.answered
    /\ Asks /\ Durable  \* interrupts require a checkpointer
    /\ SaveChild(child.log, child.pos, TRUE)
    /\ child' = Idle
    /\ ex' = Decided("s", Asking)
    /\ UNCHANGED <<persistence, parent, writes, run, faults>>

\* The child's final values replace the parent's.
ChildReturns ==
    /\ child.pc = "run" /\ child.pos = Finished
    /\ child' = Idle
    /\ ex' = Decided("s", ReplaceValue(child.log))
    /\ UNCHANGED <<persistence, parent, kids, writes, run, faults>>

(***************************************************************************)
(* The end of the parent's superstep.                                      *)
(***************************************************************************)
\* _display_update: a pending write is stored without its wrapper.
Displayed(w) == Write(w.value)

Put(base) ==
    {w \in writes : w.base # base \/ w.task \notin Succeeded}
        \cup {[base |-> base, task |-> t, write |-> Displayed(ex.outs[t])] : t \in Succeeded}

Gather ==
    /\ ex.pc = "run" /\ DOMAIN ex.outs = ToSet(Plan)
    /\ writes' = Put(ex.base)
    /\ ex' = [ex EXCEPT !.pc = "gathered"]
    /\ UNCHANGED <<persistence, parent, kids, child, run, faults>>

\* A pause belongs to the superstep before: its successor is executed again.
PauseStep(step) == step - 1

Pause ==
    /\ ex.pc = "gathered" /\ ex.outs["s"] = Asking
    /\ parent' = [parent EXCEPT !.id = @ + 1, !.log = ex.log, !.step = PauseStep(ex.step),
                                !.next = TRUE, !.asks = TRUE]
    /\ writes' = Put(parent.id + 1)
    /\ ex' = Idle /\ run' = [run EXCEPT !.status = "paused"]
    /\ UNCHANGED <<persistence, kids, child, faults>>

\* Merge in plan order and save; a conditional edge loops or ends.
Commit ==
    /\ ex.pc = "gathered" /\ ex.outs["s"] # Asking
    /\ \E again \in BOOLEAN :
        /\ again => parent.rounds + 1 < MaxRounds
        /\ LET log == ReduceMerge(<<ex.log>>, [i \in DOMAIN Plan |-> ex.outs[Plan[i]]])[1]
           IN  /\ parent' = [id |-> parent.id + 1, log |-> log, step |-> ex.step, next |-> again,
                             asks |-> FALSE, rounds |-> parent.rounds + 1]
               /\ ex' = IF again THEN [pc |-> "run", log |-> log, step |-> ex.step + 1,
                                       base |-> parent.id + 1, outs |-> <<>>, answered |-> FALSE]
                        ELSE Idle
        /\ run' = IF again THEN run ELSE [run EXCEPT !.status = "done"]
    /\ UNCHANGED <<persistence, kids, writes, child, faults>>

Crash ==
    /\ ex # Idle /\ faults < MaxFaults
    /\ faults' = faults + 1
    /\ ex' = Idle /\ child' = Idle
    /\ run' = [run EXCEPT !.status = "pending"]
    /\ UNCHANGED <<persistence, parent, kids, writes>>

SubmitInput ==
    /\ run.status = "done" /\ run.inputs < MaxInputs /\ parent.rounds < MaxRounds
    /\ run' = [kind |-> "input", status |-> "pending", inputs |-> run.inputs + 1]
    /\ UNCHANGED <<persistence, parent, kids, writes, ex, child, faults>>

SubmitResume ==
    /\ run.status = "paused"
    /\ run' = [run EXCEPT !.kind = "resume", !.status = "pending"]
    /\ UNCHANGED <<persistence, parent, kids, writes, ex, child, faults>>

NestedInit ==
    /\ persistence \in Persistences
    /\ parent = NoCheckpoint /\ kids = <<>> /\ writes = {}
    /\ ex = Idle /\ child = Idle /\ faults = 0
    /\ run = [kind |-> "input", status |-> "pending", inputs |-> 1]

Over == run.status = "done" /\ UNCHANGED nestedVars

NestedNext ==
    \/ Start \/ Sibling \/ StartChild \/ ChildNode \/ ChildAsks \/ ChildReturns
    \/ Gather \/ Pause \/ Commit \/ Crash \/ SubmitInput \/ SubmitResume \/ Over

NestedSpec == NestedInit /\ [][NestedNext]_nestedVars
NestedFairSpec == NestedSpec /\ WF_nestedVars(NestedNext)

(***************************************************************************)
(* Properties.                                                             *)
(***************************************************************************)
Occurrences(log, name) == Cardinality({i \in DOMAIN log : log[i] = name})
Times(name) == Occurrences(parent.log, name)

\* Without a crash, and unless a durable child serves a second input.
Undisturbed == faults = 0 /\ (run.inputs = 1 \/ ~Durable)

\* channels.py:21 -- the child already merged the parent's seed value: each superstep adds
\* the child's contributions to the parent's state once, whatever pauses interrupt it.
ChildCountsOnce == Times("c1") = parent.rounds /\ Times("c2") = parent.rounds

\* docs/architecture.md:38 -- fields with a reducer merge the updates of all tasks of a
\* superstep in plan order: none of them is lost.
SiblingIsKept == Times("x") = parent.rounds

\* What each superstep contributes is in the parent's state once, when nothing disturbs it.
\* Both parts fail after a crash, and SiblingIsKept fails when x is planned before s.
RoundsCountOnce == Undisturbed => ChildCountsOnce /\ SiblingIsKept

\* executor.py:2081 -- a child thread serves one activation: stable across the replays of
\* a superstep, fresh when a loop re-enters the node.
FreshActivation == child # Idle => child.for = parent.rounds

\* A paused parent finds the child's pending question in the namespace it will look into.
PauseHasItsQuestion ==
    run.status = "paused" =>
        LET ns == Activation(parent.step + 1)
        IN  parent.asks /\ ns \in DOMAIN kids /\ kids[ns].asks

\* Through pauses, loops and crashes of one run, a child works for the superstep that
\* called it, and the question a client is asked is the one its answer will reach.
ChildMeetsItsParent == (run.inputs = 1 => FreshActivation) /\ PauseHasItsQuestion

\* A child that paused goes on from its pause: what it did before is not done again.
PausedChildGoesOn ==
    [][\A ns \in DOMAIN kids : kids[ns].asks /\ kids'[ns] # kids[ns] => kids'[ns].pos = Finished]_nestedVars

(***************************************************************************)
(* The inductive invariant behind the last two.                            *)
(***************************************************************************)
\* Deliveries and children as they are created; what the channels hold is left open.
NestedTypes ==
    /\ persistence \in Persistences
    /\ DOMAIN parent = DOMAIN NoCheckpoint
    /\ parent.step \in Int /\ parent.rounds \in Nat /\ parent.asks \in BOOLEAN
    /\ run \in [kind : {"input", "resume"}, status : {"pending", "running", "paused", "done"},
                inputs : Nat \ {0}]
    /\ ex # Idle =>
         /\ DOMAIN ex = {"pc", "log", "step", "base", "outs", "answered"}
         /\ ex.pc \in {"run", "gathered"} /\ ex.step \in Int
    /\ child # Idle =>
         /\ DOMAIN child = {"pc", "log", "pos", "answered", "for"}
         /\ child.pc = "run" /\ child.pos \in c1..Finished
    /\ \A ns \in DOMAIN kids : kids[ns].pos \in c1..Finished

\* Who is at work: a delivery of a running run, and a child the delivery waits for.
CallsNest ==
    /\ ex # Idle => run.status = "running" /\ (ex.pc = "gathered" => "s" \in DOMAIN ex.outs)
    /\ child # Idle => ex # Idle /\ ex.pc = "run" /\ "s" \notin DOMAIN ex.outs

\* A question is asked by c2, stands in the namespace the delivery looks into until it is
\* answered, and is never among the results that are stored.
QuestionsStand ==
    /\ ~Durable => DOMAIN kids = {}
    /\ \A ns \in DOMAIN kids : kids[ns].asks => kids[ns].pos = c2
    /\ child # Idle /\ Here \in DOMAIN kids /\ kids[Here].asks => child.answered /\ child.pos = c2
    /\ \A w \in writes : w.write # Asking
    /\ ex # Idle /\ "s" \in DOMAIN ex.outs /\ ex.outs["s"] = Asking =>
          Here \in DOMAIN kids /\ kids[Here].asks

\* Only a run that resumes, or that is paused, finds a pause.
PausesAreResumed ==
    /\ parent.asks => parent.next /\ run.status # "done" /\ (run.kind = "resume" \/ run.status = "paused")
    /\ PauseHasItsQuestion

\* During the first run the superstep, the namespace and the child say the same number.
RoundsAreNumbered ==
    run.inputs = 1 =>
        /\ parent.step + 1 = parent.rounds
        /\ ex # Idle => ex.step = parent.rounds
        /\ run.status \in {"pending", "running"} /\ run.kind = "input" /\ ~parent.next =>
              parent.rounds = 0
        /\ \A ns \in DOMAIN kids : ns = Activation(kids[ns].for)
        /\ child # Idle /\ persistence # "thread" => child.for = parent.rounds

NestedInv == NestedTypes /\ CallsNest /\ QuestionsStand /\ PausesAreResumed /\ RoundsAreNumbered

(***************************************************************************)
(* The inductive invariant behind the first: what every log holds, that of *)
(* a child at its position included.                                       *)
(***************************************************************************)
Entries == {INPUT, "c1", "c2", "x"}
Holds(log, rounds, pos) ==
    /\ log \in Seq(Entries) /\ Occurrences(log, "x") = rounds
    /\ Occurrences(log, "c1") = IF pos > c1 THEN rounds + 1 ELSE rounds
    /\ Occurrences(log, "c2") = IF pos > c2 THEN rounds + 1 ELSE rounds

\* What a delivery is about to merge.
OutputsHold ==
    /\ Holds(ex.log, parent.rounds, c1) /\ DOMAIN ex.outs \subseteq {"s", "x"}
    /\ ex.pc = "gathered" => DOMAIN ex.outs = {"s", "x"}
    /\ "x" \in DOMAIN ex.outs => ex.outs["x"] = Write(<<"x">>)
    /\ "s" \in DOMAIN ex.outs /\ ex.outs["s"] # Asking =>
          LET log == ex.outs["s"].value
          IN  ex.outs["s"] = ReplaceValue(log) /\ Holds(log, parent.rounds, Finished)

\* A child is new to its superstep, or its superstep waits for it or for its answer.
KidsHold ==
    \A ns \in DOMAIN kids :
        /\ kids[ns].for \in 0..parent.rounds
        /\ kids[ns].asks => Holds(kids[ns].log, kids[ns].for, kids[ns].pos)
        /\ kids[ns].for = parent.rounds =>
              kids[ns].asks \/ child # Idle \/ (ex # Idle /\ "s" \in DOMAIN ex.outs)

\* A delivery starts with results of x alone.
WritesHold ==
    ex = Idle \/ ex.pc = "run" =>
        \A w \in writes : w.base = parent.id => w.task = "x" /\ w.write = Write(<<"x">>)

BasesAreKept ==
    /\ faults \in Nat /\ parent.id \in Nat /\ (ex # Idle => ex.base = parent.id)
    /\ \A w \in writes : w.base \in 0..parent.id

LogsHold ==
    Undisturbed =>
        /\ Holds(parent.log, parent.rounds, c1) /\ (ex # Idle => OutputsHold)
        /\ child # Idle => Holds(child.log, parent.rounds, child.pos)
        /\ KidsHold /\ WritesHold

==============================================================================
