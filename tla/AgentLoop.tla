------------------------------ MODULE AgentLoop ------------------------------
(***************************************************************************)
(* The agent of create_agent: a model, an optional approval step, the tool *)
(* node with its batches of read-only calls, structured output, the        *)
(* budgets of a delivery, and crashes after which the delivery is repeated *)
(* from the last checkpoint (one per superstep).                           *)
(***************************************************************************)
EXTENDS ToolBlocks, Ordering, Integers

CONSTANTS
    Tools, ReadOnly,  \* tool names; those that only read
    Unknown,          \* a name the model may call that is no tool
    EditedCalls,      \* sequences of tool names a human may put in their place
    BatchWidth,       \* min(read_only_batch_size, read_only_concurrency)
    StructuredRetries,
    Agents            \* the agents to consider: see setup

ASSUME ToolsAreDistinct == Unknown \notin Tools /\ ReadOnly \subseteq Tools

Names == Tools \cup {Unknown}

ASSUME AgentsAreSound ==
    /\ EditedCalls \subseteq Seq(Names)
    /\ \A a \in Agents : a.replies \subseteq Seq(Names) /\ a.toolCalls \in Nat /\ a.recursion \in Nat

VARIABLES
    setup,      \* what the agent was created with, one of Agents; fixed
    messages,   \* the messages channel, as checkpointed
    node,       \* the node planned next; "end"; "failed"
    saved,      \* supersteps committed: names the checkpoint the next one runs on
    steps,      \* supersteps executed in this delivery
    used,       \* this delivery's ExecutionBudget
    running,    \* calls that run in this delivery, of failed batches too
    outlived,   \* plain functions whose timeout passed, still in their threads, with their keys
    done,       \* how many calls the tool node in progress has answered
    attempts,   \* structured responses asked for in the node in progress
    failure,    \* why the run failed
    effects,    \* the key and tool of every effect a service performed
    accepted,   \* (history) calls a human accepted or wrote
    rejected,   \* (history) calls a human rejected
    ran,        \* (history) calls whose function was started
    served,     \* (history) calls whose function returned
    took,       \* (history) calls that performed an effect of their own
    spent,      \* (history) tool calls consumed by all deliveries of the run
    deliveries  \* (history) deliveries of the run

vars == <<setup, messages, node, saved, steps, used, running, outlived, done, attempts, failure,
          effects, accepted, rejected, ran, served, took, spent, deliveries>>
toolVars == <<running, outlived, done, effects, ran, served, took>>
humanVars == <<accepted, rejected>>

Approvals == setup.approvals            \* tools a human accepts first
Replies == setup.replies                \* sequences of tool names the model may answer with
MaxModelCalls == setup.modelCalls       \* budgets of a delivery; 0: none
MaxToolCalls == setup.toolCalls
RecursionLimit == setup.recursion
Structured == setup.structured          \* a response_format was given
Threaded == setup.threaded              \* tools that are plain functions with a timeout
MaxDeliveries == setup.deliveries       \* bound on crashes
MaxSupersteps == setup.supersteps       \* bound on the supersteps with calls for tools

Message(kind, calls, call) == [kind |-> kind, calls |-> calls, call |-> call]
LastMessage == messages[Len(messages)]
Calls == LastMessage.calls
Named(names) == [k \in DOMAIN names |-> [at |-> saved, pos |-> k, tool |-> names[k]]]

NothingUsed == [model |-> 0, tool |-> 0]

Fresh ==
    /\ steps' = 0 /\ used' = NothingUsed /\ done' = 0 /\ attempts' = 0
    /\ running' = {} /\ outlived' = {}

Init ==
    /\ setup \in Agents
    /\ messages = <<Message("human", <<>>, NoId)>>
    /\ node = "agent" /\ saved = 0 /\ steps = 0
    /\ used = NothingUsed
    /\ running = {} /\ outlived = {} /\ done = 0 /\ attempts = 0 /\ failure = "none"
    /\ effects = {} /\ accepted = {} /\ rejected = {} /\ ran = {} /\ served = {} /\ took = {} /\ spent = 0 /\ deliveries = 1

-----------------------------------------------------------------------------

\* A superstep starts only while the recursion limit is not reached.
Runs(name) == node = name /\ steps < RecursionLimit

Commit(next) == node' = next /\ saved' = saved + 1 /\ steps' = steps + 1
Fail(why) == node' = "failed" /\ failure' = why /\ UNCHANGED <<messages, saved, steps, attempts>>

RecursionError ==
    /\ node \in {"agent", "approve", "tools", "structured"}
    /\ steps >= RecursionLimit
    /\ Fail("recursion")
    /\ UNCHANGED <<used, toolVars, humanVars, spent, deliveries>>

ModelBudgetLeft == MaxModelCalls = 0 \/ used.model < MaxModelCalls

Final == IF Structured THEN "structured" ELSE "end"

AfterAgent(calls) ==
    IF calls = <<>> THEN Final ELSE IF Approvals # {} THEN "approve" ELSE "tools"

\* In the last step that remains a request for tools is replaced by a text.
Answerable(names) == IF RecursionLimit - steps < 2 THEN <<>> ELSE names

CallModel ==
    /\ Runs("agent")
    /\ ModelBudgetLeft
    /\ \E names \in Replies :
          /\ names # <<>> => saved < MaxSupersteps
          /\ LET calls == Named(Answerable(names))
             IN /\ messages' = Append(messages, Message("ai", calls, NoId))
                /\ Commit(AfterAgent(calls))
    /\ used' = [used EXCEPT !.model = @ + 1]
    /\ UNCHANGED <<toolVars, attempts, failure, humanVars, spent, deliveries>>

ModelBudgetExceeded ==
    /\ Runs("agent") \/ Runs("structured")
    /\ ~ModelBudgetLeft
    /\ Fail("budget")
    /\ UNCHANGED <<used, toolVars, humanVars, spent, deliveries>>

-----------------------------------------------------------------------------

\* Those of a message's calls that a human accepts first, in call order.
InNeed(calls) ==
    LET order == InOrder({k \in DOMAIN calls : calls[k].tool \in Approvals})
    IN [i \in DOMAIN order |-> calls[order[i]]]

Selected == InNeed(Calls)

ApproveNothing ==
    /\ Runs("approve") /\ Selected = <<>>
    /\ Commit("tools")
    /\ UNCHANGED <<messages, used, toolVars, attempts, failure, humanVars, spent, deliveries>>

\* interrupt() pauses the run; the answer starts a delivery of its own, with
\* budgets and steps of its own, which runs the node again to its end.
Answered ==
    /\ Runs("approve") /\ Selected # <<>>
    /\ saved' = saved + 1 /\ steps' = 1
    /\ used' = NothingUsed /\ spent' = 0
    /\ UNCHANGED <<toolVars, attempts, failure, deliveries>>

Approve ==
    /\ Answered
    /\ accepted' = accepted \cup Range(Calls)
    /\ node' = "tools"
    /\ UNCHANGED <<messages, rejected>>

\* Only the calls that needed approval are answered.
Reject ==
    /\ Answered
    /\ messages' = messages \o [k \in DOMAIN Selected |-> Message("tool", <<>>, Selected[k])]
    /\ rejected' = rejected \cup Range(Selected)
    /\ node' = "agent"
    /\ UNCHANGED accepted

\* The message is replaced, calls that needed no approval included.  The ids the
\* human writes may be empty or doubled; the loop answers calls by their places,
\* and what is sent of such ids is ModelHistory's.
Edit ==
    /\ Answered
    /\ \E names \in EditedCalls :
          LET calls == Named(names)
          IN /\ messages' = [messages EXCEPT ![Len(messages)] = Message("ai", calls, NoId)]
             /\ accepted' = accepted \cup Range(calls)
             /\ node' = IF calls = <<>> THEN "agent" ELSE "tools"
    /\ UNCHANGED rejected

\* An answer that is none of these fails the run.
Misanswer ==
    /\ Runs("approve") /\ Selected # <<>>
    /\ Fail("answer")
    /\ used' = NothingUsed /\ spent' = 0
    /\ UNCHANGED <<toolVars, humanVars, deliveries>>

-----------------------------------------------------------------------------
(* The tool node: groups of consecutive read-only calls, cut to the batch    *)
(* width, side by side; every other call alone.                              *)
Position == done + 1

\* Mutant: whatever stands next to a read-only call runs beside it.
GroupOfAny ==
    IF Calls[Position].tool \notin ReadOnly THEN {Position}
    ELSE {k \in Position..Len(Calls) : k < Position + BatchWidth}

Group ==
    IF Calls[Position].tool \notin ReadOnly THEN {Position}
    ELSE {k \in Position..Len(Calls) :
             /\ k < Position + BatchWidth
             /\ \A j \in Position..k : Calls[j].tool \in ReadOnly}

Real(group) == {k \in group : Calls[k].tool \in Tools}

\* Each call of a group consumes before it runs; the first one that finds the
\* budget exhausted raises, which the gathered calls before it survive.
Affordable(group) ==
    {k \in Real(group) :
        MaxToolCalls = 0 \/ used.tool + Cardinality({j \in Real(group) : j <= k}) <= MaxToolCalls}

\* Mutant: a call for an unknown tool gets no answer.
AnsweredNever(started) == 0

\* A call for an unknown tool is answered at once, and consumes nothing.
AnsweredAtOnce(started) == IF started = {} THEN 1 ELSE 0

StartGroup ==
    /\ Runs("tools") /\ running = {} /\ Position <= Len(Calls)
    /\ LET started == Affordable(Group)
           overdrawn == started # Real(Group)
       IN /\ running' = {Calls[k] : k \in started}
          /\ ran' = ran \cup {Calls[k] : k \in started}
          /\ used' = [used EXCEPT !.tool = @ + Cardinality(started)]
          /\ spent' = spent + Cardinality(started)
          /\ IF overdrawn
             THEN Fail("budget") /\ UNCHANGED done
             ELSE /\ done' = done + AnsweredAtOnce(started)
                  /\ UNCHANGED <<messages, node, saved, steps, attempts, failure>>
    /\ UNCHANGED <<outlived, effects, served, took, humanVars, deliveries>>

\* Mutant: the key does not name the checkpoint the step runs on.
KeyOfTool(c) == [at |-> 0, tool |-> c.tool]

\* runtime.idempotency_key is the task's: one for all calls of the message.
KeyOf(c) == [at |-> saved, tool |-> c.tool]

\* A tool that writes asks its service with the key; one that was served
\* before is answered without another effect.
Performs(c, key) ==
    /\ served' = served \cup {c}
    /\ IF c.tool \in ReadOnly \/ key \in effects
       THEN UNCHANGED <<effects, took>>
       ELSE effects' = effects \cup {key} /\ took' = took \cup {c}

\* The tool node has an answer.  Calls that run side by side may end in any order.
Returned(c) ==
    /\ running' = running \ {c}
    /\ done' = IF node = "tools" /\ running = {c} THEN done + Cardinality(Group) ELSE done
    /\ UNCHANGED <<messages, node, saved, steps, used, attempts, failure, ran, humanVars, spent, deliveries>>

FinishCall(c) == Returned(c) /\ Performs(c, KeyOf(c)) /\ UNCHANGED outlived

\* A call that raises is answered with its error.
FailCall(c) == Returned(c) /\ UNCHANGED <<outlived, effects, served, took>>

\* So is one whose timeout passes; but a plain function goes on in its thread.
TimeOut(c) ==
    /\ c.tool \in Threaded
    /\ Returned(c)
    /\ outlived' = outlived \cup {[call |-> c, key |-> KeyOf(c)]}
    /\ UNCHANGED <<effects, served, took>>

\* It ends some time, or raises, unless the process dies first; nobody is told.
EndOutlived(b) ==
    /\ outlived' = outlived \ {b}
    /\ Performs(b.call, b.key) \/ UNCHANGED <<effects, served, took>>
    /\ UNCHANGED <<messages, node, saved, steps, used, running, done, attempts, failure, ran, humanVars,
                   spent, deliveries>>

ReturnResults ==
    /\ Runs("tools") /\ done = Len(Calls)
    /\ messages' = messages \o [k \in DOMAIN Calls |-> Message("tool", <<>>, Calls[k])]
    /\ done' = 0
    /\ Commit("agent")
    /\ UNCHANGED <<used, running, outlived, effects, ran, served, took, attempts, failure, humanVars, spent,
                   deliveries>>

-----------------------------------------------------------------------------
\* One structured response; an invalid one is asked for again, then raised.
StructuredResponse(valid) ==
    /\ Runs("structured") /\ ModelBudgetLeft
    /\ used' = [used EXCEPT !.model = @ + 1]
    /\ IF valid
       THEN Commit("end") /\ attempts' = 0 /\ UNCHANGED <<messages, failure>>
       ELSE IF attempts >= StructuredRetries THEN Fail("invalid")
            ELSE attempts' = attempts + 1 /\ UNCHANGED <<messages, node, saved, steps, failure>>
    /\ UNCHANGED <<toolVars, humanVars, spent, deliveries>>

\* The process dies; the run is delivered again from its last checkpoint.
Crash ==
    /\ deliveries < MaxDeliveries /\ node \notin {"end", "failed"}
    /\ deliveries' = deliveries + 1
    /\ Fresh
    /\ UNCHANGED <<messages, node, saved, failure, effects, humanVars, ran, served, took, spent>>

Over == node \in {"end", "failed"} /\ running = {} /\ UNCHANGED vars

Step ==
    \/ CallModel \/ ModelBudgetExceeded \/ RecursionError
    \/ ApproveNothing \/ Approve \/ Reject \/ Edit \/ Misanswer
    \/ StartGroup \/ ReturnResults
    \/ \E c \in running : FinishCall(c) \/ FailCall(c) \/ TimeOut(c)
    \/ \E b \in outlived : EndOutlived(b)
    \/ \E valid \in BOOLEAN : StructuredResponse(valid)
    \/ Crash

Next == (Step /\ UNCHANGED setup) \/ Over

Spec == Init /\ [][Next]_vars

\* The event loop and the tools go on; the human may never answer.
Fairness ==
    WF_vars(UNCHANGED setup /\
        (\/ CallModel \/ ModelBudgetExceeded \/ RecursionError \/ ApproveNothing
         \/ StartGroup \/ ReturnResults
         \/ \E c \in running : FinishCall(c) \/ FailCall(c) \/ TimeOut(c)
         \/ \E valid \in BOOLEAN : StructuredResponse(valid)))
FairSpec == Spec /\ Fairness
-----------------------------------------------------------------------------
TypeOK ==
    /\ node \in {"agent", "approve", "tools", "structured", "end", "failed"}
    /\ failure \in {"none", "recursion", "budget", "invalid", "answer"}
    /\ steps \in 0..RecursionLimit /\ done <= Len(Calls)
    /\ running \cup served \subseteq ran /\ took \subseteq served

\* A tool that needs approval runs only in a call that a human accepted or
\* wrote (interrupt_on, requires_approval), whatever stands beside it in the
\* message and however often the delivery is repeated.
OnlyAcceptedCallsRun == \A c \in ran : c.tool \in Approvals => c \in accepted

Outlived == {b.call : b \in outlived}

\* A call that is not read-only has the run to itself (ToolNode.__call__): what
\* executes beside it is a function whose timeout passed, or it is one itself.
WritesRunAlone ==
    \A c, d \in running \cup Outlived :
        c.tool \notin ReadOnly /\ c # d => c \in Outlived \/ d \in Outlived

\* No delivery makes more tool calls than its budget says; a run that is
\* delivered again starts with a new budget.
WithinBudget ==
    MaxToolCalls > 0 => used.tool <= MaxToolCalls /\ spent <= deliveries * MaxToolCalls

\* Whatever is asked for in one message, what runs was accepted, has the run to
\* itself when it writes (but for functions that outlive their timeout), and is
\* within the budget.
CallsRunAsAllowed == OnlyAcceptedCallsRun /\ WritesRunAlone /\ WithinBudget

Twin(c) == CHOOSE d \in took : d.at = c.at /\ d.tool = c.tool
HasTwin(c) == \E d \in took : d.at = c.at /\ d.tool = c.tool

\* A step that is repeated repeats no effect, and a call that returned had an
\* effect of its own, unless a call of the same message for the same tool had it:
\* the key of the task tells calls of different supersteps apart (tools.py), also
\* those that end long after their step.
EveryCallTakesEffect ==
    /\ \A c \in served : c.tool \notin ReadOnly => HasTwin(c)
    /\ \A c \in took : c = Twin(c)

Answers(i) == {j \in BlockOf(messages, i) : j > i}
AnswerTo(i, calls) == Cardinality(Answers(i)) = Len(calls)
                      /\ \A k \in DOMAIN calls : messages[i + k].call = calls[k]

\* When the model is asked again every call of the history has its result, in call order.
\* Where a human rejected those that needed approval, these have theirs, and the calls
\* that stood beside them have none.
EveryCallIsAnswered ==
    node = "agent" =>
        \A i \in DOMAIN messages : IsCall(messages[i]) =>
            LET calls == messages[i].calls  need == InNeed(calls)
            IN \/ AnswerTo(i, calls)
               \/ need # <<>> /\ Range(need) \subseteq rejected /\ AnswerTo(i, need)

\* The two above: what was called is done once and answered.
EveryCallIsServed == EveryCallTakesEffect /\ EveryCallIsAnswered

\* The run ends, unless it waits for a human.
AgentEnds == <>(node \in {"end", "failed"} \/ node = "approve")

-----------------------------------------------------------------------------
(* Statements of the documents that this code does not keep.                *)

\* Every call that was served had an effect of its own.
EveryCallHasItsEffect == \A c \in served : c.tool \notin ReadOnly => c \in took

\* The history that is sent is one a provider accepts.
HistoryIsLegal == node = "agent" => Legal(messages)

\* No run makes more tool calls than its budget says.
RunWithinBudget == MaxToolCalls > 0 => spent <= MaxToolCalls

\* The agent answers within the recursion limit.
StopsInTime == failure # "recursion"
=============================================================================
