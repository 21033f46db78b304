------------------------------- MODULE MCNodes -------------------------------
(***************************************************************************)
(* Instances for TLC of what a node of a graph may be: NodeCalls, the call *)
(* of any node, Subgraph, a node that is a compiled graph, CozeNodes, a    *)
(* node that hands the turn to Coze, and Teams, agents that are nodes of a *)
(* multi-agent graph.  A behaviour follows one of them.                    *)
(***************************************************************************)
EXTENDS NodeCalls, Subgraph, CozeNodes, Teams

VARIABLES part

\* Two nodes, one of them with two tasks, and two tasks with one argument.
AllTasks == {"a1", "a2", "b1"}
NodeOfTask == [t \in AllTasks |-> IF t = "b1" THEN "b" ELSE "a"]
ArgOfTask == [t \in AllTasks |-> IF t = "a2" THEN "y" ELSE "x"]
ChildFirst == <<"s", "x">>
SiblingFirst == <<"x", "s">>

\* Bots that run tools, in streams and by polling, to the end of their rounds; one
\* that asks first; one whose calls the graph runs; a model; a workflow.
Bot(kind, stream, tools, hitl, asks, turns, losses, cancels) ==
    [kind |-> kind, stream |-> stream, tools |-> tools, hitl |-> hitl, asks |-> asks,
     turns |-> turns, drops |-> losses, cancels |-> cancels, keyed |-> TRUE, ids |-> TRUE]
Streaming == Bot("agent", TRUE, TRUE, FALSE, {0, 1, 2}, 2, 2, TRUE)
Polling   == Bot("agent", FALSE, TRUE, FALSE, {0, 2, 3}, 2, 2, TRUE)
Reviewed  == Bot("agent", TRUE, TRUE, TRUE, {0, 2}, 2, 2, TRUE)
Relayed   == Bot("agent", TRUE, FALSE, FALSE, {0, 1}, 2, 1, FALSE)
Model     == Bot("model", TRUE, FALSE, FALSE, {0, 2}, 3, 1, TRUE)
Workflow  == Bot("workflow", TRUE, FALSE, FALSE, {0, 1}, 2, 2, TRUE)

\* The same at a Coze that ignores the key, and at one whose events have no ids.
Unkeyed(b) == [b EXCEPT !.keyed = FALSE]
Unnumbered(b) == [b EXCEPT !.ids = FALSE, !.cancels = FALSE]
AllBots ==
    {Streaming, Polling, Reviewed, Relayed, Model, Workflow}
    \cup {Unkeyed(b) : b \in {Streaming, Polling, Model, Workflow}}
    \cup {Unnumbered(b) : b \in {Streaming, Reviewed, Model, Workflow}}
ASSUME BotsAssumption == BotsAreSound

Graph(pattern, agents, strategy, turns, limit, times) ==
    [pattern |-> pattern, agents |-> agents, strategy |-> strategy, turns |-> turns,
     limit |-> limit, inputs |-> times]
Three == <<"a", "b", "c">>
AllPatterns ==
    {Graph("group", Three, "round_robin", 5, 12, 3), Graph("group", Three, "selector", 3, 12, 3),
     Graph("swarm", Three, "none", 0, 4, 3), Graph("handoff", Three, "none", 0, 4, 2),
     Graph("supervisor", Three, "none", 0, 5, 2), Graph("plan", <<>>, "none", 0, 6, 2),
     Graph("review", Three, "none", 0, 6, 2)}
ASSUME PatternsAssumption == PatternsAreSound

NodesInit ==
    /\ Init /\ NestedInit /\ CozeInit /\ TeamInit
    /\ part \in {"calls", "subgraph", "coze", "team"}
    /\ part # "subgraph" => persistence = "invocation"
    /\ part # "coze" => bot = Model
    /\ part # "team" => team.pattern = "plan"

NodesNext ==
    \/ part = "calls" /\ Next /\ UNCHANGED <<part, nestedVars, cozeVars, teamVars>>
    \/ part = "subgraph" /\ NestedNext /\ UNCHANGED <<part, vars, cozeVars, teamVars>>
    \/ part = "coze" /\ CozeNext /\ UNCHANGED <<part, vars, nestedVars, teamVars>>
    \/ part = "team" /\ TeamNext /\ UNCHANGED <<part, vars, nestedVars, cozeVars>>

NodesSpec ==
    /\ NodesInit
    /\ [][NodesNext]_<<part, vars, nestedVars, cozeVars, teamVars>>
    /\ Fairness

\* With a timeout every superstep of calls comes to its end (NodeCalls).
EveryStepEnds == part = "calls" => []<>AllOver
==============================================================================
