----------------------------- MODULE MCSuperstep -----------------------------
\* Small graphs for Superstep, and the modes they are executed in.
EXTENDS Superstep

Graph(nodes, edges, entry) ==
    [nodes |-> nodes, edges |-> edges, entry |-> entry,
     routes |-> [n \in {"START"} \cup ToSet(nodes) |-> {}],
     gotos |-> [n \in ToSet(nodes) |-> {{}}], asks |-> [n \in ToSet(nodes) |-> 0],
     deferred |-> {}, before |-> {}, after |-> {}, forks |-> FALSE, durability |-> "sync",
     limit |-> 4, attempts |-> 2, runs |-> 3, inputs |-> 1, faults |-> 2]
Edge(from, to) == [from |-> from, to |-> to, any |-> FALSE]
AnyEdge(from, to) == [Edge(from, to) EXCEPT !.any = TRUE]

\* a and b in parallel; j waits for a and, a superstep later, for c; either of them schedules
\* the deferred d; b asks.
FanIn == [Graph(<<"a", "b", "c", "j", "d">>,
                {Edge({"b"}, "c"), Edge({"a", "c"}, "j"), AnyEdge({"a", "c"}, "d")}, {"a", "b"})
            EXCEPT !.deferred = {"d"}]
FanInAsks == [FanIn EXCEPT !.asks["b"] = 1, !.attempts = 3, !.faults = 3]

\* the same under EXIT, with two inputs and nobody to ask
FanInExit == [FanIn EXCEPT !.durability = "exit", !.inputs = 2]

\* a map step: p sends w twice, or goes to c, which asks p to start over or ends; static
\* interrupts before c and after w.
Loop == [Graph(<<"p", "w", "c">>, {Edge({"w"}, "c")}, {})
            EXCEPT !.routes["START"] = {[names |-> {"p"}, sends |-> <<>>]},
                   !.routes["p"] = {[names |-> {}, sends |-> <<"w", "w">>],
                                    [names |-> {"c"}, sends |-> <<>>]},
                   !.gotos["c"] = {{}, {"p"}}, !.before = {"c"}, !.after = {"w"},
                   !.durability = "async"]

\* two nodes in a row, both of which ask; clients edit the thread
Chain == [Graph(<<"a", "b">>, {Edge({"a"}, "b")}, {"a"}) EXCEPT !.asks = [n \in {"a", "b"} |-> 1]]
ChainForks == [Chain EXCEPT !.forks = TRUE]
EverySetup == {FanInAsks, FanInExit, Loop, ChainForks}
JustChain == {Chain}
==============================================================================
