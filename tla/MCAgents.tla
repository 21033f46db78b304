------------------------------ MODULE MCAgents ------------------------------
(***************************************************************************)
(* Instances for TLC of an agent and of what keeps its state: the loop of  *)
(* model and tools (AgentLoop), the request each model call is sent        *)
(* (ModelHistory), the channels (ChannelHistory), the three savers against *)
(* the store they implement (Savers, CheckpointStore), and the runs, forks *)
(* and deletions that share one thread (ThreadState).  A behaviour follows *)
(* one of them.                                                            *)
(***************************************************************************)
EXTENDS AgentLoop, Savers, ThreadState

CONSTANTS
    look, write, risky, ghost, c1, c2,
    HumanSizes, AnswerSizes, ResultSizes, SummarySizes, StableTokens, Limit, SoftLimit,
    MaxOutput, KeepBlocks, SummaryMax, MaxResult, Cumulative, KeepResults, MaxLength,
    Stray, MaxSteps, MaxUpdates

VARIABLES part, conversation, state, past, refused

\* A tool that only reads, one that writes, one that needs approval, and a name
\* that is no tool.
AllTools == {look, write, risky}
LookOnly == {look}
Edits == {<<>>, <<write>>, <<risky, look>>}

\* A human is asked, calls of all kinds share a message, a response is structured.
Supervised ==
    [approvals |-> {risky}, modelCalls |-> 0, toolCalls |-> 0, recursion |-> 5,
     structured |-> TRUE, deliveries |-> 2, supersteps |-> 4,
     threaded |-> {risky},
     replies |-> {<<>>, <<write>>, <<risky>>, <<risky, look>>, <<look, risky>>, <<write, ghost, look>>}]
\* Effects of repeated deliveries, batches beside writes, twins in a message.
Autonomous ==
    [approvals |-> {}, modelCalls |-> 0, toolCalls |-> 0, recursion |-> 12,
     structured |-> FALSE, deliveries |-> 2, supersteps |-> 3,
     threaded |-> {write},
     replies |-> {<<>>, <<write>>, <<look, look>>, <<risky>>, <<look, write, look>>, <<write, write>>}]
\* Budgets.
Frugal ==
    [approvals |-> {}, modelCalls |-> 4, toolCalls |-> 4, recursion |-> 6,
     structured |-> TRUE, deliveries |-> 2, supersteps |-> 6,
     threaded |-> {},
     replies |-> {<<>>, <<look, look, look>>, <<look, look, write>>, <<ghost>>}]
AllAgents == {Supervised, Autonomous, Frugal}

\* Malformed and repeated calls included.
CallSets == {<<>>, <<c1>>, <<c1, c2>>, <<c1, c1>>, <<NoId>>}
CallIds == {c1, c2}
Requests == INSTANCE ModelHistory WITH messages <- conversation

\* One field of every kind; "sum" and "all" carry several annotations.
Schema == [plain |-> <<>>, sum |-> <<"reduce">>, seen |-> <<"topic">>,
           all |-> <<"reduce", "topic_accumulated">>, once |-> <<"once", "topic">>]
Fields == INSTANCE ChannelHistory
fieldVars == <<state, past, refused>>

\* Batches of pending writes that overlap in a key.
AllBatches == {{[task |-> "a", index |-> 1, value |-> "x"]},
               {[task |-> "a", index |-> 1, value |-> "a2"], [task |-> "b", index |-> 0, value |-> "b1"]}}
Shared == [p \in Clients |-> IF p = "run" THEN Namespaces ELSE {"main"}]
Apart == [p \in Clients |-> IF p = "run" THEN {"main"} ELSE {"sub"}]
Alone == [p \in Clients |-> IF p = "run" THEN Namespaces ELSE {}]
SqliteStore   == [saver |-> "sqlite", namespaces |-> Shared, deleters |-> {"api"}, resend |-> TRUE]
MemoryStore   == [saver |-> "memory", namespaces |-> Shared, deleters |-> {"api"}, resend |-> FALSE]
PostgresApart == [saver |-> "postgres", namespaces |-> Apart, deleters |-> {}, resend |-> TRUE]
PostgresAlone == [saver |-> "postgres", namespaces |-> Alone, deleters |-> {"run"}, resend |-> TRUE]
AllStores == {SqliteStore, MemoryStore, PostgresApart, PostgresAlone}
ASSUME StoresAssumption == StoresAreApart /\ BatchesAreKeyed

\* Leases that lapse under three runs, a fork and a deletion, a fork beside zombies.
Calm    == [runs |-> 3, forks |-> 0, lapses |-> 2, zombies |-> FALSE, deletion |-> FALSE]
Forked  == [runs |-> 2, forks |-> 1, lapses |-> 1, zombies |-> FALSE, deletion |-> TRUE]
Stalled == [runs |-> 2, forks |-> 1, lapses |-> 1, zombies |-> TRUE, deletion |-> FALSE]
AllThreads == {Calm, Forked, Stalled}
ASSUME ThreadsAssumption == RunsHaveSteps

AgentsInit ==
    /\ Init /\ Requests!Init /\ Fields!Init /\ SaversInit /\ ThreadInit
    /\ part \in {"loop", "history", "channels", "store", "thread"}
    /\ part # "loop" => setup = Supervised
    /\ part # "store" => store = SqliteStore
    /\ part # "thread" => life = Calm

AgentsNext ==
    \/ part = "loop" /\ Next /\ UNCHANGED <<part, conversation, fieldVars, saversVars, threadVars>>
    \/ part = "history" /\ Requests!Next /\ UNCHANGED <<part, vars, fieldVars, saversVars, threadVars>>
    \/ part = "channels" /\ Fields!Next
            /\ UNCHANGED <<part, vars, conversation, saversVars, threadVars>>
    \/ part = "store" /\ SaversNext /\ UNCHANGED <<part, vars, conversation, fieldVars, threadVars>>
    \/ part = "thread" /\ ThreadNext /\ UNCHANGED <<part, vars, conversation, fieldVars, saversVars>>

AgentsSpec ==
    /\ AgentsInit
    /\ [][AgentsNext]_<<part, vars, conversation, fieldVars, saversVars, threadVars>>
    /\ Fairness

\* The request is in order and bounded (ModelHistory).
RequestIsSound == Requests!RequestIsLegal /\ Requests!RequestIsBounded

\* Each channel holds what its history says (ChannelHistory).
ChannelsAreHistory == Fields!ChannelsAreHistory

\* The loop ends (AgentLoop).
LoopEnds == part = "loop" => AgentEnds
==============================================================================
