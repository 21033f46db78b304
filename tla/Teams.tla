--------------------------------- MODULE Teams ---------------------------------
(***************************************************************************)
(* The multi-agent topologies: which agent speaks next, over several       *)
(* inputs to one thread, when an agent may fail or the recursion limit be  *)
(* reached and the next input finds the nodes still planned.               *)
(***************************************************************************)
EXTENDS Naturals, Sequences, FiniteSets

CONSTANT Patterns  \* the graphs to consider: see team

VARIABLES
    team,    \* [pattern, agents, strategy, turns, limit, inputs]; fixed
    state,   \* the keys active_agent and turn of the thread's state
    planned, \* the nodes planned next
    steps,   \* supersteps of this delivery
    failed,  \* the run failed: what was planned stays planned
    inputs,  \* inputs so far
    said,    \* (history) who ran on this input, in order
    owner,   \* (history) the agent the conversation was handed to last
    began    \* (history) this input set the keys anew and entered the graph, went on,
             \* or set them anew beneath the nodes a failed run had planned

teamVars == <<team, state, planned, steps, failed, inputs, said, owner, began>>

Agents == team.agents         \* a sequence, in the order of the mapping
Names == {Agents[i] : i \in DOMAIN Agents}
First == Agents[1]            \* entry; the order of the others is that of the mapping, turned
MaxTurns == team.turns        \* max_turns
StepLimit == team.limit       \* recursion_limit
MaxTimes == team.inputs      \* bound: inputs to the thread

Nobody == "none"
Unset == [active |-> Nobody, turn |-> 0]
IndexOf(a) == CHOOSE i \in DOMAIN Agents : Agents[i] = a

\* Mutant: a swarm starts with its entry.
ActiveForgotten == First

\* The route of a swarm at START: the persisted agent, else the entry (a schema
\* without active_agent makes it a handoff graph).
ActiveAgent == IF state'.active = Nobody THEN First ELSE state'.active

Entry ==
    CASE team.pattern \in {"group", "handoff"} -> {First}
      [] team.pattern = "swarm" -> {ActiveAgent}
      [] team.pattern = "supervisor" -> {"supervisor"}
      [] team.pattern = "plan" -> {"planner"}
      [] team.pattern = "review" -> {"source"}

TeamInit ==
    /\ team \in Patterns
    /\ state = Unset /\ planned = {} /\ steps = 0 /\ failed = FALSE /\ inputs = 0
    /\ said = <<>> /\ owner = Nobody /\ began = "on"

\* An input is merged into the state; one that begins a new conversation sets the
\* keys of the team anew.  The graph is entered unless a failed run left nodes
\* planned: then these run, whatever the input has set.
Input(reset) ==
    /\ planned = {} \/ failed
    /\ inputs < MaxTimes /\ inputs' = inputs + 1
    /\ state' = IF reset THEN Unset ELSE state
    /\ planned' = IF planned = {} THEN Entry ELSE planned
    /\ owner' = IF reset THEN Nobody ELSE owner
    /\ began' = IF planned = {} THEN (IF reset THEN "anew" ELSE "on")
                ELSE IF reset \/ began = "astray" THEN "astray" ELSE "on"
    /\ steps' = 0 /\ failed' = FALSE /\ said' = <<>>
    /\ UNCHANGED team

\* One superstep that runs who is planned and goes on with next.
TeamStep(who, next) ==
    /\ planned = who /\ ~failed /\ steps < StepLimit /\ steps' = steps + 1
    /\ planned' = next
    /\ UNCHANGED <<team, failed, inputs, began>>

Speak(a, next) == TeamStep({a}, next) /\ said' = Append(said, a)

\* A node raises, or the recursion limit is reached.
Fail ==
    /\ planned # {} /\ ~failed /\ failed' = TRUE
    /\ UNCHANGED <<team, state, planned, steps, inputs, said, owner, began>>

(***************************************************************************)
(* Group chat: every agent returns to the router.                          *)
(***************************************************************************)
GroupSpeaks(a) == team.pattern = "group" /\ Speak(a, {"router"}) /\ UNCHANGED <<state, owner>>

Successor(a) == Agents[(IndexOf(a) % Len(Agents)) + 1]

\* A selector or a model names anyone; an unknown name is an error (Fail).
Targets ==
    IF team.strategy = "round_robin"
    THEN {Successor(IF state.active = Nobody THEN First ELSE state.active)} ELSE Names

TurnsOver(turn) == turn >= MaxTurns

Terminate ==
    /\ team.pattern = "group" /\ TeamStep({"router"}, {}) /\ UNCHANGED <<state, said, owner>>

Route ==
    LET turn == state.turn + 1
    IN  /\ team.pattern = "group"
        /\ IF TurnsOver(turn)
           THEN TeamStep({"router"}, {}) /\ state' = [state EXCEPT !.turn = turn]
           ELSE \E a \in Targets :
                    TeamStep({"router"}, {a}) /\ state' = [active |-> a, turn |-> turn]
        /\ UNCHANGED <<said, owner>>

(***************************************************************************)
(* Swarm, handoff and supervisor: a handoff tool returns a Command to the  *)
(* parent graph with the next agent and active_agent.                      *)
(***************************************************************************)
Handoff(from, to) ==
    /\ Speak(from, {to}) /\ state' = [state EXCEPT !.active = to] /\ owner' = to

PeerHandsOff(a) ==
    team.pattern \in {"swarm", "handoff"} /\ \E b \in Names \ {a} : Handoff(a, b)

PeerEnds(a) ==
    team.pattern \in {"swarm", "handoff"} /\ Speak(a, {}) /\ UNCHANGED <<state, owner>>

Supervise ==
    /\ team.pattern = "supervisor"
    /\ \/ \E a \in Names : Handoff("supervisor", a)
       \/ Speak("supervisor", {}) /\ UNCHANGED <<state, owner>>

ReportBack(a) ==
    team.pattern = "supervisor" /\ Speak(a, {"supervisor"}) /\ UNCHANGED <<state, owner>>

(***************************************************************************)
(* Plan and execute; review in parallel.                                   *)
(***************************************************************************)
PlanOn ==
    /\ team.pattern = "plan" /\ UNCHANGED <<state, owner>>
    /\ \/ Speak("planner", {"executor"})
       \/ Speak("executor", {"replanner"})
       \/ \E next \in {{"executor"}, {}} : Speak("replanner", next)

\* The reviewers run on what the source left, in one superstep; the join edge
\* from all of them starts the judge.
Review ==
    /\ team.pattern = "review" /\ UNCHANGED <<state, owner>>
    /\ \/ Speak("source", Names)
       \/ TeamStep(Names, {"judge"}) /\ said' = said \o Agents
       \/ Speak("judge", {})

\* No more inputs.
Quiet == inputs = MaxTimes /\ (planned = {} \/ failed) /\ UNCHANGED teamVars

TeamNext ==
    \/ Quiet
    \/ \E reset \in BOOLEAN : Input(reset)
    \/ \E a \in Names : GroupSpeaks(a) \/ PeerHandsOff(a) \/ PeerEnds(a) \/ ReportBack(a)
    \/ Terminate \/ Route \/ Supervise \/ PlanOn \/ Review \/ Fail

TeamSpec == TeamInit /\ [][TeamNext]_teamVars

-----------------------------------------------------------------------------
(* What the topologies promise, over inputs and failures.                   *)

\* A discussion has no more speakers than turns (multi_agent.py:318).
SpeakersAreBounded ==
    team.pattern = "group" => Len(said) <= MaxTurns

\* In a round robin that begins afresh, with the keys set anew and the graph
\* entered, everyone speaks as often as any other, up to one turn
\* (multi_agent.py:339).
Spoken(a) == Cardinality({i \in DOMAIN said : said[i] = a})
EveryoneSpeaks ==
    team.pattern = "group" /\ team.strategy = "round_robin" /\ began = "anew" =>
        \A a, b \in Names : Spoken(a) <= Spoken(b) + 1

\* A conversation stays with the agent it was handed to, from one input to the
\* next, but for an input that sets the keys anew while a failed run has an agent
\* planned: that agent answers it (multi_agent.py:237, executor.py:1005).
Owner == IF owner = Nobody THEN First ELSE owner
OwnerAnswers ==
    team.pattern = "swarm" /\ began # "astray" =>
        /\ planned # {} => planned = {Owner}
        /\ said # <<>> /\ planned = {} => said[Len(said)] = Owner

\* The judge has heard every reviewer once, however often the review failed on
\* the way (multi_agent.py:408).
JudgeHearsAll == team.pattern = "review" /\ planned = {"judge"} /\ said # <<>> =>
    \A a \in Names : Spoken(a) = 1

\* Who speaks next is who the topology says.
TurnsAreTaken == SpeakersAreBounded /\ EveryoneSpeaks /\ OwnerAnswers /\ JudgeHearsAll
-----------------------------------------------------------------------------
(* The inductive invariant behind it, of graphs the builders accept.        *)

OwnNodes(pattern) ==
    CASE pattern = "group" -> {"router"}
      [] pattern = "supervisor" -> {"supervisor"}
      [] pattern = "plan" -> {"planner", "executor", "replanner"}
      [] pattern = "review" -> {"source", "judge"}
      [] OTHER -> {}
Roles == UNION {OwnNodes(p) : p \in {"group", "supervisor", "plan", "review"}}
PatternsAreSound ==
    \A p \in Patterns :
        LET names == {p.agents[i] : i \in DOMAIN p.agents}
        IN  /\ p.agents \in Seq(names) /\ names \cap (OwnNodes(p.pattern) \cup {Nobody}) = {}
            /\ \A i, j \in DOMAIN p.agents : p.agents[i] = p.agents[j] => i = j
            /\ p.pattern # "plan" => p.agents # <<>>
            /\ p.pattern = "group" => p.turns \in Nat \ {0}

TeamTypes ==
    /\ team \in Patterns /\ began \in {"anew", "on", "astray"}
    /\ state \in [active : Names \cup {Nobody}, turn : Nat] /\ owner \in Names \cup {Nobody}
    /\ said \in Seq(Names \cup Roles)

\* Every speaker is counted by the router before the next one.
GroupCounts ==
    team.pattern = "group" =>
        /\ planned \in {{}, {"router"}} \/ \E a \in Names : planned = {a}
        /\ Len(said) <= MaxTurns
        /\ planned = {"router"} => Len(said) <= state.turn + 1
        /\ planned \notin {{}, {"router"}} =>
              Len(said) <= state.turn /\ (said # <<>> => state.turn < MaxTurns)

\* The first p have spoken once more than the others, and p + 1 is next.
Current == IF state.active = Nobody THEN First ELSE state.active
Behind(p) == IF p = Len(Agents) THEN First ELSE Agents[p + 1]
RobinIsFair ==
    team.pattern = "group" /\ team.strategy = "round_robin" /\ began = "anew" =>
        \E p \in 0..Len(Agents), c \in 0..Len(said) :
            /\ \A k \in DOMAIN Agents : Spoken(Agents[k]) = IF k <= p THEN c + 1 ELSE c
            /\ planned = {"router"} => p > 0 /\ Current = Agents[p]
            /\ planned \notin {{}, {"router"}} => planned = {Current} /\ Current = Behind(p)

SwarmIsOwned == team.pattern = "swarm" => state.active = owner /\ OwnerAnswers

ReviewersAreHeard ==
    team.pattern = "review" =>
        /\ planned \in {{}, {"source"}, Names, {"judge"}}
        /\ planned = {"source"} => said = <<>>
        /\ planned = Names => said \in {<<>>, <<"source">>}
        /\ planned = {"judge"} => said \in {<<>>, Agents, <<"source">> \o Agents}

TeamInv == TeamTypes /\ GroupCounts /\ RobinIsFair /\ SwarmIsOwned /\ ReviewersAreHeard
=============================================================================
