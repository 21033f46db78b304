------------------------------- MODULE CozeNodes -------------------------------
(***************************************************************************)
(* The nodes that hand a turn to Coze (CozeAgentNode, CozeWorkflowNode,    *)
(* CozeChatModel), the client they share, and Coze itself as the client    *)
(* uses it: a request may be lost, its reply may be lost, a stream may     *)
(* break and be opened again, the worker may crash before the node's       *)
(* result is checkpointed.  A job is a chat or an execution of a workflow. *)
(***************************************************************************)
EXTENDS Naturals, Sequences, FiniteSets

CONSTANTS
    Bots,       \* the nodes to consider: see bot
    MaxRetries, \* max_retries of the client
    MaxToolRounds   \* max_tool_rounds of CozeAgentNode

VARIABLES
    bot,      \* [kind, stream, tools, hitl, asks, turns, drops, cancels, keyed, ids]; fixed
    remote,   \* the jobs at Coze: [conv, asks, answered, refused, stopped]
    served,   \* (history) the requests Coze carried out, by their idempotency key
    node,     \* the execution of the node in the memory of its worker
    kept,     \* what the checkpoints keep of it
    token,    \* the run is cancelled
    drops,    \* requests, replies, streams and workers lost so far
    replies   \* (history) the results that were checkpointed

cozeVars == <<bot, remote, served, node, kept, token, drops, replies>>

TurnLimit == bot.turns   \* bound: turns of the conversation
MaxDrops == bot.drops   \* bound on drops

Nothing == 0
NoCall == [to |-> "none", job |-> Nothing, round |-> 0, conv |-> Nothing]
Unstarted == [pc |-> "off", call |-> NoCall, n |-> 0, src |-> Nothing, cursor |-> 0, last |-> 0,
         seen |-> {}, got |-> <<>>, job |-> Nothing, conv |-> Nothing, asked |-> 0, rounds |-> 0]
Opened == [conv |-> Nothing, turn |-> 1, pauses |-> 0, decision |-> "none", subject |-> Nothing,
           job |-> Nothing, asked |-> 0]

CozeInit ==
    /\ bot \in Bots
    /\ remote = <<>> /\ served = {} /\ node = Unstarted /\ kept = Opened
    /\ token = FALSE /\ drops = 0 /\ replies = <<>>

(***************************************************************************)
(* Requests: what Coze does with one, and the attempts of the client.      *)
(***************************************************************************)
\* A request is made anew in the same execution only when its call is.
Request(to, job, round) == [to |-> to, job |-> job, round |-> round, conv |-> node.conv]
Send(e, call) == [e EXCEPT !.pc = "send", !.call = call, !.n = 0, !.last = 0, !.seen = {}]

\* runtime.idempotency_key: that of the task on the checkpoint it runs on, so a
\* pause changes it and a retry or a redelivery does not.  Every request of the
\* execution has it, the outputs of a second round like those of the first.
RequestKey == <<kept.turn, kept.pauses, 0, 0>>

\* What Coze knows the request to be a repetition of, if it honours the key.
Mark(job) == [key |-> RequestKey, to |-> node.call.to, job |-> job]
Remembered == {s \in served : bot.keyed /\ s.key = RequestKey /\ s.to = node.call.to}
Creates == node.call.to \in {"chat", "workflow"}
NewJob(asks) ==
    [conv |-> IF node.call.conv = Nothing THEN Len(remote) + 1 ELSE node.call.conv,
     asks |-> asks, answered |-> 0, refused |-> FALSE, stopped |-> FALSE]

\* Outputs are for the calls a job waits on, anything else is refused.
Answered(job, round) ==
    IF round = job.answered + 1 /\ round <= job.asks
    THEN [job EXCEPT !.answered = round] ELSE [job EXCEPT !.refused = TRUE]

\* A request is carried out, or was already: job is what the reply is about.
Handle(job) ==
    \/ /\ \E s \in Remembered : s.job = job
       /\ UNCHANGED <<remote, served>>
    \/ /\ Remembered = {} /\ Creates /\ job = Len(remote) + 1
       /\ \E asks \in bot.asks : remote' = Append(remote, NewJob(asks))
       /\ served' = served \cup {Mark(job)}
    \/ /\ Remembered = {} /\ ~Creates /\ job = node.call.job
       /\ remote' = CASE node.call.to \in {"submit", "resume"} ->
                            [remote EXCEPT ![job] = Answered(@, node.call.round)]
                      [] node.call.to = "cancel" -> [remote EXCEPT ![job].stopped = TRUE]
                      [] OTHER -> remote
       /\ served' = IF node.call.to \in {"submit", "resume"}
                    THEN served \cup {Mark(job)} ELSE served

\* The next attempt at the call, a stream's with what it has seen, or the error.
NextAttempt(e) ==
    IF e.n < MaxRetries THEN [e EXCEPT !.pc = "send", !.n = @ + 1] ELSE [e EXCEPT !.pc = "failed"]

\* Calls whose reply is a stream of events, and how many events that has.
Streamed(call) == call.to \in {"workflow", "resume"} \/ (call.to = "chat" /\ bot.stream)
Length == CASE node.call.to = "chat" -> 4 [] node.call.to = "workflow" -> 2 [] OTHER -> 1

Waits(job) == IF remote[job].answered < remote[job].asks THEN remote[job].answered + 1 ELSE 0

\* The reply to a poll: not yet, calls to carry out, or the end of the chat.
Status(e, job, asked) ==
    \/ node' = [e EXCEPT !.pc = "poll"]
    \/ asked > 0 /\ node' = [e EXCEPT !.pc = "tools", !.asked = asked, !.got = <<>>]
    \/ asked = 0 /\ node' = Send(e, [to |-> "list", job |-> job, round |-> e.rounds, conv |-> e.conv])

\* The whole answer, taken from the list of the chat's messages.
Polled(job) == <<<<job, 2>>, <<job, 3>>>>

Receive(job) ==
    LET known == [node EXCEPT !.job = job, !.conv = remote'[job].conv]
        asked == IF remote'[job].answered < remote'[job].asks THEN remote'[job].answered + 1 ELSE 0
    IN  IF remote'[job].refused THEN node' = [node EXCEPT !.pc = "failed"]
        ELSE IF Streamed(node.call)
        \* Coze goes on after Last-Event-ID, or sends the events from the first.
        THEN \E from \in {0, node.last} :
               node' = [node EXCEPT !.pc = "read", !.src = job, !.cursor = from]
        ELSE IF node.call.to = "list"
        THEN node' = [node EXCEPT !.pc = "back", !.got = Polled(job), !.asked = 0]
        ELSE IF node.call.to = "cancel" THEN node' = [node EXCEPT !.pc = "gone"]
        ELSE Status(known, job, asked)

\* One attempt: carried out and answered, ...
AnswerRequest ==
    /\ node.pc = "send" /\ ~token
    /\ \E job \in 1..(Len(remote) + 1) : Handle(job) /\ Receive(job)
    /\ UNCHANGED <<bot, kept, token, drops, replies>>

\* ... or cut off on the way there or back, or put off with a retryable status.
Drop ==
    /\ node.pc = "send" /\ ~token /\ drops < MaxDrops /\ drops' = drops + 1
    /\ \/ \E job \in 1..(Len(remote) + 1) : Handle(job)
       \/ UNCHANGED <<remote, served>>
    /\ node' = NextAttempt(node)
    /\ UNCHANGED <<bot, kept, token, replies>>

(***************************************************************************)
(* Cancellation: every request, event and poll looks at the token.         *)
(***************************************************************************)
Gone(e) == [e EXCEPT !.pc = "gone"]
Stop(e) ==
    IF bot.kind = "agent" /\ e.job # Nothing
    THEN Send(e, [to |-> "cancel", job |-> e.job, round |-> 0, conv |-> e.conv]) ELSE Gone(e)

CancelTurn ==
    /\ bot.cancels /\ ~token /\ node.pc \notin {"off", "paused", "failed", "gone"}
    /\ token' = TRUE
    /\ UNCHANGED <<bot, remote, served, node, kept, drops, replies>>

\* _headers raises before the request is sent, that of cancel_chat too; what the
\* stream of a chat raises is caught by the node.
Raise ==
    /\ node.pc = "send" /\ token
    /\ node' = IF Streamed(node.call) THEN Stop(node) ELSE Gone(node)
    /\ UNCHANGED <<bot, remote, served, kept, token, drops, replies>>

\* Polling goes on, unless the run is cancelled.
Poll ==
    /\ node.pc = "poll"
    /\ node' = IF token THEN Stop(node) ELSE Send(node, Request("retrieve", node.job, node.rounds))
    /\ UNCHANGED <<bot, remote, served, kept, token, drops, replies>>

(***************************************************************************)
(* Streams.                                                                *)
(***************************************************************************)
\* The client reads the next event; one whose id it has seen is left out.
Read(i) == IF bot.ids THEN [node EXCEPT !.cursor = i, !.last = i, !.seen = @ \cup {i}]
           ELSE [node EXCEPT !.cursor = i]

\* Mutant: events that come again are handed on again.
NewAlways(i) == TRUE
New(i) == ~bot.ids \/ i \notin node.seen

\* The node takes the id of what an event is about for the chat's, a message's in
\* between: the last event of the stream is about the chat.
ChatEvent(i) ==
    LET e == [Read(i) EXCEPT !.job = node.src, !.conv = remote[node.src].conv]
    IN  CASE i = 1 -> e
          [] i \in {2, 3} -> [e EXCEPT !.got = Append(@, <<node.src, i>>)]
          [] OTHER -> [e EXCEPT !.asked = IF remote[node.src].asks > 0 THEN 1 ELSE 0]

\* The answer echoes the event it is an answer to.
Resumed == kept.subject

\* A question pauses the graph; once it is answered the node, executed anew,
\* resumes the execution the question came from and drops the one it started.
WorkflowEvent(i) ==
    IF i = 1 \/ remote[node.src].asks = 0 THEN [Read(i) EXCEPT !.got = <<<<node.src, i>>>>]
    ELSE IF kept.decision = "none" THEN [Read(i) EXCEPT !.pc = "paused", !.job = node.src]
    ELSE Send(Read(i), Request("resume", Resumed, 1))

Event ==
    /\ node.pc = "read" /\ node.cursor < Length
    /\ LET i == node.cursor + 1
       IN  node' = IF token THEN Stop(node)
                   ELSE IF ~New(i) THEN [node EXCEPT !.cursor = i]
                   ELSE CASE node.call.to = "chat" -> ChatEvent(i)
                          [] node.call.to = "workflow" -> WorkflowEvent(i)
                          [] OTHER -> [Read(i) EXCEPT !.got = <<<<node.src, 2>>>>]
    /\ UNCHANGED <<bot, remote, served, kept, token, drops, replies>>

\* An error of the network opens the stream again, one of the protocol ends the call.
Break ==
    /\ node.pc = "read" /\ drops < MaxDrops /\ drops' = drops + 1
    /\ node' \in {NextAttempt(node), [node EXCEPT !.pc = "failed"]}
    /\ UNCHANGED <<bot, remote, served, kept, token, replies>>

EndOfStream ==
    /\ node.pc = "read" /\ node.cursor = Length /\ bot.kind # "model"
    /\ node' = [node EXCEPT !.pc = IF bot.kind = "agent" THEN "tools" ELSE "back"]
    /\ UNCHANGED <<bot, remote, served, kept, token, drops, replies>>

\* The model's reply is what the stream said, calls included.
ModelReply ==
    /\ node.pc = "read" /\ node.cursor = Length /\ bot.kind = "model"
    /\ node' = [node EXCEPT !.pc = "back"]
    /\ UNCHANGED <<bot, remote, served, kept, token, drops, replies>>

(***************************************************************************)
(* The nodes.                                                              *)
(***************************************************************************)
Turn == node.pc = "off" /\ kept.turn <= TurnLimit /\ ~token

\* The turn is posted, by an agent node in the conversation of its bot.
Begin ==
    /\ Turn
    /\ LET conv == IF bot.kind = "agent" THEN kept.conv ELSE Nothing
       IN  node' = Send([Unstarted EXCEPT !.conv = conv],
                        [to |-> IF bot.kind = "workflow" THEN "workflow" ELSE "chat",
                         job |-> Nothing, round |-> 0, conv |-> conv])
    /\ UNCHANGED <<bot, remote, served, kept, token, drops, replies>>

\* CozeChatModel: if all that was said since are results of the pending calls,
\* they go to the chat that made the calls.
HandIn ==
    /\ Turn /\ bot.kind = "model" /\ kept.asked > 0
    /\ node' = Send([Unstarted EXCEPT !.conv = remote[kept.job].conv],
                    [to |-> "submit", job |-> kept.job, round |-> kept.asked, conv |-> Nothing])
    /\ UNCHANGED <<bot, remote, served, kept, token, drops, replies>>

\* CozeAgentNode, the calls of a chat: the first are put before a human if so
\* configured, then round after round is carried out and handed in.
Ask ==
    /\ node.pc = "tools" /\ bot.kind = "agent" /\ bot.hitl /\ node.asked > 0 /\ node.rounds = 0
    /\ kept.decision = "none" /\ ~token
    /\ node' = [node EXCEPT !.pc = "paused"]
    /\ UNCHANGED <<bot, remote, served, kept, token, drops, replies>>

CallsRejected == bot.kind = "agent" /\ bot.hitl /\ kept.decision = "reject"
Cleared == node.asked = 0 \/ node.rounds > 0 \/ ~bot.hitl \/ kept.decision # "none"

RunsTools == bot.tools /\ node.asked > 0 /\ ~CallsRejected

Decide ==
    /\ node.pc = "tools"
    /\ bot.kind = "agent" => Cleared \/ token
    /\ node' = IF token /\ node.rounds = 0 /\ bot.kind = "agent" THEN Stop(node)
               ELSE IF bot.kind # "agent" \/ ~RunsTools THEN [node EXCEPT !.pc = "back"]
               ELSE IF node.rounds = MaxToolRounds THEN [node EXCEPT !.pc = "failed"]
               ELSE Send([node EXCEPT !.rounds = @ + 1], Request("submit", node.job, node.asked))
    /\ UNCHANGED <<bot, remote, served, kept, token, drops, replies>>

\* The pause is checkpointed, and with the answer the node is executed anew.
Resolve ==
    /\ node.pc = "paused"
    /\ \E d \in IF bot.kind = "agent" THEN {"approve", "reject"} ELSE {"approve"} :
         kept' = [kept EXCEPT !.pauses = @ + 1, !.decision = d, !.subject = node.job]
    /\ node' = Unstarted
    /\ UNCHANGED <<bot, remote, served, token, drops, replies>>

\* A rejection returns before the conversation is written.
Conversation == IF bot.kind = "agent" /\ ~CallsRejected THEN node.conv ELSE kept.conv

\* The superstep commits, with the token set too: the next one will look at it.
CommitTurn ==
    /\ node.pc = "back"
    /\ kept' = [Opened EXCEPT !.conv = Conversation, !.turn = kept.turn + 1, !.job = node.job,
                              !.asked = IF CallsRejected THEN 0 ELSE node.asked]
    /\ replies' = Append(replies, [job |-> node.job, got |-> node.got, asked |-> node.asked,
                                   conv |-> node.conv, rejected |-> CallsRejected,
                                   subject |-> kept.subject])
    /\ node' = Unstarted
    /\ UNCHANGED <<bot, remote, served, token, drops>>

\* A crash before that, or a failure that is retried: executed anew, under the same key.
Again ==
    /\ node.pc \notin {"off", "paused", "gone"} /\ ~token
    /\ drops < MaxDrops /\ drops' = drops + 1
    /\ node' = Unstarted
    /\ UNCHANGED <<bot, remote, served, kept, token, replies>>

\* The conversation is over, or its run.
TurnOver ==
    /\ node.pc \in {"gone", "failed"} \/ (node.pc = "off" /\ (token \/ kept.turn > TurnLimit))
    /\ UNCHANGED cozeVars

CozeNext ==
    \/ TurnOver \/ Begin \/ HandIn \/ AnswerRequest \/ Drop \/ Raise \/ Poll \/ CancelTurn
    \/ Event \/ Break \/ EndOfStream \/ ModelReply \/ Ask \/ Decide \/ Resolve \/ CommitTurn \/ Again

CozeSpec == CozeInit /\ [][CozeNext]_cozeVars

-----------------------------------------------------------------------------
Whole(job) == <<<<job, 2>>, <<job, 3>>>>
Delivered == {i \in DOMAIN replies : ~replies[i].rejected}
OfKind(kind) == IF bot.kind = kind THEN Delivered ELSE {}

\* docs/integrations-coze.md:68: a call is repeated under its X-Idempotency-Key,
\* and a stream that is opened again is cleared of the events whose id was seen.
\* That takes a Coze that honours the key and gives its events ids.
Deduplicates == bot.keyed /\ bot.ids

\* What a bot said is in its reply once and in order, from one chat, however
\* often the stream was opened; a reply made of calls may say nothing.  Without
\* keys or ids this holds until a stream is lost (coze.py:204).
AnswerIsWhole ==
    Deduplicates \/ ~bot.stream \/ drops = 0 =>
        \A i \in OfKind("agent") \cup OfKind("model") :
            \/ replies[i].got = Whole(replies[i].job)
            \/ replies[i].asked > 0 /\ replies[i].got = <<>>

\* What is handed in answers what the chat waits for, unless Coze ignores the
\* key and a reply was lost; a reply of a bot with tools leaves no call of its
\* chat open, in any case (coze.py:608).
OutputsFit ==
    /\ bot.keyed \/ drops = 0 => \A j \in DOMAIN remote : ~remote[j].refused
    /\ bot.tools => \A i \in OfKind("agent") : replies[i].asked = 0 /\ Waits(replies[i].job) = 0

\* The turns of a bot share a conversation (coze.py:646).
OneConversation == \A i, k \in OfKind("agent") : replies[i].conv = replies[k].conv

\* A workflow that asked goes on from the question that was answered, though
\* the node, executed anew, has started another one, unless that one ends
\* without a question (coze.py:701).
WorkflowGoesOn ==
    \A i \in OfKind("workflow") :
        /\ Len(replies[i].got) = 1 /\ replies[i].got[1][2] = 2
        /\ LET job == replies[i].got[1][1]
           IN  remote[job].asks > 0 => job = replies[i].subject /\ Waits(job) = 0

\* Turns survive lost replies, broken streams, crashes and pauses, so far as Coze
\* deduplicates.
TurnsAreWhole == AnswerIsWhole /\ OutputsFit /\ OneConversation /\ WorkflowGoesOn

\* docs/integrations-coze.md:68: when a run is cancelled, streaming and polling
\* bot calls call the cancel endpoint.  The call is made while the token is set,
\* and _headers raises before any request of a cancelled run.
CancelReachesCoze ==
    node.pc = "gone" /\ node.call.to = "cancel" /\ drops = 0 => remote[node.job].stopped

-----------------------------------------------------------------------------
(* The inductive invariant behind it, for a Coze that deduplicates.         *)

\* A bot is of one of the three kinds; a workflow asks one question at most.
BotsAreSound ==
    \A b \in Bots :
        /\ b.kind \in {"agent", "model", "workflow"}
        /\ {b.stream, b.tools, b.hitl, b.cancels, b.keyed, b.ids} \subseteq BOOLEAN
        /\ b.asks \subseteq IF b.kind = "workflow" THEN {0, 1} ELSE Nat

Positive == Nat \ {0}
Job == [conv : Positive, asks : bot.asks, answered : Nat, refused : BOOLEAN, stopped : BOOLEAN]
Requests == {"none", "chat", "workflow", "submit", "retrieve", "list", "resume", "cancel"}
Call == [to : Requests, job : Nat, round : Nat, conv : Nat]
Execution ==
    [pc : {"off", "send", "read", "poll", "tools", "back", "paused", "failed", "gone"},
     call : Call, n : Nat, src : Nat, cursor : Nat, last : Nat, seen : SUBSET Nat,
     got : Seq(Nat \X Nat), job : Nat, conv : Nat, asked : Nat, rounds : Nat]
CozeTypes ==
    /\ bot \in Bots /\ Deduplicates /\ remote \in Seq(Job) /\ node \in Execution
    /\ kept \in [conv : Nat, turn : Positive, pauses : Nat, subject : Nat, job : Nat, asked : Nat,
                 decision : {"none", "approve", "reject"}]
    /\ \A j \in DOMAIN remote : ~remote[j].refused /\ remote[j].answered <= remote[j].asks

\* The marks of the key at hand.  No mark has a key that is yet to come.
Own(to) == {s \in served : s.key = RequestKey /\ s.to = to}
Owned(to, job) == \E s \in Own(to) : s.job = job
MarksAreKept ==
    /\ served \subseteq [key : Nat \X Nat \X {0} \X {0}, to : Requests, job : DOMAIN remote]
    /\ \A s \in served : s.key[1] < kept.turn \/ (s.key[1] = kept.turn /\ s.key[2] <= kept.pauses)
    /\ \A s, t \in served : s.key = t.key /\ s.to = t.to => s.job = t.job
    /\ \A s \in served :
          \/ s.to \in {"chat", "submit"} /\ bot.kind # "workflow"
          \/ s.to \in {"workflow", "resume"} /\ bot.kind = "workflow"

\* What a key has been used for: an agent's for one chat, and for one round of
\* outputs, since those of the next have the same key and are taken for them.
AgentsKey ==
    bot.kind = "agent" =>
        /\ \A s \in Own("submit") : Owned("chat", s.job)
        /\ \A c \in Own("chat") :
            /\ kept.conv # Nothing => remote[c.job].conv = kept.conv
            /\ Own("submit") = {} => remote[c.job].answered = 0

\* A model's for a new chat or the outputs of the last one, whichever came first.
ModelsKey ==
    bot.kind = "model" =>
        /\ \A c \in Own("chat") :
              remote[c.job].answered = 0 /\ (kept.asked > 0 => c.job # kept.job)
        /\ \A s \in Own("submit") : s.job = kept.job
        /\ kept.asked > 0 =>
              /\ kept.job \in DOMAIN remote /\ kept.asked <= remote[kept.job].asks
              /\ kept.asked = remote[kept.job].answered + IF Own("submit") = {} THEN 1 ELSE 0

\* A workflow's for an execution, and for the answer to the one before it.
WorkflowsKey ==
    bot.kind = "workflow" =>
        /\ \A w \in Own("workflow") :
              remote[w.job].answered = 0 /\ (kept.decision # "none" => w.job # kept.subject)
        /\ \A s \in Own("resume") : kept.decision # "none" /\ s.job = kept.subject
        /\ kept.decision # "none" =>
              /\ kept.subject \in DOMAIN remote /\ remote[kept.subject].asks = 1
              /\ remote[kept.subject].answered = IF Own("resume") = {} THEN 0 ELSE 1

\* The chat or the execution that the node is about.
Known ==
    /\ bot.kind # "workflow" /\ node.job \in DOMAIN remote /\ node.conv = remote[node.job].conv
    /\ bot.kind = "agent" => Owned("chat", node.job)

CallsFit ==
    node.pc \in {"send", "read"} =>
        CASE node.call.to = "chat" ->
                 /\ bot.kind # "workflow" /\ node.call.round = 0
                 /\ node.call.conv = IF bot.kind = "agent" THEN kept.conv ELSE Nothing
          [] node.call.to = "workflow" -> bot.kind = "workflow" /\ node.call.round = 0
          [] node.call.to = "submit" /\ bot.kind = "agent" ->
                 /\ Known /\ node.call.job = node.job
                 /\ node.call.round \in 1..(remote[node.job].answered + 1)
                 /\ node.call.round <= remote[node.job].asks
          [] node.call.to = "submit" /\ bot.kind = "model" ->
                 node.call.job = kept.job /\ node.call.round = kept.asked /\ kept.asked > 0
          [] node.call.to = "retrieve" -> Known /\ node.call.job = node.job
          [] node.call.to = "list" -> Known /\ node.call.job = node.job /\ Waits(node.job) = 0
          [] node.call.to = "resume" ->
                 /\ bot.kind = "workflow" /\ kept.decision # "none"
                 /\ node.call.job = kept.subject /\ node.call.round = 1
          [] OTHER -> node.call.to = "cancel" /\ token

\* What was read of a stream so far, from one job, however often it was opened.
Heard ==
    CASE node.call.to = "chat" ->
             /\ node.got = IF node.last = 1 THEN <<>>
                           ELSE IF node.last = 2 THEN <<<<node.src, 2>>>> ELSE Whole(node.src)
             /\ Known /\ node.job = node.src
             /\ node.last = 4 => node.asked = IF remote[node.src].asks > 0 THEN 1 ELSE 0
      [] node.call.to = "workflow" ->
             node.last = 2 => remote[node.src].asks = 0 /\ node.got = <<<<node.src, 2>>>>
      [] OTHER -> node.got = <<<<node.src, 2>>>>
StreamsFit ==
    /\ node.pc = "read" => /\ Streamed(node.call) /\ Owned(node.call.to, node.src)
                           /\ node.cursor <= node.last
    /\ node.pc \in {"send", "read"} /\ Streamed(node.call) =>
          /\ node.last <= Length /\ node.seen = 1..node.last
          /\ IF node.last > 0 THEN Owned(node.call.to, node.src) /\ Heard
             ELSE node.call.to = "chat" => node.got = <<>>

\* The node at the end of its requests.
CallsWait == node.asked > 0 /\ node.asked <= remote[node.job].asks
AnswersFit ==
    /\ node.pc = "poll" => Known
    /\ node.pc = "tools" =>
          /\ Known /\ node.got \in {<<>>, Whole(node.job)}
          /\ node.asked = 0 => Waits(node.job) = 0 /\ node.got = Whole(node.job)
          /\ node.asked > 0 => CallsWait /\ node.asked <= remote[node.job].answered + 1
    /\ node.pc \in {"tools", "back"} /\ bot.kind = "model" /\ node.asked > 0 =>
          CallsWait /\ node.asked = remote[node.job].answered + 1
    /\ node.pc = "back" /\ bot.kind # "workflow" =>
          /\ Known /\ (node.got = Whole(node.job) \/ (node.asked > 0 /\ node.got = <<>>))
          /\ bot.kind = "agent" /\ bot.tools /\ ~CallsRejected =>
                node.asked = 0 /\ Waits(node.job) = 0
    /\ node.pc = "back" /\ bot.kind = "workflow" =>
          \E j \in DOMAIN remote :
              /\ node.got = <<<<j, 2>>>>
              /\ remote[j].asks > 0 => j = kept.subject /\ Waits(j) = 0
    /\ node.pc = "paused" =>
          /\ bot.kind # "model"
          /\ bot.kind = "workflow" =>
                kept.decision = "none" /\ Owned("workflow", node.job) /\ remote[node.job].asks > 0

\* The replies, of jobs that are what they were.
Reply == [job : Nat, got : Seq(Nat \X Nat), asked : Nat, conv : Nat, rejected : BOOLEAN,
          subject : Nat]
RepliesFit ==
    /\ AnswerIsWhole /\ OutputsFit /\ WorkflowGoesOn
    /\ replies \in Seq(Reply)
    /\ \A i \in OfKind("agent") :
          /\ replies[i].job \in DOMAIN remote
          /\ kept.conv # Nothing /\ replies[i].conv = kept.conv
    /\ \A i \in OfKind("workflow") : replies[i].got[1][1] \in DOMAIN remote

CozeInv ==
    /\ CozeTypes /\ MarksAreKept /\ AgentsKey /\ ModelsKey /\ WorkflowsKey
    /\ CallsFit /\ StreamsFit /\ AnswersFit /\ RepliesFit

=============================================================================
