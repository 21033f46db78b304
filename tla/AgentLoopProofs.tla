--------------------------- MODULE AgentLoopProofs ---------------------------
(***************************************************************************)
(* Proofs about the agent loop, for every agent, every set of tools and    *)
(* every number of repeated deliveries: the types, what may run, what took  *)
(* effect and what was answered.                                           *)
(***************************************************************************)
EXTENDS AgentLoop, OrderLemmas

CallSet == [at : Nat, pos : Nat, tool : Names]
KeySet == [at : Nat, tool : Names]
MessageSet == [kind : {"human", "ai", "tool"}, calls : Seq(CallSet), call : CallSet \cup {NoId}]

-----------------------------------------------------------------------------
(* What the state is made of.                                              *)

TypeInv ==
    /\ setup \in Agents
    /\ messages \in Seq(MessageSet) /\ messages # <<>>
    /\ node \in {"agent", "approve", "tools", "structured", "end", "failed"}
    /\ failure \in {"none", "recursion", "budget", "invalid", "answer"}
    /\ saved \in Nat /\ steps \in 0 .. RecursionLimit /\ done \in Nat
    /\ used \in [model : Nat, tool : Nat] /\ spent \in Nat /\ deliveries \in Nat \ {0}
    /\ effects \subseteq KeySet
    /\ outlived \subseteq [call : ran, key : KeySet]
    /\ running \cup served \subseteq ran /\ took \subseteq served
    /\ ran \cup accepted \subseteq CallSet

\* What the tool node waits for: a call that writes, or others.
Alone == \A c \in running : c.tool \notin ReadOnly => running = {c}

\* Where the tool node stands in its message: nothing runs elsewhere, and
\* what runs is a call of the message, alone if it writes.
ToolInv ==
    /\ node \notin {"tools", "failed"} => running = {} /\ done = 0
    /\ done <= Len(Calls)
    /\ node = "tools" /\ running # {} => done < Len(Calls)
    /\ \A c \in running : \E k \in DOMAIN Calls : c = Calls[k]
    /\ Alone

\* The budget of this delivery, and of all.
BudgetInv ==
    MaxToolCalls > 0 =>
        used.tool <= MaxToolCalls /\ spent <= (deliveries - 1) * MaxToolCalls + used.tool

\* In the tool node every call that needs a human has had one.
AcceptInv ==
    /\ OnlyAcceptedCallsRun
    /\ node = "tools" => \A k \in DOMAIN Calls : Calls[k].tool \in Approvals => Calls[k] \in accepted

\* Calls and keys are told apart by the superstep: both are of earlier ones,
\* but for the keys of the tool node in progress.
KeyInv ==
    /\ \A d \in took : d.at < saved
    /\ \A e \in effects : e.at <= saved
    /\ \A k \in DOMAIN Calls : Calls[k].at < saved /\ \A l \in DOMAIN Calls : Calls[l].at = Calls[k].at
    /\ node \notin {"tools", "failed"} =>
          /\ \A e \in effects : e.at < saved
          /\ \A d \in took, k \in DOMAIN Calls : d.at < Calls[k].at
    /\ node \in {"tools", "failed"} =>
          \A k \in DOMAIN Calls :
              (\E d \in took : d.at = Calls[k].at /\ d.tool = Calls[k].tool)
                  <=> [at |-> saved, tool |-> Calls[k].tool] \in effects

TookEffect(c) == \E d \in took : d.at = c.at /\ d.tool = c.tool

\* A function that outlived its timeout keeps the key of its own superstep: it
\* tells the calls of that superstep from all others, as theirs do.
ThreadInv ==
    /\ \A b \in outlived : b.key.tool = b.call.tool /\ b.key.at <= saved /\ b.call.at < saved
    /\ \A b \in outlived : TookEffect(b.call) <=> b.key \in effects
    /\ \A a, b \in outlived : a.key.at = b.key.at <=> a.call.at = b.call.at
    /\ node \notin {"tools", "failed"} =>
          \A b \in outlived : /\ b.key.at < saved
                             /\ \A k \in DOMAIN Calls : b.call.at < Calls[k].at
    /\ node \in {"tools", "failed"} =>
          \A b \in outlived, k \in DOMAIN Calls :
              /\ b.key.at = saved <=> b.call.at = Calls[k].at
              /\ b.call.at <= Calls[k].at

\* What took effect, did so once for a superstep and a tool.
EffectInv ==
    /\ \A c \in served : c.tool \notin ReadOnly => HasTwin(c)
    /\ \A c, d \in took : c.at = d.at /\ c.tool = d.tool => c = d

\* The results cs stand right behind message i of ms, and nothing belongs to them.
Closed(ms, i, cs) ==
    /\ i + Len(cs) <= Len(ms)
    /\ \A k \in 1 .. Len(cs) : ms[i + k].kind = "tool" /\ ms[i + k].call = cs[k]
    /\ i + Len(cs) < Len(ms) => ms[i + Len(cs) + 1].kind # "tool"

\* InNeed, of the calls for some tools.
NeedOf(tools, calls) ==
    LET order == InOrder({k \in DOMAIN calls : calls[k].tool \in tools})
    IN [i \in DOMAIN order |-> calls[order[i]]]

\* The calls of message i are answered, or those that were rejected.
Settled(ms, tools, gone, i) ==
    IsCall(ms[i]) =>
        LET need == NeedOf(tools, ms[i].calls)
        IN Closed(ms, i, ms[i].calls) \/ (need # <<>> /\ Range(need) \subseteq gone /\ Closed(ms, i, need))

\* Only the last message may have calls that wait for their results.
AnswerInv ==
    /\ node = "agent" => \A i \in 1 .. Len(messages) : Settled(messages, Approvals, rejected, i)
    /\ node \in {"approve", "tools"} =>
          /\ IsCall(LastMessage)
          /\ \A i \in 1 .. Len(messages) - 1 : Settled(messages, Approvals, rejected, i)

LoopInv ==
    /\ TypeInv /\ ToolInv /\ BudgetInv /\ AcceptInv
    /\ KeyInv /\ ThreadInv /\ EffectInv /\ AnswerInv

-----------------------------------------------------------------------------
(* The messages, and the calls in them.                                    *)

\* What a human or a model asks for becomes calls named by the superstep.
LEMMA NamedFits ==
  ASSUME NEW names \in Seq(Names), saved \in Nat
  PROVE  /\ Named(names) \in Seq(CallSet) /\ Len(Named(names)) = Len(names)
         /\ \A k \in DOMAIN Named(names) : Named(names)[k].at = saved
<1>1. Len(names) \in Nat /\ DOMAIN names = 1 .. Len(names) /\ \A k \in 1 .. Len(names) : names[k] \in Names
  OBVIOUS
<1>2. Named(names) \in [1 .. Len(names) -> CallSet]
  BY <1>1 DEF Named, CallSet
<1>3. Named(names) \in Seq(CallSet) /\ Len(Named(names)) = Len(names) /\ DOMAIN Named(names) = 1 .. Len(names)
  BY <1>1, <1>2, FcnIsSeq
<1> QED
  BY <1>1, <1>3 DEF Named

\* The calls that a human accepts first are all there, in order.
LEMMA InNeedFits ==
  ASSUME NEW calls \in Seq(CallSet)
  PROVE  /\ InNeed(calls) \in Seq(CallSet)
         /\ \A k \in DOMAIN calls : calls[k].tool \in Approvals => InNeed(calls) # <<>>
<1> DEFINE S == {k \in DOMAIN calls : calls[k].tool \in Approvals}
           n == Cardinality(S)
           order == InOrder(S)
<1>1. DOMAIN calls = 1 .. Len(calls) /\ Len(calls) \in Nat /\ \A k \in 1 .. Len(calls) : calls[k] \in CallSet
  OBVIOUS
<1>2. IsFiniteSet(S) /\ S \in SUBSET Nat
  <2>1. S \subseteq 1 .. Len(calls) /\ IsFiniteSet(1 .. Len(calls))
    BY <1>1, FS_Interval
  <2> QED
    BY <1>1, <2>1, FS_Subset
<1>3. n \in Nat /\ Sorted(order, n, S)
  BY <1>2, FS_CardinalityType, InOrderIsSorted
<1>4. InNeed(calls) = [i \in DOMAIN order |-> calls[order[i]]]
  BY DEF InNeed
<1> HIDE DEF n, order
<1>5. InNeed(calls) \in [1 .. n -> CallSet]
  BY <1>1, <1>3, <1>4 DEF Sorted
<1>6. InNeed(calls) \in Seq(CallSet) /\ Len(InNeed(calls)) = n
  BY <1>3, <1>5, FcnIsSeq
<1>7. ASSUME NEW k \in S PROVE InNeed(calls) # <<>>
  <2>1. PICK i \in 1 .. n : order[i] = k
    BY <1>3 DEF Sorted
  <2>2. n > 0
    BY <2>1, <1>3
  <2> QED
    BY <2>2, <1>6
<1> QED
  BY <1>6, <1>7

\* Results put behind a history: the last of them is the last message.
Results(calls) == [k \in DOMAIN calls |-> Message("tool", <<>>, calls[k])]

LEMMA ResultsFit ==
  ASSUME NEW calls \in Seq(CallSet), NEW m \in Seq(MessageSet), m # <<>>
  PROVE  LET all == m \o Results(calls)
         IN /\ all \in Seq(MessageSet) /\ all # <<>> /\ Len(all) = Len(m) + Len(calls)
            /\ \A k \in 1 .. Len(m) : all[k] = m[k]
            /\ \A k \in 1 .. Len(calls) : all[Len(m) + k] = Message("tool", <<>>, calls[k])
            /\ all[Len(all)].calls = IF calls = <<>> THEN m[Len(m)].calls ELSE <<>>
<1> DEFINE r == Results(calls)  all == m \o r
<1>1. DOMAIN calls = 1 .. Len(calls) /\ Len(calls) \in Nat /\ \A k \in 1 .. Len(calls) : calls[k] \in CallSet
  OBVIOUS
<1>2. <<>> \in Seq(CallSet)
  OBVIOUS
<1>3. r \in [1 .. Len(calls) -> MessageSet]
  BY <1>1, <1>2 DEF Results, Message, MessageSet
<1>4. r \in Seq(MessageSet) /\ Len(r) = Len(calls) /\ \A k \in 1 .. Len(calls) : r[k] = Message("tool", <<>>, calls[k])
  BY <1>1, <1>3, FcnIsSeq DEF Results
<1> HIDE DEF r
<1>5. /\ all \in Seq(MessageSet) /\ Len(all) = Len(m) + Len(r)
      /\ \A i \in 1 .. Len(m) + Len(r) : all[i] = IF i <= Len(m) THEN m[i] ELSE r[i - Len(m)]
  BY <1>4, ConcatProperties
<1>6. Len(m) \in Nat /\ Len(m) > 0
  OBVIOUS
<1>7. all[Len(all)].calls = IF calls = <<>> THEN m[Len(m)].calls ELSE <<>>
  <2>1. CASE calls = <<>>
    BY <2>1, <1>1, <1>4, <1>5, <1>6
  <2>2. CASE calls # <<>>
    <3>1. Len(calls) > 0
      BY <2>2, <1>1
    <3>2. all[Len(all)] = Message("tool", <<>>, calls[Len(calls)])
      BY <3>1, <1>1, <1>4, <1>5, <1>6
    <3> QED
      BY <3>2, <2>2 DEF Message
  <2> QED
    BY <2>1, <2>2
<1>8. \A k \in 1 .. Len(calls) : all[Len(m) + k] = Message("tool", <<>>, calls[k])
  BY <1>1, <1>4, <1>5, <1>6
<1> QED
  BY <1>4, <1>5, <1>6, <1>7, <1>8 DEF r

\* What the constants of an agent are.
LEMMA AgentFits ==
  ASSUME TypeInv
  PROVE  Replies \subseteq Seq(Names) /\ MaxToolCalls \in Nat /\ RecursionLimit \in Nat
  BY AgentsAreSound DEF TypeInv, Replies, MaxToolCalls, RecursionLimit

\* The last message and its calls.
LEMMA LastFits ==
  ASSUME TypeInv
  PROVE  /\ Len(messages) \in Nat \ {0} /\ Len(messages) \in DOMAIN messages
         /\ LastMessage \in MessageSet /\ Calls \in Seq(CallSet)
         /\ Len(Calls) \in Nat /\ DOMAIN Calls = 1 .. Len(Calls)
         /\ \A k \in DOMAIN Calls : Calls[k] \in CallSet
<1>1. Len(messages) \in Nat \ {0} /\ Len(messages) \in DOMAIN messages
  BY DEF TypeInv
<1>2. LastMessage \in MessageSet
  BY <1>1 DEF TypeInv, LastMessage
<1>3. Calls \in Seq(CallSet)
  BY <1>2 DEF Calls, MessageSet
<1> QED
  BY <1>1, <1>2, <1>3

\* The messages get a last one with these calls, in place of it or behind it.
Says(calls, n) ==
    /\ calls \in Seq(CallSet) /\ \A k \in DOMAIN calls : calls[k].at = saved
    /\ messages' \in Seq(MessageSet) /\ messages' # <<>> /\ Len(messages') = n
    /\ \A k \in 1 .. n - 1 : messages'[k] = messages[k]
    /\ LastMessage' = Message("ai", calls, NoId) /\ Calls' = calls

LEMMA ModelSays ==
  ASSUME TypeInv, CallModel
  PROVE  \E calls : Says(calls, Len(messages) + 1) /\ Commit(AfterAgent(calls))
<1>1. PICK names \in Replies :
          /\ messages' = Append(messages, Message("ai", Named(Answerable(names)), NoId))
          /\ Commit(AfterAgent(Named(Answerable(names))))
  BY DEF CallModel
<1> DEFINE calls == Named(Answerable(names))
           m == Message("ai", calls, NoId)
<1>2. Answerable(names) \in Seq(Names)
  BY AgentFits DEF Answerable
<1>3. calls \in Seq(CallSet) /\ \A k \in DOMAIN calls : calls[k].at = saved
  BY <1>2, NamedFits DEF TypeInv
<1> HIDE DEF calls
<1>4. m \in MessageSet
  BY <1>3 DEF Message, MessageSet
<1> HIDE DEF m
<1>5. messages' = Append(messages, m) /\ messages \in Seq(MessageSet)
  BY <1>1 DEF m, calls, TypeInv
<1>6. /\ messages' \in Seq(MessageSet) /\ messages' # <<>> /\ Len(messages') = Len(messages) + 1
      /\ \A k \in 1 .. Len(messages) : messages'[k] = messages[k]
      /\ messages'[Len(messages) + 1] = m
  BY <1>4, <1>5, AppendProperties
<1>7. LastMessage' = m
  BY <1>6 DEF LastMessage
<1>8. Calls' = calls
  BY <1>7 DEF Calls, m, Message
<1>9. Says(calls, Len(messages) + 1)
  BY <1>3, <1>6, <1>7, <1>8, LastFits DEF Says, m
<1> QED
  BY <1>1, <1>9 DEF calls

LEMMA HumanEdits ==
  ASSUME TypeInv, Edit
  PROVE  \E calls : /\ Says(calls, Len(messages))
                    /\ accepted' = accepted \cup Range(calls)
                    /\ node' = IF calls = <<>> THEN "agent" ELSE "tools"
<1>1. PICK names \in EditedCalls :
          /\ messages' = [messages EXCEPT ![Len(messages)] = Message("ai", Named(names), NoId)]
          /\ accepted' = accepted \cup Range(Named(names))
          /\ node' = IF Named(names) = <<>> THEN "agent" ELSE "tools"
  BY DEF Edit
<1> DEFINE calls == Named(names)
           m == Message("ai", calls, NoId)
<1>2. names \in Seq(Names)
  BY AgentsAreSound
<1>3. calls \in Seq(CallSet) /\ \A k \in DOMAIN calls : calls[k].at = saved
  BY <1>2, NamedFits DEF TypeInv
<1> HIDE DEF calls
<1>4. m \in MessageSet
  BY <1>3 DEF Message, MessageSet
<1> HIDE DEF m
<1>5. messages' = [messages EXCEPT ![Len(messages)] = m] /\ messages \in Seq(MessageSet)
      /\ Len(messages) \in 1 .. Len(messages)
  BY <1>1, LastFits DEF m, calls, TypeInv
<1>6. /\ messages' \in Seq(MessageSet) /\ Len(messages') = Len(messages)
      /\ \A k \in 1 .. Len(messages) : messages'[k] = IF k = Len(messages) THEN m ELSE messages[k]
  BY <1>4, <1>5, ExceptSeq
<1>7. LastMessage' = m
  BY <1>5, <1>6 DEF LastMessage
<1>8. Calls' = calls
  BY <1>7 DEF Calls, m, Message
<1>9. messages' # <<>> /\ \A k \in 1 .. Len(messages) - 1 : messages'[k] = messages[k]
  BY <1>6, LastFits
<1>10. Says(calls, Len(messages))
  BY <1>3, <1>6, <1>7, <1>8, <1>9 DEF Says, m
<1> QED
  BY <1>1, <1>10 DEF calls

\* The messages get results for these calls behind them.
Shows(calls) ==
    /\ messages' \in Seq(MessageSet) /\ messages' # <<>>
    /\ Len(messages') = Len(messages) + Len(calls)
    /\ \A k \in 1 .. Len(messages) : messages'[k] = messages[k]
    /\ \A k \in 1 .. Len(calls) : messages'[Len(messages) + k] = Message("tool", <<>>, calls[k])
    /\ Calls' = IF calls = <<>> THEN Calls ELSE <<>>

LEMMA ToolsShow ==
  ASSUME TypeInv, NEW calls \in Seq(CallSet), messages' = messages \o Results(calls)
  PROVE  Shows(calls)
<1>1. messages \in Seq(MessageSet) /\ messages # <<>>
  BY DEF TypeInv
<1> QED
  BY <1>1, ResultsFit DEF Shows, Calls, LastMessage

LEMMA RejectShows ==
  ASSUME TypeInv, Reject
  PROVE  Shows(Selected) /\ Selected # <<>> /\ Selected \in Seq(CallSet) /\ Calls' = <<>>
<1>1. Selected \in Seq(CallSet) /\ Selected # <<>>
  BY LastFits, InNeedFits DEF Selected, Reject, Answered
<1>2. messages' = messages \o Results(Selected)
  BY DEF Reject, Results
<1>3. Shows(Selected)
  BY <1>1, <1>2, ToolsShow
<1> QED
  BY <1>1, <1>3 DEF Shows

LEMMA ReturnShows ==
  ASSUME TypeInv, ReturnResults
  PROVE  Shows(Calls) /\ Calls' = <<>>
<1>1. Calls \in Seq(CallSet)
  BY LastFits
<1>2. messages' = messages \o Results(Calls)
  BY DEF ReturnResults, Results
<1>3. Shows(Calls)
  BY <1>1, <1>2, ToolsShow
<1> QED
  BY <1>3 DEF Shows

-----------------------------------------------------------------------------
(* The groups of the tool node.                                            *)

\* A group is a part of what the message has left, alone if it writes.
LEMMA GroupFits ==
  ASSUME TypeInv, Position <= Len(Calls)
  PROVE  /\ Group \subseteq Position .. Len(Calls) /\ IsFiniteSet(Group)
         /\ Cardinality(Group) \in Nat /\ Cardinality(Group) <= Len(Calls) - done
         /\ \A k \in Group : Calls[k].tool \notin ReadOnly => Group = {k}
<1>1. Len(Calls) \in Nat /\ done \in Nat /\ Position = done + 1
  BY LastFits DEF TypeInv, Position
<1>2. Group \subseteq Position .. Len(Calls)
  BY <1>1 DEF Group
<1>3. IsFiniteSet(Position .. Len(Calls)) /\ Cardinality(Position .. Len(Calls)) = Len(Calls) - done
  BY <1>1, FS_Interval
<1>4. IsFiniteSet(Group) /\ Cardinality(Group) <= Cardinality(Position .. Len(Calls))
  BY <1>2, <1>3, FS_Subset
<1>5. ASSUME NEW k \in Group, Calls[k].tool \notin ReadOnly PROVE Group = {k}
  BY <1>1, <1>2, <1>5 DEF Group
<1> QED
  BY <1>2, <1>3, <1>4, <1>5, FS_CardinalityType

\* A finite set of naturals that is not empty has a greatest element: the
\* last one when they are listed in order.
LEMMA GreatestNat ==
  ASSUME NEW S \in SUBSET Nat, IsFiniteSet(S), S # {}
  PROVE  \E m \in S : \A j \in S : j <= m
<1> DEFINE n == Cardinality(S)
           order == InOrder(S)
<1>1. n \in Nat /\ n # 0 /\ Sorted(order, n, S)
  BY FS_CardinalityType, FS_EmptySet, InOrderIsSorted
<1> HIDE DEF n, order
<1>2. order \in [1 .. n -> S] /\ \A i, j \in 1 .. n : i < j => order[i] < order[j]
  BY <1>1 DEF Sorted
<1>3. n \in 1 .. n /\ order[n] \in S
  BY <1>1, <1>2
<1>4. ASSUME NEW x \in S PROVE x <= order[n]
  <2>1. PICK i \in 1 .. n : order[i] = x
    BY <1>1 DEF Sorted
  <2>2. i = n \/ i < n
    BY <1>1
  <2>3. i < n => order[i] < order[n]
    BY <1>2, <1>3
  <2>4. x \in Nat /\ order[n] \in Nat
    BY <1>3
  <2> QED
    BY <2>1, <2>2, <2>3, <2>4
<1> QED
  BY <1>3, <1>4

\* What of a group can be afforded is within the budget: so much the last call
\* of it was told, which counted all before.
LEMMA AffordableFits ==
  ASSUME TypeInv, Position <= Len(Calls)
  PROVE  /\ Affordable(Group) \subseteq Group
         /\ Cardinality(Affordable(Group)) \in Nat
         /\ (MaxToolCalls > 0 /\ used.tool <= MaxToolCalls) =>
                used.tool + Cardinality(Affordable(Group)) <= MaxToolCalls
<1> DEFINE A == Affordable(Group)
<1>1. A \subseteq Real(Group) /\ Real(Group) \subseteq Group
  BY DEF Affordable, Real
<1>2. IsFiniteSet(Group) /\ Group \in SUBSET Nat /\ used.tool \in Nat /\ MaxToolCalls \in Nat
  <2>1. Position \in Nat /\ Len(Calls) \in Nat
    BY LastFits DEF TypeInv, Position
  <2> QED
    BY <2>1, GroupFits, AgentFits DEF TypeInv
<1>3. IsFiniteSet(A) /\ IsFiniteSet(Real(Group)) /\ Cardinality(A) \in Nat
  BY <1>1, <1>2, FS_Subset, FS_CardinalityType
<1>4. ASSUME MaxToolCalls > 0, used.tool <= MaxToolCalls PROVE used.tool + Cardinality(A) <= MaxToolCalls
  <2>1. CASE A = {}
    BY <2>1, <1>2, <1>4, FS_EmptySet
  <2>2. CASE A # {}
    <3> DEFINE B(m) == {j \in Real(Group) : j <= m}
    <3>1. PICK m \in A : \A j \in A : j <= m
      <4>1. A \in SUBSET Nat
        BY <1>1, <1>2
      <4> QED
        BY <1>3, <2>2, <4>1, GreatestNat
    <3>2. A \subseteq B(m) /\ IsFiniteSet(B(m))
      <4>1. B(m) \subseteq Real(Group)
        OBVIOUS
      <4> QED
        BY <1>1, <1>3, <3>1, <4>1, FS_Subset
    <3>3. Cardinality(A) <= Cardinality(B(m)) /\ Cardinality(B(m)) \in Nat
      BY <3>2, FS_Subset, FS_CardinalityType
    <3>4. used.tool + Cardinality(B(m)) <= MaxToolCalls
      BY <3>1, <1>2, <1>4 DEF Affordable
    <3> QED
      BY <1>2, <1>3, <3>3, <3>4
  <2> QED
    BY <2>1, <2>2
<1> QED
  BY <1>1, <1>3, <1>4

-----------------------------------------------------------------------------
(* Every step keeps the types.                                             *)

\* The types, given what a step changes.
LEMMA TypeStep ==
  ASSUME TypeInv, ToolInv, Step, UNCHANGED setup
  PROVE  TypeInv'
<1>0. RecursionLimit' = RecursionLimit /\ RecursionLimit \in Nat
  BY AgentFits DEF RecursionLimit
<1>16. used \in [model : Nat, tool : Nat]
  BY DEF TypeInv
<1>17. steps \in 0 .. RecursionLimit /\ saved \in Nat /\ setup' \in Agents
  BY DEF TypeInv
<1>18. Calls \in Seq(CallSet) /\ \A k \in DOMAIN Calls : Calls[k] \in CallSet
  BY LastFits
<1>1. CASE CallModel
  <2>1. PICK calls : Says(calls, Len(messages) + 1) /\ Commit(AfterAgent(calls))
    BY <1>1, ModelSays
  <2>2. messages' \in Seq(MessageSet) /\ messages' # <<>>
    BY <2>1 DEF Says
  <2>3. node' \in {"agent", "approve", "tools", "structured", "end", "failed"} /\ saved' = saved + 1 /\ steps' = steps + 1
    BY <2>1 DEF Commit, AfterAgent, Final
  <2>4. steps < RecursionLimit /\ used' = [used EXCEPT !.model = @ + 1]
    BY <1>1 DEF CallModel, Runs
  <2>5. used' \in [model : Nat, tool : Nat]
    BY <2>4, <1>16
  <2>6. UNCHANGED <<toolVars, attempts, failure, accepted, spent, deliveries>>
    BY <1>1 DEF CallModel, humanVars
  <2>7. saved' \in Nat /\ steps' \in 0 .. RecursionLimit'
    BY <1>0, <1>17, <2>3, <2>4
  <2> QED
    BY <1>17, <2>2, <2>3, <2>5, <2>6, <2>7 DEF TypeInv, toolVars
<1>2. CASE ModelBudgetExceeded
  BY <1>0, <1>2 DEF ModelBudgetExceeded, Fail, TypeInv, toolVars, humanVars
<1>3. CASE RecursionError
  BY <1>0, <1>3 DEF RecursionError, Fail, TypeInv, toolVars, humanVars
<1>4. CASE ApproveNothing
  BY <1>0, <1>17, <1>4 DEF ApproveNothing, Runs, Commit, TypeInv, toolVars, humanVars
<1>5. ASSUME Answered PROVE
        /\ saved' \in Nat /\ steps' \in 0 .. RecursionLimit' /\ used' \in [model : Nat, tool : Nat]
        /\ spent' \in Nat /\ UNCHANGED <<toolVars, attempts, failure, deliveries>>
  BY <1>0, <1>5 DEF Answered, NothingUsed, Runs, TypeInv
<1>6. CASE Approve
  <2>1. Range(Calls) \subseteq CallSet /\ accepted' = accepted \cup Range(Calls)
    BY <1>6, <1>18 DEF Range, Approve
  <2> QED
    BY <1>5, <1>6, <2>1 DEF Approve, TypeInv, toolVars
<1>7. CASE Reject
  <2>1. messages' \in Seq(MessageSet) /\ messages' # <<>>
    BY <1>7, RejectShows DEF Shows
  <2> QED
    BY <1>5, <1>7, <2>1 DEF Reject, TypeInv, toolVars
<1>8. CASE Edit
  <2>1. PICK calls : /\ Says(calls, Len(messages)) /\ accepted' = accepted \cup Range(calls)
                     /\ node' = IF calls = <<>> THEN "agent" ELSE "tools"
    BY <1>8, HumanEdits
  <2>2. messages' \in Seq(MessageSet) /\ messages' # <<>> /\ calls \in Seq(CallSet)
    BY <2>1 DEF Says
  <2>3. Range(calls) \subseteq CallSet
    BY <2>2 DEF Range
  <2>4. node' \in {"agent", "tools"}
    BY <2>1
  <2> QED
    BY <1>5, <1>8, <2>1, <2>2, <2>3, <2>4 DEF Edit, TypeInv, toolVars
<1>19. CASE Misanswer
  BY <1>0, <1>19 DEF Misanswer, NothingUsed, Fail, TypeInv, toolVars, humanVars
<1>9. CASE StartGroup
  <2> DEFINE started == Affordable(Group)
  <2>1. Position <= Len(Calls) /\ done \in Nat /\ Position = done + 1
    BY <1>9 DEF StartGroup, TypeInv, Position
  <2>2. started \subseteq DOMAIN Calls /\ Cardinality(started) \in Nat
    BY <2>1, GroupFits, AffordableFits
  <2>3. /\ running' = {Calls[k] : k \in started} /\ ran' = ran \cup {Calls[k] : k \in started}
        /\ used' = [used EXCEPT !.tool = @ + Cardinality(started)] /\ spent' = spent + Cardinality(started)
        /\ UNCHANGED <<messages, saved, steps, outlived, effects, served, took, accepted, deliveries>>
        /\ \/ node' = "failed" /\ failure' = "budget" /\ done' = done
           \/ node' = node /\ failure' = failure /\ done' = done + AnsweredAtOnce(started)
    BY <1>9 DEF StartGroup, Fail, humanVars
  <2> HIDE DEF started
  <2>4. {Calls[k] : k \in started} \subseteq CallSet
    BY <1>18, <2>2
  <2>5. used' \in [model : Nat, tool : Nat] /\ spent' \in Nat
    <3>1. used.tool \in Nat /\ spent \in Nat
      BY <1>16 DEF TypeInv
    <3> QED
      BY <1>16, <2>2, <2>3, <3>1
  <2>6. done' \in Nat
    BY <2>3 DEF AnsweredAtOnce, TypeInv
  <2> QED
    BY <1>0, <2>3, <2>4, <2>5, <2>6 DEF TypeInv
<1>10. CASE ReturnResults
  <2>1. messages' \in Seq(MessageSet) /\ messages' # <<>>
    BY <1>10, ReturnShows DEF Shows
  <2> QED
    BY <1>0, <1>10, <2>1 DEF ReturnResults, Runs, Commit, TypeInv, humanVars
<1>11. ASSUME NEW c \in running, Returned(c)
       PROVE  /\ running' \subseteq running /\ done' \in Nat
              /\ UNCHANGED <<messages, node, saved, steps, used, attempts, failure, ran, accepted, spent, deliveries>>
  <2>1. Position <= Len(Calls) => Cardinality(Group) \in Nat
    BY GroupFits
  <2>2. node = "tools" => Position <= Len(Calls)
    BY DEF ToolInv, Position, TypeInv
  <2> QED
    BY <1>11, <2>1, <2>2 DEF Returned, TypeInv, humanVars
<1>20. ASSUME NEW c \in running PROVE c \in CallSet /\ c \in ran /\ KeyOf(c) \in KeySet
  <2>1. c \in CallSet /\ c \in ran
    BY DEF TypeInv
  <2> QED
    BY <2>1, <1>17 DEF KeyOf, KeySet, CallSet
<1>12. ASSUME NEW c \in running, FinishCall(c) PROVE TypeInv'
  <2>1. Returned(c) /\ served' = served \cup {c} /\ outlived' = outlived
    BY <1>12 DEF FinishCall, Performs
  <2>2. \/ UNCHANGED <<effects, took>>
        \/ effects' = effects \cup {KeyOf(c)} /\ took' = took \cup {c}
    BY <1>12 DEF FinishCall, Performs
  <2> QED
    BY <1>0, <1>11, <1>20, <2>1, <2>2 DEF TypeInv
<1>13. ASSUME NEW c \in running, FailCall(c) PROVE TypeInv'
  BY <1>0, <1>11, <1>13 DEF FailCall, TypeInv
<1>21. ASSUME NEW c \in running, TimeOut(c) PROVE TypeInv'
  <2>1. /\ Returned(c) /\ outlived' = outlived \cup {[call |-> c, key |-> KeyOf(c)]}
        /\ UNCHANGED <<effects, served, took>>
    BY <1>21 DEF TimeOut
  <2>2. outlived' \subseteq [call : ran, key : KeySet]
    BY <1>20, <2>1 DEF TypeInv
  <2> QED
    BY <1>0, <1>11, <1>21, <2>1, <2>2 DEF TypeInv
<1>22. ASSUME NEW b \in outlived, EndOutlived(b) PROVE TypeInv'
  <2>1. b.call \in ran /\ b.key \in KeySet
    BY DEF TypeInv
  <2>2. /\ \/ UNCHANGED <<effects, served, took>>
           \/ served' = served \cup {b.call} /\ UNCHANGED <<effects, took>>
           \/ served' = served \cup {b.call} /\ effects' = effects \cup {b.key} /\ took' = took \cup {b.call}
        /\ outlived' \subseteq outlived
        /\ UNCHANGED <<messages, node, saved, steps, used, running, done, failure, ran, accepted, spent, deliveries>>
    BY <1>22 DEF EndOutlived, Performs, humanVars
  <2> QED
    BY <1>0, <2>1, <2>2 DEF TypeInv
<1>14. ASSUME NEW valid \in BOOLEAN, StructuredResponse(valid) PROVE TypeInv'
  <2>1. used' \in [model : Nat, tool : Nat]
    BY <1>14, <1>16 DEF StructuredResponse
  <2>2. /\ steps < RecursionLimit /\ UNCHANGED <<messages, toolVars, accepted, spent, deliveries>>
        /\ \/ node' = "end" /\ saved' = saved + 1 /\ steps' = steps + 1 /\ failure' = failure
           \/ node' = "failed" /\ failure' = "invalid" /\ saved' = saved /\ steps' = steps
           \/ UNCHANGED <<node, saved, steps, failure>>
    BY <1>14 DEF StructuredResponse, Runs, Commit, Fail, humanVars
  <2>3. saved' \in Nat /\ steps' \in 0 .. RecursionLimit'
    BY <1>0, <1>17, <2>2
  <2> QED
    BY <1>17, <2>1, <2>2, <2>3 DEF TypeInv, toolVars
<1>15. CASE Crash
  BY <1>0, <1>15 DEF Crash, Fresh, NothingUsed, TypeInv, humanVars
<1> QED
  BY <1>1, <1>2, <1>3, <1>4, <1>6, <1>7, <1>8, <1>9, <1>10, <1>12, <1>13, <1>14, <1>15, <1>19, <1>21, <1>22 DEF Step

-----------------------------------------------------------------------------
(* Every step keeps what the tool node, the budget and the approval rely on. *)

\* The steps that leave the messages alone leave the calls alone.
LEMMA SameCalls ==
  ASSUME UNCHANGED messages
  PROVE  Calls' = Calls /\ LastMessage' = LastMessage
  BY DEF Calls, LastMessage

\* What StartGroup does, and where.
LEMMA GroupStarts ==
  ASSUME StartGroup
  PROVE  LET started == Affordable(Group)
         IN /\ node = "tools" /\ running = {} /\ Position <= Len(Calls)
            /\ running' = {Calls[k] : k \in started} /\ ran' = ran \cup {Calls[k] : k \in started}
            /\ used' = [used EXCEPT !.tool = @ + Cardinality(started)]
            /\ spent' = spent + Cardinality(started)
            /\ \/ node' = "failed" /\ done' = done
               \/ node' = "tools" /\ done' = done + AnsweredAtOnce(started)
            /\ UNCHANGED <<messages, saved, outlived, effects, served, took, humanVars, accepted, deliveries>>
  BY DEF StartGroup, Runs, Fail, humanVars

\* What the end of a call does, and where.
LEMMA CallReturns ==
  ASSUME TypeInv, ToolInv, NEW c \in running, FinishCall(c) \/ FailCall(c) \/ TimeOut(c)
  PROVE  /\ node \in {"tools", "failed"}
         /\ \E k \in DOMAIN Calls : c = Calls[k]
         /\ running' = running \ {c} /\ done' \in Nat /\ done' <= Len(Calls)
         /\ running' # {} => done' = done
         /\ UNCHANGED <<messages, node, saved, used, ran, humanVars, spent, deliveries>>
<1>1. Returned(c)
  BY DEF FinishCall, FailCall, TimeOut
<1>2. node \in {"tools", "failed"} /\ \E k \in DOMAIN Calls : c = Calls[k]
  BY DEF ToolInv
<1>3. node = "tools" => Position <= Len(Calls)
  BY LastFits DEF ToolInv, Position, TypeInv
<1>4. node = "tools" => Cardinality(Group) \in Nat /\ done + Cardinality(Group) <= Len(Calls)
  BY <1>3, GroupFits, LastFits DEF TypeInv
<1>5. done' \in Nat /\ done' <= Len(Calls)
  BY <1>1, <1>4, LastFits DEF Returned, TypeInv, ToolInv
<1> QED
  BY <1>1, <1>2, <1>5 DEF Returned

LEMMA ToolStep ==
  ASSUME TypeInv, ToolInv, Step, UNCHANGED setup
  PROVE  ToolInv'
<1>1. TypeInv'
  BY TypeStep
<1>2. (Len(Calls) \in Nat)'
  BY <1>1, LastFits, PTL
<1>3. ASSUME running' = {}, done' = 0 PROVE ToolInv'
  BY <1>2, <1>3 DEF ToolInv, Alone
<1>4. ASSUME node \notin {"tools", "failed"}, UNCHANGED <<running, done>> PROVE ToolInv'
  BY <1>3, <1>4 DEF ToolInv
<1>5. CASE RecursionError
  <2>1. node' = "failed" /\ UNCHANGED <<messages, running, done>>
    BY <1>5 DEF RecursionError, Fail, toolVars
  <2> QED
    BY <2>1, SameCalls DEF ToolInv, Alone
<1>6. CASE StartGroup
  <2> DEFINE started == Affordable(Group)
  <2>1. /\ node = "tools" /\ running = {} /\ Position <= Len(Calls)
        /\ running' = {Calls[k] : k \in started}
        /\ \/ node' = "failed" /\ done' = done
           \/ node' = "tools" /\ done' = done + AnsweredAtOnce(started)
        /\ UNCHANGED messages
    BY <1>6, GroupStarts
  <2>2. done \in Nat /\ Len(Calls) \in Nat /\ done + 1 <= Len(Calls)
    BY <2>1, LastFits DEF Position, TypeInv
  <2>3. /\ started \subseteq DOMAIN Calls
        /\ \A k \in started : Calls[k].tool \notin ReadOnly => started \subseteq {k}
    <3>1. Group \subseteq DOMAIN Calls
      <4>1. Position \in Nat /\ Position > 0 /\ Len(Calls) \in Nat /\ DOMAIN Calls = 1 .. Len(Calls)
        BY <2>2, LastFits DEF Position
      <4> QED
        BY <2>1, <4>1, GroupFits
    <3> QED
      BY <2>1, <3>1, GroupFits, AffordableFits
  <2> HIDE DEF started
  <2>4. done' <= Len(Calls) /\ (running' # {} => done' < Len(Calls))
    BY <2>1, <2>2 DEF AnsweredAtOnce
  <2>5. Calls' = Calls
    BY <2>1, SameCalls
  <2>6. Alone'
    BY <2>1, <2>3 DEF Alone
  <2> QED
    BY <2>1, <2>3, <2>4, <2>5, <2>6 DEF ToolInv
<1>7. ASSUME NEW c \in running, FinishCall(c) \/ FailCall(c) \/ TimeOut(c) PROVE ToolInv'
  <2>1. /\ node \in {"tools", "failed"} /\ running' = running \ {c} /\ done' <= Len(Calls)
        /\ running' # {} => done' = done
        /\ UNCHANGED <<messages, node>>
    BY <1>7, CallReturns
  <2>2. Calls' = Calls
    BY <2>1, SameCalls
  <2>3. Alone'
    BY <2>1 DEF ToolInv, Alone
  <2> QED
    BY <2>1, <2>2, <2>3 DEF ToolInv
<1>8. CASE CallModel \/ ApproveNothing \/ Approve \/ Reject \/ Edit \/ Misanswer \/ \E valid \in BOOLEAN : StructuredResponse(valid)
  <2>1. node \notin {"tools", "failed"} /\ UNCHANGED <<running, done>>
    BY <1>8 DEF CallModel, ApproveNothing, Approve, Reject, Edit, Misanswer, Answered, StructuredResponse, Runs,
              toolVars
  <2> QED
    BY <1>4, <2>1
<1>9. CASE ModelBudgetExceeded
  <2>1. node \notin {"tools", "failed"} /\ UNCHANGED <<running, done>>
    BY <1>9 DEF ModelBudgetExceeded, Runs, toolVars
  <2> QED
    BY <1>4, <2>1
<1>10. CASE ReturnResults
  <2>1. node = "tools" /\ done = Len(Calls) /\ done' = 0 /\ running' = running
    BY <1>10 DEF ReturnResults, Runs
  <2>2. running = {}
    BY <2>1, LastFits DEF ToolInv, TypeInv
  <2> QED
    BY <1>3, <2>1, <2>2
<1>11. CASE Crash
  BY <1>3, <1>11 DEF Crash, Fresh
<1>12. CASE \E b \in outlived : EndOutlived(b)
  <2>1. UNCHANGED <<messages, node, running, done>>
    BY <1>12 DEF EndOutlived
  <2> QED
    BY <2>1, SameCalls DEF ToolInv, Alone
<1> QED
  BY <1>5, <1>6, <1>7, <1>8, <1>9, <1>10, <1>11, <1>12 DEF Step

LEMMA BudgetStep ==
  ASSUME TypeInv, BudgetInv, Step, UNCHANGED setup
  PROVE  BudgetInv'
<1> DEFINE M == MaxToolCalls
           earlier == (deliveries - 1) * M
<1>1. M' = M /\ M \in Nat
  BY AgentFits DEF MaxToolCalls
<1>2. deliveries \in Nat \ {0} /\ used \in [model : Nat, tool : Nat] /\ used.tool \in Nat /\ spent \in Nat
  BY DEF TypeInv
<1>3. earlier \in Nat
  BY <1>1, <1>2
<1>4. M > 0 => used.tool <= M /\ spent <= earlier + used.tool
  BY DEF BudgetInv
<1> DEFINE Within == M > 0 => used'.tool <= M /\ spent' <= (deliveries' - 1) * M + used'.tool
<1>5. SUFFICES Within
  BY <1>1 DEF BudgetInv
<1> HIDE DEF M
<1>6. ASSUME deliveries' = deliveries, M > 0 => used'.tool <= M /\ spent' <= earlier + used'.tool
      PROVE  Within
  BY <1>6
<1> HIDE DEF earlier
<1>7. ASSUME UNCHANGED <<spent, deliveries>>, used'.tool = used.tool PROVE Within
  BY <1>4, <1>6, <1>7
<1>8. CASE CallModel \/ \E valid \in BOOLEAN : StructuredResponse(valid)
  <2>1. used' = [used EXCEPT !.model = @ + 1] /\ UNCHANGED <<spent, deliveries>>
    BY <1>8 DEF CallModel, StructuredResponse
  <2>2. used'.tool = used.tool
    BY <1>2, <2>1
  <2> QED
    BY <1>7, <2>1, <2>2
<1>9. CASE ModelBudgetExceeded \/ RecursionError \/ ApproveNothing \/ ReturnResults
  BY <1>7, <1>9 DEF ModelBudgetExceeded, RecursionError, ApproveNothing, ReturnResults
<1>10. CASE Approve \/ Reject \/ Edit \/ Misanswer
  <2>1. used'.tool = 0 /\ spent' = 0 /\ deliveries' = deliveries
    BY <1>10 DEF Approve, Reject, Edit, Misanswer, Answered, NothingUsed
  <2> QED
    BY <1>1, <1>3, <1>6, <2>1
<1>11. CASE StartGroup
  <2> DEFINE n == Cardinality(Affordable(Group))
  <2>1. /\ used' = [used EXCEPT !.tool = @ + n] /\ spent' = spent + n /\ deliveries' = deliveries
        /\ Position <= Len(Calls)
    BY <1>11, GroupStarts
  <2>2. n \in Nat /\ (M > 0 /\ used.tool <= M => used.tool + n <= M)
    BY <2>1, AffordableFits DEF M
  <2> HIDE DEF n
  <2>3. used'.tool = used.tool + n
    BY <1>2, <2>1
  <2> QED
    BY <1>1, <1>2, <1>3, <1>4, <1>6, <2>1, <2>2, <2>3
<1>12. CASE \/ \E c \in running : FinishCall(c) \/ FailCall(c) \/ TimeOut(c)
            \/ \E b \in outlived : EndOutlived(b)
  <2>1. UNCHANGED <<used, spent, deliveries>>
    BY <1>12 DEF FinishCall, FailCall, TimeOut, EndOutlived, Returned
  <2> QED
    BY <1>7, <2>1
<1>13. CASE Crash
  <2>1. deliveries' = deliveries + 1 /\ used'.tool = 0 /\ spent' = spent
    BY <1>13 DEF Crash, Fresh, NothingUsed
  <2>2. (deliveries' - 1) * M = earlier + M
    BY <1>1, <1>2, <2>1 DEF earlier
  <2> QED
    BY <1>1, <1>2, <1>3, <1>4, <2>1, <2>2
<1> QED
  BY <1>8, <1>9, <1>10, <1>11, <1>12, <1>13 DEF Step

LEMMA AcceptStep ==
  ASSUME TypeInv, AcceptInv, Step, UNCHANGED setup
  PROVE  AcceptInv'
<1>1. Approvals' = Approvals
  BY DEF Approvals
<1>2. ASSUME ran' = ran, accepted \subseteq accepted' PROVE OnlyAcceptedCallsRun'
  BY <1>1, <1>2 DEF AcceptInv, OnlyAcceptedCallsRun
<1>3. ASSUME ran' = ran, accepted \subseteq accepted', node' # "tools" PROVE AcceptInv'
  BY <1>2, <1>3 DEF AcceptInv
<1>4. ASSUME UNCHANGED <<messages, ran, accepted, node>> PROVE AcceptInv'
  BY <1>1, <1>2, <1>4, SameCalls DEF AcceptInv
<1>5. CASE CallModel
  <2>1. PICK calls : node' = AfterAgent(calls)
    BY <1>5, ModelSays DEF Commit
  <2>2. ran' = ran /\ accepted' = accepted
    BY <1>5 DEF CallModel, toolVars, humanVars
  <2>3. node' = "tools" => Approvals' = {}
    BY <1>1, <2>1 DEF AfterAgent, Final
  <2> QED
    BY <1>2, <2>2, <2>3 DEF AcceptInv
<1>6. CASE ModelBudgetExceeded \/ RecursionError
  BY <1>3, <1>6 DEF ModelBudgetExceeded, RecursionError, Fail, toolVars, humanVars
<1>7. CASE ApproveNothing
  <2>1. Selected = <<>> /\ UNCHANGED <<messages, ran, accepted>>
    BY <1>7 DEF ApproveNothing, toolVars, humanVars
  <2>2. \A k \in DOMAIN Calls : Calls[k].tool \notin Approvals
    BY <2>1, LastFits, InNeedFits DEF Selected
  <2> QED
    BY <1>1, <1>2, <2>1, <2>2, SameCalls DEF AcceptInv
<1>8. CASE Approve
  <2>1. ran' = ran /\ accepted' = accepted \cup Range(Calls) /\ messages' = messages
    BY <1>8 DEF Approve, Answered, toolVars
  <2>2. \A k \in DOMAIN Calls : Calls[k] \in accepted'
    BY <2>1 DEF Range
  <2> QED
    BY <1>2, <2>1, <2>2, SameCalls DEF AcceptInv
<1>9. CASE Reject
  BY <1>3, <1>9 DEF Reject, Answered, toolVars
<1>10. CASE Edit
  <2>1. PICK calls : Says(calls, Len(messages)) /\ accepted' = accepted \cup Range(calls)
    BY <1>10, HumanEdits
  <2>2. ran' = ran /\ Calls' = calls
    BY <1>10, <2>1 DEF Edit, Answered, toolVars, Says
  <2>3. \A k \in DOMAIN Calls' : Calls'[k] \in accepted'
    BY <2>1, <2>2 DEF Range
  <2> QED
    BY <1>2, <2>1, <2>2, <2>3 DEF AcceptInv
<1>11. CASE StartGroup
  <2> DEFINE started == Affordable(Group)
  <2>1. /\ node = "tools" /\ Position <= Len(Calls) /\ ran' = ran \cup {Calls[k] : k \in started}
        /\ UNCHANGED <<messages, accepted>>
    BY <1>11, GroupStarts
  <2>2. started \subseteq DOMAIN Calls
    <3>1. Position \in Nat /\ Position > 0 /\ Len(Calls) \in Nat /\ DOMAIN Calls = 1 .. Len(Calls)
      BY LastFits DEF Position, TypeInv
    <3>2. Group \subseteq DOMAIN Calls
      BY <2>1, <3>1, GroupFits
    <3> QED
      BY <2>1, <3>2, AffordableFits
  <2> HIDE DEF started
  <2>3. OnlyAcceptedCallsRun'
    BY <1>1, <2>1, <2>2 DEF AcceptInv, OnlyAcceptedCallsRun
  <2> QED
    BY <1>1, <2>1, <2>3, SameCalls DEF AcceptInv
<1>12. CASE \/ \E c \in running : FinishCall(c) \/ FailCall(c) \/ TimeOut(c)
            \/ \E b \in outlived : EndOutlived(b)
  BY <1>4, <1>12 DEF FinishCall, FailCall, TimeOut, EndOutlived, Returned, humanVars
<1>13. CASE ReturnResults
  BY <1>3, <1>13 DEF ReturnResults, Commit, humanVars
<1>16. CASE Misanswer
  BY <1>3, <1>16 DEF Misanswer, Fail, toolVars, humanVars
<1>14. CASE \E valid \in BOOLEAN : StructuredResponse(valid)
  <2>1. node' # "tools" /\ ran' = ran /\ accepted' = accepted
    BY <1>14 DEF StructuredResponse, Runs, Commit, Fail, toolVars, humanVars
  <2> QED
    BY <1>3, <2>1
<1>15. CASE Crash
  BY <1>4, <1>15 DEF Crash, humanVars
<1> QED
  BY <1>5, <1>6, <1>7, <1>8, <1>9, <1>10, <1>11, <1>12, <1>13, <1>14, <1>15, <1>16 DEF Step

-----------------------------------------------------------------------------
(* Every step keeps calls and keys apart by superstep.                     *)

\* A group that fails ends the run; one that does not leaves its node.
LEMMA KeyFrame ==
  ASSUME TypeInv, KeyInv, UNCHANGED <<messages, saved, took, effects>>,
         node' = node \/ node' = "failed"
  PROVE  KeyInv'
<1>1. Calls' = Calls
  BY SameCalls
<1>2. CASE node' = node
  BY <1>1, <1>2 DEF KeyInv
<1>3. CASE node \in {"tools", "failed"} /\ node' = "failed"
  BY <1>1, <1>3 DEF KeyInv
<1>4. CASE node \notin {"tools", "failed"} /\ node' = "failed"
  <2>1. ASSUME NEW k \in DOMAIN Calls
        PROVE  /\ ~ \E d \in took : d.at = Calls[k].at /\ d.tool = Calls[k].tool
               /\ [at |-> saved, tool |-> Calls[k].tool] \notin effects
    <3>1. saved \in Nat /\ Calls[k].at \in Nat
      BY LastFits DEF TypeInv, CallSet
    <3>2. (\A d \in took : d.at < Calls[k].at) /\ \A e \in effects : e.at < saved
      BY <1>4 DEF KeyInv
    <3> QED
      BY <3>1, <3>2
  <2> QED
    BY <1>1, <1>4, <2>1 DEF KeyInv
<1> QED
  BY <1>2, <1>3, <1>4

\* A superstep that runs no tool commits: all there is belongs to earlier ones.
LEMMA KeyCommit ==
  ASSUME TypeInv, KeyInv, saved' = saved + 1, UNCHANGED <<took, effects>>,
         \A k \in DOMAIN Calls' : /\ Calls'[k].at \in Nat /\ Calls'[k].at < saved'
                                  /\ \A l \in DOMAIN Calls' : Calls'[l].at = Calls'[k].at
                                  /\ \A d \in took : d.at < Calls'[k].at
  PROVE  KeyInv'
<1>1. saved \in Nat /\ \A d \in took : d.at \in Nat
  BY DEF TypeInv, CallSet
<1>2. \A e \in effects : e.at \in Nat
  BY DEF TypeInv, KeySet
<1>3. (\A d \in took' : d.at < saved') /\ \A e \in effects' : e.at < saved' /\ e.at <= saved'
  BY <1>1, <1>2 DEF KeyInv
<1>4. ASSUME NEW k \in DOMAIN Calls'
      PROVE  /\ ~ \E d \in took' : d.at = Calls'[k].at /\ d.tool = Calls'[k].tool
             /\ [at |-> saved', tool |-> Calls'[k].tool] \notin effects'
  BY <1>1, <1>3
<1> QED
  BY <1>3, <1>4 DEF KeyInv

LEMMA KeyStep ==
  ASSUME TypeInv, ToolInv, KeyInv, ThreadInv, Step
  PROVE  KeyInv'
<1>1. saved \in Nat /\ \A d \in took : d.at \in Nat
  BY DEF TypeInv, CallSet
<1>2. \A k \in DOMAIN Calls : Calls[k] \in CallSet /\ Calls[k].at \in Nat /\ Calls[k].at < saved
  BY LastFits DEF KeyInv, CallSet
<1>3. ASSUME NEW calls, NEW n, Says(calls, n), saved' = saved + 1, UNCHANGED <<took, effects>>
      PROVE  KeyInv'
  <2>1. Calls' = calls /\ \A k \in DOMAIN calls : calls[k].at = saved
    BY <1>3 DEF Says
  <2>2. \A d \in took : d.at < saved
    BY DEF KeyInv
  <2> QED
    BY <1>1, <1>3, <2>1, <2>2, KeyCommit
<1>4. ASSUME Calls' = <<>>, saved' = saved + 1, UNCHANGED <<took, effects>> PROVE KeyInv'
  BY <1>4, KeyCommit
<1>5. ASSUME node \notin {"tools", "failed"}, saved' = saved + 1, UNCHANGED <<messages, took, effects>>
      PROVE  KeyInv'
  <2>1. \A k \in DOMAIN Calls : /\ \A l \in DOMAIN Calls : Calls[l].at = Calls[k].at
                                /\ \A d \in took : d.at < Calls[k].at
    BY <1>5 DEF KeyInv
  <2>2. Calls' = Calls /\ saved < saved' /\ saved' \in Nat
    BY <1>1, <1>5, SameCalls
  <2>3. \A k \in DOMAIN Calls : Calls[k].at < saved'
    BY <1>1, <1>2, <2>2
  <2> QED
    BY <1>2, <1>5, <2>1, <2>2, <2>3, KeyCommit
<1>6. CASE CallModel
  <2>1. PICK calls : Says(calls, Len(messages) + 1) /\ saved' = saved + 1
    BY <1>6, ModelSays DEF Commit
  <2>2. UNCHANGED <<took, effects>>
    BY <1>6 DEF CallModel, toolVars
  <2> QED
    BY <1>3, <2>1, <2>2
<1>7. CASE ModelBudgetExceeded \/ RecursionError
  BY <1>7, KeyFrame DEF ModelBudgetExceeded, RecursionError, Fail, toolVars
<1>17. CASE Misanswer
  BY <1>17, KeyFrame DEF Misanswer, Fail, toolVars
<1>8. CASE ApproveNothing \/ Approve
  BY <1>5, <1>8 DEF ApproveNothing, Approve, Answered, Runs, Commit, toolVars
<1>9. CASE Reject
  BY <1>4, <1>9, RejectShows DEF Reject, Answered, toolVars
<1>10. CASE Edit
  <2>1. PICK calls : Says(calls, Len(messages))
    BY <1>10, HumanEdits
  <2> QED
    BY <1>3, <1>10, <2>1 DEF Edit, Answered, toolVars
<1>11. CASE StartGroup
  <2>1. UNCHANGED <<messages, saved, took, effects>> /\ (node' = node \/ node' = "failed")
    BY <1>11, GroupStarts
  <2> QED
    BY <2>1, KeyFrame
<1>12. CASE ReturnResults
  BY <1>4, <1>12, ReturnShows DEF ReturnResults, Commit
<1>13. ASSUME NEW c \in running, FinishCall(c) PROVE KeyInv'
  <2>1. /\ node \in {"tools", "failed"} /\ UNCHANGED <<messages, node, saved>>
        /\ \E k \in DOMAIN Calls : c = Calls[k]
    BY <1>13, CallReturns
  <2>2. Calls' = Calls
    BY <2>1, SameCalls
  <2>3. CASE UNCHANGED <<effects, took>>
    BY <2>1, <2>3, KeyFrame
  <2>4. CASE effects' = effects \cup {KeyOf(c)} /\ took' = took \cup {c}
    <3>1. KeyOf(c) = [at |-> saved, tool |-> c.tool] /\ c.at < saved
      BY <1>2, <2>1 DEF KeyOf
    <3>2. (\A d \in took' : d.at < saved) /\ \A e \in effects' : e.at <= saved
      BY <1>1, <2>4, <3>1 DEF KeyInv
    <3>3. ASSUME NEW k \in DOMAIN Calls
          PROVE  (\E d \in took' : d.at = Calls[k].at /\ d.tool = Calls[k].tool)
                     <=> [at |-> saved, tool |-> Calls[k].tool] \in effects'
      <4>1. c.at = Calls[k].at
        BY <2>1 DEF KeyInv
      <4>2. CASE Calls[k].tool = c.tool
        BY <2>4, <3>1, <4>1, <4>2
      <4>3. CASE Calls[k].tool # c.tool
        <5>1. [at |-> saved, tool |-> Calls[k].tool] # KeyOf(c)
          BY <3>1, <4>3
        <5>2. (\E d \in took : d.at = Calls[k].at /\ d.tool = Calls[k].tool)
                  <=> [at |-> saved, tool |-> Calls[k].tool] \in effects
          BY <2>1 DEF KeyInv
        <5> QED
          BY <2>4, <4>3, <5>1, <5>2
      <4> QED
        BY <4>2, <4>3
    <3> QED
      BY <2>1, <2>2, <3>2, <3>3 DEF KeyInv
  <2> QED
    BY <1>13, <2>3, <2>4 DEF FinishCall, Performs
<1>14. ASSUME NEW c \in running, FailCall(c) \/ TimeOut(c) PROVE KeyInv'
  BY <1>14, KeyFrame DEF FailCall, TimeOut, Returned
<1>18. ASSUME NEW b \in outlived, EndOutlived(b) PROVE KeyInv'
  <2>1. UNCHANGED <<messages, node, saved>> /\ Calls' = Calls
    BY <1>18, SameCalls DEF EndOutlived
  <2>2. CASE UNCHANGED <<effects, took>>
    BY <2>1, <2>2, KeyFrame
  <2>3. CASE effects' = effects \cup {b.key} /\ took' = took \cup {b.call}
    <3>1. /\ b.key.tool = b.call.tool /\ b.key.at <= saved /\ b.call.at < saved
          /\ b.key \in KeySet /\ b.call \in CallSet
      BY DEF ThreadInv, TypeInv
    <3>2. (\A d \in took' : d.at < saved) /\ \A e \in effects' : e.at <= saved
      BY <2>3, <3>1 DEF KeyInv
    <3>3. CASE node \notin {"tools", "failed"}
      <4>1. b.key.at < saved /\ \A k \in DOMAIN Calls : b.call.at < Calls[k].at
        BY <3>3 DEF ThreadInv
      <4> QED
        BY <2>1, <2>3, <3>2, <3>3, <4>1 DEF KeyInv
    <3>4. CASE node \in {"tools", "failed"}
      <4>1. ASSUME NEW k \in DOMAIN Calls
            PROVE  (\E d \in took' : d.at = Calls[k].at /\ d.tool = Calls[k].tool)
                       <=> [at |-> saved, tool |-> Calls[k].tool] \in effects'
        <5>1. b.key.at = saved <=> b.call.at = Calls[k].at
          BY <3>4 DEF ThreadInv
        <5>2. (\E d \in took : d.at = Calls[k].at /\ d.tool = Calls[k].tool)
                  <=> [at |-> saved, tool |-> Calls[k].tool] \in effects
          BY <3>4 DEF KeyInv
        <5>3. [at |-> saved, tool |-> Calls[k].tool] = b.key
                  <=> b.call.at = Calls[k].at /\ b.call.tool = Calls[k].tool
          BY <3>1, <5>1 DEF KeySet
        <5> QED
          BY <2>3, <5>2, <5>3
      <4> QED
        BY <2>1, <3>2, <3>4, <4>1 DEF KeyInv
    <3> QED
      BY <3>3, <3>4
  <2> QED
    BY <1>18, <2>2, <2>3 DEF EndOutlived, Performs
<1>15. ASSUME NEW valid \in BOOLEAN, StructuredResponse(valid) PROVE KeyInv'
  <2>1. node = "structured" /\ UNCHANGED <<messages, took, effects>>
        /\ (saved' = saved + 1 \/ (saved' = saved /\ (node' = node \/ node' = "failed")))
    BY <1>15 DEF StructuredResponse, Runs, Commit, Fail, toolVars
  <2> QED
    BY <1>5, <2>1, KeyFrame
<1>16. CASE Crash
  BY <1>16, KeyFrame DEF Crash
<1> QED
  BY <1>6, <1>7, <1>8, <1>9, <1>10, <1>11, <1>12, <1>13, <1>14, <1>15, <1>16, <1>17, <1>18 DEF Step

\* What took effect once, is not done again: the key of its superstep is known.
LEMMA EffectStep ==
  ASSUME TypeInv, ToolInv, KeyInv, ThreadInv, EffectInv, Step
  PROVE  EffectInv'
<1>1. ASSUME UNCHANGED <<served, took>> PROVE EffectInv'
  BY <1>1 DEF EffectInv, HasTwin
<1>2. ASSUME NEW c \in running, FinishCall(c) PROVE EffectInv'
  <2>1. node \in {"tools", "failed"} /\ \E k \in DOMAIN Calls : c = Calls[k]
    BY <1>2, CallReturns
  <2>2. HasTwin(c) <=> KeyOf(c) \in effects
    BY <2>1 DEF KeyInv, HasTwin, KeyOf
  <2>3. served' = served \cup {c}
    BY <1>2 DEF FinishCall, Performs
  <2>4. CASE (c.tool \in ReadOnly \/ KeyOf(c) \in effects) /\ took' = took
    BY <2>2, <2>3, <2>4 DEF EffectInv, HasTwin
  <2>5. CASE KeyOf(c) \notin effects /\ took' = took \cup {c}
    BY <2>2, <2>3, <2>5 DEF EffectInv, HasTwin
  <2> QED
    BY <1>2, <2>4, <2>5 DEF FinishCall, Performs
<1>3. ASSUME NEW c \in running, FailCall(c) \/ TimeOut(c) PROVE EffectInv'
  BY <1>1, <1>3 DEF FailCall, TimeOut
<1>8. ASSUME NEW b \in outlived, EndOutlived(b) PROVE EffectInv'
  <2>1. HasTwin(b.call) <=> b.key \in effects
    BY DEF ThreadInv, HasTwin, TookEffect
  <2>2. CASE UNCHANGED <<served, took>>
    BY <1>1, <2>2
  <2>3. CASE /\ served' = served \cup {b.call} /\ took' = took
             /\ b.call.tool \in ReadOnly \/ b.key \in effects
    BY <2>1, <2>3 DEF EffectInv, HasTwin
  <2>4. CASE b.key \notin effects /\ served' = served \cup {b.call} /\ took' = took \cup {b.call}
    BY <2>1, <2>4 DEF EffectInv, HasTwin
  <2> QED
    BY <1>8, <2>2, <2>3, <2>4 DEF EndOutlived, Performs
<1>4. CASE StartGroup
  BY <1>1, <1>4, GroupStarts
<1>5. CASE \E valid \in BOOLEAN : StructuredResponse(valid)
  BY <1>1, <1>5 DEF StructuredResponse, toolVars
<1>6. CASE CallModel \/ ModelBudgetExceeded \/ RecursionError \/ ApproveNothing \/ ReturnResults \/ Crash
  BY <1>1, <1>6
     DEF CallModel, ModelBudgetExceeded, RecursionError, ApproveNothing, ReturnResults, Crash, toolVars
<1>7. CASE Approve \/ Reject \/ Edit \/ Misanswer
  BY <1>1, <1>7 DEF Approve, Reject, Edit, Misanswer, Answered, toolVars
<1> QED
  BY <1>2, <1>3, <1>4, <1>5, <1>6, <1>7, <1>8 DEF Step

-----------------------------------------------------------------------------
(* Every step keeps what outlived functions rely on.                       *)

\* Nothing outlives: nothing relies on anything.
LEMMA NoThread ==
  ASSUME outlived' = {}
  PROVE  ThreadInv'
  BY DEF ThreadInv

LEMMA ThreadFrame ==
  ASSUME TypeInv, ThreadInv, UNCHANGED <<messages, saved, took, effects>>, outlived' \subseteq outlived,
         node' = node \/ node' = "failed"
  PROVE  ThreadInv'
<1>1. Calls' = Calls
  BY SameCalls
<1>2. /\ \A b \in outlived' : b.key.tool = b.call.tool /\ b.key.at <= saved' /\ b.call.at < saved'
      /\ \A b \in outlived' : TookEffect(b.call)' <=> b.key \in effects'
      /\ \A a, b \in outlived' : a.key.at = b.key.at <=> a.call.at = b.call.at
  BY DEF ThreadInv, TookEffect
<1>3. CASE node' = node
  BY <1>1, <1>2, <1>3 DEF ThreadInv
<1>4. CASE node \in {"tools", "failed"} /\ node' = "failed"
  BY <1>1, <1>2, <1>4 DEF ThreadInv
<1>5. CASE node \notin {"tools", "failed"} /\ node' = "failed"
  <2>1. ASSUME NEW b \in outlived, NEW k \in DOMAIN Calls
        PROVE  b.key.at # saved /\ b.call.at # Calls[k].at /\ b.call.at <= Calls[k].at
    <3>1. b.key.at < saved /\ b.call.at < Calls[k].at
      BY <1>5 DEF ThreadInv
    <3>2. saved \in Nat /\ Calls[k].at \in Nat /\ b.key.at \in Nat /\ b.call.at \in Nat
      BY LastFits DEF TypeInv, CallSet, KeySet
    <3> QED
      BY <3>1, <3>2
  <2> QED
    BY <1>1, <1>2, <1>5, <2>1 DEF ThreadInv
<1> QED
  BY <1>3, <1>4, <1>5

\* A superstep commits: what outlived belongs to earlier ones.
LEMMA ThreadCommit ==
  ASSUME TypeInv, ThreadInv, saved' = saved + 1, UNCHANGED <<took, effects, outlived>>,
         \A k \in DOMAIN Calls' : Calls'[k].at \in Nat /\ \A b \in outlived : b.call.at < Calls'[k].at
  PROVE  ThreadInv'
<1>1. saved \in Nat /\ \A b \in outlived : b.key.at \in Nat /\ b.call.at \in Nat
  BY DEF TypeInv, CallSet, KeySet
<1>2. /\ \A b \in outlived' : b.key.tool = b.call.tool /\ b.key.at < saved' /\ b.call.at < saved'
      /\ \A b \in outlived' : TookEffect(b.call)' <=> b.key \in effects'
      /\ \A a, b \in outlived' : a.key.at = b.key.at <=> a.call.at = b.call.at
  BY <1>1 DEF ThreadInv, TookEffect
<1>3. ASSUME NEW b \in outlived', NEW k \in DOMAIN Calls'
      PROVE  /\ b.call.at < Calls'[k].at /\ b.call.at <= Calls'[k].at
             /\ b.key.at # saved' /\ b.call.at # Calls'[k].at
  BY <1>1, <1>2
<1>4. \A b \in outlived' : b.key.at <= saved'
  BY <1>1, <1>2
<1> QED
  BY <1>2, <1>3, <1>4 DEF ThreadInv

\* A call that performs its effect tells so to the functions of its superstep
\* that outlived their timeout, and to no other.
LEMMA ThreadTold ==
  ASSUME TypeInv, ThreadInv, NEW c \in CallSet, NEW key \in KeySet, key.tool = c.tool,
         effects' = effects \cup {key}, took' = took \cup {c},
         NEW b \in outlived, b.key.at = key.at <=> b.call.at = c.at
  PROVE  TookEffect(b.call)' <=> b.key \in effects'
<1>1. TookEffect(b.call) <=> b.key \in effects
  BY DEF ThreadInv
<1>2. b.key.tool = b.call.tool /\ b.key \in KeySet
  BY DEF ThreadInv, TypeInv
<1>3. b.key = key <=> b.call.at = c.at /\ b.call.tool = c.tool
  BY <1>2 DEF KeySet
<1> QED
  BY <1>1, <1>3 DEF TookEffect

LEMMA ThreadStep ==
  ASSUME TypeInv, ToolInv, KeyInv, ThreadInv, Step
  PROVE  ThreadInv'
<1>1. saved \in Nat /\ \A b \in outlived : b.key.at \in Nat /\ b.call.at \in Nat /\ b.call.at < saved
  BY DEF TypeInv, ThreadInv, CallSet, KeySet
<1>2. \A k \in DOMAIN Calls : Calls[k] \in CallSet /\ Calls[k].at \in Nat /\ Calls[k].at < saved
  BY LastFits DEF KeyInv, CallSet
<1>3. ASSUME NEW calls, NEW n, Says(calls, n), saved' = saved + 1, UNCHANGED <<took, effects, outlived>>
      PROVE  ThreadInv'
  <2>1. Calls' = calls /\ \A k \in DOMAIN calls : calls[k].at = saved
    BY <1>3 DEF Says
  <2> QED
    BY <1>1, <1>3, <2>1, ThreadCommit
<1>4. ASSUME Calls' = <<>>, saved' = saved + 1, UNCHANGED <<took, effects, outlived>> PROVE ThreadInv'
  BY <1>4, ThreadCommit
<1>5. ASSUME node \notin {"tools", "failed"}, saved' = saved + 1,
             UNCHANGED <<messages, took, effects, outlived>>
      PROVE  ThreadInv'
  <2>1. \A k \in DOMAIN Calls, b \in outlived : b.call.at < Calls[k].at
    BY <1>5 DEF ThreadInv
  <2>2. Calls' = Calls
    BY <1>5, SameCalls
  <2> QED
    BY <1>2, <1>5, <2>1, <2>2, ThreadCommit
<1>6. CASE CallModel
  <2>1. PICK calls : Says(calls, Len(messages) + 1) /\ saved' = saved + 1
    BY <1>6, ModelSays DEF Commit
  <2>2. UNCHANGED <<took, effects, outlived>>
    BY <1>6 DEF CallModel, toolVars
  <2> QED
    BY <1>3, <2>1, <2>2
<1>7. CASE ModelBudgetExceeded \/ RecursionError \/ Misanswer
  BY <1>7, ThreadFrame DEF ModelBudgetExceeded, RecursionError, Misanswer, Fail, toolVars
<1>8. CASE ApproveNothing \/ Approve
  BY <1>5, <1>8 DEF ApproveNothing, Approve, Answered, Runs, Commit, toolVars
<1>9. CASE Reject
  BY <1>4, <1>9, RejectShows DEF Reject, Answered, toolVars
<1>10. CASE Edit
  <2>1. PICK calls : Says(calls, Len(messages))
    BY <1>10, HumanEdits
  <2> QED
    BY <1>3, <1>10, <2>1 DEF Edit, Answered, toolVars
<1>11. CASE StartGroup
  <2>1. UNCHANGED <<messages, saved, took, effects, outlived>> /\ (node' = node \/ node' = "failed")
    BY <1>11, GroupStarts
  <2> QED
    BY <2>1, ThreadFrame
<1>12. CASE ReturnResults
  BY <1>4, <1>12, ReturnShows DEF ReturnResults, Commit
<1>13. ASSUME NEW c \in running, FinishCall(c) PROVE ThreadInv'
  <2>1. /\ node \in {"tools", "failed"} /\ UNCHANGED <<messages, node, saved>>
        /\ \E k \in DOMAIN Calls : c = Calls[k]
    BY <1>13, CallReturns
  <2>2. outlived' = outlived
    BY <1>13 DEF FinishCall
  <2>3. CASE UNCHANGED <<effects, took>>
    BY <2>1, <2>2, <2>3, ThreadFrame
  <2>4. CASE effects' = effects \cup {KeyOf(c)} /\ took' = took \cup {c}
    <3> DEFINE key == KeyOf(c)
    <3>1. key.at = saved /\ key.tool = c.tool /\ c \in CallSet
      BY <1>2, <2>1 DEF KeyOf
    <3>2. key \in KeySet
      BY <1>1, <3>1 DEF KeyOf, KeySet, CallSet
    <3>3. effects' = effects \cup {key}
      BY <2>4
    <3> HIDE DEF key
    <3>4. \A b \in outlived : b.key.at = saved <=> b.call.at = c.at
      BY <2>1 DEF ThreadInv
    <3>5. ASSUME NEW b \in outlived PROVE TookEffect(b.call)' <=> b.key \in effects'
      BY <2>4, <3>1, <3>2, <3>3, <3>4, ThreadTold
    <3>6. Calls' = Calls
      BY <2>1, SameCalls
    <3> QED
      BY <2>1, <2>2, <3>5, <3>6 DEF ThreadInv
  <2> QED
    BY <1>13, <2>3, <2>4 DEF FinishCall, Performs
<1>14. ASSUME NEW c \in running, FailCall(c) PROVE ThreadInv'
  BY <1>14, ThreadFrame DEF FailCall, Returned
<1>15. ASSUME NEW c \in running, TimeOut(c) PROVE ThreadInv'
  <2>1. /\ node \in {"tools", "failed"} /\ UNCHANGED <<messages, node, saved>>
        /\ \E k \in DOMAIN Calls : c = Calls[k]
    BY <1>15, CallReturns
  <2> DEFINE new == [call |-> c, key |-> KeyOf(c)]
  <2>2. outlived' = outlived \cup {new} /\ UNCHANGED <<effects, took>>
    BY <1>15 DEF TimeOut
  <2>3. new.call = c /\ new.key.at = saved /\ new.key.tool = c.tool /\ new.key = KeyOf(c)
    BY DEF KeyOf
  <2> HIDE DEF new
  <2>4. Calls' = Calls /\ c.at < saved /\ c \in CallSet
    BY <1>2, <2>1, SameCalls
  <2>5. TookEffect(c) <=> new.key \in effects
    BY <2>1, <2>3 DEF KeyInv, KeyOf, TookEffect
  <2>6. \A b \in outlived, k \in DOMAIN Calls :
            (b.key.at = saved <=> b.call.at = Calls[k].at) /\ b.call.at <= Calls[k].at
    BY <2>1 DEF ThreadInv
  <2>7. \A k \in DOMAIN Calls : c.at = Calls[k].at /\ c.at <= Calls[k].at
    BY <1>2, <2>1 DEF KeyInv
  <2>8. \A b \in outlived : b.key.at = saved <=> b.call.at = c.at
    BY <2>1, <2>6
  <2>9. \A b \in outlived : b.key.tool = b.call.tool /\ b.key.at <= saved /\ b.call.at < saved
                           /\ (TookEffect(b.call) <=> b.key \in effects)
    BY DEF ThreadInv
  <2>10. \A b \in outlived' : b.key.tool = b.call.tool /\ b.key.at <= saved' /\ b.call.at < saved'
    BY <1>1, <2>1, <2>2, <2>3, <2>4, <2>9
  <2>11. \A b \in outlived' : TookEffect(b.call)' <=> b.key \in effects'
    BY <2>2, <2>3, <2>5, <2>9 DEF TookEffect
  <2>12. \A a, b \in outlived' : a.key.at = b.key.at <=> a.call.at = b.call.at
    BY <2>2, <2>3, <2>8 DEF ThreadInv
  <2>13. \A b \in outlived', k \in DOMAIN Calls' :
             (b.key.at = saved' <=> b.call.at = Calls'[k].at) /\ b.call.at <= Calls'[k].at
    BY <2>1, <2>2, <2>3, <2>4, <2>6, <2>7
  <2> QED
    BY <2>1, <2>10, <2>11, <2>12, <2>13 DEF ThreadInv
<1>16. ASSUME NEW c \in outlived, EndOutlived(c) PROVE ThreadInv'
  <2>1. UNCHANGED <<messages, node, saved>> /\ outlived' \subseteq outlived
    BY <1>16 DEF EndOutlived
  <2>2. CASE UNCHANGED <<effects, took>>
    BY <2>1, <2>2, ThreadFrame
  <2>3. CASE effects' = effects \cup {c.key} /\ took' = took \cup {c.call}
    <3>1. c.key.tool = c.call.tool /\ c.call \in CallSet /\ c.key \in KeySet
      BY DEF ThreadInv, TypeInv
    <3>2. \A b \in outlived : b.key.at = c.key.at <=> b.call.at = c.call.at
      BY DEF ThreadInv
    <3>3. ASSUME NEW b \in outlived PROVE TookEffect(b.call)' <=> b.key \in effects'
      BY <2>3, <3>1, <3>2, ThreadTold
    <3>4. Calls' = Calls
      BY <2>1, SameCalls
    <3> QED
      BY <2>1, <3>3, <3>4 DEF ThreadInv
  <2> QED
    BY <1>16, <2>2, <2>3 DEF EndOutlived, Performs
<1>17. ASSUME NEW valid \in BOOLEAN, StructuredResponse(valid) PROVE ThreadInv'
  <2>1. node = "structured" /\ UNCHANGED <<messages, took, effects, outlived>>
        /\ (saved' = saved + 1 \/ (saved' = saved /\ (node' = node \/ node' = "failed")))
    BY <1>17 DEF StructuredResponse, Runs, Commit, Fail, toolVars
  <2> QED
    BY <1>5, <2>1, ThreadFrame
<1>18. CASE Crash
  BY <1>18, NoThread DEF Crash, Fresh
<1> QED
  BY <1>6, <1>7, <1>8, <1>9, <1>10, <1>11, <1>12, <1>13, <1>14, <1>15, <1>16, <1>17, <1>18 DEF Step

-----------------------------------------------------------------------------
(* Every step keeps the blocks of calls and results.                       *)

LEMMA NeedFits ==
  ASSUME NEW calls \in Seq(CallSet)
  PROVE  NeedOf(Approvals, calls) = InNeed(calls) /\ NeedOf(Approvals, calls) \in Seq(CallSet)
<1>1. NeedOf(Approvals, calls) = InNeed(calls)
  BY DEF NeedOf, InNeed
<1> QED
  BY <1>1, InNeedFits

\* A block stays what it is while its messages stay and none of its kind follows.
LEMMA ClosedKept ==
  ASSUME NEW ms \in Seq(MessageSet), NEW ns \in Seq(MessageSet), NEW p \in Nat,
         p <= Len(ms), p <= Len(ns), \A k \in 1 .. p : ns[k] = ms[k],
         NEW i \in 1 .. p, NEW cs \in Seq(CallSet), Closed(ms, i, cs), i + Len(cs) <= p,
         i + Len(cs) = p /\ p < Len(ns) => ns[p + 1].kind # "tool"
  PROVE  Closed(ns, i, cs)
<1>1. Len(cs) \in Nat /\ Len(ms) \in Nat /\ Len(ns) \in Nat
  OBVIOUS
<1>2. \A k \in 1 .. Len(cs) : i + k \in 1 .. p
  BY <1>1
<1>3. \A k \in 1 .. Len(cs) : ns[i + k].kind = "tool" /\ ns[i + k].call = cs[k]
  BY <1>2 DEF Closed
<1>4. ASSUME i + Len(cs) < Len(ns) PROVE ns[i + Len(cs) + 1].kind # "tool"
  <2>1. CASE i + Len(cs) = p
    BY <1>1, <1>4, <2>1
  <2>2. CASE i + Len(cs) < p
    <3>1. i + Len(cs) + 1 \in 1 .. p /\ i + Len(cs) < Len(ms)
      BY <1>1, <2>2
    <3> QED
      BY <3>1 DEF Closed
  <2> QED
    BY <1>1, <2>1, <2>2
<1> QED
  BY <1>1, <1>3, <1>4 DEF Closed

\* So it is with what a message's calls wait for.
LEMMA SettledKept ==
  ASSUME NEW ms \in Seq(MessageSet), NEW ns \in Seq(MessageSet), NEW p \in Nat,
         p <= Len(ms), p <= Len(ns), \A k \in 1 .. p : ns[k] = ms[k],
         NEW i \in 1 .. p, NEW gone, NEW more, gone \subseteq more, Settled(ms, Approvals, gone, i),
         \A cs \in Seq(CallSet) : Closed(ms, i, cs) => i + Len(cs) <= p,
         \/ p < Len(ns) => ns[p + 1].kind # "tool"
         \/ \A cs \in Seq(CallSet) : Closed(ms, i, cs) => i + Len(cs) < p
  PROVE  Settled(ns, Approvals, more, i)
<1> DEFINE calls == ms[i].calls
           need == NeedOf(Approvals, calls)
<1>1. ns[i] = ms[i] /\ calls \in Seq(CallSet)
  <2>1. i \in 1 .. Len(ms) /\ ms[i] \in MessageSet
    BY ElementOfSeq
  <2> QED
    BY <2>1 DEF MessageSet
<1>2. need \in Seq(CallSet)
  BY <1>1, NeedFits
<1>3. ASSUME NEW cs \in Seq(CallSet), Closed(ms, i, cs) PROVE Closed(ns, i, cs)
  <2>1. i + Len(cs) <= p /\ Len(cs) \in Nat
    BY <1>3
  <2>2. i + Len(cs) = p /\ p < Len(ns) => ns[p + 1].kind # "tool"
    BY <1>3, <2>1
  <2> QED
    BY <1>3, <2>1, <2>2, ClosedKept
<1> QED
  BY <1>1, <1>2, <1>3 DEF Settled

\* Behind a message that is not a result no block ends.
LEMMA ClosedBefore ==
  ASSUME NEW ms \in Seq(MessageSet), ms # <<>>, ms[Len(ms)].kind # "tool",
         NEW i \in 1 .. Len(ms) - 1, NEW cs \in Seq(CallSet), Closed(ms, i, cs)
  PROVE  i + Len(cs) < Len(ms)
<1>1. Len(cs) \in Nat /\ Len(ms) \in Nat /\ i + Len(cs) <= Len(ms)
  BY DEF Closed
<1>2. CASE i + Len(cs) = Len(ms)
  <2>1. Len(cs) \in 1 .. Len(cs)
    BY <1>1, <1>2
  <2> QED
    BY <1>2, <2>1 DEF Closed
<1> QED
  BY <1>1, <1>2

\* Results behind the last message settle it, and leave what is settled so.
LEMMA ShownIsSettled ==
  ASSUME TypeInv, IsCall(LastMessage), NEW cs \in Seq(CallSet), cs # <<>>, Shows(cs),
         cs = Calls \/ (cs = NeedOf(Approvals, Calls) /\ Range(cs) \subseteq rejected'),
         rejected \subseteq rejected',
         \A i \in 1 .. Len(messages) - 1 : Settled(messages, Approvals, rejected, i),
         NEW j \in 1 .. Len(messages')
  PROVE  Settled(messages', Approvals, rejected', j)
<1> DEFINE ms == messages
           ns == messages'
<1>1. /\ ms \in Seq(MessageSet) /\ ms # <<>> /\ ms[Len(ms)].kind = "ai" /\ Calls = ms[Len(ms)].calls
      /\ Len(ms) \in Nat \ {0}
  BY LastFits DEF TypeInv, IsCall, LastMessage, Calls
<1>2. /\ ns \in Seq(MessageSet) /\ Len(ns) = Len(ms) + Len(cs) /\ Len(cs) \in Nat
      /\ \A k \in 1 .. Len(ms) : ns[k] = ms[k]
      /\ \A k \in 1 .. Len(cs) : ns[Len(ms) + k].kind = "tool" /\ ns[Len(ms) + k].call = cs[k]
  <2>1. \A k \in 1 .. Len(cs) : ns[Len(ms) + k] = Message("tool", <<>>, cs[k])
    BY DEF Shows
  <2>2. ASSUME NEW k \in 1 .. Len(cs)
        PROVE  ns[Len(ms) + k].kind = "tool" /\ ns[Len(ms) + k].call = cs[k]
    <3> DEFINE m == ns[Len(ms) + k]
    <3>1. m = [kind |-> "tool", calls |-> <<>>, call |-> cs[k]]
      BY <2>1 DEF Message
    <3> HIDE DEF m
    <3>2. m.kind = "tool" /\ m.call = cs[k]
      BY <3>1
    <3> QED
      BY <3>2 DEF m
  <2>3. Len(cs) \in Nat
    OBVIOUS
  <2> QED
    BY <2>2, <2>3 DEF Shows
<1> HIDE DEF ms, ns
<1>3. CASE j \in 1 .. Len(ms) - 1
  <2>1. \A c \in Seq(CallSet) : Closed(ms, j, c) => j + Len(c) < Len(ms)
    BY <1>1, <1>3, ClosedBefore
  <2>2. j \in 1 .. Len(ms) /\ Len(ms) <= Len(ns)
    BY <1>1, <1>2, <1>3
  <2>3. \A c \in Seq(CallSet) : Closed(ms, j, c) => j + Len(c) <= Len(ms)
    BY DEF Closed
  <2>4. Settled(ms, Approvals, rejected, j)
    BY <1>3 DEF ms
  <2>5. Len(ms) \in Nat /\ Len(ms) <= Len(ms)
    BY <1>1
  <2>6. Settled(ns, Approvals, rejected', j)
    BY <1>1, <1>2, <2>1, <2>2, <2>3, <2>4, <2>5, SettledKept
  <2> QED
    BY <2>6 DEF ns
<1>4. CASE j = Len(ms)
  <2>1. Closed(ns, j, cs)
    BY <1>1, <1>2, <1>4 DEF Closed
  <2>2. ns[j].calls = Calls
    BY <1>1, <1>2, <1>4
  <2> QED
    BY <2>1, <2>2 DEF Settled, ns
<1>5. CASE j \notin 1 .. Len(ms)
  <2>1. j - Len(ms) \in 1 .. Len(cs) /\ j = Len(ms) + (j - Len(ms))
    <3>1. j \in 1 .. Len(ns)
      BY DEF ns
    <3> QED
      BY <1>1, <1>2, <1>5, <3>1
  <2>2. ns[j].kind = "tool"
    BY <1>2, <2>1
  <2> QED
    BY <2>2 DEF Settled, IsCall, ns
<1> QED
  BY <1>1, <1>3, <1>4, <1>5

LEMMA AnswerStep ==
  ASSUME TypeInv, AnswerInv, Step, UNCHANGED setup
  PROVE  AnswerInv'
<1>0. Approvals' = Approvals
  BY DEF Approvals
<1>1. /\ messages \in Seq(MessageSet) /\ messages # <<>> /\ Len(messages) \in Nat \ {0}
      /\ LastMessage = messages[Len(messages)]
  BY LastFits DEF TypeInv, LastMessage
<1>2. ASSUME node' \notin {"agent", "approve", "tools"} PROVE AnswerInv'
  BY <1>2 DEF AnswerInv
<1>3. ASSUME UNCHANGED <<messages, rejected>>,
             node' = node \/ (node \in {"approve", "tools"} /\ node' \in {"approve", "tools"})
      PROVE  AnswerInv'
  BY <1>0, <1>3, SameCalls DEF AnswerInv
<1>4. ASSUME NEW calls, NEW n \in Nat, Says(calls, n)
      PROVE  /\ messages' \in Seq(MessageSet) /\ Len(messages') = n /\ n # 0
             /\ messages'[n] = LastMessage'
             /\ messages'[n].kind = "ai" /\ messages'[n].calls = calls
             /\ calls # <<>> => IsCall(LastMessage')
             /\ calls = <<>> => ~IsCall(messages'[n])
  <2>1. messages' \in Seq(MessageSet) /\ messages' # <<>> /\ Len(messages') = n
    BY <1>4 DEF Says
  <2>2. messages'[n] = LastMessage' /\ n # 0
    BY <2>1 DEF LastMessage
  <2>3. LastMessage' = Message("ai", calls, NoId)
    BY <1>4 DEF Says
  <2>4. LastMessage'.kind = "ai" /\ LastMessage'.calls = calls
    BY <2>3 DEF Message
  <2> QED
    BY <2>1, <2>2, <2>4 DEF IsCall
<1>5. CASE CallModel
  <2>1. PICK calls : Says(calls, Len(messages) + 1) /\ node' = AfterAgent(calls)
    BY <1>5, ModelSays DEF Commit
  <2>2. /\ messages' \in Seq(MessageSet) /\ Len(messages') = Len(messages) + 1
        /\ messages'[Len(messages) + 1].kind = "ai"
        /\ calls # <<>> => IsCall(LastMessage')
        /\ \A k \in 1 .. Len(messages) : messages'[k] = messages[k]
    BY <1>1, <1>4, <2>1 DEF Says
  <2>3. \A i \in 1 .. Len(messages) : Settled(messages, Approvals, rejected, i)
    BY <1>5 DEF AnswerInv, CallModel, Runs
  <2>6. rejected' = rejected
    BY <1>5 DEF CallModel, humanVars
  <2>4. ASSUME NEW i \in 1 .. Len(messages) PROVE Settled(messages', Approvals, rejected', i)
    <3>1. \A c \in Seq(CallSet) : Closed(messages, i, c) => i + Len(c) <= Len(messages)
      BY DEF Closed
    <3>2. Len(messages) <= Len(messages) /\ Len(messages) <= Len(messages') /\ Len(messages) \in Nat
      BY <1>1, <2>2
    <3>3. Settled(messages, Approvals, rejected, i)
      BY <2>3
    <3>4. messages'[Len(messages) + 1].kind # "tool"
      BY <2>2
    <3> QED
      BY <1>1, <2>2, <2>6, <3>1, <3>2, <3>3, <3>4, SettledKept
  <2>5. node' # "agent" /\ (node' \in {"approve", "tools"} => calls # <<>>)
    BY <2>1 DEF AfterAgent, Final
  <2> QED
    BY <1>0, <1>1, <2>2, <2>4, <2>5 DEF AnswerInv
<1>6. CASE ModelBudgetExceeded \/ RecursionError \/ Misanswer
  BY <1>2, <1>6 DEF ModelBudgetExceeded, RecursionError, Misanswer, Fail
<1>7. CASE ApproveNothing \/ Approve
  BY <1>3, <1>7 DEF ApproveNothing, Approve, Answered, Runs, Commit, humanVars
<1>8. ASSUME node \in {"approve", "tools"}, node' = "agent", NEW cs \in Seq(CallSet),
             Shows(cs), cs # <<>>, rejected \subseteq rejected',
             cs = Calls \/ (cs = InNeed(Calls) /\ Range(cs) \subseteq rejected')
      PROVE  AnswerInv'
  <2>1. cs = Calls \/ (cs = NeedOf(Approvals, Calls) /\ Range(cs) \subseteq rejected')
    BY <1>8, NeedFits, LastFits
  <2>2. IsCall(LastMessage) /\ \A i \in 1 .. Len(messages) - 1 : Settled(messages, Approvals, rejected, i)
    BY <1>8 DEF AnswerInv
  <2>3. \A j \in 1 .. Len(messages') : Settled(messages', Approvals, rejected', j)
    BY <1>8, <2>1, <2>2, ShownIsSettled
  <2> QED
    BY <1>0, <1>8, <2>3 DEF AnswerInv
<1>9. CASE Reject
  <2>1. rejected' = rejected \cup Range(Selected) /\ node = "approve" /\ node' = "agent"
    BY <1>9 DEF Reject, Answered, Runs
  <2>2. Range(Selected) \subseteq rejected' /\ rejected \subseteq rejected'
    BY <2>1
  <2> QED
    BY <1>8, <1>9, <2>1, <2>2, RejectShows DEF Selected
<1>10. CASE ReturnResults
  <2>1. /\ Calls # <<>> /\ node = "tools" /\ node' = "agent" /\ Calls \in Seq(CallSet)
        /\ rejected' = rejected
    BY <1>10, LastFits DEF AnswerInv, IsCall, Calls, ReturnResults, Runs, Commit, humanVars
  <2> QED
    BY <1>8, <1>10, <2>1, ReturnShows
<1>11. CASE Edit
  <2>1. PICK calls : Says(calls, Len(messages)) /\ node' = IF calls = <<>> THEN "agent" ELSE "tools"
    BY <1>11, HumanEdits
  <2> DEFINE p == Len(messages) - 1
  <2>2. /\ messages' \in Seq(MessageSet) /\ Len(messages') = p + 1 /\ p \in Nat
        /\ messages'[p + 1].kind = "ai"
        /\ calls # <<>> => IsCall(LastMessage')
        /\ calls = <<>> => ~IsCall(messages'[p + 1])
        /\ \A k \in 1 .. p : messages'[k] = messages[k]
    BY <1>1, <1>4, <2>1 DEF Says
  <2>3. IsCall(LastMessage) /\ \A i \in 1 .. p : Settled(messages, Approvals, rejected, i)
    BY <1>11 DEF AnswerInv, Edit, Answered, Runs
  <2>10. rejected' = rejected
    BY <1>11 DEF Edit
  <2>4. messages[Len(messages)].kind # "tool"
    BY <1>1, <2>3 DEF IsCall
  <2>5. p <= Len(messages) /\ p <= Len(messages') /\ p < Len(messages)
    BY <1>1, <2>2
  <2>6. ASSUME NEW i \in 1 .. p PROVE Settled(messages', Approvals, rejected', i)
    <3>1. ASSUME NEW c \in Seq(CallSet), Closed(messages, i, c) PROVE i + Len(c) <= p
      <4>1. i + Len(c) < Len(messages)
        BY <1>1, <2>4, <3>1, ClosedBefore
      <4>2. Len(c) \in Nat
        OBVIOUS
      <4> QED
        BY <1>1, <2>2, <4>1, <4>2
    <3>2. Settled(messages, Approvals, rejected, i)
      BY <2>3
    <3>3. messages'[p + 1].kind # "tool"
      BY <2>2
    <3> HIDE DEF p
    <3> QED
      BY <1>1, <2>2, <2>5, <2>10, <3>1, <3>2, <3>3, SettledKept
  <2>7. calls = <<>> => Settled(messages', Approvals, rejected', p + 1)
    BY <2>2 DEF Settled
  <2> HIDE DEF p
  <2>8. \A i \in 1 .. p + 1 : i \in 1 .. p \/ i = p + 1
    BY <2>2
  <2>9. Len(messages') - 1 = p
    BY <2>2
  <2> QED
    BY <1>0, <2>1, <2>2, <2>6, <2>7, <2>8, <2>9 DEF AnswerInv
<1>12. CASE StartGroup
  BY <1>2, <1>3, <1>12, GroupStarts DEF humanVars
<1>13. CASE \/ \E c \in running : FinishCall(c) \/ FailCall(c) \/ TimeOut(c)
            \/ \E b \in outlived : EndOutlived(b)
  BY <1>3, <1>13 DEF FinishCall, FailCall, TimeOut, EndOutlived, Returned, humanVars
<1>14. CASE \E valid \in BOOLEAN : StructuredResponse(valid)
  BY <1>2, <1>14 DEF StructuredResponse, Runs, Commit, Fail
<1>15. CASE Crash
  BY <1>3, <1>15 DEF Crash, humanVars
<1> QED
  BY <1>5, <1>6, <1>7, <1>9, <1>10, <1>11, <1>12, <1>13, <1>14, <1>15 DEF Step

-----------------------------------------------------------------------------
(* The invariants of the specification.                                    *)

LEMMA InitEstablishes ==
  ASSUME Init
  PROVE  LoopInv
<1> DEFINE m == Message("human", <<>>, NoId)
<1>1. m \in MessageSet
  <2>1. <<>> \in Seq(CallSet)
    OBVIOUS
  <2> QED
    BY <2>1 DEF Message, MessageSet
<1>2. messages = <<m>> /\ setup \in Agents /\ node = "agent" /\ failure = "none"
      /\ saved = 0 /\ steps = 0 /\ done = 0 /\ spent = 0 /\ deliveries = 1
      /\ used = NothingUsed
      /\ running = {} /\ outlived = {} /\ effects = {} /\ accepted = {} /\ ran = {} /\ served = {} /\ took = {}
  BY DEF Init
<1>3. RecursionLimit \in Nat /\ MaxToolCalls \in Nat
  BY <1>2, AgentsAreSound DEF RecursionLimit, MaxToolCalls
<1> HIDE DEF m
<1>4. messages \in Seq(MessageSet) /\ messages # <<>> /\ Len(messages) = 1 /\ messages[1] = m
  BY <1>1, <1>2
<1>5. m.kind = "human" /\ m.calls = <<>>
  BY DEF m, Message
<1>6. Calls = <<>> /\ Len(Calls) = 0 /\ DOMAIN Calls = {}
  BY <1>4, <1>5 DEF Calls, LastMessage
<1>7. TypeInv
  BY <1>2, <1>3, <1>4 DEF TypeInv, NothingUsed
<1>8. ToolInv /\ AcceptInv /\ EffectInv
  BY <1>2, <1>6 DEF ToolInv, Alone, AcceptInv, OnlyAcceptedCallsRun, EffectInv
<1>9. BudgetInv
  BY <1>2, <1>3 DEF BudgetInv, NothingUsed
<1>10. KeyInv /\ ThreadInv
  BY <1>2, <1>6 DEF KeyInv, ThreadInv
<1>11. AnswerInv
  BY <1>2, <1>4, <1>5 DEF AnswerInv, Settled, IsCall
<1> QED
  BY <1>7, <1>8, <1>9, <1>10, <1>11 DEF LoopInv

\* LoopInv is inductive: no reply of the model, answer of a human, end of a call
\* or repeated delivery breaks it.
THEOREM LoopInvariance == Spec => []LoopInv
<1>1. Init => LoopInv
  BY InitEstablishes
<1>2. LoopInv /\ [Next]_vars => LoopInv'
  <2> SUFFICES ASSUME LoopInv, [Next]_vars PROVE LoopInv'
    OBVIOUS
  <2>1. CASE Step /\ UNCHANGED setup
    BY <2>1, TypeStep, ToolStep, BudgetStep, AcceptStep, KeyStep, ThreadStep, EffectStep, AnswerStep DEF LoopInv
  <2>2. CASE UNCHANGED vars
    <3>1. Calls' = Calls /\ LastMessage' = LastMessage
      BY <2>2, SameCalls DEF vars
    <3>2. Approvals' = Approvals /\ MaxToolCalls' = MaxToolCalls /\ RecursionLimit' = RecursionLimit
      BY <2>2 DEF vars, Approvals, MaxToolCalls, RecursionLimit
    <3>3. TypeInv' /\ BudgetInv'
      BY <2>2, <3>2 DEF vars, LoopInv, TypeInv, BudgetInv
    <3>4. ToolInv' /\ AcceptInv'
      BY <2>2, <3>1, <3>2 DEF vars, LoopInv, ToolInv, AcceptInv, OnlyAcceptedCallsRun, Alone
    <3>5. KeyInv' /\ ThreadInv' /\ EffectInv'
      BY <2>2, <3>1, KeyFrame, ThreadFrame DEF vars, LoopInv, EffectInv, HasTwin
    <3>6. AnswerInv'
      BY <2>2, <3>1, <3>2 DEF vars, LoopInv, AnswerInv
    <3> QED
      BY <3>3, <3>4, <3>5, <3>6 DEF LoopInv
  <2> QED
    BY <2>1, <2>2 DEF Next, Over
<1> QED
  BY <1>1, <1>2, PTL DEF Spec

\* Whatever one message asks for, a call that needs a human has had one, a call
\* that writes has the run to itself, but for functions that outlive their timeout,
\* and no delivery exceeds its budget
\* (ToolNode, ExecutionBudget, approve_tools of create_agent).
THEOREM CallsAreAllowed == Spec => []CallsRunAsAllowed
<1>1. LoopInv => CallsRunAsAllowed
  <2> SUFFICES ASSUME LoopInv PROVE CallsRunAsAllowed
    OBVIOUS
  <2>1. OnlyAcceptedCallsRun /\ WritesRunAlone
    <3>1. OnlyAcceptedCallsRun /\ Alone
      BY DEF LoopInv, AcceptInv, ToolInv
    <3>2. ASSUME NEW c \in running, NEW d \in running, c.tool \notin ReadOnly PROVE c = d
      BY <3>1, <3>2 DEF Alone
    <3> QED
      BY <3>1, <3>2 DEF WritesRunAlone
  <2>2. WithinBudget
    <3> DEFINE M == MaxToolCalls
               earlier == (deliveries - 1) * M
    <3>1. deliveries \in Nat \ {0} /\ M \in Nat /\ used.tool \in Nat /\ spent \in Nat
      BY AgentFits DEF LoopInv, TypeInv
    <3>2. M > 0 => used.tool <= M /\ spent <= earlier + used.tool
      BY DEF LoopInv, BudgetInv
    <3>3. earlier \in Nat /\ deliveries * M = earlier + M
      BY <3>1
    <3> HIDE DEF earlier, M
    <3>4. M > 0 => used.tool <= M /\ spent <= earlier + M
      BY <3>1, <3>2, <3>3
    <3>5. M > 0 => used.tool <= M /\ spent <= deliveries * M
      BY <3>3, <3>4
    <3> QED
      BY <3>5 DEF WithinBudget, M
  <2> QED
    BY <2>1, <2>2 DEF CallsRunAsAllowed
<1> QED
  BY <1>1, LoopInvariance, PTL

\* A block that is closed is the answer to its calls.
LEMMA ClosedIsAnswer ==
  ASSUME TypeInv, NEW i \in 1 .. Len(messages), NEW cs \in Seq(CallSet),
         IsCall(messages[i]), Closed(messages, i, cs)
  PROVE  AnswerTo(i, cs)
<1>1. Len(cs) \in Nat /\ Len(messages) \in Nat /\ DOMAIN cs = 1 .. Len(cs) /\ DOMAIN messages = 1 .. Len(messages)
  BY DEF TypeInv
<1>2. /\ i + Len(cs) <= Len(messages)
      /\ \A k \in 1 .. Len(cs) : messages[i + k].kind = "tool" /\ messages[i + k].call = cs[k]
      /\ i + Len(cs) < Len(messages) => messages[i + Len(cs) + 1].kind # "tool"
  BY DEF Closed
<1>3. \A j \in i + 1 .. i + Len(cs) : messages[j].kind = "tool"
  <2>1. ASSUME NEW j \in i + 1 .. i + Len(cs) PROVE messages[j].kind = "tool"
    <3>1. j - i \in 1 .. Len(cs) /\ i + (j - i) = j
      BY <1>1
    <3> QED
      BY <1>2, <3>1
  <2> QED
    BY <2>1
<1>4. ASSUME NEW j \in 1 .. Len(messages), j > i
      PROVE  ToolsOnly(messages, i + 1, j) <=> j <= i + Len(cs)
  <2>1. CASE j <= i + Len(cs)
    <3>1. \A k \in i + 1 .. j : k \in i + 1 .. i + Len(cs)
      BY <1>1, <2>1
    <3> QED
      BY <1>3, <2>1, <3>1 DEF ToolsOnly
  <2>2. CASE j > i + Len(cs)
    <3>1. i + Len(cs) + 1 \in i + 1 .. j /\ i + Len(cs) < Len(messages)
      BY <1>1, <1>2, <2>2
    <3> QED
      BY <1>1, <1>2, <2>2, <3>1 DEF ToolsOnly
  <2> QED
    BY <1>1, <2>1, <2>2
<1>5. Answers(i) = i + 1 .. i + Len(cs)
  <2>1. Answers(i) = {j \in 1 .. Len(messages) : j > i /\ ToolsOnly(messages, i + 1, j)}
    BY <1>1 DEF Answers, BlockOf
  <2>2. \A j \in i + 1 .. i + Len(cs) : j \in 1 .. Len(messages) /\ j > i
    BY <1>1, <1>2
  <2> QED
    BY <1>1, <1>4, <2>1, <2>2
<1>6. Cardinality(i + 1 .. i + Len(cs)) = Len(cs)
  <2>1. i + 1 \in Int /\ i + Len(cs) \in Int
    BY <1>1
  <2> DEFINE a == i + 1  b == i + Len(cs)
  <2>2. b - a + 1 = Len(cs) /\ (a > b => Len(cs) = 0)
    BY <1>1
  <2> HIDE DEF a, b
  <2>3. a \in Int /\ b \in Int
    BY <2>1 DEF a, b
  <2>4. Cardinality(a .. b) = IF a > b THEN 0 ELSE b - a + 1
    BY <2>3, FS_Interval
  <2>5. Cardinality(a .. b) = Len(cs)
    BY <2>2, <2>4
  <2> QED
    BY <2>5 DEF a, b
<1> QED
  BY <1>1, <1>2, <1>5, <1>6 DEF AnswerTo

\* However often a delivery is repeated, and however long a function outlives its
\* timeout, a call that was served took effect once in its superstep; and when the
\* model is asked again the calls of the history have their results, in order, but for
\* those beside rejected ones (ToolNode.__call__, Runtime.idempotency_key).
THEOREM CallsAreServed == Spec => []EveryCallIsServed
<1>1. LoopInv => EveryCallIsServed
  <2> SUFFICES ASSUME LoopInv PROVE EveryCallIsServed
    OBVIOUS
  <2>1. EveryCallTakesEffect
    <3>1. ASSUME NEW c \in took PROVE c = Twin(c)
      <4>1. \E d \in took : d.at = c.at /\ d.tool = c.tool
        OBVIOUS
      <4>2. Twin(c) \in took /\ Twin(c).at = c.at /\ Twin(c).tool = c.tool
        BY <4>1 DEF Twin
      <4> QED
        BY <4>2 DEF LoopInv, EffectInv
    <3> QED
      BY <3>1 DEF EveryCallTakesEffect, LoopInv, EffectInv
  <2>2. EveryCallIsAnswered
    <3> SUFFICES ASSUME node = "agent", NEW i \in DOMAIN messages, IsCall(messages[i])
                 PROVE  LET calls == messages[i].calls  need == InNeed(calls)
                        IN \/ AnswerTo(i, calls)
                           \/ need # <<>> /\ Range(need) \subseteq rejected /\ AnswerTo(i, need)
      BY DEF EveryCallIsAnswered
    <3> DEFINE calls == messages[i].calls
    <3>1. TypeInv /\ i \in 1 .. Len(messages) /\ messages[i] \in MessageSet
      BY ElementOfSeq DEF LoopInv, TypeInv
    <3>2. calls \in Seq(CallSet)
      BY <3>1 DEF MessageSet
    <3>3. InNeed(calls) \in Seq(CallSet) /\ NeedOf(Approvals, calls) = InNeed(calls)
      BY <3>2, NeedFits, InNeedFits
    <3> DEFINE need == InNeed(calls)
    <3>4. \/ Closed(messages, i, calls)
          \/ need # <<>> /\ Range(need) \subseteq rejected /\ Closed(messages, i, need)
      BY <3>1, <3>3 DEF LoopInv, AnswerInv, Settled
    <3> QED
      BY <3>1, <3>2, <3>3, <3>4, ClosedIsAnswer
  <2> QED
    BY <2>1, <2>2 DEF EveryCallIsServed
<1> QED
  BY <1>1, LoopInvariance, PTL

\* The type invariant of the model.
THEOREM LoopTypes == Spec => []TypeOK
<1>1. LoopInv => TypeOK
  BY DEF LoopInv, TypeInv, ToolInv, TypeOK
<1> QED
  BY <1>1, LoopInvariance, PTL

=============================================================================
