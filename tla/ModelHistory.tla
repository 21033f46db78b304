----------------------------- MODULE ModelHistory -----------------------------
(***************************************************************************)
(* The projection of a conversation that is sent to the model: repair of   *)
(* tool-call blocks, bounds on tool results, compaction to the context     *)
(* window.  The conversation itself grows in every order that a state of   *)
(* messages can hold; the projection is a function of it.                  *)
(***************************************************************************)
EXTENDS ToolBlocks, Integers

CONSTANTS
    CallSets,     \* sequences of call ids an AI message may carry, <<>> included
    CallIds,      \* ids a tool result may answer
    HumanSizes, AnswerSizes, ResultSizes,   \* tokens of message contents
    SummarySizes, \* tokens a summary may have
    StableTokens, \* prefix and tool schemas
    Limit,        \* hard threshold or context window; 0: none
    SoftLimit,    \* soft threshold; 0: none
    MaxOutput, KeepBlocks, SummaryMax,
    MaxResult, Cumulative, KeepResults,
    MaxLength     \* bound on the conversation

VARIABLE messages

-----------------------------------------------------------------------------
(* Tokens: four characters each, contents being ASCII. *)
Tokens(chars) == Max({1, (chars + 3) \div 4})
Weight(m) == m.size + 4
Total(s) == MapThenSumSet(LAMBDA i : Weight(s[i]), DOMAIN s)

OmittedStub == Tokens(61)
ShortSummary == Tokens(25)

Truncated(size, budget) ==
    LET width == Max({24, 4 * budget})
        head  == Max({8, width \div 2})
        tail  == Max({8, width - head - 32})
    IN IF budget <= 0 THEN Tokens(17)
       ELSE IF size <= budget THEN size
       ELSE Tokens(Min({4 * size, head}) + 21 + Min({4 * size, tail}))

BoundedResult(size) ==
    IF size <= MaxResult THEN size ELSE Tokens(Min({4 * size, Max({64, 4 * MaxResult})}) + 35)

-----------------------------------------------------------------------------
(* Hygiene: tool results from the newest to the oldest, as long as the      *)
(* cumulative budget lasts; the most recent ones whatever they weigh.       *)
ToolPositions(s) == SetToSortSeq({i \in DOMAIN s : s[i].kind = "tool"}, <)

\* seq[-n:], which is the whole sequence when n is 0.
RecentResults(s) ==
    LET tools == ToolPositions(s)
    IN Range(IF KeepResults = 0 \/ KeepResults >= Len(tools) THEN tools
             ELSE SubSeq(tools, Len(tools) - KeepResults + 1, Len(tools)))

Older(s) ==
    LET recent == RecentResults(s)
        Visit(i, acc) ==
            IF i \in recent \/ acc.used + s[i].size <= Cumulative
            THEN [acc EXCEPT !.used = @ + s[i].size]
            ELSE [acc EXCEPT !.omitted = @ \cup {i}]
    IN FoldRight(Visit, ToolPositions(s), [used |-> 0, omitted |-> {}]).omitted

Hygiene(s) ==
    LET repaired == Repair(s)
        bounded  == [i \in DOMAIN repaired |->
                       IF repaired[i].kind = "tool"
                       THEN [repaired[i] EXCEPT !.size = BoundedResult(@)] ELSE repaired[i]]
        older    == IF Cumulative = 0 THEN {} ELSE Older(bounded)
    IN [i \in DOMAIN bounded |->
          IF i \in older THEN [bounded[i] EXCEPT !.size = OmittedStub] ELSE bounded[i]]

-----------------------------------------------------------------------------
(* Compaction.  A candidate is a set of kept blocks, the size of the        *)
(* summary in front of them (0: none) and the size of the latest request.   *)
NeedsCompaction(d) ==
    LET input == StableTokens + Total(d)
    IN Limit > 0 /\ (input + MaxOutput > Limit \/ (SoftLimit > 0 /\ input > SoftLimit))

Budget == Max({1, Limit - MaxOutput - StableTokens})

BlockWeight(d, b) == MapThenSumSet(LAMBDA i : Weight(d[i]), b)
Requests(d) == {i \in DOMAIN d : d[i].kind = "human"}
LatestRequest(d) == IF Requests(d) = {} THEN 0 ELSE Max(Requests(d))
LatestBlockTooBig(d) ==
    \E b \in Blocks(d) : /\ Len(d) \in b
                         /\ IsCall(d[Min(b)])
                         /\ BlockWeight(d, b) > Budget

\* The newest blocks that fit, at most KeepBlocks of them.
Newest(d) ==
    LET Since(i) == {b \in Blocks(d) : Min(b) >= i}
        Fits(i) == Cardinality(Since(i)) <= KeepBlocks /\ BlockWeight(d, UNION Since(i)) <= Budget
    IN UNION {Since(i) : i \in {j \in DOMAIN d : Fits(j)}}

Kept(d) == Newest(d) \cup IF LatestRequest(d) = 0 THEN {} ELSE {{LatestRequest(d)}}

Content(d, c) ==
    MapThenSumSet(LAMBDA i : IF i = LatestRequest(d) THEN c.latest + 4 ELSE Weight(d[i]), UNION c.blocks)
        + IF c.summary = 0 THEN 0 ELSE c.summary + 4

Fitting(d, c) == StableTokens + Content(d, c) + MaxOutput <= Limit

\* Whole blocks are dropped, the oldest first, never the latest request's.
DropOldest(d, c) ==
    LET loose == {b \in c.blocks : LatestRequest(d) \notin b}
        Left(n) == [c EXCEPT !.blocks =
                      {b \in @ : b \in loose => Cardinality({o \in loose : Min(o) <= Min(b)}) > n}]
    IN Left(Min({n \in 0..Cardinality(loose) : n = Cardinality(loose) \/ Fitting(d, Left(n))}))

\* What is left to cut when even that does not fit, in the order it is tried.
Cuts(d, c) ==
    LET available == Max({1, Limit - MaxOutput - StableTokens})
        share     == Max({1, Min({SummaryMax, available \div 3})})
        shorter   == [c EXCEPT !.summary = Truncated(@, share)]
        request   == IF LatestRequest(d) = 0 THEN shorter
                     ELSE [shorter EXCEPT !.latest = Truncated(@, Max({1, available - share - 8}))]
    IN <<c, shorter, request, [request EXCEPT !.summary = ShortSummary],
         [request EXCEPT !.summary = 0]>>

Whole(d) == [compacted |-> FALSE, summary |-> 0, messages |-> d]

\* The compacted request; the whole history when nothing could be made to fit.
Compact(d, summary) ==
    IF ~NeedsCompaction(d) \/ LatestBlockTooBig(d) THEN Whole(d)
    ELSE LET latest == IF LatestRequest(d) = 0 THEN 0 ELSE d[LatestRequest(d)].size
             cuts   == Cuts(d, DropOldest(d, [blocks |-> Kept(d), summary |-> summary, latest |-> latest]))
             good   == {k \in DOMAIN cuts : Fitting(d, cuts[k])}
             c      == cuts[Min(good)]
             kept   == SetToSortSeq(UNION c.blocks, <)
             front  == [kind |-> "human", calls |-> <<>>, call |-> NoId, size |-> c.summary]
         IN IF good = {} THEN Whole(d)
            ELSE [compacted |-> TRUE, summary |-> c.summary,
                  messages |-> (IF c.summary = 0 THEN <<>> ELSE <<front>>)
                               \o [k \in DOMAIN kept |->
                                     IF kept[k] = LatestRequest(d)
                                     THEN [d[kept[k]] EXCEPT !.size = c.latest] ELSE d[kept[k]]]]

\* The request built for one model call.
Projection(summary) == Compact(Hygiene(Repair(messages)), summary)

-----------------------------------------------------------------------------
(* The conversation: what the reducer of the messages channel may append.   *)
Message(kind, calls, call, size) == [kind |-> kind, calls |-> calls, call |-> call, size |-> size]

Init == messages = <<>>

Say == \E n \in HumanSizes : messages' = Append(messages, Message("human", <<>>, NoId, n))
Answer == \E c \in CallSets, n \in AnswerSizes : messages' = Append(messages, Message("ai", c, NoId, n))
Result == \E id \in CallIds, n \in ResultSizes :
              messages' = Append(messages, Message("tool", <<>>, id, n))

Next == Len(messages) < MaxLength /\ (Say \/ Answer \/ Result)

Spec == Init /\ [][Next]_messages

-----------------------------------------------------------------------------
\* Whatever was appended, and in whatever order, the repaired history is one a
\* provider accepts (repair_model_history).
RepairedIsLegal == Legal(Repair(messages))

\* A history that is in order already is sent as it is, and repairing twice
\* changes nothing more: the wrapper repairs, and the hygiene repairs again.
RepairIsStable ==
    /\ Repair(Repair(messages)) = Repair(messages)
    /\ Legal(messages) => Repair(messages) = messages

\* Compaction never tears a tool-call block apart (_compact_with_summary).
CompactedIsLegal == \A s \in SummarySizes : Legal(Projection(s).messages)

\* What the user asked last is in every request, behind the summary and with
\* nothing in between that came before it, if only shortened.
LatestRequestIsSent ==
    \A s \in SummarySizes :
        LET d == Hygiene(Repair(messages))
            p == Projection(s)
        IN LatestRequest(d) # 0 =>
              \E i \in DOMAIN p.messages :
                 /\ p.messages[i].kind = "human"
                 /\ p.summary # 0 => i > 1
                 /\ Len(p.messages) - i <= Len(d) - LatestRequest(d)

\* A request that was compacted is within the window, output included.
CompactedFits ==
    \A s \in SummarySizes :
        LET p == Projection(s)
        IN p.compacted => StableTokens + Total(p.messages) + MaxOutput <= Limit

\* "... cumulative tool-result tokens are bounded according to
\* CacheFirstConfig": beyond the results that are kept as recent, what is sent
\* stays within the bound.
ResultsAreBounded ==
    LET d == Hygiene(Repair(messages))
        tools == ToolPositions(d)
        Spent(n) == MapThenSumSet(LAMBDA k : IF d[tools[k]].size = OmittedStub THEN 0 ELSE d[tools[k]].size,
                                  (Len(tools) - n + 1)..Len(tools))
    IN Cumulative > 0 =>
          Spent(Len(tools)) <= Max({Cumulative, Spent(Min({KeepResults, Len(tools)}))})

\* What a provider is sent is in order, whatever the conversation went through.
RequestIsLegal == RepairedIsLegal /\ RepairIsStable /\ CompactedIsLegal

\* What a provider is sent is bounded, and still holds what was asked.
RequestIsBounded == LatestRequestIsSent /\ CompactedFits /\ ResultsAreBounded

-----------------------------------------------------------------------------
(* A statement of the documents that this code does not keep.               *)

\* "... and the most recent complete tool block are retained."
RecentBlockIsSent ==
    \A s \in SummarySizes :
        LET d == Hygiene(Repair(messages))
            p == Projection(s)
        IN (\E i \in DOMAIN d : IsCall(d[i])) => \E i \in DOMAIN p.messages : IsCall(p.messages[i])
=============================================================================
