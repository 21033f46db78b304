------------------------------ MODULE ToolBlocks ------------------------------
(***************************************************************************)
(* Tool-call blocks of a message history, and their repair before a        *)
(* request: an AI message that carries calls, followed by its results.     *)
(***************************************************************************)
EXTENDS Naturals, Sequences, FiniteSets, SequencesExt, FiniteSetsExt

CONSTANT NoId  \* the id of a malformed call, and of messages that answer none

\* A block is a message with calls and the tool results right behind it.
IsCall(m) == m.kind = "ai" /\ m.calls # <<>>
ToolsOnly(s, from, to) == \A k \in from..to : s[k].kind = "tool"
BlockOf(s, i) ==
    {i} \cup IF IsCall(s[i]) THEN {j \in DOMAIN s : j > i /\ ToolsOnly(s, i + 1, j)} ELSE {}
InBlock(s, j) == s[j].kind = "tool" /\ \E i \in 1..(j - 1) : IsCall(s[i]) /\ j \in BlockOf(s, i)
Blocks(s) == {BlockOf(s, i) : i \in {j \in DOMAIN s : ~InBlock(s, j)}}

WellFormed(m) == NoId \notin Range(m.calls) /\ IsInjective(m.calls)
ResultsFor(s, i, id) == {j \in BlockOf(s, i) \ {i} : s[j].call = id}

BlockKept(s, i) ==
    WellFormed(s[i]) /\ \A id \in Range(s[i].calls) : ResultsFor(s, i, id) # {}

\* Mutant: results are copied in the order they arrived.
RepairedArrival(s, i) ==
    IF ~IsCall(s[i]) THEN IF s[i].kind = "tool" THEN <<>> ELSE <<s[i]>>
    ELSE IF BlockKept(s, i)
         THEN LET first == {Min(ResultsFor(s, i, id)) : id \in Range(s[i].calls)}
              IN <<s[i]>> \o [k \in DOMAIN s[i].calls |-> s[SetToSortSeq(first, <)[k]]]
         ELSE <<>>

\* What stays of message i: other messages as they are; of a block all, in
\* call order, when every call has a result (the first one counts), or nothing.
RepairedAt(s, i) ==
    IF ~IsCall(s[i]) THEN IF s[i].kind = "tool" THEN <<>> ELSE <<s[i]>>
    ELSE IF BlockKept(s, i)
         THEN <<s[i]>> \o [k \in DOMAIN s[i].calls |-> s[Min(ResultsFor(s, i, s[i].calls[k]))]]
         ELSE <<>>

Repair(s) == FlattenSeq([i \in DOMAIN s |-> RepairedAt(s, i)])

\* A history a provider accepts: every result belongs to the block it stands
\* in, every call of a block is answered once, in call order.
Legal(s) ==
    /\ \A i \in DOMAIN s : s[i].kind = "tool" => InBlock(s, i)
    /\ \A i \in DOMAIN s : IsCall(s[i]) =>
          /\ WellFormed(s[i])
          /\ BlockOf(s, i) = i..(i + Len(s[i].calls))
          /\ \A k \in DOMAIN s[i].calls : s[i + k].call = s[i].calls[k]
=============================================================================
