---------------------------- MODULE ChannelHistory ----------------------------
(***************************************************************************)
(* Supersteps that write the channels of a schema in every way, beside the *)
(* history of all writes, from which each channel's value is defined anew. *)
(***************************************************************************)
EXTENDS Channels

CONSTANTS
    Schema,     \* field -> sequence of the annotations it was declared with
    Stray,      \* a key that is not in the schema
    MaxSteps,   \* bound on supersteps
    MaxUpdates  \* bound on the tasks of a superstep

VARIABLES
    state,   \* channel cells
    past,    \* (history) the updates of every superstep that was merged
    refused  \* (history) number of supersteps that raised

vars == <<state, past, refused>>

channels == [key \in DOMAIN Schema |-> ChannelOf(Schema[key])]

\* The i-th task writes one key: a value of its own, plain or wrapped.
UpdatesOf(i) ==
    {[k \in {key} |-> w] : key \in DOMAIN Schema \cup {Stray},
                           w \in {Write(<<Len(past), i>>), ReplaceValue(<<Len(past), i>>)}}

Init == state = [key \in DOMAIN Schema |-> Empty] /\ past = <<>> /\ refused = 0

\* One superstep's updates are merged all together or not at all.
Superstep(updates) ==
    IF Rejected(channels, updates)
    THEN refused' = refused + 1 /\ UNCHANGED <<state, past>>
    ELSE /\ state' = MergeUpdates(state, channels, updates)
         /\ past' = Append(past, updates)
         /\ UNCHANGED refused

Next ==
    /\ Len(past) + refused < MaxSteps
    /\ \E n \in 0..MaxUpdates :
        \E updates \in {u \in [1..n -> UNION {UpdatesOf(i) : i \in 1..n}] :
                          \A i \in 1..n : u[i] \in UpdatesOf(i)} :
            Superstep(updates)

Spec == Init /\ [][Next]_vars

(***************************************************************************)
(* What each channel holds, from the history alone.                        *)
(***************************************************************************)
AllWrites(key) == WritesTo(key, FlattenSeq(past))
LastWrites(key) == IF past = <<>> THEN <<>> ELSE WritesTo(key, Last(past))

\* The values written since the last write that replaces, that one included.
Since(writes) ==
    LET from == SelectLastInSubSeq(writes, 1, Len(writes), LAMBDA w : w.replace)
        tail == SubSeq(writes, IF from = 0 THEN 1 ELSE from, Len(writes))
    IN  FlattenSeq([i \in DOMAIN tail |-> tail[i].value])

\* A reduced field holds every write since the last replacement, once and in plan order,
\* however the writes were spread over supersteps (BinaryOperatorAggregate.merge).
ReducedIsHistory ==
    \A key \in DOMAIN channels : channels[key] = "reduce" =>
        state[key] = IF AllWrites(key) = <<>> THEN Empty ELSE <<Since(AllWrites(key))>>

\* An accumulating topic does the same; any other holds the last superstep's values only.
TopicIsHistory ==
    \A key \in DOMAIN channels : past # <<>> =>
        /\ channels[key] = "topic_accumulated" => state[key] = <<Since(AllWrites(key))>>
        /\ channels[key] = "topic" => state[key] = <<Since(LastWrites(key))>>

\* A LastValue field survives supersteps that do not write it, an EphemeralValue field
\* does not, and neither ever took two writes of one superstep.
SingleIsHistory ==
    \A key \in DOMAIN channels : channels[key] \in Single =>
        LET writes == IF channels[key] = "last" THEN AllWrites(key) ELSE LastWrites(key)
        IN  /\ state[key] = IF writes = <<>> THEN Empty ELSE <<Last(writes).value>>
            /\ \A i \in DOMAIN past : Len(WritesTo(key, past[i])) <= 1

\* The three above: each channel holds what its history says it should.
ChannelsAreHistory == ReducedIsHistory /\ TopicIsHistory /\ SingleIsHistory
==============================================================================
