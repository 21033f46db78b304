------------------------------- MODULE Channels -------------------------------
(***************************************************************************)
(* The channels of a graph's state and how a superstep's updates are       *)
(* merged into them, in plan order.  A cell is <<>> (no value yet) or      *)
(* <<v>>; values are sequences and the reducer appends.  A write says      *)
(* whether it is wrapped in ReplaceValue.                                  *)
(***************************************************************************)
EXTENDS Naturals, Sequences, SequencesExt

Empty == <<>>
Write(v) == [replace |-> FALSE, value |-> v]
ReplaceValue(v) == [replace |-> TRUE, value |-> v]

\* LastValue and EphemeralValue take at most one write per superstep.
Single == {"last", "once"}

LastMerge(cell, writes) == IF writes = <<>> THEN cell ELSE <<writes[1].value>>

OnceMerge(writes) == IF writes = <<>> THEN Empty ELSE <<writes[1].value>>

\* Mutant: a wrapped value goes through the reducer like any other.
ReduceAll(cell, writes) ==
    FoldLeft(LAMBDA c, w : IF c = Empty THEN <<w.value>> ELSE <<c[1] \o w.value>>, cell, writes)

\* BinaryOperatorAggregate: the first value stands for itself, a wrapped one replaces.
ReduceMerge(cell, writes) ==
    FoldLeft(LAMBDA c, w : IF w.replace \/ c = Empty THEN <<w.value>> ELSE <<c[1] \o w.value>>,
             cell, writes)

\* Mutant: values are accumulated whatever the channel says.
TopicKeeps(cell, writes, accumulate) ==
    <<FoldLeft(LAMBDA v, w : IF w.replace THEN w.value ELSE v \o w.value,
               IF cell # Empty THEN cell[1] ELSE <<>>, writes)>>

\* Topic: a list of values, kept across supersteps when it accumulates.
TopicMerge(cell, writes, accumulate) ==
    <<FoldLeft(LAMBDA v, w : IF w.replace THEN w.value ELSE v \o w.value,
               IF accumulate /\ cell # Empty THEN cell[1] ELSE <<>>, writes)>>

Merge(kind, cell, writes) ==
    IF kind = "last" THEN LastMerge(cell, writes)
    ELSE IF kind = "once" THEN OnceMerge(writes)
    ELSE IF kind = "reduce" THEN ReduceMerge(cell, writes)
    ELSE TopicMerge(cell, writes, kind = "topic_accumulated")

\* extract_channels: the first channel among the annotations of a field, else a reducer.
ChannelKinds == {"last", "once", "topic", "topic_accumulated"}
ChannelOf(annotations) ==
    LET declared == SelectSeq(annotations, LAMBDA a : a \in ChannelKinds)
    IN  IF declared # <<>> THEN declared[1]
        ELSE IF Contains(annotations, "reduce") THEN "reduce" ELSE "last"

\* The writes to one key, in the order of the tasks.
WritesTo(key, updates) ==
    LET writing == SelectSeq(updates, LAMBDA u : key \in DOMAIN u)
    IN  [i \in DOMAIN writing |-> writing[i][key]]

\* merge_updates raises: an unknown key, or two writes to a channel that takes one.
Rejected(channels, updates) ==
    \/ \E i \in DOMAIN updates : ~(DOMAIN updates[i] \subseteq DOMAIN channels)
    \/ \E key \in DOMAIN channels :
          channels[key] \in Single /\ Len(WritesTo(key, updates)) > 1

MergeUpdates(state, channels, updates) ==
    [key \in DOMAIN channels |-> Merge(channels[key], state[key], WritesTo(key, updates))]
==============================================================================
