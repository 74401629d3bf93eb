---------------------------- MODULE MCJobBatches ----------------------------
\* Instances of JobBatches.
EXTENDS JobBatches

CONSTANTS a, b

\* Every query over a chunk of three entities and one of two: a filter by masks
\* picks entities, and a view is a run of these.
Ranges(c, size) ==
    [i \in 1..(size * size) |-> [chunk |-> c, start |-> (i - 1) \div size, count |-> ((i - 1) % size) + 1]]

IsRun(v, picked) ==
    /\ Entities(v) \subseteq picked
    /\ <<v.chunk, v.start + v.count>> \notin picked
    /\ v.start > 0 => <<v.chunk, v.start - 1>> \notin picked

Views(picked) == SelectSeq(Ranges(a, 3) \o Ranges(b, 2), LAMBDA v : IsRun(v, picked))

Plain == [chunk |-> FALSE, write |-> TRUE, random |-> FALSE]
OfChunk == [chunk |-> TRUE, write |-> TRUE, random |-> FALSE]
Random == [chunk |-> FALSE, write |-> FALSE, random |-> TRUE]

SmallJobs ==
    [views : {Views(picked) : picked \in SUBSET (({a} \X (0..2)) \cup ({b} \X (0..1)))},
     entityCount : {5}, batchSize : 0..4,
     params : {<<Plain>>, <<Plain, OfChunk>>, <<Random, Plain>>}, subqueries : BOOLEAN]
=============================================================================
