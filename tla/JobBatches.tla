----------------------------- MODULE JobBatches -----------------------------
(***************************************************************************)
(* One job of schedule_ecs_job, from the end of its wait for dependencies  *)
(* to its teardown: its fiber walks over the views the query yields, and   *)
(* calls the callback itself, or cuts the views into tasks, and runs of    *)
(* tasks into batches, and waits for the fibers that process the batches.  *)
(*                                                                         *)
(* A view is a range of the entities of one chunk; the query yields the    *)
(* ranges of a chunk one after the other.  Tasks and batches are numbered  *)
(* from 1, and a batch is the half-open range [start, end) of the code.    *)
(***************************************************************************)
EXTENDS Naturals, Sequences, FiniteSetsExt

CONSTANTS
    Jobs,       \* what may be scheduled
    Chunks,
    NoChunk

VARIABLES
    job,        \* the query's views, entityCount, batchSize, params, subqueries
    pc,         \* where the job's fiber is
    view,       \* the view it is at
    allocated,  \* how much of the view has a task
    startIndex,
    batchRemain,
    currentChunk,
    startTask,  \* currBatch.startTask
    tasks,
    batches,
    next,       \* the batches that are scheduled, and the task each is at
    inside,     \* who is inside the callback: batches, 0 for the job's fiber
    counter     \* the batches the counter counts

fiberVars == <<view, allocated, startIndex, batchRemain, currentChunk, startTask, tasks>>
vars == <<job, pc, fiberVars, batches, next, inside, counter>>

\* A parameter, as far as batches depend on it: is it a component of chunks,
\* does the job change it, and does it access it out of order.
Parameter == [chunk : BOOLEAN, write : BOOLEAN, random : BOOLEAN]

View == [chunk : Chunks, start : Nat, count : Nat \ {0}]
Task == [startIndex : Nat, view : View]

Entities(v) == {v.chunk} \X (v.start..(v.start + v.count - 1))

\* The entities of the first n views.
Yielded(views, n) == UNION {Entities(views[i]) : i \in 1..n}
AllEntities == Yielded(job.views, Len(job.views))

\* Views do not overlap, and those of a chunk come one after the other.
\* entityCount counts the entities of the groups, also those no view has.
ASSUME JobsAssumption ==
    /\ Jobs \subseteq [views : Seq(View), entityCount : Nat \ {0}, batchSize : Nat,
                        params : Seq(Parameter), subqueries : BOOLEAN]
    /\ NoChunk \notin Chunks
    /\ \A j \in Jobs : LET views == j.views IN
        /\ \A i, k \in DOMAIN views : i < k => Entities(views[i]) \cap Entities(views[k]) = {}
        /\ \A i, k, l \in DOMAIN views :
              i < k /\ k < l /\ views[i].chunk = views[l].chunk => views[k].chunk = views[l].chunk
        /\ Cardinality(Yielded(views, Len(views))) <= j.entityCount

TypeOK ==
    /\ job \in Jobs
    /\ pc \in {"begin", "single", "batching", "waiting", "ended"}
    /\ view \in 1..(Len(job.views) + 1)
    /\ allocated \in Nat /\ startIndex \in 0..job.entityCount
    /\ batchRemain \in 0..job.batchSize
    /\ currentChunk \in Chunks \cup {NoChunk}
    /\ tasks \in Seq(Task) /\ startTask \in 0..Len(tasks)
    /\ batches \in Seq([start : Nat, end : 1..Len(tasks)])
    /\ next \in Seq(Nat) /\ Len(next) <= Len(batches)
    /\ inside \subseteq 0..Len(next) /\ counter \subseteq DOMAIN batches

Init ==
    /\ job \in Jobs
    /\ pc = "begin" /\ view = 1 /\ allocated = 0 /\ startIndex = 0
    /\ batchRemain = job.batchSize /\ currentChunk = NoChunk /\ startTask = 0
    /\ tasks = <<>> /\ batches = <<>> /\ next = <<>> /\ inside = {} /\ counter = {}

----------------------------------------------------------------------------
HasRandomWrite == job.subqueries \/ \E i \in DOMAIN job.params : job.params[i].random

\* The loop assigns for every parameter, so that the last one decides.
HasWriteChunkComponent ==
    LET last == job.params[Len(job.params)]
    IN  job.params # <<>> /\ last.chunk /\ last.write

Begin ==
    /\ pc = "begin"
    /\ pc' = IF HasRandomWrite \/ job.batchSize = 0 \/ job.entityCount <= job.batchSize
             THEN "single" ELSE "batching"
    /\ UNCHANGED <<job, fiberVars, batches, next, inside, counter>>

----------------------------------------------------------------------------
(* All in the job's own fiber.                                             *)

ProcessView ==
    /\ pc = "single" /\ 0 \notin inside /\ view <= Len(job.views)
    /\ inside' = {0}
    /\ UNCHANGED <<job, pc, fiberVars, batches, next, counter>>

ViewProcessed ==
    /\ pc = "single" /\ 0 \in inside
    /\ inside' = {}
    /\ startIndex' = startIndex + job.views[view].count
    /\ view' = view + 1
    /\ UNCHANGED <<job, pc, allocated, batchRemain, currentChunk, startTask, tasks, batches, next,
                   counter>>

EndSingle ==
    /\ pc = "single" /\ 0 \notin inside /\ view > Len(job.views)
    /\ pc' = "ended"
    /\ UNCHANGED <<job, fiberVars, batches, next, inside, counter>>

----------------------------------------------------------------------------
(* Tasks and batches.                                                      *)

Lesser(a, b) == IF a < b THEN a ELSE b

\* Mutant: every task of a view gets the index of the view.
IndexOfView(v) == Append(tasks, [startIndex |-> startIndex - allocated, view |-> v])

NewTask(v) == Append(tasks, [startIndex |-> startIndex, view |-> v])

\* The batch of the tasks since startTask.
Batch(n) == Append(batches, [start |-> startTask, end |-> n])

\* Mutant: a batch may end inside a chunk.
EndsBatchAnywhere(v) == batchRemain = 0

EndsBatch(v) == batchRemain = 0 /\ currentChunk # v.chunk

\* A job that changes chunk components: a view is one task, and a chunk is in
\* one batch, however large that becomes.
ScheduleWholeView ==
    LET v == job.views[view]
        remain == IF EndsBatch(v) THEN job.batchSize ELSE batchRemain
    IN  /\ pc = "batching" /\ view <= Len(job.views)
        /\ HasWriteChunkComponent
        /\ batches' = IF EndsBatch(v) THEN Batch(Len(tasks)) ELSE batches
        /\ startTask' = IF EndsBatch(v) THEN Len(tasks) ELSE startTask
        /\ tasks' = NewTask(v)
        /\ startIndex' = startIndex + v.count
        /\ batchRemain' = remain - Lesser(remain, v.count)
        /\ currentChunk' = v.chunk
        /\ view' = view + 1
        /\ UNCHANGED <<job, pc, allocated, next, inside, counter>>

\* Mutant: a task takes what is left of its view.
RestOfView(v) == v.count - allocated

SubViewCount(v) == Lesser(v.count - allocated, batchRemain)

ScheduleSubView ==
    LET v == job.views[view]
        n == SubViewCount(v)
        all == allocated + n = v.count
        full == n = batchRemain
    IN  /\ pc = "batching" /\ view <= Len(job.views)
        /\ ~HasWriteChunkComponent
        /\ tasks' = NewTask([v EXCEPT !.start = @ + allocated, !.count = n])
        /\ startIndex' = startIndex + n
        /\ batches' = IF full THEN Batch(Len(tasks')) ELSE batches
        /\ startTask' = IF full THEN Len(tasks') ELSE startTask
        /\ batchRemain' = IF full THEN job.batchSize ELSE batchRemain - n
        /\ allocated' = IF all THEN 0 ELSE allocated + n
        /\ view' = IF all THEN view + 1 ELSE view
        /\ UNCHANGED <<job, pc, currentChunk, next, inside, counter>>

AllBatches == IF startTask # Len(tasks) THEN Batch(Len(tasks)) ELSE batches

EndBatching ==
    /\ pc = "batching" /\ view > Len(job.views)
    /\ batches' = AllBatches
    /\ counter' = DOMAIN AllBatches
    /\ pc' = "waiting"
    /\ UNCHANGED <<job, fiberVars, next, inside>>

ScheduleBatch ==
    /\ pc = "waiting" /\ Len(next) < Len(batches)
    /\ next' = Append(next, batches[Len(next) + 1].start + 1)
    /\ UNCHANGED <<job, pc, fiberVars, batches, inside, counter>>

EndJob ==
    /\ pc = "waiting" /\ Len(next) = Len(batches)
    /\ counter = {}
    /\ pc' = "ended"
    /\ UNCHANGED <<job, fiberVars, batches, next, inside, counter>>

----------------------------------------------------------------------------
(* The fiber of a batch.                                                   *)

ProcessTask(b) ==
    /\ b \notin inside /\ next[b] <= batches[b].end
    /\ inside' = inside \cup {b}
    /\ UNCHANGED <<job, pc, fiberVars, batches, next, counter>>

TaskProcessed(b) ==
    /\ b \in inside
    /\ inside' = inside \ {b}
    /\ next' = [next EXCEPT ![b] = @ + 1]
    /\ UNCHANGED <<job, pc, fiberVars, batches, counter>>

\* Mutant: a batch of one task returns before it has decremented the counter.
EndLongBatch(b) ==
    /\ b \in counter /\ next[b] > batches[b].end /\ batches[b].end > batches[b].start + 1
    /\ counter' = counter \ {b}
    /\ UNCHANGED <<job, pc, fiberVars, batches, next, inside>>

EndBatch(b) ==
    /\ b \in counter /\ next[b] > batches[b].end
    /\ counter' = counter \ {b}
    /\ UNCHANGED <<job, pc, fiberVars, batches, next, inside>>

JobFiber ==
    \/ Begin \/ ProcessView \/ ViewProcessed \/ EndSingle
    \/ ScheduleWholeView \/ ScheduleSubView \/ EndBatching \/ ScheduleBatch \/ EndJob

BatchFiber(b) == b \in DOMAIN next /\ (ProcessTask(b) \/ TaskProcessed(b) \/ EndBatch(b))

Next == JobFiber \/ \E b \in DOMAIN batches : BatchFiber(b)

\* Fibers that can run do run, and callbacks return.
Fairness == WF_vars(JobFiber) /\ WF_vars(\E b \in DOMAIN batches : BatchFiber(b))

Spec == Init /\ [][Next]_vars
FairSpec == Spec /\ Fairness

----------------------------------------------------------------------------
(* Properties.                                                             *)

\* What the callback was given by whoever is inside it.
GivenBy(w) == IF w = 0 THEN Entities(job.views[view]) ELSE Entities(tasks[next[w]].view)
Busy == {GivenBy(w) : w \in inside}

\* What a callback has returned from.
Processed ==
    IF tasks = <<>> THEN Yielded(job.views, view - 1)
    ELSE UNION {Entities(tasks[i].view) :
                    i \in {i \in DOMAIN tasks : \E b \in DOMAIN next :
                              batches[b].start < i /\ i < next[b]}}

PF == INSTANCE ParallelFor WITH
          todo <- AllEntities \ (Processed \cup UNION Busy), busy <- Busy, over <- pc = "ended",
          serial <- HasRandomWrite, exclusive <- HasWriteChunkComponent

\* However its views are cut, a job gives every entity to its callback once, one
\* call at a time when it may access any entity, never two at once in a chunk
\* whose components it changes as far as HasWriteChunkComponent tells, and is torn
\* down after the last call (scheduler.cpp:424-529).
ImplementsParallelFor == PF!Spec

\* How many entities the query yields before those of a view or of a part of it.
Before(v) ==
    LET at == CHOOSE i \in DOMAIN job.views : Entities(v) \subseteq Entities(job.views[i])
    IN  Cardinality(Yielded(job.views, at - 1)) + v.start - job.views[at].start

\* The index a callback gets says where its entities are among all those of the
\* job, so that calls made at once write to different parts of an array of
\* entityCount elements (scheduler.cpp:431, :480, :498).
IndicesAgree ==
    /\ \A i \in DOMAIN tasks : tasks[i].startIndex = Before(tasks[i].view)
    /\ 0 \in inside => startIndex = Before(job.views[view])

\* The entities of the tasks of a batch.
Gathered(first, last) == UNION {Entities(tasks[i].view) : i \in first..last}
BatchSize(b) == Cardinality(Gathered(batches[b].start + 1, batches[b].end))

\* "max entity count processed by a task" (include/ecs/dual.h:772): a batch has
\* batchSize entities, the last one at most as many, unless whole chunks go to
\* one batch.
BatchesBounded ==
    ~HasWriteChunkComponent => \A b \in DOMAIN batches :
        BatchSize(b) = job.batchSize \/ (b = Len(batches) /\ BatchSize(b) < job.batchSize)

\* The wait for the counter ends, and the job with it (scheduler.cpp:522).
JobEnds == <>(pc = "ended")
=============================================================================
