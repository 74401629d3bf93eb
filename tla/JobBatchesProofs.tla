-------------------------- MODULE JobBatchesProofs --------------------------
(***************************************************************************)
(* Theorems about JobBatches: however the views of a job are cut into      *)
(* tasks and batches, its callback is given every entity once, with the    *)
(* index of the entity among all of the job, as ParallelFor promises.      *)
(***************************************************************************)
EXTENDS JobBatches, SequenceLemmas

Views == job.views

\* v is a part of the view k.
PartOf(v, k) ==
  /\ v.chunk = Views[k].chunk
  /\ Views[k].start <= v.start /\ v.start + v.count <= Views[k].start + Views[k].count

(* The fiber's index counts what the views yielded so far.                 *)
IndexInv ==
  /\ allocated # 0 => view <= Len(Views) /\ allocated < Views[view].count
  /\ startIndex = Cardinality(Yielded(Views, view - 1)) + allocated

(* A job that is one call after the other has no tasks; nothing runs       *)
(* before batches are scheduled; and what a phase leaves behind.           *)
PhaseInv ==
  /\ pc \in {"begin", "single"} => tasks = <<>> /\ batches = <<>> /\ allocated = 0
  /\ pc = "begin" => view = 1 /\ startTask = 0 /\ batchRemain = job.batchSize
  /\ pc \in {"begin", "single", "batching"} => next = <<>> /\ counter = {} /\ inside \subseteq {0}
  /\ pc \in {"batching", "waiting"} => ~ HasRandomWrite
  /\ pc \in {"waiting", "ended"} => view = Len(Views) + 1 /\ allocated = 0
  /\ pc = "ended" => counter = {}
  /\ 0 \in inside => pc = "single" /\ view <= Len(Views)

(* Every task is a part of a view, at its index, no entity has two tasks,  *)
(* and every one the fiber has passed has one.                             *)
TaskIndices ==
  \A i \in DOMAIN tasks : \E k \in DOMAIN Views :
    /\ PartOf(tasks[i].view, k)
    /\ tasks[i].startIndex + Views[k].start = Cardinality(Yielded(Views, k - 1)) + tasks[i].view.start

TasksApart ==
  \A i, k \in DOMAIN tasks : i # k => Entities(tasks[i].view) \cap Entities(tasks[k].view) = {}

\* What has a task of the view the fiber is at.
Begun ==
  IF allocated = 0 THEN {}
  ELSE {Views[view].chunk} \X (Views[view].start .. (Views[view].start + allocated - 1))

TasksCover ==
  pc \in {"batching", "waiting"} => Gathered(1, Len(tasks)) = Yielded(Views, view - 1) \cup Begun

TasksInv == TaskIndices /\ TasksApart /\ TasksCover

(* The batches are one behind the other, and no task is left out.          *)
InBatch(i, b) == batches[b].start < i /\ i <= batches[b].end

RangesInv ==
  /\ \A b \in DOMAIN batches : batches[b].start < batches[b].end
  /\ \A b, c \in DOMAIN batches : b < c => batches[b].end <= batches[c].start
  /\ pc = "batching" =>
       /\ \A b \in DOMAIN batches : batches[b].end <= startTask
       /\ \A i \in 1..startTask : \E b \in DOMAIN batches : InBatch(i, b)
  /\ pc = "waiting" => \A i \in DOMAIN tasks : \E b \in DOMAIN batches : InBatch(i, b)

(* Full batches, and the one that is being filled.                         *)
SizesInv ==
  ~ HasWriteChunkComponent =>
    /\ pc = "batching" =>
         /\ batchRemain # 0
         /\ Cardinality(Gathered(startTask + 1, Len(tasks))) + batchRemain = job.batchSize
         /\ \A b \in DOMAIN batches : BatchSize(b) = job.batchSize
    /\ BatchesBounded

(* When chunks must stay together a task is a view, and what follows the   *)
(* end of a batch is in other chunks.                                      *)
ChunksInv ==
  HasWriteChunkComponent =>
    /\ pc = "batching" =>
         /\ allocated = 0 /\ Len(tasks) + 1 = view
         /\ \A i \in DOMAIN tasks : tasks[i].view = Views[i]
         /\ tasks = <<>> => batchRemain # 0
         /\ tasks # <<>> => startTask < Len(tasks) /\ currentChunk = Views[Len(tasks)].chunk
    /\ \A b \in DOMAIN batches : \A i, k \in DOMAIN tasks :
         i <= batches[b].end /\ batches[b].end < k => tasks[i].view.chunk # tasks[k].view.chunk

(* A batch is counted until it has processed its tasks.                    *)
FibersInv ==
  /\ \A b \in DOMAIN next :
       /\ batches[b].start < next[b] /\ next[b] <= batches[b].end + 1
       /\ b \in inside => next[b] <= batches[b].end
  /\ pc \in {"waiting", "ended"} =>
       \A b \in DOMAIN batches \ counter : b \in DOMAIN next /\ next[b] = batches[b].end + 1

JobInv ==
  /\ TypeOK /\ IndexInv /\ PhaseInv
  /\ TasksInv /\ RangesInv
  /\ SizesInv /\ ChunksInv /\ FibersInv
-----------------------------------------------------------------------------
(* Views and what they yield.                                              *)

\* A view has as many entities as it counts, and at least one.
LEMMA EntitiesFacts ==
  ASSUME NEW v \in View
  PROVE  /\ IsFiniteSet(Entities(v)) /\ Cardinality(Entities(v)) = v.count
         /\ Entities(v) # {}
<1> DEFINE range == v.start .. (v.start + v.count - 1)
<1>1. v.start \in Nat /\ v.count \in Nat \ {0}
  BY DEF View
<1>2. IsFiniteSet(range) /\ Cardinality(range) = v.count
  <2>1. PICK m \in Nat, c \in Nat \ {0} : m = v.start /\ c = v.count
    BY <1>1
  <2>2. m \in Int /\ m + c - 1 \in Int /\ ~ (m > m + c - 1) /\ (m + c - 1) - m + 1 = c
    BY ONLY m \in Nat, c \in Nat \ {0}
  <2>3. PICK n : n = m + c - 1
    OBVIOUS
  <2>4. IsFiniteSet(m..n) /\ Cardinality(m..n) = IF m > n THEN 0 ELSE n - m + 1
    BY ONLY <2>2, <2>3, FS_Interval
  <2>5. Cardinality(m..n) = c
    BY ONLY <2>2, <2>3, <2>4
  <2>6. QED BY <2>1, <2>3, <2>4, <2>5
<1>3. IsFiniteSet({v.chunk}) /\ Cardinality({v.chunk}) = 1
  BY FS_Singleton
<1>4. /\ IsFiniteSet({v.chunk} \X range)
      /\ Cardinality({v.chunk} \X range) = Cardinality({v.chunk}) * Cardinality(range)
  <2> HIDE DEF range
  <2>1. QED BY <1>2, <1>3, FS_Product
<1>5. Cardinality({v.chunk} \X range) = v.count
  BY <1>1, <1>2, <1>3, <1>4
<1>6. <<v.chunk, v.start>> \in {v.chunk} \X range
  BY <1>1
<1>7. QED BY <1>4, <1>5, <1>6 DEF Entities

UnionOf(f, first, last) == UNION {f[i] : i \in first..last}

\* A union of finitely many finite sets is finite.
LEMMA UnionFinite ==
  ASSUME NEW first \in Nat, NEW last \in Nat, NEW f,
         \A i \in first..last : IsFiniteSet(f[i])
  PROVE  IsFiniteSet(UnionOf(f, first, last))
<1> DEFINE T == {f[i] : i \in first..last}
           g == [i \in first..last |-> f[i]]
<1>1. IsFiniteSet(first..last)
  BY FS_Interval
<1>2. g \in Surjection(first..last, T)
  BY DEF Surjection
<1>3. IsFiniteSet(T)
  <2> HIDE DEF g, T
  <2>1. QED BY <1>1, <1>2, FS_Surjection
<1>4. \A s \in T : IsFiniteSet(s)
  OBVIOUS
<1>5. QED
  <2> HIDE DEF T
  <2>1. IsFiniteSet(UNION T)
    BY <1>3, <1>4, FS_UNION
  <2>2. QED BY <2>1 DEF T, UnionOf

\* A query yields finitely many entities.
LEMMA YieldedFinite ==
  ASSUME NEW views \in Seq(View), NEW n \in 0..Len(views)
  PROVE  IsFiniteSet(Yielded(views, n)) /\ Cardinality(Yielded(views, n)) \in Nat
<1> DEFINE f == [i \in 1..n |-> Entities(views[i])]
<1>1. \A i \in 1..n : f[i] = Entities(views[i]) /\ views[i] \in View
  OBVIOUS
<1>2. \A i \in 1..n : IsFiniteSet(f[i])
  BY <1>1, EntitiesFacts
<1>3. IsFiniteSet(UnionOf(f, 1, n))
  <2>1. 1 \in Nat /\ n \in Nat
    OBVIOUS
  <2> HIDE DEF f
  <2>2. QED BY ONLY <1>2, <2>1, UnionFinite
<1>4. UnionOf(f, 1, n) = Yielded(views, n)
  BY DEF UnionOf, Yielded
<1>5. QED BY <1>3, <1>4, FS_CardinalityType

(* Sets of entities that have none in common add up.                       *)
LEMMA CardinalityAdds ==
  ASSUME NEW S, NEW T, IsFiniteSet(S), IsFiniteSet(T), S \cap T = {}
  PROVE  IsFiniteSet(S \cup T) /\ Cardinality(S \cup T) = Cardinality(S) + Cardinality(T)
<1>1. Cardinality(S) \in Nat /\ Cardinality(T) \in Nat /\ Cardinality(S \cap T) = 0
  BY FS_CardinalityType, FS_EmptySet
<1>2. IsFiniteSet(S \cup T) /\ Cardinality(S \cup T) = Cardinality(S) + Cardinality(T) - Cardinality(S \cap T)
  BY FS_Union
<1>3. QED BY <1>1, <1>2

\* What JobsAssumption says of the job.
LEMMA JobFacts ==
  ASSUME job \in Jobs
  PROVE  /\ Views \in Seq(View) /\ job.batchSize \in Nat /\ job.entityCount \in Nat
         /\ \A i, k \in DOMAIN Views : i < k => Entities(Views[i]) \cap Entities(Views[k]) = {}
         /\ \A i, k, l \in DOMAIN Views :
              i < k /\ k < l /\ Views[i].chunk = Views[l].chunk => Views[k].chunk = Views[l].chunk
         /\ Cardinality(Yielded(Views, Len(Views))) <= job.entityCount
BY JobsAssumption DEF Views

\* What the query has yielded after one more view.
LEMMA YieldedNext ==
  ASSUME job \in Jobs, NEW n \in 1..Len(Views)
  PROVE  /\ Views[n] \in View
         /\ Yielded(Views, n) = Yielded(Views, n - 1) \cup Entities(Views[n])
         /\ Yielded(Views, n - 1) \cap Entities(Views[n]) = {}
         /\ Cardinality(Yielded(Views, n - 1)) \in Nat
         /\ Cardinality(Yielded(Views, n)) = Cardinality(Yielded(Views, n - 1)) + Views[n].count
<1>1. Views \in Seq(View) /\ Views[n] \in View
  BY JobFacts
<1>2. Yielded(Views, n) = Yielded(Views, n - 1) \cup Entities(Views[n])
  <2>1. 1..n = (1..(n - 1)) \cup {n}
    OBVIOUS
  <2>2. QED BY <2>1 DEF Yielded
<1>3. Yielded(Views, n - 1) \cap Entities(Views[n]) = {}
  <2>1. \A i \in 1..(n - 1) : Entities(Views[i]) \cap Entities(Views[n]) = {}
    BY <1>1, JobFacts
  <2>2. QED BY <2>1 DEF Yielded
<1>4. IsFiniteSet(Yielded(Views, n - 1)) /\ Cardinality(Yielded(Views, n - 1)) \in Nat
  <2>1. n - 1 \in 0..Len(Views)
    BY <1>1
  <2>2. QED BY <1>1, <2>1, YieldedFinite
<1>5. IsFiniteSet(Entities(Views[n])) /\ Cardinality(Entities(Views[n])) = Views[n].count
  BY <1>1, EntitiesFacts
<1>6. Cardinality(Yielded(Views, n - 1) \cup Entities(Views[n]))
        = Cardinality(Yielded(Views, n - 1)) + Cardinality(Entities(Views[n]))
  BY <1>3, <1>4, <1>5, CardinalityAdds
<1>7. QED BY <1>1, <1>2, <1>3, <1>4, <1>5, <1>6

\* No part of what a query yields is more than entityCount.
LEMMA YieldedBound ==
  ASSUME job \in Jobs, NEW n \in 0..Len(Views)
  PROVE  /\ Yielded(Views, n) \subseteq AllEntities
         /\ Cardinality(Yielded(Views, n)) \in 0..job.entityCount
<1>1. Views \in Seq(View) /\ job.entityCount \in Nat
      /\ Cardinality(Yielded(Views, Len(Views))) <= job.entityCount
  BY JobFacts
<1>2. Yielded(Views, n) \subseteq Yielded(Views, Len(Views))
  BY <1>1 DEF Yielded
<1>3. /\ IsFiniteSet(Yielded(Views, Len(Views)))
      /\ Cardinality(Yielded(Views, Len(Views))) \in Nat /\ Cardinality(Yielded(Views, n)) \in Nat
  <2>1. Len(Views) \in 0..Len(Views)
    BY <1>1
  <2>2. QED BY <1>1, <2>1, YieldedFinite
<1>4. Cardinality(Yielded(Views, n)) <= Cardinality(Yielded(Views, Len(Views)))
  BY <1>2, <1>3, FS_Subset
<1>5. QED BY <1>1, <1>2, <1>3, <1>4 DEF AllEntities, Views

\* The entities of a part of a view are the view's, and no other view's.
LEMMA PartFacts ==
  ASSUME job \in Jobs, NEW v \in View, NEW k \in DOMAIN Views, PartOf(v, k)
  PROVE  /\ Entities(v) \subseteq Entities(Views[k])
         /\ \A i \in DOMAIN Views : Entities(v) \subseteq Entities(Views[i]) => i = k
         /\ Entities(v) \subseteq AllEntities
<1>1. Views \in Seq(View) /\ Views[k] \in View /\ k \in 1..Len(Views)
  BY JobFacts
<1>2. Entities(v) \subseteq Entities(Views[k])
  <2>1. /\ v.start \in Nat /\ v.count \in Nat /\ Views[k].start \in Nat /\ Views[k].count \in Nat
    BY <1>1 DEF View
  <2>2. v.start .. (v.start + v.count - 1) \subseteq Views[k].start .. (Views[k].start + Views[k].count - 1)
    BY <2>1 DEF PartOf
  <2>3. QED BY <2>2 DEF Entities, PartOf
<1>3. ASSUME NEW i \in DOMAIN Views, Entities(v) \subseteq Entities(Views[i])
      PROVE  i = k
  <2>1. Entities(v) # {}
    BY EntitiesFacts
  <2>2. Entities(Views[i]) \cap Entities(Views[k]) # {}
    BY <1>2, <1>3, <2>1
  <2>3. i \in Nat /\ k \in Nat
    BY <1>1
  <2>4. QED BY <2>2, <2>3, JobFacts
<1>4. Entities(v) \subseteq AllEntities
  <2>1. Entities(Views[k]) \subseteq Yielded(Views, Len(Views))
    BY <1>1 DEF Yielded
  <2>2. QED BY <1>2, <2>1 DEF AllEntities, Views
<1>5. QED BY <1>2, <1>3, <1>4

-----------------------------------------------------------------------------
(* Tasks.                                                                  *)

\* Tasks have finitely many entities.
LEMMA GatheredFinite ==
  ASSUME tasks \in Seq(Task), NEW first \in Nat \ {0}, NEW last \in 0..Len(tasks)
  PROVE  IsFiniteSet(Gathered(first, last)) /\ Cardinality(Gathered(first, last)) \in Nat
<1> DEFINE f == [i \in first..last |-> Entities(tasks[i].view)]
<1>1. ASSUME NEW i \in first..last
      PROVE  f[i] = Entities(tasks[i].view) /\ tasks[i].view \in View
  <2>1. tasks[i] \in Task
    OBVIOUS
  <2>2. QED BY <2>1 DEF Task
<1>2. \A i \in first..last : IsFiniteSet(f[i])
  BY <1>1, EntitiesFacts
<1>3. IsFiniteSet(UnionOf(f, first, last))
  <2>1. first \in Nat /\ last \in Nat
    OBVIOUS
  <2> HIDE DEF f
  <2>2. QED BY ONLY <1>2, <2>1, UnionFinite
<1>4. UnionOf(f, first, last) = Gathered(first, last)
  BY DEF UnionOf, Gathered
<1>5. QED BY <1>3, <1>4, FS_CardinalityType

\* The tasks after one was added.
LEMMA TaskAdded ==
  ASSUME tasks \in Seq(Task), NEW t \in Task, tasks' = Append(tasks, t)
  PROVE  /\ tasks' \in Seq(Task) /\ Len(tasks') = Len(tasks) + 1
         /\ DOMAIN tasks = 1..Len(tasks) /\ DOMAIN tasks' = 1..(Len(tasks) + 1)
         /\ \A i \in 1..Len(tasks) : tasks'[i] = tasks[i]
         /\ tasks'[Len(tasks) + 1] = t
OBVIOUS

\* A task that is added adds its entities to those gathered.
LEMMA GatheredAdded ==
  ASSUME tasks \in Seq(Task), NEW t \in Task, tasks' = Append(tasks, t), NEW n, n = Len(tasks)
  PROVE  /\ \A first \in Nat \ {0}, last \in 0..n : Gathered(first, last)' = Gathered(first, last)
         /\ \A first \in 1..(n + 1) :
              Gathered(first, n + 1)' = Gathered(first, n) \cup Entities(t.view)
<1>1. /\ n \in Nat
      /\ \A i \in 1..n : tasks'[i] = tasks[i]
      /\ tasks'[n + 1] = t
  BY TaskAdded
<1>2. ASSUME NEW first \in Nat \ {0}, NEW last \in 0..n
      PROVE  Gathered(first, last)' = Gathered(first, last)
  <2>1. \A i \in first..last : tasks'[i] = tasks[i]
    BY <1>1
  <2>2. QED BY <2>1 DEF Gathered
<1>3. ASSUME NEW first \in 1..(n + 1)
      PROVE  Gathered(first, n + 1)' = Gathered(first, n) \cup Entities(t.view)
  <2>1. first..(n + 1) = (first..n) \cup {n + 1}
    BY <1>1
  <2>2. \A i \in first..n : tasks'[i] = tasks[i]
    BY <1>1
  <2>3. QED BY <1>1, <2>1, <2>2 DEF Gathered
<1>4. QED BY <1>2, <1>3

\* Where the elements of a longer sequence are.
LEMMA AppendShape ==
  ASSUME NEW S, NEW s \in Seq(S), NEW e \in S
  PROVE  /\ Append(s, e) \in Seq(S)
         /\ Len(Append(s, e)) = Len(s) + 1
         /\ DOMAIN s = 1..Len(s) /\ DOMAIN Append(s, e) = 1..(Len(s) + 1)
         /\ \A i \in 1..Len(s) : Append(s, e)[i] = s[i]
         /\ Append(s, e)[Len(s) + 1] = e
OBVIOUS

\* A sequence over a set is one over a larger set.
LEMMA WiderSeq ==
  ASSUME NEW S, NEW T, S \subseteq T, NEW s \in Seq(S)
  PROVE  s \in Seq(T)
<1>1. Len(s) \in Nat /\ s \in [1..Len(s) -> S]
  OBVIOUS
<1>2. s \in [1..Len(s) -> T]
  BY <1>1
<1>3. QED BY <1>1, <1>2

\* A task that is a part of a view, at its index, and of entities no task has.
LEMMA TaskAddedKeeps ==
  ASSUME JobInv, NEW v \in View, NEW k \in DOMAIN Views, PartOf(v, k),
         startIndex + Views[k].start = Cardinality(Yielded(Views, k - 1)) + v.start,
         Entities(v) \cap Gathered(1, Len(tasks)) = {},
         tasks' = NewTask(v), job' = job
  PROVE  TaskIndices' /\ TasksApart'
<1>1. PICK t, n : t = [startIndex |-> startIndex, view |-> v] /\ n = Len(tasks)
  OBVIOUS
<1>2. tasks \in Seq(Task) /\ t \in Task /\ tasks' = Append(tasks, t) /\ n \in Nat
  BY <1>1 DEF JobInv, TypeOK, Task, NewTask
<1>3. /\ DOMAIN tasks = 1..n /\ DOMAIN tasks' = 1..(n + 1)
      /\ \A i \in 1..n : tasks'[i] = tasks[i]
      /\ tasks'[n + 1] = t
  BY <1>1, <1>2, TaskAdded
<1>4. t.view = v /\ t.startIndex = startIndex
  BY <1>1
<1>5. Views' = Views
  BY DEF Views
<1>6. TaskIndices'
  <2>1. ASSUME NEW i \in DOMAIN tasks'
        PROVE  \E l \in DOMAIN Views :
                 /\ PartOf(tasks'[i].view, l)
                 /\ tasks'[i].startIndex + Views[l].start
                      = Cardinality(Yielded(Views, l - 1)) + tasks'[i].view.start
    <3>1. CASE i \in 1..n
      BY <1>3, <3>1 DEF JobInv, TasksInv, TaskIndices
    <3>2. CASE i = n + 1
      BY <1>3, <1>4, <3>2
    <3>3. i \in 1..n \/ i = n + 1
      BY <1>2, <1>3
    <3>4. QED BY <3>1, <3>2, <3>3
  <2>2. QED BY <1>5, <2>1 DEF TaskIndices, PartOf
<1>7. TasksApart'
  <2>1. \A i \in 1..n : Entities(tasks[i].view) \cap Entities(v) = {}
    BY <1>1 DEF Gathered
  <2>2. ASSUME NEW i \in 1..(n + 1), NEW l \in 1..(n + 1), i # l
        PROVE  Entities(tasks'[i].view) \cap Entities(tasks'[l].view) = {}
    <3>1. CASE i \in 1..n /\ l \in 1..n
      BY <1>3, <2>2, <3>1 DEF JobInv, TasksInv, TasksApart
    <3>2. CASE i \in 1..n /\ l = n + 1
      BY <1>3, <1>4, <2>1, <3>2
    <3>3. CASE i = n + 1 /\ l \in 1..n
      BY <1>3, <1>4, <2>1, <3>3
    <3>4. (i \in 1..n \/ i = n + 1) /\ (l \in 1..n \/ l = n + 1)
      BY <1>2
    <3>5. QED BY <2>2, <3>1, <3>2, <3>3, <3>4
  <2>3. QED BY <1>3, <2>2 DEF TasksApart
<1>8. QED BY <1>6, <1>7

-----------------------------------------------------------------------------
(* Batches.                                                                *)

\* The batch of the tasks from startTask to m is behind the others.
LEMMA BatchAddedKeeps ==
  ASSUME TypeOK, RangesInv, pc = "batching", NEW m \in Nat,
         startTask < m, Len(tasks) <= Len(tasks'), m <= Len(tasks'), tasks' \in Seq(Task),
         batches' = Batch(m)
  PROVE  /\ batches' \in Seq([start : Nat, end : 1..Len(tasks')])
         /\ Len(batches') = Len(batches) + 1 /\ DOMAIN batches = 1..Len(batches)
         /\ DOMAIN batches' = 1..(Len(batches) + 1)
         /\ \A b \in 1..Len(batches) : batches'[b] = batches[b] /\ batches[b].end <= startTask
         /\ batches'[Len(batches) + 1] = [start |-> startTask, end |-> m]
         /\ \A b \in DOMAIN batches' : batches'[b].start < batches'[b].end
         /\ \A b, c \in DOMAIN batches' : b < c => batches'[b].end <= batches'[c].start
         /\ \A b \in DOMAIN batches' : batches'[b].end <= m
         /\ \A i \in 1..m : \E b \in DOMAIN batches' : InBatch(i, b)'
<1>1. PICK l, e : l = Len(batches) /\ e = [start |-> startTask, end |-> m]
  OBVIOUS
<1> DEFINE S == [start : Nat, end : 1..Len(tasks')]
<1>2. startTask \in Nat /\ Len(tasks) \in Nat /\ Len(tasks') \in Nat
  BY DEF TypeOK
<1>3. e \in S
  BY <1>1, <1>2
<1>4. batches \in Seq(S)
  <2>1. [start : Nat, end : 1..Len(tasks)] \subseteq S
    BY <1>2
  <2>2. batches \in Seq([start : Nat, end : 1..Len(tasks)])
    BY DEF TypeOK
  <2> HIDE DEF S
  <2>3. QED BY <2>1, <2>2, WiderSeq
<1>5. batches' = Append(batches, e)
  BY <1>1 DEF Batch
<1>6. /\ batches' \in Seq(S) /\ l \in Nat /\ Len(batches') = l + 1
      /\ DOMAIN batches = 1..l /\ DOMAIN batches' = 1..(l + 1)
      /\ \A b \in 1..l : batches'[b] = batches[b]
      /\ batches'[l + 1] = e
  <2> HIDE DEF S
  <2>1. QED BY <1>1, <1>3, <1>4, <1>5, AppendShape
<1>7. /\ \A b \in 1..l : /\ batches[b].start \in Nat /\ batches[b].end \in Nat
                         /\ batches[b].start < batches[b].end /\ batches[b].end <= startTask
      /\ \A b, c \in 1..l : b < c => batches[b].end <= batches[c].start
  <2>1. \A b \in 1..l : batches[b] \in S
    <3> HIDE DEF S
    <3>1. QED BY <1>4, <1>6
  <2>2. \A b \in 1..l : batches[b].start \in Nat /\ batches[b].end \in Nat
    BY <1>2, <2>1
  <2>3. QED BY <1>6, <2>2 DEF RangesInv
<1>8. e.start = startTask /\ e.end = m
  BY <1>1
<1>9. /\ \A b \in DOMAIN batches' : batches'[b].start < batches'[b].end
      /\ \A b \in DOMAIN batches' : batches'[b].end <= m
  <2>1. ASSUME NEW b \in 1..(l + 1)
        PROVE  batches'[b].start < batches'[b].end /\ batches'[b].end <= m
    <3>1. CASE b \in 1..l
      <4>1. batches'[b] = batches[b] /\ batches[b].start < batches[b].end /\ batches[b].end <= startTask
            /\ batches[b].end \in Nat
        BY <1>6, <1>7, <3>1
      <4>2. QED BY <1>2, <4>1
    <3>2. CASE b = l + 1
      BY <1>2, <1>6, <1>8, <3>2
    <3>3. QED BY <1>6, <3>1, <3>2
  <2>2. QED BY <1>6, <2>1
<1>10. ASSUME NEW b \in 1..(l + 1), NEW c \in 1..(l + 1), b < c
       PROVE  batches'[b].end <= batches'[c].start
  <2>1. b \in 1..l /\ batches'[b] = batches[b] /\ batches[b].end <= startTask
    BY <1>6, <1>7, <1>10
  <2>2. CASE c \in 1..l
    BY <1>6, <1>7, <1>10, <2>1, <2>2
  <2>3. CASE c = l + 1
    BY <1>6, <1>8, <2>1, <2>3
  <2>4. QED BY <1>6, <2>2, <2>3
<1>11. ASSUME NEW i \in 1..m
       PROVE  \E b \in DOMAIN batches' : InBatch(i, b)'
  <2>1. CASE i <= startTask
    <3>1. i \in 1..startTask
      BY <1>2, <2>1
    <3>2. PICK b \in 1..l : InBatch(i, b)
      BY <1>6, <3>1 DEF RangesInv
    <3>3. b \in 1..(l + 1)
      BY ONLY <1>6, <3>2
    <3>4. batches'[b] = batches[b]
      BY <1>6, <3>2
    <3>5. b \in DOMAIN batches' /\ InBatch(i, b)'
      BY <1>6, <3>2, <3>3, <3>4 DEF InBatch
    <3>6. QED BY <3>5
  <2>2. CASE ~ (i <= startTask)
    <3>1. l + 1 \in DOMAIN batches' /\ InBatch(i, l + 1)'
      BY <1>2, <1>6, <1>8, <2>2 DEF InBatch
    <3>2. QED BY <3>1
  <2>3. QED BY <2>1, <2>2
<1>12. QED BY <1>1, <1>6, <1>7, <1>9, <1>10, <1>11

-----------------------------------------------------------------------------
(* The invariant holds initially and every step keeps it.                  *)

\* A job that begins satisfies the invariant.
LEMMA InitInv ==
  ASSUME Init
  PROVE  JobInv
<1>1. TypeOK
  BY JobFacts DEF Init, TypeOK, Views
<1>2. Yielded(Views, 0) = {} /\ Cardinality({}) = 0
  BY FS_EmptySet DEF Yielded
<1>3. IndexInv /\ PhaseInv
  <2>1. view - 1 = 0 /\ allocated = 0 /\ startIndex = 0
    BY DEF Init
  <2>2. IndexInv
    BY <1>2, <2>1 DEF IndexInv
  <2>3. PhaseInv
    BY DEF Init, PhaseInv
  <2>4. QED BY <2>2, <2>3
<1>4. TasksInv /\ RangesInv /\ FibersInv
  BY DEF Init, TasksInv, TaskIndices, TasksApart, TasksCover, RangesInv, FibersInv
<1>5. SizesInv /\ ChunksInv
  BY DEF Init, SizesInv, BatchesBounded, ChunksInv
<1>6. QED BY <1>1, <1>3, <1>4, <1>5 DEF JobInv

\* The choice between one fiber and batches.
LEMMA BeginKeeps ==
  ASSUME JobInv, Begin
  PROVE  JobInv'
<1>1. /\ UNCHANGED <<job, fiberVars, batches, next, inside, counter>>
      /\ pc = "begin" /\ pc' \in {"single", "batching"}
      /\ pc' = "batching" => ~ HasRandomWrite /\ job.batchSize # 0
  BY DEF Begin
<1>2. /\ tasks = <<>> /\ batches = <<>> /\ next = <<>> /\ counter = {} /\ inside \subseteq {0}
      /\ view = 1 /\ startTask = 0 /\ allocated = 0 /\ batchRemain = job.batchSize /\ 0 \notin inside
  BY <1>1 DEF JobInv, PhaseInv
<1>3. job.batchSize \in Nat
  BY JobFacts DEF JobInv, TypeOK
<1>4. Views' = Views /\ HasRandomWrite' = HasRandomWrite
  BY <1>1 DEF Views, HasRandomWrite
<1>5. TypeOK'
  BY <1>1 DEF JobInv, TypeOK, fiberVars
<1>6. IndexInv' /\ PhaseInv'
  BY <1>1, <1>2, <1>4 DEF JobInv, IndexInv, PhaseInv, fiberVars
<1>7. TasksInv'
  <2>1. Gathered(1, 0)' = {} /\ Yielded(Views, 0) = {}
    BY DEF Gathered, Yielded
  <2>2. Len(tasks') = 0 /\ view' = 1 /\ Begun' = {} /\ DOMAIN tasks' = {}
    BY <1>1, <1>2 DEF Begun, fiberVars
  <2>3. Gathered(1, Len(tasks))' = {} /\ Yielded(Views, view - 1)' = {}
    <3>1. view' - 1 = 0
      BY <2>2
    <3>2. QED BY <1>4, <2>1, <2>2, <3>1 DEF Gathered, Yielded
  <2>4. QED BY <2>2, <2>3 DEF TasksInv, TaskIndices, TasksApart, TasksCover
<1>8. RangesInv' /\ FibersInv'
  BY <1>1, <1>2 DEF RangesInv, FibersInv, fiberVars
<1>9. SizesInv'
  <2>1. Gathered(1, 0)' = {} /\ Cardinality({}) = 0
    BY FS_EmptySet DEF Gathered
  <2>2. Len(tasks') = 0 /\ startTask' = 0 /\ batches' = <<>> /\ batchRemain' = job.batchSize /\ job' = job
    BY <1>1, <1>2 DEF fiberVars
  <2>3. Gathered(startTask + 1, Len(tasks))' = {}
    BY <2>2 DEF Gathered
  <2>4. DOMAIN batches' = {}
    BY <2>2
  <2>5. Cardinality(Gathered(startTask + 1, Len(tasks)))' + batchRemain' = job.batchSize
    <3>1. Cardinality(Gathered(startTask + 1, Len(tasks))') = 0 /\ batchRemain' = job.batchSize
      BY <2>1, <2>2, <2>3
    <3>2. QED BY ONLY <1>3, <3>1
  <2>6. QED BY <1>1, <2>2, <2>4, <2>5 DEF SizesInv, BatchesBounded
<1>10. ChunksInv'
  BY <1>1, <1>2 DEF ChunksInv, fiberVars
<1>11. QED BY <1>5, <1>6, <1>7, <1>8, <1>9, <1>10 DEF JobInv

\* The calls of the job's own fiber.
LEMMA ProcessViewKeeps ==
  ASSUME JobInv, ProcessView \/ ViewProcessed \/ EndSingle
  PROVE  JobInv'
<1>1. /\ UNCHANGED <<job, allocated, batchRemain, currentChunk, startTask, tasks, batches, next, counter>>
      /\ pc = "single" /\ pc' \in {"single", "ended"}
      /\ inside' \subseteq {0}
      /\ 0 \in inside' => pc' = "single" /\ view' = view /\ view <= Len(Views)
      /\ pc' = "ended" => view = Len(Views) + 1
      /\ \/ view' = view /\ startIndex' = startIndex
         \/ view \in 1..Len(Views) /\ view' = view + 1 /\ startIndex' = startIndex + Views[view].count
            /\ inside' = {}
  <2>1. inside \subseteq {0} /\ view \in 1..(Len(Views) + 1) /\ Len(Views) \in Nat /\ Views = job.views
        /\ (0 \in inside => view <= Len(Views))
    <3>1. pc = "single"
      BY DEF ProcessView, ViewProcessed, EndSingle
    <3>2. Views \in Seq(View)
      BY JobFacts DEF JobInv, TypeOK
    <3>3. QED BY <3>1, <3>2 DEF JobInv, TypeOK, PhaseInv, Views
  <2>2. CASE ProcessView
    BY <2>1, <2>2 DEF ProcessView, fiberVars
  <2>3. CASE ViewProcessed
    BY <2>1, <2>3 DEF ViewProcessed
  <2>4. CASE EndSingle
    BY <2>1, <2>4 DEF EndSingle, fiberVars
  <2>5. QED BY <2>2, <2>3, <2>4
<1>2. /\ tasks = <<>> /\ batches = <<>> /\ next = <<>> /\ counter = {} /\ allocated = 0
  BY <1>1 DEF JobInv, PhaseInv
<1>3. Views' = Views /\ Views \in Seq(View) /\ job \in Jobs /\ view \in 1..(Len(Views) + 1)
  BY <1>1, JobFacts DEF Views, JobInv, TypeOK
<1>4. /\ startIndex = Cardinality(Yielded(Views, view - 1))
      /\ view \in 1..Len(Views) =>
           startIndex + Views[view].count = Cardinality(Yielded(Views, view))
  <2>1. startIndex = Cardinality(Yielded(Views, view - 1)) + allocated
    BY DEF JobInv, IndexInv
  <2>2. startIndex \in Nat
    BY JobFacts DEF JobInv, TypeOK
  <2>3. view - 1 \in 0..Len(Views)
    BY <1>3
  <2>4. Cardinality(Yielded(Views, view - 1)) \in 0..job.entityCount
    BY <1>3, <2>3, YieldedBound
  <2>5. startIndex = Cardinality(Yielded(Views, view - 1))
    BY <1>2, <2>1, <2>4
  <2>6. QED BY <1>3, <2>5, YieldedNext
<1>5. view' \in 1..(Len(Views) + 1) /\ startIndex' = Cardinality(Yielded(Views, view' - 1))
      /\ startIndex' \in 0..job.entityCount
  <2>1. view' \in 1..(Len(Views) + 1) /\ startIndex' = Cardinality(Yielded(Views, view' - 1))
    <3>1. CASE view' = view /\ startIndex' = startIndex
      BY <1>3, <1>4, <3>1
    <3>2. CASE /\ view \in 1..Len(Views) /\ view' = view + 1
               /\ startIndex' = startIndex + Views[view].count
      <4>1. view' - 1 = view
        BY <3>2
      <4>2. QED BY <1>3, <1>4, <3>2, <4>1
    <3>3. QED BY <1>1, <3>1, <3>2
  <2>2. view' - 1 \in 0..Len(Views)
    <3>1. PICK n, v : n = Len(Views) /\ v = view'
      OBVIOUS
    <3>2. n \in Nat /\ v \in 1..(n + 1)
      BY <1>3, <2>1, <3>1
    <3>3. v - 1 \in 0..n
      BY ONLY <3>2
    <3>4. QED BY <3>1, <3>3
  <2>3. QED BY <1>3, <2>1, <2>2, YieldedBound
<1>6. TypeOK'
  <2>1. inside' \subseteq 0..Len(next')
    BY <1>1, <1>2
  <2>2. QED BY <1>1, <1>3, <1>5, <2>1 DEF JobInv, TypeOK, Views
<1>7. IndexInv'
  BY <1>1, <1>2, <1>3, <1>5, JobFacts DEF IndexInv
<1>8. PhaseInv'
  BY <1>1, <1>2, <1>3 DEF PhaseInv
<1>9. TasksInv' /\ RangesInv' /\ FibersInv'
  BY <1>1, <1>2 DEF TasksInv, TaskIndices, TasksApart, TasksCover, RangesInv, FibersInv
<1>10. SizesInv' /\ ChunksInv'
  BY <1>1, <1>2 DEF SizesInv, BatchesBounded, ChunksInv
<1>11. QED BY <1>6, <1>7, <1>8, <1>9, <1>10 DEF JobInv

\* While it makes batches the fiber has scheduled none.
LEMMA BatchingFacts ==
  ASSUME JobInv, pc = "batching", view <= Len(job.views)
  PROVE  /\ job \in Jobs /\ Views \in Seq(View)
         /\ view \in 1..Len(Views) /\ view - 1 \in 0..Len(Views) /\ Views[view] \in View
         /\ Views[view].start \in Nat /\ Views[view].count \in Nat \ {0}
         /\ tasks \in Seq(Task) /\ Len(tasks) \in Nat /\ startTask \in 0..Len(tasks)
         /\ startIndex \in Nat /\ allocated \in Nat /\ allocated < Views[view].count
         /\ batchRemain \in 0..job.batchSize /\ job.batchSize \in Nat
         /\ next = <<>> /\ counter = {} /\ inside = {} /\ ~ HasRandomWrite
         /\ startIndex = Cardinality(Yielded(Views, view - 1)) + allocated
         /\ Cardinality(Yielded(Views, view - 1)) \in Nat
         /\ Gathered(1, Len(tasks)) = Yielded(Views, view - 1) \cup Begun
<1>1. job \in Jobs /\ Views \in Seq(View) /\ job.batchSize \in Nat /\ Views = job.views
  BY JobFacts DEF JobInv, TypeOK, Views
<1>2. view \in 1..Len(Views) /\ view - 1 \in 0..Len(Views) /\ Views[view] \in View
  BY <1>1 DEF JobInv, TypeOK
<1>3. Views[view].start \in Nat /\ Views[view].count \in Nat \ {0}
  BY <1>2 DEF View
<1>4. tasks \in Seq(Task) /\ Len(tasks) \in Nat /\ startTask \in 0..Len(tasks)
  BY DEF JobInv, TypeOK
<1>5. allocated \in Nat /\ allocated < Views[view].count /\ startIndex \in Nat
  <2>1. allocated \in Nat /\ startIndex \in 0..job.entityCount /\ job.entityCount \in Nat
    BY <1>1, JobFacts DEF JobInv, TypeOK
  <2>2. allocated # 0 => allocated < Views[view].count
    BY DEF JobInv, IndexInv
  <2>3. QED BY ONLY <1>3, <2>1, <2>2
<1>6. next = <<>> /\ counter = {} /\ inside = {} /\ ~ HasRandomWrite
  BY DEF JobInv, PhaseInv
<1>7. /\ batchRemain \in 0..job.batchSize
      /\ startIndex = Cardinality(Yielded(Views, view - 1)) + allocated
      /\ Gathered(1, Len(tasks)) = Yielded(Views, view - 1) \cup Begun
  BY DEF JobInv, TypeOK, IndexInv, TasksInv, TasksCover
<1>8. Cardinality(Yielded(Views, view - 1)) \in Nat
  BY <1>1, <1>2, YieldedFinite
<1>9. QED BY <1>1, <1>2, <1>3, <1>4, <1>5, <1>6, <1>7, <1>8

\* The range of a batch.
LEMMA BatchTyped ==
  ASSUME TypeOK, NEW b \in DOMAIN batches
  PROVE  /\ b \in Nat \ {0} /\ Len(tasks) \in Nat
         /\ batches[b].start \in Nat /\ batches[b].end \in Nat /\ batches[b].end \in 1..Len(tasks)
<1> DEFINE S == [start : Nat, end : 1..Len(tasks)]
<1>1. batches \in Seq(S)
  BY DEF TypeOK
<1>2. batches[b] \in S
  <2> HIDE DEF S
  <2>1. QED BY <1>1
<1>3. b \in Nat \ {0} /\ Len(tasks) \in Nat
  <2>1. DOMAIN batches = 1..Len(batches) /\ Len(batches) \in Nat
    <3> HIDE DEF S
    <3>1. QED BY <1>1
  <2>2. b \in Nat \ {0}
    BY ONLY <2>1, b \in DOMAIN batches
  <2>3. Len(tasks) \in Nat
    BY DEF TypeOK
  <2>4. QED BY <2>2, <2>3
<1>4. QED BY <1>2, <1>3

\* A view that becomes a task as it is.
LEMMA WholeViewKeeps ==
  ASSUME JobInv, ScheduleWholeView
  PROVE  JobInv'
<1>1. PICK v, n, k : v = Views[view] /\ n = Len(tasks) /\ k = view
  OBVIOUS
<1>2. /\ pc = "batching" /\ view <= Len(job.views) /\ HasWriteChunkComponent
      /\ tasks' = NewTask(v) /\ startIndex' = startIndex + v.count
      /\ currentChunk' = v.chunk /\ view' = k + 1
      /\ \/ EndsBatch(v) /\ batches' = Batch(n) /\ startTask' = n
         \/ ~ EndsBatch(v) /\ batches' = batches /\ startTask' = startTask
      /\ batchRemain' \in {job.batchSize - Lesser(job.batchSize, v.count),
                           batchRemain - Lesser(batchRemain, v.count)}
      /\ UNCHANGED <<job, pc, allocated, next, inside, counter>>
  BY <1>1 DEF ScheduleWholeView, Views
<1>3. /\ job \in Jobs /\ Views \in Seq(View) /\ k \in 1..Len(Views) /\ k - 1 \in 0..Len(Views)
      /\ v \in View /\ v.start \in Nat /\ v.count \in Nat \ {0}
      /\ tasks \in Seq(Task) /\ n \in Nat /\ startTask \in 0..n /\ startIndex \in Nat
      /\ batchRemain \in 0..job.batchSize /\ job.batchSize \in Nat
      /\ next = <<>> /\ counter = {} /\ inside = {} /\ ~ HasRandomWrite
      /\ startIndex = Cardinality(Yielded(Views, k - 1)) + allocated
      /\ Cardinality(Yielded(Views, k - 1)) \in Nat
      /\ Gathered(1, n) = Yielded(Views, k - 1) \cup Begun
  BY <1>1, <1>2, BatchingFacts
<1>4. /\ allocated = 0 /\ n + 1 = k
      /\ \A i \in DOMAIN tasks : tasks[i].view = Views[i]
      /\ tasks = <<>> => batchRemain # 0
      /\ tasks # <<>> => startTask < n /\ currentChunk = Views[n].chunk
      /\ \A b \in DOMAIN batches : \A i, l \in DOMAIN tasks :
           i <= batches[b].end /\ batches[b].end < l => tasks[i].view.chunk # tasks[l].view.chunk
  BY <1>1, <1>2 DEF JobInv, ChunksInv
<1>5. PICK t : t = [startIndex |-> startIndex, view |-> v]
  OBVIOUS
<1>6. t \in Task /\ t.view = v /\ tasks' = Append(tasks, t)
  BY <1>2, <1>3, <1>5 DEF Task, NewTask
<1>7. /\ tasks' \in Seq(Task) /\ Len(tasks') = n + 1
      /\ DOMAIN tasks = 1..n /\ DOMAIN tasks' = 1..(n + 1)
      /\ \A i \in 1..n : tasks'[i] = tasks[i]
      /\ tasks'[n + 1] = t
  BY <1>1, <1>3, <1>6, TaskAdded
<1>8. Begun = {} /\ Begun' = {}
  BY <1>2, <1>4 DEF Begun
<1>9. /\ Yielded(Views, k) = Yielded(Views, k - 1) \cup Entities(v)
      /\ Yielded(Views, k - 1) \cap Entities(v) = {}
      /\ Cardinality(Yielded(Views, k)) = Cardinality(Yielded(Views, k - 1)) + v.count
  BY <1>1, <1>3, YieldedNext
<1>10. Views' = Views /\ HasRandomWrite' = HasRandomWrite /\ HasWriteChunkComponent' = HasWriteChunkComponent
  BY <1>2 DEF Views, HasRandomWrite, HasWriteChunkComponent
<1>11. startIndex' = Cardinality(Yielded(Views, k)) /\ startIndex' \in 0..job.entityCount
  <2>1. startIndex = Cardinality(Yielded(Views, k - 1))
    BY <1>3, <1>4
  <2>2. k \in 0..Len(Views)
    BY <1>3
  <2>3. QED BY <1>2, <1>3, <1>9, <2>1, <2>2, YieldedBound
<1>12. \/ /\ batches' = Batch(n) /\ startTask' = n /\ startTask < n /\ currentChunk # v.chunk
          /\ currentChunk = Views[n].chunk
       \/ batches' = batches /\ startTask' = startTask
  BY <1>1, <1>2, <1>3, <1>4 DEF EndsBatch
<1>13. /\ batches' \in Seq([start : Nat, end : 1..Len(tasks')])
       /\ \A b \in DOMAIN batches' : batches'[b].end \in Nat /\ batches'[b].end <= startTask'
       /\ RangesInv'
  <2>1. CASE batches' = Batch(n) /\ startTask' = n /\ startTask < n
    <3>1. TypeOK /\ RangesInv /\ Len(tasks) <= Len(tasks') /\ n <= Len(tasks')
      BY <1>1, <1>3, <1>7 DEF JobInv
    <3>2. /\ batches' \in Seq([start : Nat, end : 1..Len(tasks')])
          /\ \A b \in DOMAIN batches' : batches'[b].start < batches'[b].end
          /\ \A b, c \in DOMAIN batches' : b < c => batches'[b].end <= batches'[c].start
          /\ \A b \in DOMAIN batches' : batches'[b].end <= n
          /\ \A i \in 1..n : \E b \in DOMAIN batches' : InBatch(i, b)'
      BY <1>2, <1>3, <1>7, <2>1, <3>1, BatchAddedKeeps
    <3>3. RangesInv'
      BY <1>2, <2>1, <3>2 DEF RangesInv
    <3>4. \A b \in DOMAIN batches' : batches'[b].end \in Nat
      <4> DEFINE S == [start : Nat, end : 1..Len(tasks')]
      <4>1. batches' \in Seq(S)
        BY <3>2
      <4>2. \A b \in DOMAIN batches' : batches'[b] \in S
        <5> HIDE DEF S
        <5>1. QED BY <4>1
      <4>3. QED BY <1>3, <1>7, <4>2
    <3>5. QED BY <2>1, <3>2, <3>3, <3>4
  <2>2. CASE batches' = batches /\ startTask' = startTask
    <3>1. batches' \in Seq([start : Nat, end : 1..Len(tasks')])
      <4>1. [start : Nat, end : 1..n] \subseteq [start : Nat, end : 1..(n + 1)]
        BY <1>3
      <4>2. batches \in Seq([start : Nat, end : 1..n])
        BY <1>1 DEF JobInv, TypeOK
      <4>3. QED BY <1>7, <2>2, <4>1, <4>2, WiderSeq
    <3>2. RangesInv'
      BY <1>2, <2>2 DEF JobInv, RangesInv, InBatch
    <3>3. \A b \in DOMAIN batches : batches[b].end \in Nat /\ batches[b].end <= startTask
      BY <1>1, <1>2, <1>3, BatchTyped DEF JobInv, RangesInv
    <3>4. QED BY <2>2, <3>1, <3>2, <3>3
  <2>3. QED BY <1>12, <2>1, <2>2
<1>14. TypeOK'
  <2>1. batchRemain' \in 0..job.batchSize
    <3>1. /\ job.batchSize - Lesser(job.batchSize, v.count) \in 0..job.batchSize
          /\ batchRemain - Lesser(batchRemain, v.count) \in 0..job.batchSize
      <4>1. batchRemain \in 0..job.batchSize /\ job.batchSize \in Nat /\ v.count \in Nat \ {0}
        BY <1>3
      <4>2. QED BY ONLY <4>1 DEF Lesser
    <3>2. QED BY <1>2, <3>1
  <2>2. view' \in 1..(Len(Views) + 1)
    BY <1>2, <1>3
  <2>3. startTask' \in 0..Len(tasks')
    BY <1>3, <1>7, <1>12
  <2>4. currentChunk' \in Chunks
    BY <1>2, <1>3 DEF View
  <2>5. Len(next) <= Len(batches')
    BY <1>3, <1>13
  <2>6. QED BY <1>2, <1>3, <1>4, <1>7, <1>11, <1>13, <2>1, <2>2, <2>3, <2>4, <2>5 DEF JobInv, TypeOK, Views
<1>15. IndexInv'
  <2>1. view' - 1 = k
    BY <1>2, <1>3
  <2>2. QED BY <1>2, <1>4, <1>10, <1>11, <2>1 DEF IndexInv
<1>16. PhaseInv'
  BY <1>2, <1>3, <1>4, <1>10 DEF PhaseInv
<1>17. TasksInv'
  <2>1. TaskIndices' /\ TasksApart'
    <3>1. PartOf(v, k)
      <4>1. v.start <= v.start /\ v.start + v.count <= v.start + v.count
        BY <1>3
      <4>2. QED BY <1>1, <4>1 DEF PartOf
    <3>2. startIndex + Views[k].start = Cardinality(Yielded(Views, k - 1)) + v.start
      BY <1>1, <1>3, <1>4
    <3>3. Entities(v) \cap Gathered(1, Len(tasks)) = {}
      BY <1>1, <1>3, <1>8, <1>9
    <3>4. k \in DOMAIN Views /\ job' = job
      BY <1>2, <1>3
    <3>5. QED BY <1>2, <1>3, <3>1, <3>2, <3>3, <3>4, TaskAddedKeeps
  <2>2. Gathered(1, n + 1)' = Yielded(Views, k) \cup {}
    <3>1. 1 \in 1..(n + 1)
      BY <1>3
    <3>2. Gathered(1, n + 1)' = Gathered(1, n) \cup Entities(v)
      BY <1>1, <1>3, <1>6, <3>1, GatheredAdded
    <3>3. QED BY <1>3, <1>8, <1>9, <3>2
  <2>3. view' - 1 = k /\ Len(tasks') = n + 1
    BY <1>2, <1>3, <1>7
  <2>4. TasksCover'
    BY <1>8, <1>10, <2>2, <2>3 DEF TasksCover, Gathered
  <2>5. QED BY <2>1, <2>4 DEF TasksInv
<1>18. SizesInv'
  BY <1>2, <1>10 DEF SizesInv
<1>19. ChunksInv'
  <2>1. allocated' = 0 /\ Len(tasks') + 1 = view' /\ startTask' < Len(tasks') /\ tasks' # <<>>
    BY <1>2, <1>3, <1>4, <1>7, <1>12
  <2>2. \A i \in DOMAIN tasks' : tasks'[i].view = Views[i]
    BY <1>1, <1>4, <1>6, <1>7
  <2>3. currentChunk' = Views[Len(tasks')].chunk
    BY <1>1, <1>2, <1>4, <1>7
  <2>4. \A i, l, m \in DOMAIN Views :
           i < l /\ l < m /\ Views[i].chunk = Views[m].chunk => Views[l].chunk = Views[m].chunk
    BY <1>3, JobFacts
  <2>5. DOMAIN Views = 1..Len(Views) /\ n + 1 <= Len(Views)
    BY <1>3, <1>4
  <2>6. ASSUME NEW b \in DOMAIN batches', NEW i \in 1..(n + 1), NEW l \in 1..(n + 1),
               i <= batches'[b].end, batches'[b].end < l
        PROVE  Views[i].chunk # Views[l].chunk
    <3>1. batches'[b].end \in Nat
      BY <1>13
    <3>2. CASE batches'[b].end = n /\ currentChunk # v.chunk /\ n # 0 /\ currentChunk = Views[n].chunk
      <4>1. l = n + 1 /\ i <= n /\ n \in 1..n
        BY <1>3, <2>6, <3>2
      <4>2. Views[l].chunk = v.chunk /\ Views[n].chunk # v.chunk
        BY <1>1, <1>4, <3>2, <4>1
      <4>3. CASE i = n
        BY <4>2, <4>3
      <4>4. CASE i < n
        <5>1. i \in DOMAIN Views /\ n \in DOMAIN Views /\ l \in DOMAIN Views /\ n < l
          BY <1>3, <2>5, <4>1, <4>4
        <5>2. QED BY <2>4, <4>2, <4>4, <5>1
      <4>5. QED BY <1>3, <4>1, <4>3, <4>4
    <3>3. CASE b \in DOMAIN batches /\ batches'[b] = batches[b] /\ batches[b].end < n
      <4>1. i \in 1..n /\ n \in DOMAIN tasks
        BY <1>3, <1>7, <2>6, <3>1, <3>3
      <4>2. tasks[i].view = Views[i] /\ tasks[n].view = Views[n] /\ tasks[i].view.chunk # tasks[n].view.chunk
        BY <1>4, <1>7, <2>6, <3>3, <4>1
      <4>3. CASE l \in 1..n
        <5>1. tasks[l].view = Views[l] /\ tasks[i].view.chunk # tasks[l].view.chunk
          BY <1>4, <1>7, <2>6, <3>3, <4>1, <4>3
        <5>2. QED BY <4>2, <5>1
      <4>4. CASE l = n + 1
        <5>1. PICK last, e : last = Len(Views) /\ e = batches[b].end
          OBVIOUS
        <5>2. /\ last \in Nat /\ n + 1 <= last /\ n \in Nat /\ i \in 1..n /\ l = n + 1
              /\ e \in Nat /\ i <= e /\ e < n
          BY <1>3, <2>5, <2>6, <3>1, <3>3, <4>1, <4>4, <5>1
        <5>3. i < n /\ n < l /\ i \in 1..last /\ n \in 1..last /\ l \in 1..last
          BY ONLY <5>2
        <5>4. Views[i].chunk # Views[n].chunk
          BY <4>2
        <5>5. QED BY <2>4, <2>5, <5>1, <5>3, <5>4
      <4>5. QED BY <1>3, <4>3, <4>4
    <3>4. CASE batches' = Batch(n) /\ startTask < n /\ currentChunk # v.chunk /\ currentChunk = Views[n].chunk
      <4>1. TypeOK /\ RangesInv /\ Len(tasks) <= Len(tasks') /\ n <= Len(tasks')
        BY <1>1, <1>3, <1>7 DEF JobInv
      <4>2. /\ DOMAIN batches = 1..Len(batches) /\ DOMAIN batches' = 1..(Len(batches) + 1)
            /\ \A c \in 1..Len(batches) : batches'[c] = batches[c] /\ batches[c].end <= startTask
            /\ batches'[Len(batches) + 1] = [start |-> startTask, end |-> n]
        BY <1>2, <1>3, <1>7, <3>4, <4>1, BatchAddedKeeps
      <4>3. Len(batches) \in Nat
        BY <4>1 DEF TypeOK
      <4>4. CASE b = Len(batches) + 1
        <5>1. n # 0
          <6>1. n \in Nat /\ startTask \in 0..n /\ startTask < n
            BY <1>3, <3>4
          <6>2. QED BY ONLY <6>1
        <5>2. batches'[b].end = n
          BY <4>2, <4>4
        <5>3. QED BY <3>2, <3>4, <5>1, <5>2
      <4>5. CASE b \in 1..Len(batches)
        <5>1. batches[b].end <= startTask /\ batches[b].end \in Nat /\ startTask \in 0..n /\ n \in Nat
              /\ startTask < n
          BY <1>3, <3>1, <3>4, <4>2, <4>5
        <5>2. batches[b].end < n
          BY ONLY <5>1
        <5>3. QED BY <3>3, <4>2, <4>5, <5>2
      <4>6. QED BY <2>6, <4>2, <4>3, <4>4, <4>5
    <3>5. CASE batches' = batches /\ startTask' = startTask
      <4>1. batches[b].end <= startTask /\ batches[b].end \in 1..n
        BY <1>1, <1>2, <2>6, <3>5, BatchTyped DEF JobInv, RangesInv
      <4>2. startTask < n
        <5>1. tasks # <<>>
          BY <1>1, <4>1
        <5>2. QED BY <1>4, <5>1
      <4>3. batches[b].end < n
        <5>1. n \in Nat /\ startTask \in 0..n
          BY <1>3
        <5>2. QED BY ONLY <4>1, <4>2, <5>1
      <4>4. QED BY <2>6, <3>3, <3>5, <4>3
    <3>6. QED BY <1>12, <3>4, <3>5
  <2>7. \A b \in DOMAIN batches' : \A i, l \in DOMAIN tasks' :
           i <= batches'[b].end /\ batches'[b].end < l => tasks'[i].view.chunk # tasks'[l].view.chunk
    BY <1>7, <2>2, <2>6
  <2>8. QED BY <1>10, <2>1, <2>2, <2>3, <2>7 DEF ChunksInv
<1>20. FibersInv'
  BY <1>2, <1>3 DEF FibersInv
<1>21. QED BY <1>13, <1>14, <1>15, <1>16, <1>17, <1>18, <1>19, <1>20 DEF JobInv

\* Parts of a view that follow one another.
LEMMA PartsAdd ==
  ASSUME NEW c, NEW s \in Nat, NEW m \in Nat, NEW n \in Nat
  PROVE  /\ ({c} \X (s..(s + m - 1))) \cup ({c} \X ((s + m)..(s + m + n - 1))) = {c} \X (s..(s + m + n - 1))
         /\ ({c} \X (s..(s + m - 1))) \cap ({c} \X ((s + m)..(s + m + n - 1))) = {}
<1>1. /\ (s..(s + m - 1)) \cup ((s + m)..(s + m + n - 1)) = s..(s + m + n - 1)
      /\ (s..(s + m - 1)) \cap ((s + m)..(s + m + n - 1)) = {}
  OBVIOUS
<1>2. PICK p, q, r : p = s..(s + m - 1) /\ q = (s + m)..(s + m + n - 1) /\ r = s..(s + m + n - 1)
  OBVIOUS
<1>3. p \cup q = r /\ p \cap q = {}
  BY <1>1, <1>2
<1>4. ({c} \X p) \cup ({c} \X q) = {c} \X r /\ ({c} \X p) \cap ({c} \X q) = {}
  BY ONLY <1>3
<1>5. QED BY <1>2, <1>4

\* A part of a view that becomes a task.
LEMMA SubViewKeeps ==
  ASSUME JobInv, ScheduleSubView
  PROVE  JobInv'
<1>1. PICK v, m, k, n, begun : /\ v = Views[view] /\ m = Len(tasks) /\ k = view
                               /\ n = SubViewCount(v) /\ begun = Begun
  OBVIOUS
<1>2. PICK w : w = [v EXCEPT !.start = v.start + allocated, !.count = n]
  OBVIOUS
<1>3. /\ pc = "batching" /\ view <= Len(job.views) /\ ~ HasWriteChunkComponent
      /\ tasks' = NewTask(w) /\ startIndex' = startIndex + n
      /\ \/ n = batchRemain /\ batches' = Batch(Len(tasks')) /\ startTask' = Len(tasks')
            /\ batchRemain' = job.batchSize
         \/ n # batchRemain /\ batches' = batches /\ startTask' = startTask
            /\ batchRemain' = batchRemain - n
      /\ \/ allocated + n = v.count /\ allocated' = 0 /\ view' = k + 1
         \/ allocated + n # v.count /\ allocated' = allocated + n /\ view' = k
      /\ UNCHANGED <<job, pc, currentChunk, next, inside, counter>>
  BY <1>1, <1>2 DEF ScheduleSubView, Views
<1>4. /\ job \in Jobs /\ Views \in Seq(View) /\ k \in 1..Len(Views) /\ k - 1 \in 0..Len(Views)
      /\ v \in View /\ v.start \in Nat /\ v.count \in Nat \ {0}
      /\ tasks \in Seq(Task) /\ m \in Nat /\ startTask \in 0..m /\ startIndex \in Nat
      /\ allocated \in Nat /\ allocated < v.count
      /\ batchRemain \in 0..job.batchSize /\ job.batchSize \in Nat
      /\ next = <<>> /\ counter = {} /\ inside = {} /\ ~ HasRandomWrite
      /\ startIndex = Cardinality(Yielded(Views, k - 1)) + allocated
      /\ Gathered(1, m) = Yielded(Views, k - 1) \cup begun
  BY <1>1, <1>3, BatchingFacts
<1>5. /\ batchRemain # 0
      /\ Cardinality(Gathered(startTask + 1, m)) + batchRemain = job.batchSize
      /\ \A b \in DOMAIN batches : BatchSize(b) = job.batchSize
  BY <1>1, <1>3 DEF JobInv, SizesInv
<1>6. /\ n \in Nat \ {0} /\ n <= batchRemain /\ allocated + n <= v.count
      /\ v.start \in Nat /\ v.count \in Nat /\ allocated \in Nat /\ m \in Nat
      /\ batchRemain \in Nat \ {0} /\ batchRemain <= job.batchSize /\ job.batchSize \in Nat
      /\ startTask \in Nat /\ startTask <= m
  <2>1. /\ v.start \in Nat /\ v.count \in Nat /\ allocated \in Nat /\ allocated < v.count
        /\ batchRemain \in 0..job.batchSize /\ batchRemain # 0 /\ job.batchSize \in Nat
        /\ m \in Nat /\ startTask \in 0..m
    BY <1>4, <1>5
  <2>2. n = Lesser(v.count - allocated, batchRemain)
    BY <1>1 DEF SubViewCount
  <2>3. QED BY ONLY <2>1, <2>2 DEF Lesser
<1>7. w \in View /\ w.chunk = v.chunk /\ w.start = v.start + allocated /\ w.count = n
  <2>1. v \in [chunk : Chunks, start : Nat, count : Nat \ {0}]
    BY <1>4 DEF View
  <2>2. v.start + allocated \in Nat
    BY ONLY <1>6
  <2>3. QED BY ONLY <1>2, <1>6, <2>1, <2>2 DEF View
<1>8. PICK t : t = [startIndex |-> startIndex, view |-> w]
  OBVIOUS
<1>9. t \in Task /\ t.view = w /\ tasks' = Append(tasks, t)
  BY <1>3, <1>4, <1>7, <1>8 DEF Task, NewTask
<1>10. /\ tasks' \in Seq(Task) /\ Len(tasks') = m + 1
       /\ DOMAIN tasks = 1..m /\ DOMAIN tasks' = 1..(m + 1)
  BY <1>1, <1>4, <1>9, TaskAdded
<1>11. /\ Yielded(Views, k) = Yielded(Views, k - 1) \cup Entities(v)
       /\ Yielded(Views, k - 1) \cap Entities(v) = {}
       /\ Cardinality(Yielded(Views, k)) = Cardinality(Yielded(Views, k - 1)) + v.count
       /\ Cardinality(Yielded(Views, k - 1)) \in Nat
  BY <1>1, <1>4, YieldedNext
<1>12. Views' = Views /\ HasRandomWrite' = HasRandomWrite /\ HasWriteChunkComponent' = HasWriteChunkComponent
  BY <1>3 DEF Views, HasRandomWrite, HasWriteChunkComponent
<1>13. begun = {v.chunk} \X (v.start .. (v.start + allocated - 1))
  <2>1. allocated = 0 => v.start .. (v.start + allocated - 1) = {}
    BY <1>4
  <2>2. QED BY <1>1, <2>1 DEF Begun
<1>14. Entities(w) = {v.chunk} \X ((v.start + allocated) .. (v.start + allocated + n - 1))
  BY <1>7 DEF Entities
<1>15. /\ begun \cup Entities(w) = {v.chunk} \X (v.start .. (v.start + allocated + n - 1))
       /\ begun \cap Entities(w) = {}
  BY <1>4, <1>6, <1>13, <1>14, PartsAdd
<1>16. PartOf(w, k)
  <2>1. v.start <= v.start + allocated /\ (v.start + allocated) + n <= v.start + v.count
    BY ONLY <1>6
  <2>2. QED BY <1>1, <1>7, <2>1 DEF PartOf
<1>17. Entities(w) \subseteq Entities(v)
  BY <1>1, <1>4, <1>7, <1>16, PartFacts
<1>18. Entities(w) \cap Gathered(1, m) = {}
  BY <1>4, <1>11, <1>15, <1>17
<1>19. /\ view' \in {k, k + 1} /\ allocated' \in Nat
       /\ startIndex' = Cardinality(Yielded(Views, view' - 1)) + allocated'
       /\ allocated' # 0 => view' = k /\ allocated' < v.count
       /\ Yielded(Views, view' - 1) \cup Begun' = Yielded(Views, k - 1) \cup (begun \cup Entities(w))
  <2>1. CASE allocated + n = v.count /\ allocated' = 0 /\ view' = k + 1
    <3>1. view' - 1 = k /\ Begun' = {}
      BY <1>4, <2>1 DEF Begun
    <3>2. begun \cup Entities(w) = Entities(v)
      <4>1. v.start + allocated + n - 1 = v.start + v.count - 1
        BY ONLY <1>6, <2>1
      <4>2. QED BY <1>15, <4>1 DEF Entities
    <3>3. startIndex' = Cardinality(Yielded(Views, k)) + 0
      <4>1. /\ startIndex' = startIndex + n
            /\ startIndex = Cardinality(Yielded(Views, k - 1)) + allocated
            /\ Cardinality(Yielded(Views, k - 1)) \in Nat
            /\ Cardinality(Yielded(Views, k)) = Cardinality(Yielded(Views, k - 1)) + v.count
        BY <1>3, <1>4, <1>11
      <4>2. QED BY ONLY <1>6, <2>1, <4>1
    <3>4. QED BY <1>11, <2>1, <3>1, <3>2, <3>3
  <2>2. CASE allocated + n # v.count /\ allocated' = allocated + n /\ view' = k
    <3>1. Begun' = {v.chunk} \X (v.start .. (v.start + allocated + n - 1))
      <4>1. allocated' # 0
        BY ONLY <1>6, <2>2
      <4>2. Begun' = {Views[k].chunk} \X (Views[k].start .. (Views[k].start + allocated' - 1))
        BY <1>12, <2>2, <4>1 DEF Begun
      <4>3. v.start + allocated' - 1 = v.start + allocated + n - 1
        BY ONLY <1>6, <2>2
      <4>4. QED BY <1>1, <4>2, <4>3
    <3>2. startIndex' = Cardinality(Yielded(Views, k - 1)) + allocated'
      <4>1. /\ startIndex' = startIndex + n
            /\ startIndex = Cardinality(Yielded(Views, k - 1)) + allocated
            /\ Cardinality(Yielded(Views, k - 1)) \in Nat
        BY <1>3, <1>4, <1>11
      <4>2. QED BY ONLY <1>6, <2>2, <4>1
    <3>3. allocated' < v.count
      BY ONLY <1>6, <2>2
    <3>4. allocated' \in Nat /\ view' \in {k, k + 1} /\ view' - 1 = k - 1
      BY ONLY <1>6, <2>2
    <3>5. Yielded(Views, view' - 1) \cup Begun' = Yielded(Views, k - 1) \cup (begun \cup Entities(w))
      BY <1>15, <3>1, <3>4
    <3>6. startIndex' = Cardinality(Yielded(Views, view' - 1)) + allocated'
      BY <3>2, <3>4
    <3>7. QED BY <2>2, <3>3, <3>4, <3>5, <3>6
  <2>3. QED BY <1>3, <2>1, <2>2
<1>20. startIndex' \in 0..job.entityCount
  <2>1. startIndex' <= Cardinality(Yielded(Views, k)) /\ startIndex' \in Nat
    <3>1. /\ startIndex' = startIndex + n
          /\ startIndex = Cardinality(Yielded(Views, k - 1)) + allocated
          /\ Cardinality(Yielded(Views, k)) = Cardinality(Yielded(Views, k - 1)) + v.count
          /\ Cardinality(Yielded(Views, k - 1)) \in Nat
      BY <1>3, <1>4, <1>11
    <3>2. QED BY ONLY <1>6, <3>1
  <2>2. Cardinality(Yielded(Views, k)) \in 0..job.entityCount
    BY <1>4, YieldedBound
  <2>3. QED BY <2>1, <2>2, JobFacts, <1>4
<1>21. /\ \A first \in Nat \ {0}, last \in 0..m : Gathered(first, last)' = Gathered(first, last)
       /\ \A first \in 1..(m + 1) : Gathered(first, m + 1)' = Gathered(first, m) \cup Entities(w)
  BY <1>1, <1>4, <1>9, GatheredAdded
<1>22. PICK first : first = startTask + 1
  OBVIOUS
<1>23. /\ Cardinality(Gathered(first, m + 1)') + (batchRemain - n) = job.batchSize
       /\ Cardinality(Gathered(first, m + 1)') \in Nat
  <2>1. Gathered(first, m) \subseteq Gathered(1, m)
    BY <1>4, <1>22 DEF Gathered
  <2>2. /\ IsFiniteSet(Gathered(first, m)) /\ Cardinality(Gathered(first, m)) \in Nat
    <3>1. first \in Nat \ {0} /\ m \in 0..m
      BY ONLY <1>6, <1>22
    <3>2. QED BY <1>1, <1>4, <3>1, GatheredFinite
  <2>3. IsFiniteSet(Entities(w)) /\ Cardinality(Entities(w)) = n
    BY <1>7, EntitiesFacts
  <2>4. Gathered(first, m) \cap Entities(w) = {}
    BY <1>18, <2>1
  <2>5. Cardinality(Gathered(first, m) \cup Entities(w)) = Cardinality(Gathered(first, m)) + n
    BY <2>2, <2>3, <2>4, CardinalityAdds
  <2>6. first \in 1..(m + 1)
    BY <1>4, <1>22
  <2>7. Gathered(first, m + 1)' = Gathered(first, m) \cup Entities(w)
    BY <1>21, <2>6
  <2>8. /\ Cardinality(Gathered(first, m + 1)') = Cardinality(Gathered(first, m)) + n
        /\ Cardinality(Gathered(first, m)) + batchRemain = job.batchSize
    BY <1>5, <1>22, <2>5, <2>7
  <2>9. QED BY ONLY <1>6, <2>2, <2>8
<1>24. ASSUME n = batchRemain
       PROVE  /\ batches' = Batch(m + 1) /\ startTask' = m + 1 /\ batchRemain' = job.batchSize
              /\ batches' \in Seq([start : Nat, end : 1..Len(tasks')])
              /\ DOMAIN batches = 1..Len(batches) /\ DOMAIN batches' = 1..(Len(batches) + 1)
              /\ \A b \in 1..Len(batches) : batches'[b] = batches[b]
              /\ batches'[Len(batches) + 1] = [start |-> startTask, end |-> m + 1]
              /\ RangesInv'
  <2>1. batches' = Batch(m + 1) /\ startTask' = m + 1 /\ batchRemain' = job.batchSize
    BY <1>3, <1>10, <1>24
  <2>2. TypeOK /\ RangesInv /\ Len(tasks) <= Len(tasks') /\ m + 1 <= Len(tasks')
        /\ startTask < m + 1 /\ m + 1 \in Nat
    <3>1. startTask < m + 1 /\ m + 1 \in Nat /\ m <= m + 1 /\ m + 1 <= m + 1
      BY ONLY <1>6
    <3>2. QED BY <1>1, <1>10, <3>1 DEF JobInv
  <2>3. /\ batches' \in Seq([start : Nat, end : 1..Len(tasks')])
        /\ DOMAIN batches = 1..Len(batches) /\ DOMAIN batches' = 1..(Len(batches) + 1)
        /\ \A b \in 1..Len(batches) : batches'[b] = batches[b]
        /\ batches'[Len(batches) + 1] = [start |-> startTask, end |-> m + 1]
        /\ \A b \in DOMAIN batches' : batches'[b].start < batches'[b].end
        /\ \A b, c \in DOMAIN batches' : b < c => batches'[b].end <= batches'[c].start
        /\ \A b \in DOMAIN batches' : batches'[b].end <= m + 1
        /\ \A i \in 1..(m + 1) : \E b \in DOMAIN batches' : InBatch(i, b)'
    BY <1>3, <1>10, <2>1, <2>2, BatchAddedKeeps
  <2>4. RangesInv'
    BY <1>3, <2>1, <2>3 DEF RangesInv
  <2>5. QED BY <2>1, <2>3, <2>4
<1>25. ASSUME n # batchRemain
       PROVE  /\ batches' = batches /\ startTask' = startTask /\ batchRemain' = batchRemain - n
              /\ batches' \in Seq([start : Nat, end : 1..Len(tasks')])
              /\ RangesInv'
  <2>1. batches' = batches /\ startTask' = startTask /\ batchRemain' = batchRemain - n
    BY <1>3, <1>25
  <2>2. batches' \in Seq([start : Nat, end : 1..Len(tasks')])
    <3>1. [start : Nat, end : 1..m] \subseteq [start : Nat, end : 1..(m + 1)]
      BY <1>4
    <3>2. batches \in Seq([start : Nat, end : 1..m])
      BY <1>1 DEF JobInv, TypeOK
    <3>3. QED BY <1>10, <2>1, <3>1, <3>2, WiderSeq
  <2>3. RangesInv'
    BY <1>3, <2>1 DEF JobInv, RangesInv, InBatch
  <2>4. QED BY <2>1, <2>2, <2>3
<1>26. batches' \in Seq([start : Nat, end : 1..Len(tasks')]) /\ RangesInv'
  BY <1>24, <1>25
<1>27. TypeOK'
  <2>1. batchRemain' \in 0..job.batchSize /\ startTask' \in 0..Len(tasks')
    <3>1. Len(tasks') = m + 1
      BY <1>10
    <3>2. CASE n = batchRemain
      <4>1. startTask' = m + 1 /\ batchRemain' = job.batchSize
        BY <1>24, <3>2
      <4>2. QED BY ONLY <1>6, <3>1, <4>1
    <3>3. CASE n # batchRemain
      <4>1. startTask' = startTask /\ batchRemain' = batchRemain - n
        BY <1>25, <3>3
      <4>2. QED BY ONLY <1>6, <3>1, <4>1
    <3>4. QED BY <3>2, <3>3
  <2>2. view' \in 1..(Len(Views) + 1)
    BY <1>4, <1>19
  <2>3. Len(next) <= Len(batches')
    BY <1>4, <1>26
  <2>4. QED BY <1>3, <1>4, <1>10, <1>19, <1>20, <1>26, <2>1, <2>2, <2>3 DEF JobInv, TypeOK, Views
<1>28. IndexInv'
  BY <1>1, <1>4, <1>12, <1>19 DEF IndexInv
<1>29. PhaseInv'
  BY <1>3, <1>4, <1>12 DEF PhaseInv
<1>30. TasksInv'
  <2>1. TaskIndices' /\ TasksApart'
    <3>1. startIndex + Views[k].start = Cardinality(Yielded(Views, k - 1)) + w.start
      BY <1>1, <1>4, <1>7, <1>11
    <3>2. Entities(w) \cap Gathered(1, Len(tasks)) = {} /\ k \in DOMAIN Views /\ job' = job
      BY <1>1, <1>3, <1>4, <1>18
    <3>3. QED BY <1>3, <1>7, <1>16, <3>1, <3>2, TaskAddedKeeps
  <2>2. Gathered(1, m + 1)' = (Yielded(Views, k - 1) \cup begun) \cup Entities(w)
    BY <1>4, <1>21
  <2>3. Gathered(1, m + 1)' = Yielded(Views, view' - 1) \cup Begun'
    BY <1>19, <2>2
  <2>4. TasksCover'
    BY <1>10, <1>12, <2>3 DEF TasksCover, Gathered
  <2>5. QED BY <2>1, <2>4 DEF TasksInv
<1>31. ASSUME NEW b \in DOMAIN batches, batches'[b] = batches[b]
       PROVE  BatchSize(b)' = job.batchSize
  <2>1. PICK lo, hi : lo = batches[b].start + 1 /\ hi = batches[b].end
    OBVIOUS
  <2>2. lo \in Nat \ {0} /\ hi \in 0..m
    <3>1. batches[b].start \in Nat /\ batches[b].end \in 1..m
      BY <1>1, BatchTyped DEF JobInv
    <3>2. QED BY ONLY <1>6, <2>1, <3>1
  <2>3. Gathered(lo, hi)' = Gathered(lo, hi)
    BY <1>21, <2>2
  <2>4. BatchSize(b)' = Cardinality(Gathered(lo, hi)') /\ BatchSize(b) = Cardinality(Gathered(lo, hi))
    BY <1>31, <2>1 DEF BatchSize, Gathered
  <2>5. QED BY <1>5, <2>3, <2>4
<1>32. SizesInv'
  <2>1. CASE n = batchRemain
    <3>1. PICK l : l = Len(batches) + 1
      OBVIOUS
    <3>2. batches'[l].start + 1 = first /\ batches'[l].end = m + 1
      BY <1>22, <1>24, <2>1, <3>1
    <3>3. BatchSize(l)' = Cardinality(Gathered(first, m + 1)')
      BY <3>2 DEF BatchSize, Gathered
    <3>4. BatchSize(l)' = job.batchSize
      <4>1. Cardinality(Gathered(first, m + 1)') = job.batchSize
        BY ONLY <1>6, <1>23, <2>1
      <4>2. QED BY <3>3, <4>1
    <3>5. \A b \in DOMAIN batches' : BatchSize(b)' = job.batchSize
      <4>1. DOMAIN batches' = DOMAIN batches \cup {l}
        <5>1. Len(batches) \in Nat
          BY DEF JobInv, TypeOK
        <5>2. 1..(Len(batches) + 1) = (1..Len(batches)) \cup {Len(batches) + 1}
          BY ONLY <5>1
        <5>3. QED BY <1>24, <2>1, <3>1, <5>2
      <4>2. \A b \in DOMAIN batches : batches'[b] = batches[b]
        BY <1>24, <2>1
      <4>3. QED BY <1>31, <3>4, <4>1, <4>2
    <3>6. Cardinality(Gathered(startTask + 1, Len(tasks))') + batchRemain' = job.batchSize
      <4>1. Gathered(startTask + 1, Len(tasks))' = {}
        <5>1. startTask' = m + 1 /\ Len(tasks') = m + 1
          BY <1>10, <1>24, <2>1
        <5>2. (m + 1 + 1)..(m + 1) = {}
          BY ONLY <1>6
        <5>3. QED BY <5>1, <5>2 DEF Gathered
      <4>2. Cardinality(Gathered(startTask + 1, Len(tasks))') = 0 /\ batchRemain' = job.batchSize
        BY <1>24, <2>1, <4>1, FS_EmptySet
      <4>3. QED BY ONLY <1>6, <4>2
    <3>7. job' = job /\ batchRemain' # 0
      <4>1. batchRemain' = job.batchSize
        BY <1>24, <2>1
      <4>2. job.batchSize # 0
        BY ONLY <1>6
      <4>3. QED BY <1>3, <4>1, <4>2
    <3>8. QED BY <1>3, <3>5, <3>6, <3>7 DEF SizesInv, BatchesBounded
  <2>2. CASE n # batchRemain
    <3>1. \A b \in DOMAIN batches' : BatchSize(b)' = job.batchSize
      BY <1>25, <1>31, <2>2
    <3>2. Gathered(startTask + 1, Len(tasks))' = Gathered(first, m + 1)'
      <4>1. startTask' + 1 = first /\ Len(tasks') = m + 1
        BY <1>10, <1>22, <1>25, <2>2
      <4>2. QED BY <4>1 DEF Gathered
    <3>3. Cardinality(Gathered(startTask + 1, Len(tasks))') + batchRemain' = job.batchSize
      BY <1>23, <1>25, <2>2, <3>2
    <3>4. job' = job /\ batchRemain' # 0
      BY <1>3, <1>4, <1>6, <1>25, <2>2
    <3>5. QED BY <1>3, <3>1, <3>3, <3>4 DEF SizesInv, BatchesBounded
  <2>3. QED BY <2>1, <2>2
<1>33. ChunksInv' /\ FibersInv'
  BY <1>3, <1>4, <1>12 DEF ChunksInv, FibersInv
<1>34. QED BY <1>26, <1>27, <1>28, <1>29, <1>30, <1>32, <1>33 DEF JobInv

\* The last batch, and the wait for all.
LEMMA EndBatchingKeeps ==
  ASSUME JobInv, EndBatching
  PROVE  JobInv'
<1>1. PICK m, all : m = Len(tasks) /\ all = (startTask # m)
  OBVIOUS
<1>2. /\ pc = "batching" /\ pc' = "waiting" /\ view > Len(job.views)
      /\ \/ startTask # m /\ batches' = Batch(m)
         \/ startTask = m /\ batches' = batches
      /\ counter' = DOMAIN batches'
      /\ UNCHANGED <<job, fiberVars, next, inside>>
  BY <1>1 DEF EndBatching, AllBatches
<1>3. UNCHANGED <<view, allocated, startIndex, batchRemain, currentChunk, startTask, tasks>>
  BY <1>2 DEF fiberVars
<1>4. /\ TypeOK /\ RangesInv /\ job \in Jobs /\ Views \in Seq(View) /\ Views = job.views
      /\ next = <<>> /\ inside = {} /\ ~ HasRandomWrite
      /\ tasks \in Seq(Task) /\ m \in Nat /\ startTask \in 0..m
      /\ view \in 1..(Len(Views) + 1)
      /\ allocated # 0 => view <= Len(Views)
  BY <1>1, <1>2, JobFacts DEF JobInv, TypeOK, PhaseInv, IndexInv, Views
<1>5. view = Len(Views) + 1 /\ allocated = 0
  <2>1. PICK l, v : l = Len(Views) /\ v = view
    OBVIOUS
  <2>2. l \in Nat /\ v \in 1..(l + 1) /\ v > l /\ (allocated # 0 => v <= l)
    BY <1>2, <1>4, <2>1
  <2>3. v = l + 1 /\ allocated = 0
    BY ONLY <2>2
  <2>4. QED BY <2>1, <2>3
<1>6. Views' = Views /\ HasRandomWrite' = HasRandomWrite /\ HasWriteChunkComponent' = HasWriteChunkComponent
  BY <1>2 DEF Views, HasRandomWrite, HasWriteChunkComponent
<1>7. ASSUME startTask # m
      PROVE  /\ batches' = Batch(m)
             /\ batches' \in Seq([start : Nat, end : 1..Len(tasks')])
             /\ Len(batches) \in Nat /\ Len(batches') = Len(batches) + 1
             /\ DOMAIN batches = 1..Len(batches) /\ DOMAIN batches' = 1..(Len(batches) + 1)
             /\ \A b \in 1..Len(batches) : batches'[b] = batches[b]
             /\ batches'[Len(batches) + 1] = [start |-> startTask, end |-> m]
             /\ RangesInv'
  <2>1. startTask < m /\ Len(tasks) <= Len(tasks') /\ m <= Len(tasks') /\ tasks' \in Seq(Task)
    BY <1>1, <1>3, <1>4, <1>7
  <2>2. batches' = Batch(m) /\ Len(batches) \in Nat
    BY <1>2, <1>4, <1>7 DEF TypeOK
  <2>3. /\ batches' \in Seq([start : Nat, end : 1..Len(tasks')])
        /\ Len(batches') = Len(batches) + 1
        /\ DOMAIN batches = 1..Len(batches) /\ DOMAIN batches' = 1..(Len(batches) + 1)
        /\ \A b \in 1..Len(batches) : batches'[b] = batches[b]
        /\ batches'[Len(batches) + 1] = [start |-> startTask, end |-> m]
        /\ \A b \in DOMAIN batches' : batches'[b].start < batches'[b].end
        /\ \A b, c \in DOMAIN batches' : b < c => batches'[b].end <= batches'[c].start
        /\ \A i \in 1..m : \E b \in DOMAIN batches' : InBatch(i, b)'
    BY <1>2, <1>4, <2>1, <2>2, BatchAddedKeeps
  <2>4. DOMAIN tasks' = 1..m
    BY <1>1, <1>3, <1>4
  <2>5. RangesInv'
    BY <1>2, <2>3, <2>4 DEF RangesInv
  <2>6. QED BY <2>2, <2>3, <2>5
<1>8. ASSUME startTask = m
      PROVE  batches' = batches /\ RangesInv' /\ batches' \in Seq([start : Nat, end : 1..Len(tasks')])
  <2>1. batches' = batches
    BY <1>2, <1>8
  <2>2. DOMAIN tasks = 1..m
    BY <1>1, <1>4
  <2>3. RangesInv'
    BY <1>2, <1>3, <1>4, <1>8, <2>1, <2>2 DEF RangesInv, InBatch
  <2>4. QED BY <1>3, <1>4, <2>1, <2>3 DEF TypeOK
<1>9. RangesInv' /\ batches' \in Seq([start : Nat, end : 1..Len(tasks')])
  BY <1>7, <1>8
<1>10. TypeOK'
  <2>1. Len(next) <= Len(batches')
    BY <1>4, <1>9
  <2>2. QED BY <1>2, <1>3, <1>4, <1>9, <2>1 DEF TypeOK
<1>11. IndexInv'
  BY <1>2, <1>3, <1>6 DEF JobInv, IndexInv
<1>12. PhaseInv'
  BY <1>2, <1>3, <1>4, <1>5, <1>6 DEF PhaseInv
<1>13. TasksInv'
  <2>1. Begun' = Begun
    BY <1>3, <1>6 DEF Begun
  <2>2. TaskIndices' /\ TasksApart'
    BY <1>3, <1>6 DEF JobInv, TasksInv, TaskIndices, TasksApart, PartOf
  <2>3. TasksCover'
    BY <1>2, <1>3, <1>6, <2>1 DEF JobInv, TasksInv, TasksCover, Gathered
  <2>4. QED BY <2>2, <2>3 DEF TasksInv
<1>14. SizesInv'
  <2>1. ASSUME ~ HasWriteChunkComponent
        PROVE  BatchesBounded'
    <3>1. /\ batchRemain # 0 /\ batchRemain \in 0..job.batchSize /\ job.batchSize \in Nat
          /\ Cardinality(Gathered(startTask + 1, m)) + batchRemain = job.batchSize
          /\ \A b \in DOMAIN batches : BatchSize(b) = job.batchSize
      BY <1>1, <1>2, <1>4, <2>1, JobFacts DEF JobInv, TypeOK, SizesInv
    <3>2. ASSUME NEW b \in DOMAIN batches, batches'[b] = batches[b]
          PROVE  BatchSize(b)' = job.batchSize
      <4>1. BatchSize(b)' = BatchSize(b)
        BY <1>3, <3>2 DEF BatchSize, Gathered
      <4>2. QED BY <3>1, <4>1
    <3>3. CASE startTask # m
      <4>1. PICK l, first : l = Len(batches) + 1 /\ first = startTask + 1
        OBVIOUS
      <4>2. batches'[l].start + 1 = first /\ batches'[l].end = m /\ Len(batches') = l
        <5>1. batches'[l] = [start |-> startTask, end |-> m] /\ Len(batches') = l
          BY <1>7, <3>3, <4>1
        <5>2. batches'[l].start = startTask /\ batches'[l].end = m
          BY ONLY <5>1
        <5>3. QED BY <4>1, <5>1, <5>2
      <4>3. BatchSize(l)' = Cardinality(Gathered(first, m))
        BY <1>3, <4>2 DEF BatchSize, Gathered
      <4>4. Cardinality(Gathered(first, m)) \in Nat
        <5>1. first \in Nat \ {0} /\ m \in 0..Len(tasks)
          BY <1>1, <1>4, <4>1
        <5>2. QED BY <1>4, <5>1, GatheredFinite
      <4>5. BatchSize(l)' < job.batchSize
        <5>1. Cardinality(Gathered(first, m)) + batchRemain = job.batchSize
          BY <3>1, <4>1
        <5>2. batchRemain # 0 /\ batchRemain \in 0..job.batchSize /\ job.batchSize \in Nat
          BY <3>1
        <5>3. Cardinality(Gathered(first, m)) < job.batchSize
          BY ONLY <4>4, <5>1, <5>2
        <5>4. QED BY <4>3, <5>3
      <4>6. DOMAIN batches' = DOMAIN batches \cup {l}
        <5>1. Len(batches) \in Nat
          BY <1>7, <3>3
        <5>2. 1..(Len(batches) + 1) = (1..Len(batches)) \cup {Len(batches) + 1}
          BY ONLY <5>1
        <5>3. QED BY <1>7, <3>3, <4>1, <5>2
      <4>7. \A b \in DOMAIN batches : batches'[b] = batches[b]
        BY <1>7, <3>3
      <4>8. QED BY <1>2, <3>2, <4>2, <4>5, <4>6, <4>7 DEF BatchesBounded
    <3>4. CASE startTask = m
      BY <1>2, <1>8, <3>2, <3>4 DEF BatchesBounded
    <3>5. QED BY <3>3, <3>4
  <2>2. QED BY <1>2, <1>6, <2>1 DEF SizesInv
<1>15. ChunksInv'
  <2>1. ASSUME HasWriteChunkComponent, NEW b \in DOMAIN batches', NEW i \in 1..m, NEW k \in 1..m,
               i <= batches'[b].end, batches'[b].end < k
        PROVE  tasks[i].view.chunk # tasks[k].view.chunk
    <3>1. DOMAIN tasks = 1..m
      BY <1>1, <1>4
    <3>2. CASE b \in DOMAIN batches /\ batches'[b] = batches[b]
      BY <2>1, <3>1, <3>2 DEF JobInv, ChunksInv
    <3>3. CASE batches'[b].end = m
      BY <1>4, <2>1, <3>3
    <3>4. \/ b \in DOMAIN batches /\ batches'[b] = batches[b]
          \/ batches'[b].end = m
      <4>1. CASE startTask # m
        <5>1. b \in 1..Len(batches) \/ b = Len(batches) + 1
          BY <1>7, <2>1, <4>1
        <5>2. QED BY <1>7, <4>1, <5>1
      <4>2. CASE startTask = m
        BY <1>8, <4>2
      <4>3. QED BY <4>1, <4>2
    <3>5. QED BY <3>2, <3>3, <3>4
  <2>2. DOMAIN tasks' = 1..m
    BY <1>1, <1>3, <1>4
  <2>3. QED BY <1>2, <1>3, <1>6, <2>1, <2>2 DEF ChunksInv
<1>16. FibersInv'
  BY <1>2, <1>4 DEF FibersInv
<1>17. QED BY <1>9, <1>10, <1>11, <1>12, <1>13, <1>14, <1>15, <1>16 DEF JobInv

\* What happens to batches that are made.
LEMMA WaitingKeeps ==
  ASSUME JobInv, UNCHANGED <<job, fiberVars, batches>>, pc = "waiting", pc' \in {"waiting", "ended"},
         TypeOK', FibersInv', 0 \notin inside',
         pc' = "ended" => counter' = {}
  PROVE  JobInv'
<1>1. UNCHANGED <<view, allocated, startIndex, batchRemain, currentChunk, startTask, tasks>>
  BY DEF fiberVars
<1>2. Views' = Views /\ HasRandomWrite' = HasRandomWrite /\ HasWriteChunkComponent' = HasWriteChunkComponent
  BY DEF Views, HasRandomWrite, HasWriteChunkComponent
<1>3. IndexInv' /\ PhaseInv'
  BY <1>1, <1>2 DEF JobInv, IndexInv, PhaseInv
<1>4. TasksInv'
  <2>1. Begun' = Begun
    BY <1>1, <1>2 DEF Begun
  <2>2. QED BY <1>1, <1>2, <2>1 DEF JobInv, TasksInv, TaskIndices, TasksApart, TasksCover, PartOf, Gathered
<1>5. RangesInv' /\ ChunksInv'
  BY <1>1, <1>2 DEF JobInv, RangesInv, ChunksInv, InBatch
<1>6. SizesInv'
  <2>1. \A b \in DOMAIN batches : BatchSize(b)' = BatchSize(b)
    BY <1>1 DEF BatchSize, Gathered
  <2>2. QED BY <1>2, <2>1 DEF JobInv, SizesInv, BatchesBounded
<1>7. QED BY <1>3, <1>4, <1>5, <1>6 DEF JobInv

\* The fibers of batches run while the job waits for them.
LEMMA BatchFacts ==
  ASSUME JobInv, NEW b \in DOMAIN next
  PROVE  /\ b \in DOMAIN batches /\ b \in Nat \ {0} /\ next \in Seq(Nat) /\ next[b] \in Nat
         /\ batches[b].start \in Nat /\ batches[b].end \in 1..Len(tasks) /\ Len(tasks) \in Nat
         /\ batches[b].start < next[b] /\ next[b] <= batches[b].end + 1
         /\ b \in inside => next[b] <= batches[b].end
         /\ pc \in {"waiting", "ended"}
         /\ pc = "ended" => counter = {} /\ next[b] = batches[b].end + 1
         /\ 0 \notin inside
<1>1. next \in Seq(Nat) /\ Len(next) <= Len(batches) /\ Len(batches) \in Nat
      /\ DOMAIN batches = 1..Len(batches)
  BY DEF JobInv, TypeOK
<1>2. b \in DOMAIN batches /\ b \in Nat \ {0} /\ next[b] \in Nat
  <2>1. DOMAIN next = 1..Len(next) /\ Len(next) \in Nat /\ next[b] \in Nat
    BY <1>1
  <2>2. PICK l, n : l = Len(batches) /\ n = Len(next)
    OBVIOUS
  <2>3. l \in Nat /\ n \in Nat /\ n <= l /\ b \in 1..n
    BY <1>1, <2>1, <2>2
  <2>4. b \in 1..l /\ b \in Nat \ {0}
    BY ONLY <2>3
  <2>5. QED BY <1>1, <2>1, <2>2, <2>4
<1>3. batches[b].start \in Nat /\ batches[b].end \in 1..Len(tasks) /\ Len(tasks) \in Nat
  BY <1>2, BatchTyped DEF JobInv
<1>4. next # <<>>
  OBVIOUS
<1>5. pc \in {"waiting", "ended"} /\ 0 \notin inside
  BY <1>4 DEF JobInv, PhaseInv, TypeOK
<1>6. /\ batches[b].start < next[b] /\ next[b] <= batches[b].end + 1
      /\ b \in inside => next[b] <= batches[b].end
  BY DEF JobInv, FibersInv
<1>7. pc = "ended" => counter = {} /\ next[b] = batches[b].end + 1
  BY <1>2 DEF JobInv, PhaseInv, FibersInv
<1>8. QED BY <1>1, <1>2, <1>3, <1>5, <1>6, <1>7

\* A batch is scheduled.
LEMMA ScheduleBatchKeeps ==
  ASSUME JobInv, ScheduleBatch
  PROVE  JobInv'
<1>1. PICK l, s : l = Len(next) + 1 /\ s = batches[l].start + 1
  OBVIOUS
<1>2. /\ pc = "waiting" /\ Len(next) < Len(batches) /\ next' = Append(next, s)
      /\ UNCHANGED <<job, pc, fiberVars, batches, inside, counter>>
  BY <1>1 DEF ScheduleBatch
<1>3. /\ next \in Seq(Nat) /\ Len(next) \in Nat /\ Len(batches) \in Nat /\ DOMAIN batches = 1..Len(batches)
      /\ inside \subseteq 0..Len(next)
  BY DEF JobInv, TypeOK
<1>4. l \in DOMAIN batches /\ l \in Nat /\ l <= Len(batches)
  BY <1>1, <1>2, <1>3
<1>5. /\ batches[l].start \in Nat /\ batches[l].end \in Nat /\ batches[l].start < batches[l].end
  BY <1>4, BatchTyped DEF JobInv, RangesInv
<1>6. s \in Nat /\ batches[l].start < s /\ s <= batches[l].end + 1
  BY ONLY <1>1, <1>5
<1>7. /\ next' \in Seq(Nat) /\ Len(next') = l /\ DOMAIN next = 1..Len(next) /\ DOMAIN next' = 1..l
      /\ \A b \in 1..Len(next) : next'[b] = next[b]
      /\ next'[l] = s
  BY <1>1, <1>2, <1>3, <1>6, AppendShape
<1>8. l \notin inside /\ inside \subseteq 0..l
  BY <1>1, <1>3
<1>9. TypeOK'
  BY <1>2, <1>4, <1>7, <1>8 DEF JobInv, TypeOK, fiberVars
<1>10. FibersInv'
  <2>1. ASSUME NEW b \in DOMAIN next'
        PROVE  /\ batches[b].start < next'[b] /\ next'[b] <= batches[b].end + 1
               /\ b \in inside => next'[b] <= batches[b].end
    <3>1. CASE b \in 1..Len(next)
      BY <1>7, <3>1 DEF JobInv, FibersInv
    <3>2. CASE b = l
      BY <1>6, <1>7, <1>8, <3>2
    <3>3. b \in 1..Len(next) \/ b = l
      BY <1>1, <1>3, <1>7
    <3>4. QED BY <3>1, <3>2, <3>3
  <2>2. ASSUME NEW b \in DOMAIN batches \ counter
        PROVE  b \in DOMAIN next' /\ next'[b] = batches[b].end + 1
    <3>1. b \in DOMAIN next /\ next[b] = batches[b].end + 1
      BY <1>2 DEF JobInv, FibersInv
    <3>2. b \in 1..l
      BY <1>1, <1>3, <1>7, <3>1
    <3>3. QED BY <1>7, <3>1, <3>2
  <2>3. QED BY <1>2, <2>1, <2>2 DEF FibersInv
<1>11. 0 \notin inside
  BY <1>2 DEF JobInv, PhaseInv
<1>12. QED BY <1>2, <1>9, <1>10, <1>11, WaitingKeeps

\* The wait for the counter ends.
LEMMA EndJobKeeps ==
  ASSUME JobInv, EndJob
  PROVE  JobInv'
<1>1. /\ pc = "waiting" /\ pc' = "ended" /\ counter = {}
      /\ UNCHANGED <<job, fiberVars, batches, next, inside, counter>>
  BY DEF EndJob
<1>2. TypeOK' /\ FibersInv'
  BY <1>1 DEF JobInv, TypeOK, FibersInv, fiberVars
<1>3. 0 \notin inside
  BY <1>1 DEF JobInv, PhaseInv
<1>4. QED BY <1>1, <1>2, <1>3, WaitingKeeps

\* A step of the fiber of a batch.
LEMMA BatchFiberKeeps ==
  ASSUME JobInv, NEW b \in DOMAIN batches, BatchFiber(b)
  PROVE  JobInv'
<1>1. b \in DOMAIN next
  BY DEF BatchFiber
<1>2. /\ b \in Nat \ {0} /\ next \in Seq(Nat) /\ next[b] \in Nat
      /\ batches[b].start \in Nat /\ batches[b].end \in Nat
      /\ batches[b].start < next[b] /\ next[b] <= batches[b].end + 1
      /\ b \in inside => next[b] <= batches[b].end
      /\ pc \in {"waiting", "ended"}
      /\ pc = "ended" => counter = {} /\ next[b] = batches[b].end + 1
      /\ 0 \notin inside
  BY <1>1, BatchFacts
<1>3. UNCHANGED <<job, pc, fiberVars, batches>>
  BY DEF BatchFiber, ProcessTask, TaskProcessed, EndBatch
<1>4. pc = "waiting"
  BY <1>1, <1>2 DEF BatchFiber, ProcessTask, TaskProcessed, EndBatch
<1>5. DOMAIN next = 1..Len(next) /\ Len(next) \in Nat
  BY <1>2
<1>6. CASE ProcessTask(b)
  <2>1. inside' = inside \cup {b} /\ next' = next /\ counter' = counter /\ next[b] <= batches[b].end
    BY <1>6 DEF ProcessTask
  <2>2. b \in 0..Len(next)
    BY <1>1, <1>5
  <2>3. TypeOK'
    BY <1>3, <2>1, <2>2 DEF JobInv, TypeOK, fiberVars
  <2>4. FibersInv'
    BY <1>3, <2>1 DEF JobInv, FibersInv
  <2>5. QED BY <1>2, <1>3, <1>4, <2>1, <2>3, <2>4, WaitingKeeps
<1>7. CASE TaskProcessed(b)
  <2>1. PICK n : n = next[b] + 1
    OBVIOUS
  <2>2. /\ b \in inside /\ inside' = inside \ {b} /\ counter' = counter /\ next' = [next EXCEPT ![b] = n]
    BY <1>7, <2>1 DEF TaskProcessed
  <2>3. n \in Nat /\ batches[b].start < n /\ n <= batches[b].end + 1 /\ next[b] # batches[b].end + 1
    BY <1>2, <2>1, <2>2
  <2>4. next' \in Seq(Nat) /\ Len(next') = Len(next) /\ DOMAIN next' = DOMAIN next
        /\ next'[b] = n /\ \A c \in DOMAIN next : c # b => next'[c] = next[c]
    BY <1>1, <1>2, <1>5, <2>2, <2>3
  <2>5. TypeOK'
    BY <1>3, <2>2, <2>4 DEF JobInv, TypeOK, fiberVars
  <2>6. FibersInv'
    <3>1. ASSUME NEW c \in DOMAIN next
          PROVE  /\ batches[c].start < next'[c] /\ next'[c] <= batches[c].end + 1
                 /\ c \in inside' => next'[c] <= batches[c].end
      BY <2>2, <2>3, <2>4 DEF JobInv, FibersInv
    <3>2. ASSUME NEW c \in DOMAIN batches \ counter
          PROVE  c \in DOMAIN next /\ next'[c] = batches[c].end + 1
      BY <1>4, <2>3, <2>4 DEF JobInv, FibersInv
    <3>3. QED BY <1>3, <2>2, <2>4, <3>1, <3>2 DEF FibersInv
  <2>7. QED BY <1>2, <1>3, <1>4, <2>2, <2>5, <2>6, WaitingKeeps
<1>8. CASE EndBatch(b)
  <2>1. counter' = counter \ {b} /\ next' = next /\ inside' = inside /\ next[b] > batches[b].end
    BY <1>8 DEF EndBatch
  <2>2. next[b] = batches[b].end + 1
    BY <1>2, <2>1
  <2>3. TypeOK'
    BY <1>3, <2>1 DEF JobInv, TypeOK, fiberVars
  <2>4. FibersInv'
    BY <1>1, <1>3, <1>4, <2>1, <2>2 DEF JobInv, FibersInv
  <2>5. QED BY <1>2, <1>3, <1>4, <2>1, <2>3, <2>4, WaitingKeeps
<1>9. QED BY <1>6, <1>7, <1>8 DEF BatchFiber

\* Every step keeps the invariant.
LEMMA StepInv ==
  ASSUME JobInv, [Next]_vars
  PROVE  JobInv'
<1>1. CASE UNCHANGED vars
  <2>1. UNCHANGED <<job, pc, view, allocated, startIndex, batchRemain, currentChunk, startTask, tasks,
                    batches, next, inside, counter>>
    BY <1>1 DEF vars, fiberVars
  <2>2. Views' = Views /\ HasRandomWrite' = HasRandomWrite /\ HasWriteChunkComponent' = HasWriteChunkComponent
    BY <2>1 DEF Views, HasRandomWrite, HasWriteChunkComponent
  <2>3. TypeOK' /\ FibersInv'
    BY <2>1 DEF JobInv, TypeOK, FibersInv
  <2>4. IndexInv' /\ PhaseInv'
    BY <2>1, <2>2 DEF JobInv, IndexInv, PhaseInv
  <2>5. TasksInv'
    <3>1. Begun' = Begun
      BY <2>1, <2>2 DEF Begun
    <3>2. QED BY <2>1, <2>2, <3>1 DEF JobInv, TasksInv, TaskIndices, TasksApart, TasksCover, PartOf, Gathered
  <2>6. RangesInv' /\ ChunksInv'
    BY <2>1, <2>2 DEF JobInv, RangesInv, ChunksInv, InBatch
  <2>7. SizesInv'
    <3>1. \A b \in DOMAIN batches : BatchSize(b)' = BatchSize(b)
      BY <2>1 DEF BatchSize, Gathered
    <3>2. Gathered(startTask + 1, Len(tasks))' = Gathered(startTask + 1, Len(tasks))
      BY <2>1 DEF Gathered
    <3>3. QED BY <2>1, <2>2, <3>1, <3>2 DEF JobInv, SizesInv, BatchesBounded
  <2>8. QED BY <2>3, <2>4, <2>5, <2>6, <2>7 DEF JobInv
<1>2. CASE Next
  BY <1>2, BeginKeeps, ProcessViewKeeps, WholeViewKeeps, SubViewKeeps, EndBatchingKeeps,
     ScheduleBatchKeeps, EndJobKeeps, BatchFiberKeeps DEF Next, JobFiber
<1>3. QED BY <1>1, <1>2

\* The inductive invariant, for any jobs and chunks.
LEMMA JobInvariant == Spec => []JobInv
<1>1. Init => JobInv
  BY InitInv
<1>2. JobInv /\ [Next]_vars => JobInv'
  BY StepInv
<1>3. QED BY <1>1, <1>2, PTL DEF Spec

-----------------------------------------------------------------------------
(* The variables stay in their types.                                      *)
THEOREM TypeCorrect == Spec => []TypeOK
<1>1. JobInv => TypeOK
  BY DEF JobInv
<1>2. QED BY <1>1, JobInvariant, PTL

(* The index a task gets is the place of its first entity among all the    *)
(* entities of the job, whatever the sizes of views and batches.           *)
THEOREM IndicesExact == Spec => []IndicesAgree
<1>1. JobInv => IndicesAgree
  <2> SUFFICES ASSUME JobInv PROVE IndicesAgree
    OBVIOUS
  <2>1. job \in Jobs /\ Views \in Seq(View) /\ Views = job.views /\ startIndex \in Nat
    BY JobFacts DEF JobInv, TypeOK, Views
  <2>2. ASSUME NEW v \in View, NEW k \in DOMAIN Views, PartOf(v, k)
        PROVE  Before(v) = Cardinality(Yielded(Views, k - 1)) + v.start - Views[k].start
    <3>1. k = CHOOSE i \in DOMAIN Views : Entities(v) \subseteq Entities(Views[i])
      BY <2>1, <2>2, PartFacts
    <3>2. QED BY <2>1, <3>1 DEF Before
  <2>3. ASSUME NEW i \in DOMAIN tasks
        PROVE  tasks[i].startIndex = Before(tasks[i].view)
    <3>1. PICK k \in DOMAIN Views :
            /\ PartOf(tasks[i].view, k)
            /\ tasks[i].startIndex + Views[k].start = Cardinality(Yielded(Views, k - 1)) + tasks[i].view.start
      BY DEF JobInv, TasksInv, TaskIndices
    <3>2. tasks[i] \in Task
      BY DEF JobInv, TypeOK
    <3>3. tasks[i].view \in View /\ tasks[i].startIndex \in Nat
      BY <3>2 DEF Task
    <3>4. Before(tasks[i].view)
            = Cardinality(Yielded(Views, k - 1)) + tasks[i].view.start - Views[k].start
      BY <2>2, <3>1, <3>3
    <3>5. Views[k].start \in Nat /\ tasks[i].view.start \in Nat /\ Cardinality(Yielded(Views, k - 1)) \in Nat
      <4>1. k \in 1..Len(Views) /\ Views[k] \in View
        BY <2>1
      <4>2. QED BY <2>1, <3>3, <4>1, YieldedNext DEF View
    <3>6. QED BY ONLY <3>1, <3>3, <3>4, <3>5
  <2>4. ASSUME 0 \in inside
        PROVE  startIndex = Before(job.views[view])
    <3>1. pc = "single" /\ view <= Len(Views) /\ allocated = 0 /\ view \in 1..(Len(Views) + 1)
      BY <2>1, <2>4 DEF JobInv, PhaseInv, TypeOK
    <3>2. view \in 1..Len(Views) /\ Views[view] \in View
      BY <2>1, <3>1
    <3>3. PICK v, k : v = Views[view] /\ k = view
      OBVIOUS
    <3>4. v.start \in Nat /\ v.count \in Nat /\ Cardinality(Yielded(Views, k - 1)) \in Nat
      BY <2>1, <3>2, <3>3, YieldedNext DEF View
    <3>5. PartOf(v, k)
      BY <3>2, <3>3, <3>4 DEF PartOf
    <3>6. Before(v) = Cardinality(Yielded(Views, k - 1)) + v.start - v.start
      BY <2>1, <2>2, <3>2, <3>3, <3>5
    <3>7. startIndex = Cardinality(Yielded(Views, k - 1)) + 0
      BY <3>1, <3>3 DEF JobInv, IndexInv
    <3>8. startIndex = Before(v)
      BY ONLY <3>4, <3>6, <3>7
    <3>9. QED BY <2>1, <3>3, <3>8
  <2>5. QED BY <2>3, <2>4 DEF IndicesAgree
<1>2. QED BY <1>1, JobInvariant, PTL

(* Every batch but the last has batchSize entities, unless chunks must     *)
(* stay together.                                                          *)
THEOREM BatchesExact == Spec => []BatchesBounded
<1>1. JobInv => BatchesBounded
  BY DEF JobInv, SizesInv, BatchesBounded
<1>2. QED BY <1>1, JobInvariant, PTL

-----------------------------------------------------------------------------
(* Steps of ParallelFor.                                                   *)

Todo == AllEntities \ (Processed \cup UNION Busy)

AbstractStep == PF!Next \/ UNCHANGED PF!vars

\* What depends on the job alone.
LEMMA SameJob ==
  ASSUME job' = job
  PROVE  /\ AllEntities' = AllEntities /\ HasRandomWrite' = HasRandomWrite
         /\ HasWriteChunkComponent' = HasWriteChunkComponent
BY DEF AllEntities, HasRandomWrite, HasWriteChunkComponent

\* A step that changes neither calls nor the end of the job is a stutter.
LEMMA NoAbstractStep ==
  ASSUME job' = job, Processed' = Processed, Busy' = Busy, (pc' = "ended") <=> (pc = "ended")
  PROVE  AbstractStep
BY SameJob DEF AbstractStep, PF!vars

\* A call begins.
LEMMA AbstractBegin ==
  ASSUME job' = job, Processed' = Processed, pc # "ended", pc' # "ended",
         NEW S, S # {}, S \subseteq Todo, Busy' = Busy \cup {S},
         HasRandomWrite => Busy = {},
         HasWriteChunkComponent => \A other \in Busy : \A e \in S, f \in other : e[1] # f[1]
  PROVE  AbstractStep
<1>1. /\ AllEntities' = AllEntities /\ HasRandomWrite' = HasRandomWrite
      /\ HasWriteChunkComponent' = HasWriteChunkComponent
  BY SameJob
<1>2. Todo' = Todo \ S
  BY <1>1 DEF Todo
<1>3. PF!Begin(S)
  BY <1>1, <1>2 DEF PF!Begin, Todo
<1>4. S \in (SUBSET Todo) \ {{}}
  OBVIOUS
<1>5. PF!Next
  BY <1>3, <1>4 DEF PF!Next, Todo
<1>6. QED BY <1>5 DEF AbstractStep

\* A call returns.
LEMMA AbstractFinish ==
  ASSUME job' = job, (pc' = "ended") <=> (pc = "ended"),
         NEW S \in Busy, Busy' = Busy \ {S}, Processed' = Processed \cup S
  PROVE  AbstractStep
<1>1. /\ AllEntities' = AllEntities /\ HasRandomWrite' = HasRandomWrite
      /\ HasWriteChunkComponent' = HasWriteChunkComponent
  BY SameJob
<1>2. Todo' = Todo
  BY <1>1 DEF Todo
<1>3. PF!Finish(S)
  BY <1>1, <1>2 DEF PF!Finish, Todo
<1>4. PF!Next
  BY <1>3 DEF PF!Next
<1>5. QED BY <1>4 DEF AbstractStep

\* The job ends.
LEMMA AbstractEnd ==
  ASSUME job' = job, Processed' = Processed, Busy' = Busy, Busy = {}, AllEntities \subseteq Processed,
         pc # "ended", pc' = "ended"
  PROVE  AbstractStep
<1>1. /\ AllEntities' = AllEntities /\ HasRandomWrite' = HasRandomWrite
      /\ HasWriteChunkComponent' = HasWriteChunkComponent
  BY SameJob
<1>2. PF!End
  BY <1>1 DEF PF!End
<1>3. PF!Next
  BY <1>2 DEF PF!Next
<1>4. QED BY <1>3 DEF AbstractStep

-----------------------------------------------------------------------------
(* The steps of a job are steps of ParallelFor.                            *)

\* The tasks that are processed.
Done == {i \in DOMAIN tasks : \E b \in DOMAIN next : batches[b].start < i /\ i < next[b]}

\* With tasks, processed is what the tasks that are done were given.
LEMMA ProcessedTasks ==
  ASSUME JobInv, pc \in {"batching", "waiting"}
  PROVE  Processed = UNION {Entities(tasks[i].view) : i \in Done}
<1>1. CASE tasks = <<>>
  <2>1. Gathered(1, Len(tasks)) = {}
    BY <1>1 DEF Gathered
  <2>2. Yielded(Views, view - 1) = {}
    BY <2>1 DEF JobInv, TasksInv, TasksCover
  <2>3. Done = {}
    BY <1>1 DEF Done
  <2>4. QED BY <1>1, <2>2, <2>3 DEF Processed, Views
<1>2. CASE tasks # <<>>
  BY <1>2 DEF Processed, Done
<1>3. QED BY <1>1, <1>2

\* The steps of a job in its own fiber.
LEMMA ViewSteps ==
  ASSUME JobInv, ProcessView \/ ViewProcessed \/ EndSingle
  PROVE  AbstractStep
<1>1. PICK v, k : v = Views[view] /\ k = view
  OBVIOUS
<1>2. /\ pc = "single" /\ job' = job /\ tasks' = tasks /\ tasks = <<>> /\ allocated = 0
      /\ job \in Jobs /\ Views = job.views /\ Views' = Views /\ k \in 1..(Len(Views) + 1)
      /\ Len(Views) \in Nat
      /\ inside \subseteq {0} /\ (0 \in inside => k <= Len(Views))
  <2>1. pc = "single" /\ job' = job /\ tasks' = tasks
    BY DEF ProcessView, ViewProcessed, EndSingle, fiberVars
  <2>2. QED BY <1>1, <2>1, JobFacts DEF JobInv, TypeOK, PhaseInv, Views
<1>3. /\ Processed = Yielded(Views, k - 1)
      /\ Busy = {Entities(v) : w \in inside}
  BY <1>1, <1>2 DEF Processed, Busy, GivenBy
<1>4. ASSUME k <= Len(Views)
      PROVE  /\ v \in View /\ Entities(v) # {}
             /\ Yielded(Views, k) = Yielded(Views, k - 1) \cup Entities(v)
             /\ Yielded(Views, k - 1) \cap Entities(v) = {}
             /\ Yielded(Views, k) \subseteq AllEntities
  <2>1. k \in 1..Len(Views) /\ k \in 0..Len(Views)
    BY <1>2, <1>4
  <2>2. QED BY <1>1, <1>2, <2>1, YieldedNext, YieldedBound, EntitiesFacts
<1>5. CASE ProcessView
  <2>1. k <= Len(Views) /\ inside = {} /\ inside' = {0} /\ pc' = pc /\ view' = view
    BY <1>1, <1>2, <1>5 DEF ProcessView, fiberVars
  <2>2. Processed' = Processed
    BY <1>2, <2>1 DEF Processed
  <2>3. Busy = {} /\ Busy' = {Entities(v)}
    BY <1>1, <1>2, <1>3, <2>1 DEF Busy, GivenBy
  <2>4. Entities(v) \subseteq Todo
    BY <1>3, <1>4, <2>1, <2>3 DEF Todo
  <2>5. QED BY <1>2, <1>4, <2>1, <2>2, <2>3, <2>4, AbstractBegin
<1>6. CASE ViewProcessed
  <2>1. inside = {0} /\ inside' = {} /\ view' = k + 1 /\ pc' = pc /\ k <= Len(Views)
    BY <1>1, <1>2, <1>6 DEF ViewProcessed
  <2>2. Busy = {Entities(v)} /\ Busy' = {}
    BY <1>3, <2>1 DEF Busy
  <2>3. Processed' = Yielded(Views, k)
    <3>1. view' - 1 = k
      BY <1>2, <2>1
    <3>2. QED BY <1>2, <3>1 DEF Processed
  <2>4. Processed' = Processed \cup Entities(v)
    BY <1>3, <1>4, <2>1, <2>3
  <2>5. QED BY <1>2, <2>1, <2>2, <2>4, AbstractFinish
<1>7. CASE EndSingle
  <2>1. pc' = "ended" /\ inside = {} /\ inside' = {} /\ view' = view /\ k = Len(Views) + 1
    BY <1>1, <1>2, <1>7 DEF EndSingle, fiberVars
  <2>2. Busy = {} /\ Busy' = {} /\ Processed' = Processed
    BY <1>2, <2>1 DEF Busy, Processed
  <2>3. AllEntities \subseteq Processed
    <3>1. k - 1 = Len(Views)
      BY <1>2, <2>1
    <3>2. QED BY <1>2, <1>3, <3>1 DEF AllEntities
  <2>4. QED BY <1>2, <2>1, <2>2, <2>3, AbstractEnd
<1>8. QED BY <1>5, <1>6, <1>7

\* No callback sees how tasks and batches are made.
LEMMA BatchingSteps ==
  ASSUME JobInv, Begin \/ ScheduleWholeView \/ ScheduleSubView \/ EndBatching
  PROVE  AbstractStep
<1>1. /\ job' = job /\ next' = next /\ inside' = inside
      /\ pc \in {"begin", "batching"} /\ pc' # "ended"
  BY DEF Begin, ScheduleWholeView, ScheduleSubView, EndBatching, fiberVars
<1>2. next = <<>> /\ inside = {}
  BY <1>1 DEF JobInv, PhaseInv
<1>3. Busy' = Busy
  BY <1>1, <1>2 DEF Busy
<1>4. Processed' = Processed
  <2>1. CASE Begin \/ EndBatching
    <3>1. tasks' = tasks /\ view' = view
      BY <2>1 DEF Begin, EndBatching, fiberVars
    <3>2. QED BY <1>1, <1>2, <3>1 DEF Processed
  <2>2. CASE ScheduleWholeView \/ ScheduleSubView
    <3>1. pc = "batching" /\ \E t : tasks' = Append(tasks, t)
      BY <2>2 DEF ScheduleWholeView, ScheduleSubView, NewTask
    <3>2. tasks' # <<>>
      <4>1. PICK t : tasks' = Append(tasks, t)
        BY <3>1
      <4>2. tasks \in Seq(Task)
        BY DEF JobInv, TypeOK
      <4>3. Len(tasks') = Len(tasks) + 1 /\ Len(tasks) \in Nat
        BY ONLY <4>1, <4>2
      <4>4. QED BY ONLY <4>3
    <3>3. Processed' = {}
      BY <1>1, <1>2, <3>2 DEF Processed
    <3>4. Done = {}
      BY <1>2 DEF Done
    <3>5. Processed = {}
      BY <3>1, <3>4, ProcessedTasks
    <3>6. QED BY <3>3, <3>5
  <2>3. QED BY <2>1, <2>2
<1>5. QED BY <1>1, <1>3, <1>4, NoAbstractStep

\* A task is in one batch.
LEMMA OneBatch ==
  ASSUME JobInv, NEW b \in DOMAIN batches, NEW c \in DOMAIN batches, NEW i \in Nat,
         InBatch(i, b), InBatch(i, c)
  PROVE  b = c
<1>1. /\ b \in Nat /\ c \in Nat /\ batches[b].start \in Nat /\ batches[b].end \in Nat
      /\ batches[c].start \in Nat /\ batches[c].end \in Nat
  BY BatchTyped DEF JobInv
<1>2. /\ b < c => batches[b].end <= batches[c].start
      /\ c < b => batches[c].end <= batches[b].start
  BY DEF JobInv, RangesInv
<1>3. batches[b].start < i /\ i <= batches[b].end /\ batches[c].start < i /\ i <= batches[c].end
  BY DEF InBatch
<1>4. QED BY ONLY <1>1, <1>2, <1>3, i \in Nat

\* The fibers that are inside the callback are at different tasks.
LEMMA InsideFacts ==
  ASSUME JobInv, pc \in {"waiting", "ended"}, NEW w \in inside
  PROVE  w \in DOMAIN next /\ next[w] \in DOMAIN tasks /\ InBatch(next[w], w) /\ GivenBy(w) = Entities(tasks[next[w]].view)
<1>1. 0 \notin inside /\ inside \subseteq 0..Len(next) /\ next \in Seq(Nat) /\ tasks \in Seq(Task)
  BY DEF JobInv, PhaseInv, TypeOK
<1>2. w \in DOMAIN next /\ w # 0
  <2>1. DOMAIN next = 1..Len(next) /\ Len(next) \in Nat /\ w \in 0..Len(next) /\ w # 0
    BY <1>1
  <2>2. QED BY <2>1
<1>3. /\ next[w] \in Nat /\ batches[w].start \in Nat /\ batches[w].end \in 1..Len(tasks) /\ Len(tasks) \in Nat
      /\ batches[w].start < next[w] /\ next[w] <= batches[w].end
  BY <1>2, BatchFacts
<1>4. next[w] \in 1..Len(tasks)
  BY ONLY <1>3
<1>5. QED BY <1>1, <1>2, <1>3, <1>4 DEF InBatch, GivenBy

\* A task has entities of the job, all in one chunk.
LEMMA TaskFacts ==
  ASSUME JobInv, NEW i \in DOMAIN tasks
  PROVE  /\ i \in Nat /\ tasks[i].view \in View /\ Entities(tasks[i].view) # {}
         /\ Entities(tasks[i].view) \subseteq AllEntities
         /\ \A e \in Entities(tasks[i].view) : e[1] = tasks[i].view.chunk
<1>1. i \in Nat /\ tasks[i] \in Task /\ job \in Jobs
  BY DEF JobInv, TypeOK
<1>2. tasks[i].view \in View
  BY <1>1 DEF Task
<1>3. PICK k \in DOMAIN Views : PartOf(tasks[i].view, k)
  BY DEF JobInv, TasksInv, TaskIndices
<1>4. Entities(tasks[i].view) # {} /\ Entities(tasks[i].view) \subseteq AllEntities
  BY <1>1, <1>2, <1>3, EntitiesFacts, PartFacts
<1>5. \A e \in Entities(tasks[i].view) : e[1] = tasks[i].view.chunk
  BY DEF Entities
<1>6. QED BY <1>1, <1>2, <1>4, <1>5

\* A batch gives a task to the callback: others at once share no chunk they must not.
LEMMA ProcessTaskStep ==
  ASSUME JobInv, NEW b \in DOMAIN next, ProcessTask(b)
  PROVE  AbstractStep
<1>1. PICK i, S : i = next[b] /\ S = Entities(tasks[i].view)
  OBVIOUS
<1>2. /\ b \notin inside /\ i <= batches[b].end /\ inside' = inside \cup {b}
      /\ job' = job /\ pc' = pc /\ tasks' = tasks /\ view' = view /\ next' = next /\ batches' = batches
  BY <1>1 DEF ProcessTask, fiberVars
<1>3. /\ b \in DOMAIN batches /\ b # 0 /\ i \in Nat /\ batches[b].start < i
      /\ batches[b].end \in 1..Len(tasks) /\ Len(tasks) \in Nat /\ batches[b].start \in Nat
      /\ pc \in {"waiting", "ended"} /\ (pc = "ended" => i = batches[b].end + 1)
  BY <1>1, BatchFacts
<1>4. i \in 1..Len(tasks) /\ i # batches[b].end + 1
  BY ONLY <1>2, <1>3
<1>5. pc = "waiting" /\ i \in DOMAIN tasks /\ InBatch(i, b)
  <2>1. DOMAIN tasks = 1..Len(tasks)
    BY DEF JobInv, TypeOK
  <2>2. QED BY <1>2, <1>3, <1>4, <2>1 DEF InBatch
<1>6. S # {} /\ S \subseteq AllEntities /\ \A e \in S : e[1] = tasks[i].view.chunk
  BY <1>1, <1>5, TaskFacts
<1>7. i \notin Done
  <2>1. ASSUME NEW c \in DOMAIN next, batches[c].start < i, i < next[c]
        PROVE  FALSE
    <3>1. /\ c \in DOMAIN batches /\ next[c] \in Nat /\ batches[c].end \in Nat
          /\ next[c] <= batches[c].end + 1
      BY BatchFacts
    <3>2. i <= batches[c].end
      BY ONLY <1>3, <2>1, <3>1
    <3>3. c = b
      BY <1>3, <1>5, <2>1, <3>1, <3>2, OneBatch DEF InBatch
    <3>4. QED BY <1>1, <1>3, <2>1, <3>3
  <2>2. QED BY <2>1 DEF Done
<1>8. S \cap Processed = {}
  <2>1. \A k \in Done : Entities(tasks[k].view) \cap S = {}
    BY <1>1, <1>5, <1>7 DEF Done, JobInv, TasksInv, TasksApart
  <2>2. QED BY <1>5, <2>1, ProcessedTasks
<1>9. ASSUME NEW w \in inside
      PROVE  /\ GivenBy(w) \cap S = {}
             /\ HasWriteChunkComponent => \A e \in S, f \in GivenBy(w) : e[1] # f[1]
  <2>1. PICK k : k = next[w]
    OBVIOUS
  <2>2. w \in DOMAIN next /\ k \in DOMAIN tasks /\ InBatch(k, w) /\ GivenBy(w) = Entities(tasks[k].view)
    BY <1>3, <2>1, InsideFacts
  <2>3. w \in DOMAIN batches /\ w # b
    BY <1>2, <2>2, BatchFacts
  <2>4. i # k
    BY <1>3, <1>5, <2>2, <2>3, OneBatch
  <2>5. GivenBy(w) \cap S = {}
    BY <1>1, <1>5, <2>2, <2>4 DEF JobInv, TasksInv, TasksApart
  <2>6. ASSUME HasWriteChunkComponent
        PROVE  tasks[i].view.chunk # tasks[k].view.chunk
    <3>1. /\ batches[b].start \in Nat /\ batches[b].end \in Nat
          /\ batches[w].start \in Nat /\ batches[w].end \in Nat /\ b \in Nat /\ w \in Nat /\ k \in Nat
      BY <1>3, <2>2, <2>3, BatchTyped, TaskFacts DEF JobInv
    <3>2. /\ b < w => batches[b].end <= batches[w].start
          /\ w < b => batches[w].end <= batches[b].start
      BY <1>3, <2>3 DEF JobInv, RangesInv
    <3>3. batches[b].start < i /\ i <= batches[b].end /\ batches[w].start < k /\ k <= batches[w].end
      BY <1>5, <2>2 DEF InBatch
    <3>4. \/ i <= batches[b].end /\ batches[b].end < k
          \/ k <= batches[w].end /\ batches[w].end < i
      BY ONLY <1>3, <2>3, <3>1, <3>2, <3>3
    <3>5. QED BY <1>3, <1>5, <2>2, <2>3, <2>6, <3>4 DEF JobInv, ChunksInv
  <2>7. QED BY <1>6, <2>2, <2>5, <2>6, TaskFacts
<1>10. Processed' = Processed
  BY <1>2 DEF Processed
<1>11. Busy' = Busy \cup {S}
  <2>1. \A w \in inside \cup {b} : GivenBy(w)' = GivenBy(w)
    BY <1>2 DEF GivenBy
  <2>2. GivenBy(b) = S
    BY <1>1, <1>3 DEF GivenBy
  <2>3. QED BY <1>2, <2>1, <2>2 DEF Busy
<1>12. S \subseteq Todo
  <2>1. S \cap UNION Busy = {}
    BY <1>9 DEF Busy
  <2>2. QED BY <1>6, <1>8, <2>1 DEF Todo
<1>13. ~ HasRandomWrite
  BY <1>5 DEF JobInv, PhaseInv
<1>14. HasWriteChunkComponent => \A other \in Busy : \A e \in S, f \in other : e[1] # f[1]
  BY <1>9 DEF Busy
<1>15. QED BY <1>2, <1>5, <1>6, <1>10, <1>11, <1>12, <1>13, <1>14, AbstractBegin

\* A callback a batch made returns.
LEMMA TaskProcessedStep ==
  ASSUME JobInv, NEW b \in DOMAIN next, TaskProcessed(b)
  PROVE  AbstractStep
<1>1. PICK i, S : i = next[b] /\ S = Entities(tasks[i].view)
  OBVIOUS
<1>2. /\ b \in inside /\ inside' = inside \ {b} /\ next' = [next EXCEPT ![b] = i + 1]
      /\ job' = job /\ pc' = pc /\ tasks' = tasks /\ view' = view /\ batches' = batches
  BY <1>1 DEF TaskProcessed, fiberVars
<1>3. /\ b \in DOMAIN batches /\ i \in Nat /\ next \in Seq(Nat) /\ batches[b].start < i
      /\ batches[b].start \in Nat
      /\ i <= batches[b].end /\ pc \in {"waiting", "ended"} /\ (pc = "ended" => i = batches[b].end + 1)
      /\ batches[b].end \in Nat
  BY <1>1, <1>2, BatchFacts
<1>4. i # batches[b].end + 1
  BY ONLY <1>3
<1>5. pc = "waiting" /\ i \in DOMAIN tasks /\ InBatch(i, b) /\ GivenBy(b) = S
  BY <1>1, <1>2, <1>3, <1>4, InsideFacts
<1>6. /\ DOMAIN next' = DOMAIN next /\ next'[b] = i + 1
      /\ \A c \in DOMAIN next : c # b => next'[c] = next[c]
  BY <1>2, <1>3
<1>7. Processed' = Processed \cup S
  <2>1. Done' = Done \cup {i}
    <3>1. ASSUME NEW k \in DOMAIN tasks
          PROVE  (\E c \in DOMAIN next : batches[c].start < k /\ k < next'[c])
                   <=> ((\E c \in DOMAIN next : batches[c].start < k /\ k < next[c]) \/ k = i)
      <4>1. k \in Nat
        BY TaskFacts
      <4>2. /\ k < i + 1 <=> k < i \/ k = i
            /\ batches[b].start < i
        BY ONLY <1>3, <4>1
      <4>3. QED BY <1>1, <1>6, <4>2
    <3>2. QED BY <1>2, <1>5, <1>6, <3>1 DEF Done
  <2>2. tasks' # <<>>
    BY <1>2, <1>5
  <2>3. Processed' = UNION {Entities(tasks'[k].view) : k \in Done'}
    BY <2>2 DEF Processed, Done
  <2>4. Processed = UNION {Entities(tasks[k].view) : k \in Done}
    BY <1>5, ProcessedTasks
  <2>5. QED BY <1>1, <1>2, <2>1, <2>3, <2>4
<1>8. Busy' = Busy \ {S}
  <2>1. ASSUME NEW w \in inside, w # b
        PROVE  GivenBy(w)' = GivenBy(w) /\ GivenBy(w) # S
    <3>1. PICK k : k = next[w]
      OBVIOUS
    <3>2. w \in DOMAIN next /\ k \in DOMAIN tasks /\ InBatch(k, w) /\ GivenBy(w) = Entities(tasks[k].view)
      BY <1>3, <3>1, InsideFacts
    <3>3. i # k
      BY <1>3, <1>5, <2>1, <3>2, BatchFacts, OneBatch
    <3>4. GivenBy(w) \cap S = {} /\ S # {}
      BY <1>1, <1>5, <3>2, <3>3, TaskFacts DEF JobInv, TasksInv, TasksApart
    <3>5. GivenBy(w)' = GivenBy(w)
      BY <1>2, <1>6, <2>1, <3>2 DEF GivenBy
    <3>6. QED BY <3>4, <3>5
  <2>2. Busy' = {GivenBy(w)' : w \in inside \ {b}}
    BY <1>2 DEF Busy
  <2>3. Busy' = {GivenBy(w) : w \in inside \ {b}}
    BY <2>1, <2>2
  <2>4. QED BY <1>2, <1>5, <2>1, <2>3 DEF Busy
<1>9. S \in Busy
  BY <1>2, <1>5 DEF Busy
<1>10. QED BY <1>2, <1>7, <1>8, <1>9, AbstractFinish

\* Scheduling a batch makes no call.
LEMMA ScheduleBatchStep ==
  ASSUME JobInv, ScheduleBatch
  PROVE  AbstractStep
<1>1. PICK l, s : l = Len(next) + 1 /\ s = batches[l].start + 1
  OBVIOUS
<1>2. /\ pc = "waiting" /\ next' = Append(next, s) /\ Len(next) < Len(batches)
      /\ pc' = pc /\ job' = job /\ tasks' = tasks /\ view' = view /\ batches' = batches /\ inside' = inside
  BY <1>1 DEF ScheduleBatch, fiberVars
<1>3. next \in Seq(Nat) /\ DOMAIN batches = 1..Len(batches) /\ Len(batches) \in Nat
  BY DEF JobInv, TypeOK
<1>4. l \in DOMAIN batches /\ batches[l].start \in Nat
  <2>1. l \in DOMAIN batches
    BY <1>1, <1>2, <1>3
  <2>2. QED BY <2>1, BatchTyped DEF JobInv
<1>5. /\ DOMAIN next = 1..Len(next) /\ DOMAIN next' = (1..Len(next)) \cup {l}
      /\ \A c \in DOMAIN next : next'[c] = next[c]
      /\ next'[l] = s
  <2>1. s \in Nat
    BY <1>1, <1>4
  <2>2. /\ DOMAIN next = 1..Len(next) /\ DOMAIN next' = 1..(Len(next) + 1)
        /\ \A c \in 1..Len(next) : next'[c] = next[c]
        /\ next'[Len(next) + 1] = s
    BY <1>2, <1>3, <2>1, AppendShape
  <2>3. Len(next) \in Nat
    BY <1>3
  <2>4. 1..(Len(next) + 1) = (1..Len(next)) \cup {Len(next) + 1}
    BY ONLY <2>3
  <2>5. QED BY <1>1, <2>2, <2>4
<1>6. Processed' = Processed
  <2>1. ASSUME NEW i \in DOMAIN tasks
        PROVE  (\E c \in DOMAIN next' : batches[c].start < i /\ i < next'[c])
                 <=> (\E c \in DOMAIN next : batches[c].start < i /\ i < next[c])
    <3>1. i \in Nat
      BY TaskFacts
    <3>2. ~ (batches[l].start < i /\ i < s)
      BY ONLY <1>1, <1>4, <3>1
    <3>3. QED BY <1>5, <3>2
  <2>2. QED BY <1>2, <2>1 DEF Processed
<1>7. Busy' = Busy
  <2>1. \A w \in inside : GivenBy(w)' = GivenBy(w)
    BY <1>2, <1>5, InsideFacts DEF GivenBy
  <2>2. QED BY <1>2, <2>1 DEF Busy
<1>8. QED BY <1>2, <1>6, <1>7, NoAbstractStep

\* When the counter is zero, every entity has been processed.
LEMMA EndJobStep ==
  ASSUME JobInv, EndJob
  PROVE  AbstractStep
<1>1. /\ pc = "waiting" /\ pc' = "ended" /\ counter = {} /\ job' = job /\ tasks' = tasks /\ view' = view
      /\ next' = next /\ batches' = batches /\ inside' = inside
  BY DEF EndJob, fiberVars
<1>2. \A b \in DOMAIN batches : b \in DOMAIN next /\ next[b] = batches[b].end + 1
  BY <1>1 DEF JobInv, FibersInv
<1>3. inside = {}
  <2>1. ASSUME NEW w \in inside
        PROVE  FALSE
    <3>1. w \in DOMAIN next
      BY <1>1, InsideFacts
    <3>2. /\ w \in DOMAIN batches /\ next[w] \in Nat /\ batches[w].end \in Nat
          /\ next[w] <= batches[w].end
      BY <3>1, BatchFacts
    <3>3. next[w] = batches[w].end + 1
      BY <1>2, <3>2
    <3>4. QED BY ONLY <3>2, <3>3
  <2>2. QED BY <2>1
<1>4. Busy = {} /\ Busy' = Busy
  BY <1>1, <1>3 DEF Busy
<1>5. Processed' = Processed
  BY <1>1 DEF Processed
<1>6. AllEntities \subseteq Processed
  <2>1. tasks \in Seq(Task) /\ DOMAIN tasks = 1..Len(tasks) /\ job \in Jobs /\ Len(Views) \in Nat
    BY JobFacts DEF JobInv, TypeOK
  <2>2. view - 1 = Len(Views) /\ Begun = {}
    BY <1>1, <2>1 DEF JobInv, PhaseInv, Begun
  <2>3. Gathered(1, Len(tasks)) = AllEntities
    BY <1>1, <2>2 DEF JobInv, TasksInv, TasksCover, AllEntities, Views
  <2>4. DOMAIN tasks \subseteq Done
    <3>1. ASSUME NEW i \in DOMAIN tasks
          PROVE  i \in Done
      <4>1. PICK b \in DOMAIN batches : InBatch(i, b)
        BY <1>1 DEF JobInv, RangesInv
      <4>2. batches[b].end \in Nat /\ i \in Nat
        BY BatchTyped, TaskFacts DEF JobInv
      <4>3. b \in DOMAIN next /\ next[b] = batches[b].end + 1 /\ batches[b].start < i /\ i <= batches[b].end
        BY <1>2, <4>1 DEF InBatch
      <4>4. i < next[b]
        BY ONLY <4>2, <4>3
      <4>5. QED BY <4>3, <4>4 DEF Done
    <3>2. QED BY <3>1
  <2>5. QED BY <1>1, <2>1, <2>3, <2>4, ProcessedTasks DEF Gathered
<1>7. QED BY <1>1, <1>4, <1>5, <1>6, AbstractEnd

(* Every step of a job is a step of ParallelFor, or none of it.            *)
THEOREM ParallelForImplemented == Spec => ImplementsParallelFor
<1>1. Init => PF!Init
  BY DEF Init, PF!Init, Busy
<1>2. JobInv /\ [Next]_vars => [PF!Next]_(PF!vars)
  <2> SUFFICES ASSUME JobInv, [Next]_vars PROVE AbstractStep
    BY DEF AbstractStep
  <2>1. CASE UNCHANGED vars
    BY <2>1, NoAbstractStep DEF vars, fiberVars, Processed, Busy, GivenBy
  <2>2. ASSUME NEW b \in DOMAIN batches, BatchFiber(b)
        PROVE  AbstractStep
    <3>1. CASE EndBatch(b)
      BY <3>1, NoAbstractStep DEF EndBatch, fiberVars, Processed, Busy, GivenBy
    <3>2. QED BY <2>2, <3>1, ProcessTaskStep, TaskProcessedStep DEF BatchFiber
  <2>3. CASE JobFiber
    BY <2>3, ViewSteps, BatchingSteps, ScheduleBatchStep, EndJobStep DEF JobFiber
  <2>4. QED BY <2>1, <2>2, <2>3 DEF Next
<1>3. QED BY <1>1, <1>2, JobInvariant, PTL DEF Spec, ImplementsParallelFor, PF!Spec
=============================================================================
