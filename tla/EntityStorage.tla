--------------------------- MODULE EntityStorage ---------------------------
(***************************************************************************)
(* The entity storage of the ECS: groups of chunks that hold entities, and *)
(* the registry that says for every entity in which chunk it is and where. *)
(* A call runs on the storage's main thread.  allocate() and cast() work   *)
(* chunk by chunk: task is the call that is running, and one step of it is *)
(* one chunk.  Their callbacks do not call the storage.                    *)
(*                                                                         *)
(* Chunks of a group are listed with the full ones first; firstFree counts *)
(* these.  Positions in chunks and lists count from 0, as in the code, and *)
(* entities go by <<id, version>>.                                         *)
(***************************************************************************)
EXTENDS Naturals, Sequences, FiniteSetsExt

CONSTANTS
    Chunks,         \* chunks of the pools
    Groups,
    Archetype,      \* a group's archetype
    Dead,           \* the group a group's entities go to when destroyed, or NoGroup: it
                    \* has the same components and a tag, so the archetype is the same
    Capacity,       \* entities in a small, default and large chunk of a group: 0 when
                    \* not one fits
    SmallBinThreshold,  \* kSmallBinThreshold
    LargeHint,      \* 8: a hint of more default chunks than this asks for a large one
    TransientVersion,   \* kEntityTransientVersion, which no entity has
    MaxEntities,    \* bound: entries of the registry
    MaxCount,       \* bound: entities a call allocates
    NoChunk, NoGroup

PoolTypes == {"small", "default", "large"}

ASSUME ConstantsTyped ==
    /\ Dead \in [Groups -> Groups \cup {NoGroup}]
    /\ \A g \in Groups : Dead[g] # NoGroup =>
           Dead[Dead[g]] = NoGroup /\ Archetype[Dead[g]] = Archetype[g]
    /\ Capacity \in [Groups -> [PoolTypes -> Nat]] /\ \A g \in Groups : Capacity[g]["large"] > 0
    /\ \A g, h \in Groups : Archetype[g] = Archetype[h] => Capacity[g] = Capacity[h]
    /\ SmallBinThreshold \in Nat /\ LargeHint \in Nat /\ TransientVersion \in Nat \ {0}
    /\ MaxEntities \in Nat /\ MaxCount \in Nat
    /\ NoChunk \notin Chunks /\ NoGroup \notin Groups

VARIABLES
    entries,    \* the registry's entries
    size,       \* how many entries there are
    freeEntries,
    ents,       \* the entities in a chunk
    pt,         \* the pool a chunk is from
    group,      \* a chunk's group, NoGroup when the chunk is in its pool
    index,      \* a chunk's place in the list of its group
    chunks,     \* the chunks of a group
    firstFree,
    groupSize,  \* dual_group_t::size
    task        \* the call that is running

registry == <<entries, size, freeEntries>>
lists == <<group, index, chunks, firstFree>>
vars == <<entries, size, freeEntries, ents, pt, group, index, chunks, firstFree, groupSize, task>>

Ids == 0..(MaxEntities - 1)
Versions == 0..TransientVersion
Entity == Ids \X Versions
Free == [chunk |-> NoChunk, index |-> 0, version |-> 0]

\* A running call: allocate(); cast_impl() of a view, then of the whole chunks
\* in more; clear(); and a cast of a group that hands its chunks over.
NoTask == [kind |-> "none"]
Tasks == {NoTask}
    \cup [kind : {"allocate"}, group : Groups, left : Nat \ {0}]
    \cup [kind : {"cast"}, group : Groups, left : Nat, chunk : Chunks, start : Nat,
          count : Nat \ {0}, more : Seq(Chunks)]
    \cup [kind : {"clear"}, group : Groups]
    \cup [kind : {"adopt"}, group : Groups, from : Groups]

TypeOK ==
    /\ entries \in [Ids -> [chunk : Chunks \cup {NoChunk}, index : Nat, version : Versions]]
    /\ size \in 0..MaxEntities /\ freeEntries \in Seq(Ids)
    /\ ents \in [Chunks -> Seq(Entity)]
    /\ pt \in [Chunks -> PoolTypes]
    /\ group \in [Chunks -> Groups \cup {NoGroup}]
    /\ index \in [Chunks -> Nat]
    /\ chunks \in [Groups -> Seq(Chunks)]
    /\ firstFree \in [Groups -> Nat] /\ groupSize \in [Groups -> Nat]
    /\ task \in Tasks

Init ==
    /\ entries = [id \in Ids |-> Free] /\ size = 0 /\ freeEntries = <<>>
    /\ ents = [c \in Chunks |-> <<>>]
    /\ pt = [c \in Chunks |-> "default"]
    /\ group = [c \in Chunks |-> NoGroup]
    /\ index = [c \in Chunks |-> 0]
    /\ chunks = [g \in Groups |-> <<>>]
    /\ firstFree = [g \in Groups |-> 0] /\ groupSize = [g \in Groups |-> 0]
    /\ task = NoTask

Lesser(a, b) == IF a < b THEN a ELSE b

----------------------------------------------------------------------------
(* The registry.                                                           *)

\* e_inc_version
NextVersion(v) == IF v + 1 = TransientVersion THEN 0 ELSE v + 1

\* How many of n new entities take a free entry: the last freed ones.
Recycled(n) == Lesser(n, Len(freeEntries))

\* Mutant: the first freed ones are returned, the last freed ones dropped.
NewEntitiesFirst(n) ==
    [i \in 1..n |->
        LET id == IF i <= Recycled(n) THEN freeEntries[i] ELSE size + i - Recycled(n) - 1
        IN  <<id, entries[id].version>>]

\* new_entities: what it returns, and what it leaves.
NewEntities(n) ==
    [i \in 1..n |->
        LET id == IF i <= Recycled(n) THEN freeEntries[Len(freeEntries) - Recycled(n) + i]
                                      ELSE size + i - Recycled(n) - 1
        IN  <<id, entries[id].version>>]

TakeEntities(n) ==
    /\ size + n - Recycled(n) <= MaxEntities
    /\ freeEntries' = SubSeq(freeEntries, 1, Len(freeEntries) - Recycled(n))
    /\ size' = size + n - Recycled(n)

\* Mutant: the place counts from the start of the view.
PlacedFromStart(es, c, s, first, last) ==
    [id \in Ids |->
        IF \E i \in first..last : s[i][1] = id
        THEN [es[id] EXCEPT !.chunk = c,
                            !.index = (CHOOSE i \in first..last : s[i][1] = id) - first]
        ELSE es[id]]

\* The entries when s[first..last] are entities of chunk c at these places
\* (fill_entities, move_entities).
Placed(es, c, s, first, last) ==
    [id \in Ids |->
        IF \E i \in first..last : s[i][1] = id
        THEN [es[id] EXCEPT !.chunk = c,
                            !.index = (CHOOSE i \in first..last : s[i][1] = id) - 1]
        ELSE es[id]]

\* Mutant: the version stays.
FreedSame(es, s, first, last) ==
    [id \in Ids |->
        IF \E i \in first..last : s[i][1] = id THEN [Free EXCEPT !.version = es[id].version] ELSE es[id]]

\* The entries after free_entities.
Freed(es, s, first, last) ==
    [id \in Ids |->
        IF \E i \in first..last : s[i][1] = id
        THEN [Free EXCEPT !.version = NextVersion(es[id].version)]
        ELSE es[id]]

----------------------------------------------------------------------------
(* The chunks of a group.                                                  *)

CapacityOf(c) == Capacity[group[c]][pt[c]]
Full(c) == Len(ents[c]) = CapacityOf(c)

ClaimPool(g, hint) ==
    IF Len(chunks[g]) < SmallBinThreshold /\ hint < Capacity[g]["small"] THEN "small"
    ELSE IF hint > Capacity[g]["default"] * LargeHint THEN "large"
    ELSE "default"

Swapped(s, i, j) == [s EXCEPT ![i] = s[j], ![j] = s[i]]

\* dual_group_t::add_chunk.  Before a full chunk goes to place firstFree, the
\* loop copies every chunk over the next one, so that the first free one is
\* copied over all.
AddedTo(g, c, full) ==
    IF ~full THEN Append(chunks[g], c)
    ELSE [i \in 1..(Len(chunks[g]) + 1) |->
            IF i <= firstFree[g] THEN chunks[g][i]
            ELSE IF i = firstFree[g] + 1 THEN c
            ELSE chunks[g][firstFree[g] + 1]]

AddedIndex(ix, g, c, full) ==
    IF ~full THEN [ix EXCEPT ![c] = Len(chunks[g])]
    ELSE IF firstFree[g] = Len(chunks[g]) THEN [ix EXCEPT ![c] = firstFree[g]]
    ELSE [ix EXCEPT ![c] = firstFree[g], ![chunks[g][firstFree[g] + 1]] = Len(chunks[g])]

\* dual_group_t::remove_chunk
RemovedFrom(g, c) ==
    [i \in 1..(Len(chunks[g]) - 1) |-> IF i <= index[c] THEN chunks[g][i] ELSE chunks[g][i + 1]]

\* Mutant: the chunks that move up keep their index.
RemovedIndexKept(g, c) == index

RemovedIndex(g, c) ==
    [d \in Chunks |->
        IF \E i \in (index[c] + 2)..Len(chunks[g]) : chunks[g][i] = d
        THEN (CHOOSE i \in (index[c] + 2)..Len(chunks[g]) : chunks[g][i] = d) - 2
        ELSE index[d]]

\* Mutant: the test before the decrement is dropped.
RemovedFreeAlways(g, c) == firstFree[g] - 1

RemovedFree(g, c) == IF index[c] < firstFree[g] THEN firstFree[g] - 1 ELSE firstFree[g]

\* Mutant: the chunk stays where it is.
ExchangedWithNone(g, c, border) == UNCHANGED <<chunks, index>>

\* mark_full and mark_free: the chunk changes places with the one at the border.
ExchangedWith(g, c, border) ==
    /\ chunks' = [chunks EXCEPT ![g] = Swapped(@, index[c] + 1, border + 1)]
    /\ index' = [index EXCEPT ![c] = index[chunks[g][border + 1]],
                              ![chunks[g][border + 1]] = index[c]]

\* Mutant: the size is taken after the count is set.
SizeUnchanged(g, c, n) == groupSize[g] + n - n

SizeAfter(g, c, n) == groupSize[g] + n - Len(ents[c])

\* dual_group_t::resize_chunk, when chunk c of group g holds s from now on.
ResizeChunk(g, c, s) ==
    /\ ents' = [ents EXCEPT ![c] = s]
    /\ groupSize' = [groupSize EXCEPT ![g] = SizeAfter(g, c, Len(s))]
    /\ \/ /\ s = <<>>
          /\ chunks' = [chunks EXCEPT ![g] = RemovedFrom(g, c)]
          /\ index' = [RemovedIndex(g, c) EXCEPT ![c] = 0]
          /\ firstFree' = [firstFree EXCEPT ![g] = RemovedFree(g, c)]
          /\ group' = [group EXCEPT ![c] = NoGroup]
          /\ pt' = [pt EXCEPT ![c] = "default"]
       \/ /\ s # <<>> /\ ~Full(c) /\ Len(s) = CapacityOf(c)
          /\ ExchangedWith(g, c, firstFree[g])
          /\ firstFree' = [firstFree EXCEPT ![g] = @ + 1]
          /\ UNCHANGED <<group, pt>>
       \/ /\ s # <<>> /\ Full(c) /\ Len(s) < CapacityOf(c)
          /\ ExchangedWith(g, c, firstFree[g] - 1)
          /\ firstFree' = [firstFree EXCEPT ![g] = @ - 1]
          /\ UNCHANGED <<group, pt>>
       \/ /\ s # <<>> /\ Full(c) = (Len(s) = CapacityOf(c))
          /\ UNCHANGED <<lists, pt>>

\* Mutant: the tail is not moved into the gap.
MovingNone(c, start, count) == 0

\* What is left of chunk c when count entities from place start on are gone: the
\* last ones move into the gap (dual_storage_t::free).
Moving(c, start, count) == Lesser(count, Len(ents[c]) - (start + count))

Remaining(c, start, count) ==
    LET moving == Moving(c, start, count)
    IN  [i \in 1..(Len(ents[c]) - count) |->
            IF i \in (start + 1)..(start + moving) THEN ents[c][Len(ents[c]) - moving + i - start]
            ELSE ents[c][i]]

FreeView(es, c, start, count) ==
    LET s == Remaining(c, start, count)
    IN  /\ entries' = Placed(es, c, s, start + 1, start + Moving(c, start, count))
        /\ ResizeChunk(group[c], c, s)

----------------------------------------------------------------------------
(* allocate().                                                             *)

Idle == task = NoTask

\* Also instantiate(), into the group without the tracked components.
Allocate(g, n) ==
    /\ Idle /\ size + n - Recycled(n) <= MaxEntities
    /\ task' = [kind |-> "allocate", group |-> g, left |-> n]
    /\ UNCHANGED <<registry, ents, pt, lists, groupSize>>

\* allocate_view takes the first free chunk, or a new one.
Filling == task.kind \in {"allocate", "cast"} /\ task.left > 0
FirstFree(g) == chunks[g][firstFree[g] + 1]

NewChunk(c) ==
    LET g == task.group
    IN  /\ Filling /\ firstFree[g] = Len(chunks[g]) /\ group[c] = NoGroup
        /\ pt' = [pt EXCEPT ![c] = ClaimPool(g, task.left)]
        /\ chunks' = [chunks EXCEPT ![g] = AddedTo(g, c, FALSE)]
        /\ index' = AddedIndex(index, g, c, FALSE)
        /\ group' = [group EXCEPT ![c] = g]
        /\ UNCHANGED <<registry, ents, firstFree, groupSize, task>>

\* Mutant: any chunk is taken for a small one.
FittingSmall ==
    Lesser(task.left, Capacity[task.group]["small"] - Len(ents[FirstFree(task.group)]))

\* How much of what is left fits into the first free chunk.
Fitting == Lesser(task.left, CapacityOf(FirstFree(task.group)) - Len(ents[FirstFree(task.group)]))

AllocateView ==
    LET g == task.group
        c == FirstFree(g)
        s == ents[c] \o NewEntities(Fitting)
    IN  /\ Filling /\ task.kind = "allocate" /\ firstFree[g] < Len(chunks[g])
        /\ TakeEntities(Fitting)
        /\ entries' = Placed(entries, c, s, Len(ents[c]) + 1, Len(s))
        /\ ResizeChunk(g, c, s)
        /\ task' = IF Fitting = task.left THEN NoTask ELSE [task EXCEPT !.left = @ - Fitting]

----------------------------------------------------------------------------
(* destroy() and cast().                                                   *)

IsView(c, start, count) ==
    group[c] # NoGroup /\ count > 0 /\ start + count <= Len(ents[c])

\* The entities of a view are freed.
FreeEntities(c, start, count) ==
    /\ freeEntries' = freeEntries \o [i \in 1..count |-> ents[c][start + i][1]]
    /\ FreeView(Freed(entries, ents[c], start + 1, start + count), c, start, count)
    /\ UNCHANGED size

\* A whole chunk changes its group.
MoveChunk(c, g) ==
    LET from == group[c]
    IN  /\ chunks' = [chunks EXCEPT ![from] = RemovedFrom(from, c), ![g] = AddedTo(g, c, Full(c))]
        /\ index' = AddedIndex(RemovedIndex(from, c), g, c, Full(c))
        /\ firstFree' = [firstFree EXCEPT ![from] = RemovedFree(from, c),
                                         ![g] = IF Full(c) THEN @ + 1 ELSE @]
        /\ groupSize' = [groupSize EXCEPT ![from] = @ - Len(ents[c]), ![g] = @ + Len(ents[c])]
        /\ group' = [group EXCEPT ![c] = g]
        /\ UNCHANGED <<registry, ents, pt>>

CastView(c, start, count, g) ==
    /\ g # group[c]
    /\ \/ /\ count = Len(ents[c]) /\ Archetype[g] = Archetype[group[c]]
          /\ MoveChunk(c, g)
          /\ UNCHANGED task
       \/ /\ count < Len(ents[c]) \/ Archetype[g] # Archetype[group[c]]
          /\ task' = [kind |-> "cast", group |-> g, left |-> count, chunk |-> c,
                      start |-> start, count |-> count, more |-> <<>>]
          /\ UNCHANGED <<registry, ents, pt, lists, groupSize>>

\* cast() without a group: a dead entity that loses its last tracked component.
CastToNoGroup(c, start, count) ==
    /\ Idle /\ IsView(c, start, count)
    /\ FreeEntities(c, start, count)
    /\ UNCHANGED task

Cast(c, start, count, g) ==
    /\ Idle /\ IsView(c, start, count)
    /\ CastView(c, start, count, g)

\* destroy(); entities of a group with tracked components are cast only.
Destroy(c, start, count) ==
    /\ Idle /\ IsView(c, start, count)
    /\ \A g \in Groups : Dead[g] # group[c]
    /\ \/ Dead[group[c]] # NoGroup /\ CastView(c, start, count, Dead[group[c]])
       \/ Dead[group[c]] = NoGroup /\ FreeEntities(c, start, count) /\ UNCHANGED task

\* cast_impl: a part of the view goes to the first free chunk.
CastPart ==
    LET g == task.group
        c == FirstFree(g)
        moved == task.start + task.count - task.left
        s == ents[c] \o SubSeq(ents[task.chunk], moved + 1, moved + Fitting)
    IN  /\ Filling /\ task.kind = "cast" /\ firstFree[g] < Len(chunks[g])
        /\ entries' = Placed(entries, c, s, Len(ents[c]) + 1, Len(s))
        /\ ResizeChunk(g, c, s)
        /\ task' = [task EXCEPT !.left = @ - Fitting]
        /\ UNCHANGED <<size, freeEntries>>

CastChunk(g, c, more) ==
    [kind |-> "cast", group |-> g, left |-> Len(ents[c]), chunk |-> c, start |-> 0,
     count |-> Len(ents[c]), more |-> more]

EndCast ==
    /\ task.kind = "cast" /\ task.left = 0
    /\ FreeView(entries, task.chunk, task.start, task.count)
    /\ task' = IF task.more = <<>> THEN NoTask
               ELSE CastChunk(task.group, Head(task.more), Tail(task.more))
    /\ UNCHANGED <<size, freeEntries>>

\* cast() of a whole group.
CastGroup(from, g) ==
    /\ Idle /\ from # g /\ chunks[from] # <<>>
    /\ task' = IF Archetype[from] = Archetype[g]
               THEN [kind |-> "adopt", group |-> g, from |-> from]
               ELSE CastChunk(g, Head(chunks[from]), Tail(chunks[from]))
    /\ UNCHANGED <<registry, ents, pt, lists, groupSize>>

\* The chunks are handed over in their order.
AdoptChunk ==
    /\ task.kind = "adopt"
    /\ MoveChunk(Head(chunks[task.from]), task.group)
    /\ task' = IF Len(chunks[task.from]) = 1 THEN NoTask ELSE task

\* clear(), also for reset(), a cast to no group and destroy() by a filter.
Clear(g) ==
    /\ Idle /\ chunks[g] # <<>>
    /\ task' = [kind |-> "clear", group |-> g]
    /\ UNCHANGED <<registry, ents, pt, lists, groupSize>>

ClearChunk ==
    LET c == Head(chunks[task.group])
    IN  /\ task.kind = "clear"
        /\ FreeEntities(c, 0, Len(ents[c]))
        /\ task' = IF Len(chunks[task.group]) = 1 THEN NoTask ELSE task

Step ==
    \/ \E c \in Chunks : NewChunk(c)
    \/ AllocateView \/ CastPart \/ EndCast \/ AdoptChunk \/ ClearChunk

Next ==
    \/ \E g \in Groups, n \in 1..MaxCount : Allocate(g, n)
    \/ \E c \in Chunks, start \in 0..(MaxEntities - 1), count \in 1..MaxEntities :
          \/ Destroy(c, start, count) \/ CastToNoGroup(c, start, count)
          \/ \E g \in Groups : Cast(c, start, count, g)
    \/ \E from, g \in Groups : CastGroup(from, g)
    \/ \E g \in Groups : Clear(g)
    \/ Step

Spec == Init /\ [][Next]_vars

\* add_chunk is asked to put a full chunk before two or more that are not full.
Crowds ==
    \E c \in Chunks :
        /\ group[c] # NoGroup /\ group'[c] \notin {group[c], NoGroup}
        /\ Full(c) /\ firstFree[group'[c]] + 1 < Len(chunks[group'[c]])

\* Up to where add_chunk does what it is for: what comes after the list has lost a
\* chunk (AllListed) is not looked at.
TidySpec == Init /\ [][Next /\ ~Crowds]_vars

FairSpec == Spec /\ WF_vars(Step)

----------------------------------------------------------------------------
(* Safety.                                                                 *)

\* The places of a chunk, without those a running cast has moved away from.
Places(c) ==
    IF task.kind = "cast" /\ task.chunk = c
    THEN DOMAIN ents[c] \ ((task.start + 1)..(task.start + task.count - task.left))
    ELSE DOMAIN ents[c]

\* The registry and the chunks agree: the entity at a place of a chunk is
\* registered there with its version, and what is registered is there
\* (entities.cpp:86, :115, storage.cpp:124).
EntriesAgree ==
    /\ \A c \in Chunks : \A i \in Places(c) :
          entries[ents[c][i][1]] = [chunk |-> c, index |-> i - 1, version |-> ents[c][i][2]]
    /\ \A id \in Ids : LET e == entries[id] IN
          e.chunk # NoChunk => e.index + 1 \in Places(e.chunk) /\ ents[e.chunk][e.index + 1][1] = id

\* The free list names every entry without a chunk, once
\* (entities.cpp:38-76).
FreeListAgrees ==
    /\ {freeEntries[i] : i \in DOMAIN freeEntries} = {id \in 0..(size - 1) : entries[id].chunk = NoChunk}
    /\ \A i, j \in DOMAIN freeEntries : freeEntries[i] = freeEntries[j] => i = j

\* A group lists its chunks, each once, at its index (archetype.cpp:351-404).
ListsAgree ==
    /\ \A g \in Groups : \A i \in DOMAIN chunks[g] :
          group[chunks[g][i]] = g /\ index[chunks[g][i]] = i - 1
    /\ \A c \in Chunks : group[c] # NoGroup =>
          index[c] < Len(chunks[group[c]]) /\ chunks[group[c]][index[c] + 1] = c

\* Every chunk that holds entities is one its group lists, so that getting all
\* chunk views gets it (dual.h:407, query.cpp).
AllListed == \A c \in Chunks : group[c] # NoGroup => \E i \in DOMAIN chunks[group[c]] : chunks[group[c]][i] = c

\* The chunks before firstFree are the full ones (the assertions of mark_free
\* and mark_full, archetype.cpp:409, :420).
FullFirst ==
    \A c \in Chunks : group[c] # NoGroup => (Full(c) <=> index[c] < firstFree[group[c]])

\* The places of the chunks of a group that are taken.
Held(g) == UNION {{c} \X DOMAIN ents[c] : c \in {d \in Chunks : group[d] = g}}

\* A group knows how many entities it has, and a chunk is given back when it
\* has none (archetype.cpp:376-389, query.cpp's and dualS_count's answer).
SizesAgree == \A g \in Groups : groupSize[g] = Cardinality(Held(g))

----------------------------------------------------------------------------
(* The storage as a set of entities.                                       *)

Home == [id \in Ids |-> IF entries[id].chunk = NoChunk THEN NoGroup ELSE group[entries[id].chunk]]

Abstract == INSTANCE EntitySet WITH home <- Home, version <- [id \in Ids |-> entries[id].version]

\* However chunks are filled, split, compacted and handed over, an entity is in
\* one group, keeps its handle when it moves, and its handle is not given to
\* another one (storage.cpp:42-127, :489-585, entities.cpp:38-76).
ImplementsEntitySet == Abstract!Spec

----------------------------------------------------------------------------
(* Liveness.                                                               *)

\* The loops of allocate(), cast() and clear() end, while the pool has chunks.
CallsReturn == (~Idle) ~> (Idle \/ \A c \in Chunks : group[c] # NoGroup)
=============================================================================
