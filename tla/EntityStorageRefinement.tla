----------------------- MODULE EntityStorageRefinement -----------------------
(***************************************************************************)
(* The entity storage implements EntitySet: every step of a call creates   *)
(* entities in a group, moves some from one group to another, lets some    *)
(* die, or does nothing that a user of handles can tell.                   *)
(*                                                                         *)
(* EntityStorageProofs has the invariant, and what each step does.         *)
(***************************************************************************)
EXTENDS EntityStorageProofs

\* A step of the set of entities, or none.
AbstractStep == [Abstract!Next]_(Abstract!vars)

\* The versions of the handles.
Version == [id \in Ids |-> entries[id].version]

\* A step that changes neither homes nor versions is a stutter.
LEMMA NoAbstractStep ==
  ASSUME Home' = Home, Version' = Version
  PROVE  AbstractStep
BY DEF AbstractStep, Abstract!vars, Version

(* Where an entity is, and that it is in a group exactly when it has a     *)
(* chunk.                                                                  *)
LEMMA HomeOf ==
  ASSUME StorageInv, NEW id \in Ids
  PROVE  /\ entries[id].chunk = NoChunk => Home[id] = NoGroup
         /\ entries[id].chunk # NoChunk => Home[id] = group[entries[id].chunk] /\ Home[id] \in Groups
BY HomeFacts DEF Home

(* A call that begins, and a chunk that is claimed.                        *)
LEMMA BeginningsKeep ==
  ASSUME UNCHANGED <<registry, group>>
  PROVE  AbstractStep
<1>1. Home' = Home /\ Version' = Version
  BY DEF Home, Version, registry
<1>2. QED BY <1>1, NoAbstractStep

\* Claiming a chunk is a stutter.
LEMMA NewChunkKeeps ==
  ASSUME StorageInv, NEW c \in Chunks, NewChunk(c)
  PROVE  AbstractStep
<1>1. Version' = Version
  BY DEF Version, NewChunk, registry
<1>2. QED BY <1>1, NewChunkHome, NoAbstractStep

(* The end of a cast: entities move up in the chunk, or it is given back.  *)
LEMMA EndCastKeeps ==
  ASSUME StorageInv, EndCast
  PROVE  AbstractStep
<1>1. PICK d, s : d = task.chunk /\ s = Remaining(d, task.start, task.count)
  OBVIOUS
<1>2. /\ \A e \in Chunks : ents'[e] # <<>> => group'[e] = group[e]
      /\ \A id \in Ids : entries'[id].chunk = entries[id].chunk /\ entries'[id].version = entries[id].version
      /\ Agree(entries', ents', PlacesOf(ents'))
  BY <1>1, EndCastFacts
<1>3. ASSUME NEW id \in Ids, entries[id].chunk # NoChunk
      PROVE  group'[entries[id].chunk] = group[entries[id].chunk]
  <2>1. entries[id].chunk \in Chunks
    BY <1>3, HomeFacts
  <2>2. entries'[id].index + 1 \in PlacesOf(ents')[entries[id].chunk]
    BY <1>2, <1>3 DEF Agree
  <2>3. ents'[entries[id].chunk] # <<>>
    BY <2>1, <2>2 DEF PlacesOf
  <2>4. QED BY <1>2, <2>1, <2>3
<1>4. Home' = Home
  BY <1>2, <1>3 DEF Home
<1>5. Version' = Version
  BY <1>2 DEF Version
<1>6. QED BY <1>4, <1>5, NoAbstractStep

(* A part of an allocation: entities that nobody has are in the group.     *)
LEMMA AllocateViewCreates ==
  ASSUME StorageInv, AllocateView
  PROVE  AbstractStep
<1>1. PICK g, c, n : g = task.group /\ c = FirstFree(g) /\ n = Fitting
  OBVIOUS
<1>2. PICK t, s : t = NewEntities(n) /\ s = ents[c] \o t
  OBVIOUS
<1>3. /\ g \in Groups /\ c \in Chunks /\ group[c] = g /\ n \in Nat \ {0}
      /\ \A i \in 1..n : t[i][1] \in Ids /\ entries[t[i][1]].chunk = NoChunk
      /\ \A i \in 1..n : entries'[t[i][1]].chunk = c
      /\ \A id \in Ids : (\A i \in 1..n : t[i][1] # id) => entries'[id] = entries[id]
      /\ \A id \in Ids : entries'[id].version = entries[id].version
      /\ \A d \in Chunks : group'[d] = group[d]
  BY <1>1, <1>2, AllocateViewFacts
<1>4. DEFINE some == {t[i][1] : i \in 1..n}
<1>5. some \in (SUBSET Ids) \ {{}}
  <2>1. t[1][1] \in some
    BY <1>3
  <2>2. QED BY <1>3, <2>1
<1>6. ASSUME NEW id \in some
      PROVE  id \in Ids /\ Home[id] = NoGroup /\ Home'[id] = g
  <2>1. id \in Ids /\ entries[id].chunk = NoChunk /\ entries'[id].chunk = c
    BY <1>3, <1>6
  <2>2. QED BY <1>3, <2>1, ConstantsTyped DEF Home
<1>7. ASSUME NEW id \in Ids, id \notin some
      PROVE  Home'[id] = Home[id]
  <2>1. entries'[id] = entries[id]
    BY <1>3, <1>7
  <2>2. entries[id].chunk # NoChunk => group'[entries[id].chunk] = group[entries[id].chunk]
    BY <1>3, HomeFacts
  <2>3. QED BY <2>1, <2>2 DEF Home
<1>8. Home' = [id \in Ids |-> IF id \in some THEN g ELSE Home[id]]
  <2>1. Home' = [id \in Ids |-> Home'[id]]
    BY DEF Home
  <2>. HIDE DEF some
  <2>2. QED BY <1>6, <1>7, <2>1
<1>9. Version' = Version
  BY <1>3 DEF Version
<1>10. Abstract!Create(some, g)
  <2>. HIDE DEF some
  <2>1. QED BY <1>6, <1>8, <1>9 DEF Abstract!Create, Abstract!Going, Version
<1>11. Abstract!Next
  <2>. HIDE DEF some
  <2>1. QED BY <1>3, <1>5, <1>10 DEF Abstract!Next
<1>12. QED BY <1>11 DEF AbstractStep

(* A part of a cast: entities of a group are in another one.               *)
LEMMA CastPartMoves ==
  ASSUME StorageInv, CastPart
  PROVE  AbstractStep
<1>1. PICK g, c, d, first, b, n, t, s : Part(g, c, d, first, b, n, t, s)
  <2>1. PICK g, d, first, b, n : /\ g = task.group /\ d = task.chunk /\ first = task.start + 1
                                 /\ b = task.start + task.count - task.left /\ n = Fitting
    OBVIOUS
  <2>2. PICK c, t : c = FirstFree(g) /\ t = SubSeq(ents[d], b + 1, b + n)
    OBVIOUS
  <2>3. QED BY <2>1, <2>2 DEF Part
<1>2. /\ g \in Groups /\ c \in Chunks /\ group[c] = g /\ n \in Nat \ {0}
      /\ d \in Chunks /\ group[d] \in Groups
  BY <1>1, PartFacts
<1>3. /\ Len(t) = n
      /\ \A i \in 1..n : t[i][1] \in Ids /\ entries[t[i][1]].chunk = d
      /\ Arrived(entries, entries', c, t)
      /\ \A e \in Chunks : group'[e] = group[e]
  BY <1>1, CastPartFacts
<1>4. /\ \A i \in 1..n : entries'[t[i][1]].chunk = c
      /\ \A id \in Ids : (\A i \in 1..n : t[i][1] # id) => entries'[id] = entries[id]
      /\ \A id \in Ids : entries'[id].version = entries[id].version
  BY <1>3 DEF Arrived
<1>5. DEFINE some == {t[i][1] : i \in 1..n}
<1>6. some \in (SUBSET Ids) \ {{}}
  <2>1. t[1][1] \in some
    BY <1>2
  <2>2. QED BY <1>3, <2>1
<1>7. ASSUME NEW id \in some
      PROVE  id \in Ids /\ Home[id] = group[d] /\ Home'[id] = g
  <2>1. id \in Ids /\ entries[id].chunk = d /\ entries'[id].chunk = c
    BY <1>3, <1>4, <1>7
  <2>2. QED BY <1>2, <1>3, <2>1, ConstantsTyped DEF Home
<1>8. ASSUME NEW id \in Ids, id \notin some
      PROVE  Home'[id] = Home[id]
  <2>1. entries'[id] = entries[id]
    BY <1>4, <1>8
  <2>2. entries[id].chunk # NoChunk => group'[entries[id].chunk] = group[entries[id].chunk]
    BY <1>3, HomeFacts
  <2>3. QED BY <2>1, <2>2 DEF Home
<1>9. Home' = [id \in Ids |-> IF id \in some THEN g ELSE Home[id]]
  <2>1. Home' = [id \in Ids |-> Home'[id]]
    BY DEF Home
  <2>. HIDE DEF some
  <2>2. QED BY <1>7, <1>8, <2>1
<1>10. Version' = Version
  BY <1>4 DEF Version
<1>11. Abstract!Move(some, group[d], g)
  <2>. HIDE DEF some
  <2>1. group[d] # NoGroup
    BY <1>2, ConstantsTyped
  <2>2. QED BY <1>7, <1>9, <1>10, <2>1 DEF Abstract!Move, Abstract!Going, Version
<1>12. Abstract!Next
  <2>. HIDE DEF some
  <2>1. QED BY <1>2, <1>6, <1>11 DEF Abstract!Next
<1>13. QED BY <1>12 DEF AbstractStep

(* A view that is freed: its entities die.                                 *)
LEMMA FreeEntitiesDie ==
  ASSUME StorageInv, NEW c, NEW start, NEW count, GoodView(c, start, count),
         FreeEntities(c, start, count), ~ Filling, task.kind # "cast"
  PROVE  AbstractStep
<1>1. PICK s : s = Remaining(c, start, count)
  OBVIOUS
<1>2. c \in Chunks /\ group[c] \in Groups /\ start \in Nat /\ count \in Nat \ {0}
  BY DEF GoodView
<1>3. /\ ListsInv'
      /\ \A d \in Chunks : group'[d] = IF d = c /\ s = <<>> THEN NoGroup ELSE group[d]
      /\ Agree(entries', ents', PlacesOf(ents'))
      /\ \A i \in (start + 1)..(start + count) :
           ents[c][i][1] \in Ids /\ entries[ents[c][i][1]].chunk = c
      /\ \A id \in Ids :
           IF \E i \in (start + 1)..(start + count) : ents[c][i][1] = id
           THEN entries'[id].chunk = NoChunk /\ entries'[id].version = NextVersion(entries[id].version)
           ELSE entries'[id].chunk = entries[id].chunk /\ entries'[id].version = entries[id].version
  BY <1>1, FreeEntitiesFacts
<1>4. DEFINE some == {ents[c][i][1] : i \in (start + 1)..(start + count)}
<1>5. some \in (SUBSET Ids) \ {{}}
  <2>1. start + 1 \in (start + 1)..(start + count)
    BY <1>2
  <2>2. QED BY <1>3, <2>1
<1>6. ASSUME NEW id \in some
      PROVE  /\ id \in Ids /\ Home[id] = group[c] /\ Home'[id] = NoGroup
             /\ Version'[id] = NextVersion(Version[id])
  <2>1. /\ id \in Ids /\ entries[id].chunk = c /\ entries'[id].chunk = NoChunk
        /\ entries'[id].version = NextVersion(entries[id].version)
    BY <1>3, <1>6
  <2>2. QED BY <1>2, <2>1, ConstantsTyped DEF Home, Version
<1>7. ASSUME NEW id \in Ids, id \notin some
      PROVE  Home'[id] = Home[id] /\ Version'[id] = Version[id]
  <2>1. entries'[id].chunk = entries[id].chunk /\ entries'[id].version = entries[id].version
    BY <1>3, <1>7
  <2>2. ASSUME entries[id].chunk # NoChunk
        PROVE  group'[entries[id].chunk] = group[entries[id].chunk]
    <3>1. entries[id].chunk \in Chunks
      BY <2>2, HomeFacts
    <3>2. entries'[id].index + 1 \in PlacesOf(ents')[entries[id].chunk]
      BY <1>3, <2>1, <2>2 DEF Agree
    <3>3. ents'[entries[id].chunk] # <<>>
      BY <3>1, <3>2 DEF PlacesOf
    <3>4. group'[entries[id].chunk] # NoGroup
      BY <1>3, <3>1, <3>3 DEF ListsInv
    <3>5. QED BY <1>3, <3>1, <3>4
  <2>3. QED BY <2>1, <2>2 DEF Home, Version
<1>8. /\ Home' = [id \in Ids |-> IF id \in some THEN NoGroup ELSE Home[id]]
      /\ Version' = [id \in Ids |-> IF id \in some THEN NextVersion(Version[id]) ELSE Version[id]]
  <2>1. Home' = [id \in Ids |-> Home'[id]] /\ Version' = [id \in Ids |-> Version'[id]]
    BY DEF Home, Version
  <2>. HIDE DEF some
  <2>2. QED BY <1>6, <1>7, <2>1
<1>9. PICK g \in Groups : g = group[c]
  BY <1>2
<1>10. Abstract!Die(some, g)
  <2>. HIDE DEF some
  <2>1. Abstract!Going(some, g, NoGroup)
    BY <1>6, <1>8, <1>9 DEF Abstract!Going
  <2>2. QED BY <1>8, <2>1 DEF Abstract!Die, Version, Abstract!NextVersion, NextVersion
<1>11. Abstract!Next
  <2>. HIDE DEF some
  <2>1. QED BY <1>5, <1>9, <1>10 DEF Abstract!Next
<1>12. QED BY <1>11 DEF AbstractStep

\* Freeing the entities of a view is Die.
LEMMA ViewDies ==
  ASSUME StorageInv, NEW c \in Chunks, NEW start \in Nat, NEW count \in Nat,
         Idle, IsView(c, start, count), FreeEntities(c, start, count)
  PROVE  AbstractStep
<1>1. task.kind = "none"
  BY DEF Idle, NoTask
<1>2. ~ Filling /\ task.kind # "cast"
  BY <1>1 DEF Filling
<1>3. QED BY <1>2, ViewIsGood, FreeEntitiesDie

\* So is clearing a chunk.
LEMMA ClearChunkDies ==
  ASSUME StorageInv, ClearChunk
  PROVE  AbstractStep
<1>1. PICK g, c, l : g = task.group /\ c = Head(chunks[g]) /\ l = Len(ents[c])
  OBVIOUS
<1>2. /\ ~ Filling /\ task.kind = "clear" /\ GoodView(c, 0, l) /\ FreeEntities(c, 0, l)
  BY <1>1, ClearChunkFacts
<1>3. task.kind # "cast"
  BY <1>2
<1>4. QED BY <1>2, <1>3, FreeEntitiesDie

(* A chunk that is handed over: its entities are in the other group.       *)
LEMMA ChunkMoves ==
  ASSUME StorageInv, ~ Filling, task.kind # "cast", NEW c \in Chunks, NEW g \in Groups, HandsOver(c, g)
  PROVE  AbstractStep
<1>1. /\ group[c] \in Groups \ {g} /\ entries' = entries
      /\ \A d \in Chunks : group'[d] = IF d = c THEN g ELSE group[d]
  BY DEF HandsOver, MoveChunk, registry, StorageInv, ListsTyped
<1>2. DEFINE some == {id \in Ids : entries[id].chunk = c}
<1>3. some \in (SUBSET Ids) \ {{}}
  <2>1. ents[c] # <<>> /\ ents[c] \in Seq(Entity)
    <3>1. group[c] # NoGroup
      BY <1>1, ConstantsTyped
    <3>2. ents[c] # <<>>
      BY <3>1, NoneEmpty
    <3>3. QED BY <3>2 DEF StorageInv, ListsTyped, EntsType
  <2>2. 1 \in 1..Len(ents[c])
    BY <2>1, LenProperties, EmptySeq
  <2>3. ents[c][1][1] \in Ids
    BY <2>2, PlaceFacts DEF StorageInv, ListsTyped
  <2>4. entries[ents[c][1][1]].chunk = c
    <3>1. 1 \in PlacesNow[c]
      BY <2>2, PlaceFacts DEF PlacesNow, PlacesOf, StorageInv, ListsTyped
    <3>2. QED BY <3>1 DEF StorageInv, EntriesInv, Agree, At
  <2>5. QED BY <2>3, <2>4
<1>4. ASSUME NEW id \in some
      PROVE  id \in Ids /\ Home[id] = group[c] /\ Home'[id] = g
  <2>1. id \in Ids /\ entries[id].chunk = c /\ entries'[id].chunk = c
    BY <1>1, <1>4
  <2>2. QED BY <1>1, <2>1, ConstantsTyped DEF Home
<1>5. ASSUME NEW id \in Ids, id \notin some
      PROVE  Home'[id] = Home[id]
  <2>1. entries'[id] = entries[id] /\ entries[id].chunk # c
    BY <1>1, <1>5
  <2>2. entries[id].chunk # NoChunk => group'[entries[id].chunk] = group[entries[id].chunk]
    BY <1>1, <2>1, HomeFacts
  <2>3. QED BY <2>1, <2>2 DEF Home
<1>6. Home' = [id \in Ids |-> IF id \in some THEN g ELSE Home[id]]
  <2>1. Home' = [id \in Ids |-> Home'[id]]
    BY DEF Home
  <2>. HIDE DEF some
  <2>2. QED BY <1>4, <1>5, <2>1
<1>7. Version' = Version
  BY <1>1 DEF Version
<1>8. Abstract!Move(some, group[c], g)
  <2>. HIDE DEF some
  <2>1. group[c] # NoGroup
    BY <1>1, ConstantsTyped
  <2>2. QED BY <1>4, <1>6, <1>7, <2>1 DEF Abstract!Move, Abstract!Going, Version
<1>9. Abstract!Next
  <2>. HIDE DEF some
  <2>1. QED BY <1>1, <1>3, <1>8 DEF Abstract!Next
<1>10. QED BY <1>9 DEF AbstractStep

-----------------------------------------------------------------------------

\* An empty storage has no entities.
LEMMA InitAbstract == Init => Abstract!Init
BY DEF Init, Abstract!Init, Home, Free

\* Every step is a step of EntitySet, or none of it.
LEMMA NextAbstract ==
  ASSUME StorageInv, ~ Crowds, Next
  PROVE  AbstractStep
<1>1. ASSUME NEW g \in Groups, NEW n \in 1..MaxCount, Allocate(g, n)
      PROVE  AbstractStep
  BY <1>1, BeginningsKeep DEF Allocate, lists
<1>2. ASSUME NEW c \in Chunks, NEW start \in 0..(MaxEntities - 1), NEW count \in 1..MaxEntities,
             \/ Destroy(c, start, count)
             \/ CastToNoGroup(c, start, count)
             \/ \E g \in Groups : Cast(c, start, count, g)
      PROVE  AbstractStep
  <2>1. start \in Nat /\ count \in Nat
    BY ConstantsTyped
  <2>2. Idle /\ IsView(c, start, count)
    BY <1>2 DEF Destroy, CastToNoGroup, Cast
  <2>3. CASE FreeEntities(c, start, count)
    BY <2>1, <2>2, <2>3, ViewDies
  <2>4. CASE \E g \in Groups : CastView(c, start, count, g)
    <3>1. PICK g \in Groups : CastView(c, start, count, g)
      BY <2>4
    <3>2. HandsOver(c, g) \/ UNCHANGED <<registry, ents, group>>
      BY <2>1, <2>2, <3>1, CastViewStep
    <3>3. ~ Filling /\ task.kind # "cast"
      BY <2>2 DEF Idle, NoTask, Filling
    <3>4. QED BY <3>2, <3>3, ChunkMoves, BeginningsKeep
  <2>5. Dead[group[c]] # NoGroup => Dead[group[c]] \in Groups
    <3>1. group[c] \in Groups
      BY <2>1, <2>2, ViewIsGood DEF GoodView
    <3>2. Dead \in [Groups -> Groups \cup {NoGroup}]
      BY ConstantsTyped
    <3>3. QED BY <3>1, <3>2
  <2>6. QED BY <1>2, <2>3, <2>4, <2>5 DEF Destroy, CastToNoGroup, Cast
<1>3. ASSUME NEW from \in Groups, NEW g \in Groups, CastGroup(from, g)
      PROVE  AbstractStep
  BY <1>3, BeginningsKeep DEF CastGroup, lists
<1>4. ASSUME NEW g \in Groups, Clear(g)
      PROVE  AbstractStep
  BY <1>4, BeginningsKeep DEF Clear, lists
<1>5. CASE Step
  <2>1. CASE AdoptChunk
    <3>1. PICK g, c : g = task.group /\ c = Head(chunks[task.from])
      OBVIOUS
    <3>2. c \in Chunks /\ g \in Groups /\ HandsOver(c, g)
      BY <2>1, <3>1, AdoptChunkStep
    <3>3. ~ Filling /\ task.kind # "cast"
      BY <2>1 DEF AdoptChunk, Filling
    <3>4. QED BY <3>2, <3>3, ChunkMoves
  <2>2. QED BY <1>5, <2>1, NewChunkKeeps, AllocateViewCreates, CastPartMoves, EndCastKeeps,
            ClearChunkDies DEF Step
<1>6. QED BY <1>1, <1>2, <1>3, <1>4, <1>5 DEF Next

(* However chunks are filled, split, compacted, handed over and given back,*)
(* an entity is in one group, keeps its handle when it moves, and its      *)
(* handle is not given to another one, up to where add_chunk is asked to   *)
(* put a full chunk before two or more that are not full                   *)
(* (storage.cpp:42-127, :489-585, entities.cpp:38-76).                     *)
THEOREM EntitySetImplemented ==
  TidySpec => ImplementsEntitySet
<1>1. Init => Abstract!Init
  BY InitAbstract
<1>2. StorageInv /\ [Next /\ ~ Crowds]_vars => AbstractStep
  <2>1. CASE StorageInv /\ Next /\ ~ Crowds
    BY <2>1, NextAbstract
  <2>2. CASE UNCHANGED vars
    BY <2>2, BeginningsKeep DEF vars, registry
  <2>3. QED BY <2>1, <2>2
<1>3. QED BY <1>1, <1>2, StorageInvariant, PTL DEF TidySpec, ImplementsEntitySet, Abstract!Spec, AbstractStep
=============================================================================
