------------------------- MODULE EntityStorageProofs -------------------------
(***************************************************************************)
(* Proofs about EntityStorage for any groups, capacities and numbers of    *)
(* entities and chunks.  Groups may share an archetype and hand chunks over*)
(* as they are, a tracked group and its dead group for one; what is proved *)
(* is about TidySpec, whose lists lose no chunk in add_chunk.              *)
(***************************************************************************)
EXTENDS EntityStorage, SequenceLemmas

EntryType == [chunk : Chunks \cup {NoChunk}, index : Nat, version : Versions]
EntriesType == [Ids -> EntryType]
EntsType == [Chunks -> Seq(Entity)]

-----------------------------------------------------------------------------
(* Entries and places: lemmas about Placed, Freed and Remaining.           *)

\* Every place of a chunk, and every place without first..last of chunk d.
PlacesOf(en) == [c \in Chunks |-> DOMAIN en[c]]
PlacesBut(en, d, first, last) ==
  [c \in Chunks |-> IF c = d THEN DOMAIN en[c] \ (first..last) ELSE DOMAIN en[c]]

\* Entry e says that its entity is at place i of chunk c and has version v.
At(e, c, i, v) == e.chunk = c /\ e.index = i - 1 /\ e.version = v

\* What stands at the places P[c] of a chunk c is registered there, and what is
\* registered is there.
Agree(es, en, P) ==
  /\ \A c \in Chunks : \A i \in P[c] :
       At(es[en[c][i][1]], c, i, en[c][i][2])
  /\ \A id \in Ids : es[id].chunk # NoChunk =>
       /\ es[id].index + 1 \in P[es[id].chunk]
       /\ en[es[id].chunk][es[id].index + 1][1] = id

\* No entity is twice in s[first..last].
Apart(s, first, last) == \A i, j \in first..last : s[i][1] = s[j][1] => i = j

\* The entities s[first..last] have the versions of their entries.
Current(es, s, first, last) == \A i \in first..last : es[s[i][1]].version = s[i][2]

\* Entries es2 have the entities s[first..last] at these places of chunk c, and
\* the others, and all versions, as es.
Moved(es, es2, c, s, first, last) ==
  /\ \A i \in first..last : At(es2[s[i][1]], c, i, s[i][2])
  /\ \A id \in Ids : (\A i \in first..last : s[i][1] # id) => es2[id] = es[id]
  /\ \A id \in Ids : es2[id].version = es[id].version

\* In entries es2 the entities s[first..last] are freed.
Gone(es, es2, s, first, last) ==
  \A id \in Ids : IF \E i \in first..last : s[i][1] = id
                  THEN es2[id].chunk = NoChunk /\ es2[id].version = NextVersion(es[id].version)
                  ELSE es2[id] = es[id]

Within(P, en) == \A d \in Chunks : P[d] \subseteq DOMAIN en[d]

\* Places P2 are P without those of the entities s[first..last], and with
\* first..last of chunk c, which s keeps otherwise.
Shifted(P, P2, en, c, s, first, last) ==
  /\ first..last \subseteq P2[c] \cap Nat
  /\ \A d \in Chunks : \A i \in P2[d] :
       ~ (d = c /\ i \in first..last) =>
         /\ i \in P[d] /\ (d = c => s[i] = en[c][i])
         /\ \A j \in first..last : s[j][1] # en[d][i][1]
  /\ \A d \in Chunks : \A i \in P[d] :
       (\A j \in first..last : s[j][1] # en[d][i][1])
         => i \in P2[d] /\ ~ (d = c /\ i \in first..last)

(* Entities that are placed are registered at their places, others stay.   *)
LEMMA PlacedFacts ==
  ASSUME NEW es \in EntriesType, NEW c \in Chunks,
         NEW s \in Seq(Entity), NEW first \in Nat \ {0}, NEW last \in Nat, last <= Len(s),
         Apart(s, first, last), Current(es, s, first, last)
  PROVE  /\ Placed(es, c, s, first, last) \in EntriesType
         /\ Moved(es, Placed(es, c, s, first, last), c, s, first, last)
<1> DEFINE new == Placed(es, c, s, first, last)
           at(id) == CHOOSE i \in first..last : s[i][1] = id
           put(e, i) == [e EXCEPT !.chunk = c, !.index = i]
<1>1. \A i \in first..last : i \in 1..Len(s) /\ s[i] \in Entity /\ s[i][1] \in Ids
  <2>1. \A i \in first..last : i \in 1..Len(s)
    BY LenProperties
  <2>2. \A i \in 1..Len(s) : s[i] \in Entity
    BY ElementOfSeq
  <2>3. QED BY <2>1, <2>2 DEF Entity
<1>2. \A i \in first..last : at(s[i][1]) = i
  BY DEF Apart
<1>3. \A id \in Ids : new[id] =
        IF \E i \in first..last : s[i][1] = id THEN put(es[id], at(id) - 1) ELSE es[id]
  BY DEF Placed
<1>4. new = [id \in Ids |-> new[id]]
  BY DEF Placed
<1>5. ASSUME NEW e \in EntryType, NEW i \in Nat
      PROVE  /\ put(e, i) \in EntryType
             /\ put(e, i).chunk = c /\ put(e, i).index = i /\ put(e, i).version = e.version
  BY DEF EntryType
<1> HIDE DEF new, at, put
<1>6. ASSUME NEW i \in first..last
      PROVE  /\ At(new[s[i][1]], c, i, es[s[i][1]].version)
             /\ new[s[i][1]] \in EntryType
  <2>1. i - 1 \in Nat /\ s[i][1] \in Ids /\ es[s[i][1]] \in EntryType
    BY <1>1 DEF EntriesType
  <2>2. new[s[i][1]] = put(es[s[i][1]], i - 1)
    BY <1>2, <1>3, <2>1
  <2>3. PICK e \in EntryType, k \in Nat : e = es[s[i][1]] /\ k = i - 1
    BY <2>1
  <2>4. /\ put(e, k) \in EntryType
        /\ put(e, k).chunk = c /\ put(e, k).index = k /\ put(e, k).version = e.version
    BY <1>5
  <2>5. new[s[i][1]] = put(e, k)
    BY <2>2, <2>3
  <2>6. At(new[s[i][1]], c, i, e.version) /\ new[s[i][1]] \in EntryType
    BY <2>3, <2>4, <2>5 DEF At
  <2>7. QED BY <2>3, <2>6
<1>7. \A id \in Ids : (\A i \in first..last : s[i][1] # id) => new[id] = es[id]
  BY <1>3
<1>8. ASSUME NEW id \in Ids PROVE new[id] \in EntryType /\ new[id].version = es[id].version
  <2>1. CASE \E i \in first..last : s[i][1] = id
    BY <1>6, <2>1 DEF At
  <2>2. CASE \A i \in first..last : s[i][1] # id
    BY <1>7, <2>2 DEF EntriesType
  <2>3. QED BY <2>1, <2>2
<1>9. new \in EntriesType
  BY <1>4, <1>8 DEF EntriesType
<1>10. \A i \in first..last : At(new[s[i][1]], c, i, s[i][2])
  BY <1>6 DEF Current
<1>11. Moved(es, new, c, s, first, last)
  BY <1>7, <1>8, <1>10 DEF Moved
<1>12. QED BY <1>9, <1>11 DEF new

(* Entities that are freed have no chunk and the next version.             *)
LEMMA FreedFacts ==
  ASSUME NEW es \in EntriesType, NEW s, NEW first, NEW last,
         \A id \in Ids : es[id].version < TransientVersion
  PROVE  /\ Freed(es, s, first, last) \in EntriesType
         /\ \A id \in Ids : Freed(es, s, first, last)[id].version < TransientVersion
         /\ Gone(es, Freed(es, s, first, last), s, first, last)
<1> DEFINE new == Freed(es, s, first, last)
           gone(id) == \E i \in first..last : s[i][1] = id
<1>1. ASSUME NEW v \in Versions, v < TransientVersion
      PROVE  NextVersion(v) \in Versions /\ NextVersion(v) < TransientVersion
  <2>1. TransientVersion \in Nat \ {0}
    BY ConstantsTyped
  <2>2. QED BY <1>1, <2>1 DEF NextVersion, Versions
<1>2. ASSUME NEW v \in Versions
      PROVE  /\ [Free EXCEPT !.version = v] \in EntryType
             /\ [Free EXCEPT !.version = v].chunk = NoChunk
             /\ [Free EXCEPT !.version = v].version = v
  BY DEF Free, EntryType
<1>3. /\ \A id \in Ids : new[id] =
            IF gone(id) THEN [Free EXCEPT !.version = NextVersion(es[id].version)] ELSE es[id]
      /\ new = [id \in Ids |-> new[id]]
  BY DEF Freed
<1> HIDE DEF new, gone
<1>4. ASSUME NEW id \in Ids
      PROVE  /\ new[id] \in EntryType /\ new[id].version < TransientVersion
             /\ IF gone(id) THEN new[id].chunk = NoChunk /\ new[id].version = NextVersion(es[id].version)
                ELSE new[id] = es[id]
  <2>1. es[id] \in EntryType /\ es[id].version \in Versions /\ es[id].version < TransientVersion
    BY DEF EntriesType, EntryType
  <2>2. NextVersion(es[id].version) \in Versions /\ NextVersion(es[id].version) < TransientVersion
    BY <1>1, <2>1
  <2>3. CASE gone(id)
    BY ONLY <1>2, <1>3, <2>2, <2>3
  <2>4. CASE ~ gone(id)
    BY <1>3, <2>1, <2>4
  <2>5. QED BY <2>3, <2>4
<1>5. new \in EntriesType
  BY <1>3, <1>4 DEF EntriesType
<1>6. QED BY <1>4, <1>5 DEF Gone, new, gone

(* When entities are moved and P2 has their new places and those of the    *)
(* others, entries and chunks agree.                                       *)
LEMMA MovedAgree ==
  ASSUME NEW es \in EntriesType, NEW en \in EntsType,
         NEW P, Within(P, en), Agree(es, en, P),
         NEW c \in Chunks, NEW s, NEW first, NEW last,
         NEW new \in EntriesType, Moved(es, new, c, s, first, last),
         NEW P2, Shifted(P, P2, en, c, s, first, last)
  PROVE  Agree(new, [en EXCEPT ![c] = s], P2)
<1> DEFINE en2 == [en EXCEPT ![c] = s]
<1>1. /\ \A i \in first..last : At(new[s[i][1]], c, i, s[i][2])
      /\ \A id \in Ids : (\A i \in first..last : s[i][1] # id) => new[id] = es[id]
  BY DEF Moved
<1>2. \A d \in Chunks : en2[d] = IF d = c THEN s ELSE en[d]
  BY DEF EntsType
<1>3. \A d \in Chunks : \A i \in P[d] : en[d][i] \in Entity /\ en[d][i][1] \in Ids
  <2>1. \A d \in Chunks : \A i \in DOMAIN en[d] : en[d][i] \in Entity
    BY ElementOfSeq, LenProperties DEF EntsType
  <2>2. QED BY <2>1 DEF Entity, Within
<1>4. /\ first..last \subseteq P2[c] \cap Nat
      /\ \A d \in Chunks : \A i \in P2[d] :
           ~ (d = c /\ i \in first..last) =>
             /\ i \in P[d] /\ (d = c => s[i] = en[c][i])
             /\ \A j \in first..last : s[j][1] # en[d][i][1]
      /\ \A d \in Chunks : \A i \in P[d] :
           (\A j \in first..last : s[j][1] # en[d][i][1])
             => i \in P2[d] /\ ~ (d = c /\ i \in first..last)
  BY DEF Shifted
<1> HIDE DEF en2
<1>5. ASSUME NEW d \in Chunks, NEW i \in P2[d]
      PROVE  At(new[en2[d][i][1]], d, i, en2[d][i][2])
  <2>1. CASE d = c /\ i \in first..last
    BY <1>1, <1>2, <2>1
  <2>2. CASE ~ (d = c /\ i \in first..last)
    <3>1. i \in P[d] /\ en2[d][i] = en[d][i] /\ (\A j \in first..last : s[j][1] # en[d][i][1])
      BY <1>2, <1>4, <2>2
    <3>2. new[en[d][i][1]] = es[en[d][i][1]]
      BY <1>1, <1>3, <3>1
    <3>3. At(es[en[d][i][1]], d, i, en[d][i][2])
      BY <3>1 DEF Agree
    <3>4. QED BY <3>1, <3>2, <3>3
  <2>3. QED BY <2>1, <2>2
<1>6. ASSUME NEW id \in Ids, new[id].chunk # NoChunk
      PROVE  /\ new[id].index + 1 \in P2[new[id].chunk]
             /\ en2[new[id].chunk][new[id].index + 1][1] = id
  <2>1. CASE \E i \in first..last : s[i][1] = id
    <3>1. PICK i \in first..last : s[i][1] = id
      BY <2>1
    <3>2. new[id].chunk = c /\ new[id].index + 1 = i
      BY <1>1, <3>1 DEF At
    <3>3. QED BY <1>2, <1>4, <3>1, <3>2
  <2>2. CASE \A i \in first..last : s[i][1] # id
    <3> DEFINE d == es[id].chunk
               i == es[id].index + 1
    <3>1. new[id] = es[id]
      BY <1>1, <2>2
    <3>2. d \in Chunks /\ i \in P[d] /\ en[d][i][1] = id
      BY <1>6, <3>1 DEF Agree, EntriesType, EntryType
    <3> HIDE DEF d, i
    <3>3. i \in P2[d] /\ ~ (d = c /\ i \in first..last)
      BY <1>4, <2>2, <3>2
    <3>4. d = c => s[i] = en[c][i]
      BY <1>4, <2>2, <3>2, <3>3
    <3>5. en2[d][i][1] = id
      BY <1>2, <3>2, <3>4
    <3>6. QED BY <3>1, <3>3, <3>5 DEF d, i
  <2>3. QED BY <2>1, <2>2
<1>7. QED BY <1>5, <1>6 DEF Agree, en2

(* When the entities at first..last of chunk d are freed, the others agree. *)
LEMMA FreedAgree ==
  ASSUME NEW es \in EntriesType, NEW en \in EntsType, NEW d \in Chunks,
         NEW first \in Nat \ {0}, NEW last \in Nat, last <= Len(en[d]),
         Agree(es, en, PlacesOf(en)),
         NEW new \in EntriesType,
         Gone(es, new, en[d], first, last)
  PROVE  Agree(new, en, PlacesBut(en, d, first, last))
<1> DEFINE P == PlacesBut(en, d, first, last)
           gone(id) == \E i \in first..last : en[d][i][1] = id
<1>1. \A id \in Ids : IF gone(id) THEN new[id].chunk = NoChunk ELSE new[id] = es[id]
  BY DEF Gone
<1>2. \A c \in Chunks : P[c] = IF c = d THEN DOMAIN en[c] \ (first..last) ELSE DOMAIN en[c]
  BY DEF PlacesBut
<1>3. /\ \A c \in Chunks : \A i \in DOMAIN en[c] :
           At(es[en[c][i][1]], c, i, en[c][i][2])
      /\ \A id \in Ids : es[id].chunk # NoChunk =>
           /\ es[id].index + 1 \in DOMAIN en[es[id].chunk]
           /\ en[es[id].chunk][es[id].index + 1][1] = id
  <2>1. \A id \in Ids : es[id].chunk # NoChunk => es[id].chunk \in Chunks
    BY DEF EntriesType, EntryType
  <2>2. QED BY <2>1 DEF Agree, PlacesOf
<1>4. \A c \in Chunks : \A i \in DOMAIN en[c] : i \in Nat /\ en[c][i][1] \in Ids
  BY ElementOfSeq, LenProperties DEF Entity, EntsType
<1>5. \A i \in first..last : i \in DOMAIN en[d]
  BY LenProperties DEF EntsType
<1> HIDE DEF P, gone
<1>6. ASSUME NEW c \in Chunks, NEW i \in P[c]
      PROVE  At(new[en[c][i][1]], c, i, en[c][i][2])
  <2>1. i \in DOMAIN en[c]
    BY <1>2
  <2>2. ~ gone(en[c][i][1])
    <3>1. SUFFICES ASSUME NEW j \in first..last, en[d][j][1] = en[c][i][1] PROVE FALSE
      BY DEF gone
    <3>2. d = c /\ j - 1 = i - 1
      <4>1. At(es[en[d][j][1]], d, j, en[d][j][2]) /\ At(es[en[c][i][1]], c, i, en[c][i][2])
        BY <1>3, <1>5, <2>1
      <4>2. QED BY <3>1, <4>1 DEF At
    <3>3. j = i
      BY <1>4, <1>5, <2>1, <3>2
    <3>4. QED BY <1>2, <3>2, <3>3
  <2>3. QED BY <1>1, <1>3, <1>4, <2>1, <2>2
<1>7. ASSUME NEW id \in Ids, new[id].chunk # NoChunk
      PROVE  /\ new[id].index + 1 \in P[new[id].chunk]
             /\ en[new[id].chunk][new[id].index + 1][1] = id
  <2>1. ~ gone(id) /\ new[id] = es[id]
    BY <1>1, <1>7
  <2>2. es[id].chunk \in Chunks
    BY <1>7, <2>1 DEF EntriesType, EntryType
  <2>3. es[id].index + 1 \in DOMAIN en[es[id].chunk] /\ en[es[id].chunk][es[id].index + 1][1] = id
    BY <1>3, <1>7, <2>1
  <2>4. ~ (es[id].chunk = d /\ es[id].index + 1 \in first..last)
    BY <2>1, <2>3 DEF gone
  <2>5. QED BY <1>2, <2>1, <2>2, <2>3, <2>4
<1>8. QED BY <1>6, <1>7 DEF Agree, P

(* An entity is at one place.                                              *)
LEMMA OnePlace ==
  ASSUME NEW es, NEW en \in EntsType,
         NEW P, Within(P, en), Agree(es, en, P),
         NEW c \in Chunks, NEW d \in Chunks, NEW i \in P[c], NEW j \in P[d],
         en[c][i][1] = en[d][j][1]
  PROVE  c = d /\ i = j
<1>1. At(es[en[c][i][1]], c, i, en[c][i][2]) /\ At(es[en[d][j][1]], d, j, en[d][j][2])
  BY DEF Agree
<1>2. c = d /\ i - 1 = j - 1
  BY <1>1 DEF At
<1>3. i \in Nat /\ j \in Nat
  BY LenProperties DEF EntsType, Within
<1>4. QED BY <1>2, <1>3

(* The last entities of the chunk move into the gap.                       *)
LEMMA RemainingFacts ==
  ASSUME ents \in EntsType, NEW c \in Chunks,
         NEW start \in Nat, NEW count \in Nat \ {0}, start + count <= Len(ents[c])
  PROVE  /\ Len(ents[c]) \in Nat /\ DOMAIN ents[c] = 1..Len(ents[c])
         /\ Moving(c, start, count) \in Nat /\ Moving(c, start, count) <= count
         /\ Moving(c, start, count) = count \/ Moving(c, start, count) = Len(ents[c]) - (start + count)
         /\ start + count + Moving(c, start, count) <= Len(ents[c])
         /\ Remaining(c, start, count) \in Seq(Entity)
         /\ Len(Remaining(c, start, count)) = Len(ents[c]) - count
         /\ DOMAIN Remaining(c, start, count) = 1..(Len(ents[c]) - count)
         /\ \A i \in 1..(Len(ents[c]) - count) :
              Remaining(c, start, count)[i] =
                IF i \in (start + 1)..(start + Moving(c, start, count))
                THEN ents[c][Len(ents[c]) - Moving(c, start, count) + i - start] ELSE ents[c][i]
<1> DEFINE L == Len(ents[c])
           m == Moving(c, start, count)
           s == Remaining(c, start, count)
<1>1. L \in Nat /\ DOMAIN ents[c] = 1..L /\ \A i \in 1..L : ents[c][i] \in Entity
  BY LenProperties, ElementOfSeq DEF EntsType
<1>2. m = IF count < L - (start + count) THEN count ELSE L - (start + count)
  BY DEF Moving, Lesser
<1>3. s = [i \in 1..(L - count) |->
            IF i \in (start + 1)..(start + m) THEN ents[c][L - m + i - start] ELSE ents[c][i]]
  BY DEF Remaining
<1> HIDE DEF L, m, s
<1>4. start + count <= L
  BY DEF L
<1>5. /\ m \in Nat /\ m <= count /\ (m = count \/ m = L - (start + count))
      /\ start + count + m <= L
  BY <1>1, <1>2, <1>4
<1>6. L - count \in Nat
  BY <1>1, <1>4
<1>7. \A i \in 1..(L - count) :
        (IF i \in (start + 1)..(start + m) THEN ents[c][L - m + i - start] ELSE ents[c][i]) \in Entity
  <2> SUFFICES ASSUME NEW i \in 1..(L - count)
               PROVE (IF i \in (start + 1)..(start + m) THEN ents[c][L - m + i - start] ELSE ents[c][i])
                       \in Entity
    OBVIOUS
  <2>1. i \in 1..L
    BY <1>1, <1>4
  <2>2. CASE i \in (start + 1)..(start + m)
    <3>1. L - m + i - start \in 1..L
      BY <1>1, <1>5, <2>2
    <3>2. QED BY <1>1, <2>2, <3>1
  <2>3. CASE i \notin (start + 1)..(start + m)
    BY <1>1, <2>1, <2>3
  <2>4. QED BY <2>2, <2>3
<1>8. s \in [1..(L - count) -> Entity] /\ DOMAIN s = 1..(L - count)
  BY <1>3, <1>7
<1>9. s \in Seq(Entity) /\ Len(s) = L - count
  BY <1>6, <1>8, SeqDef, LenProperties
<1>10. QED BY <1>1, <1>3, <1>5, <1>8, <1>9 DEF L, m, s

(* Once the gap is closed, entries and chunks agree, and entities have     *)
(* moved within the chunk only (dual_storage_t::free).                     *)
LEMMA FreeViewAgree ==
  ASSUME ents \in EntsType, NEW c \in Chunks,
         NEW start \in Nat, NEW count \in Nat \ {0}, start + count <= Len(ents[c]),
         NEW es \in EntriesType, Agree(es, ents, PlacesBut(ents, c, start + 1, start + count)),
         NEW s, s = Remaining(c, start, count),
         NEW new, new = Placed(es, c, s, start + 1, start + Moving(c, start, count)),
         NEW P2, P2 = PlacesOf([ents EXCEPT ![c] = s])
  PROVE  /\ new \in EntriesType
         /\ \A id \in Ids : new[id].chunk = es[id].chunk /\ new[id].version = es[id].version
         /\ Agree(new, [ents EXCEPT ![c] = s], P2)
<1> DEFINE P == PlacesBut(ents, c, start + 1, start + count)
<1>1. /\ Len(ents[c]) \in Nat /\ DOMAIN ents[c] = 1..Len(ents[c])
      /\ Moving(c, start, count) \in Nat /\ Moving(c, start, count) <= count
      /\ Moving(c, start, count) = count \/ Moving(c, start, count) = Len(ents[c]) - (start + count)
      /\ start + count + Moving(c, start, count) <= Len(ents[c])
      /\ Remaining(c, start, count) \in Seq(Entity)
      /\ Len(Remaining(c, start, count)) = Len(ents[c]) - count
      /\ DOMAIN Remaining(c, start, count) = 1..(Len(ents[c]) - count)
      /\ \A i \in 1..(Len(ents[c]) - count) :
           Remaining(c, start, count)[i] =
             IF i \in (start + 1)..(start + Moving(c, start, count))
             THEN ents[c][Len(ents[c]) - Moving(c, start, count) + i - start] ELSE ents[c][i]
  BY RemainingFacts, ZenonT(30)
<1>2. PICK L \in Nat, m \in Nat, first \in Nat \ {0}, last \in Nat :
           /\ L = Len(ents[c]) /\ m = Moving(c, start, count) /\ first = start + 1 /\ last = start + m
  <2>1. start + 1 \in Nat \ {0} /\ start + Moving(c, start, count) \in Nat
    BY <1>1
  <2>2. QED BY <1>1, <2>1
<1>3. /\ m <= count /\ (m = count \/ m = L - (start + count)) /\ start + count + m <= L
      /\ first = start + 1 /\ last = start + m /\ last <= L - count /\ L - count \in Nat
  BY ONLY <1>1, <1>2
<1>4. /\ DOMAIN ents[c] = 1..L
      /\ s \in Seq(Entity) /\ Len(s) = L - count /\ DOMAIN s = 1..(L - count)
      /\ \A i \in 1..(L - count) :
           s[i] = IF i \in first..last THEN ents[c][L - m + i - start] ELSE ents[c][i]
  BY <1>1, <1>2
<1>5. \A d \in Chunks : P[d] = IF d = c THEN DOMAIN ents[d] \ ((start + 1)..(start + count)) ELSE DOMAIN ents[d]
  BY DEF PlacesBut
<1> HIDE DEF P
<1>6. P[c] = (1..L) \ ((start + 1)..(start + count))
  BY <1>4, <1>5
<1>7. Agree(es, ents, P) /\ Within(P, ents)
  BY <1>5 DEF P, Within
<1>8. \A d \in Chunks : \A i \in P[d] : At(es[ents[d][i][1]], d, i, ents[d][i][2])
  BY <1>7 DEF Agree
<1>9. \A d, e \in Chunks : \A i \in P[d], j \in P[e] :
         ents[d][i][1] = ents[e][j][1] => d = e /\ i = j
  BY <1>7, OnePlace
<1>10. ASSUME NEW i \in first..last
      PROVE  /\ i \in 1..(L - count) /\ L - m + i - start \in P[c]
             /\ s[i] = ents[c][L - m + i - start]
             /\ At(es[s[i][1]], c, L - m + i - start, s[i][2])
  <2>1. i \in 1..(L - count) /\ L - m + i - start \in 1..L /\ L - m + i - start > start + count
    BY <1>3
  <2>2. L - m + i - start \in P[c]
    BY <1>6, <2>1
  <2>3. QED BY <1>4, <1>8, <2>1, <2>2
<1>11. \A i, j \in first..last : s[i][1] = s[j][1] => i = j
  <2> SUFFICES ASSUME NEW i \in first..last, NEW j \in first..last, s[i][1] = s[j][1] PROVE i = j
    OBVIOUS
  <2>1. PICK a \in P[c], b \in P[c] : /\ a = L - m + i - start /\ b = L - m + j - start
                                      /\ s[i] = ents[c][a] /\ s[j] = ents[c][b]
    BY <1>10
  <2>2. \A k, l \in P[c] : ents[c][k][1] = ents[c][l][1] => k = l
    BY <1>9
  <2>3. ents[c][a][1] = ents[c][b][1]
    BY <2>1
  <2>4. a = b
    BY <2>2, <2>3
  <2>5. QED BY <2>1, <2>4
<1>12. new \in EntriesType /\ Moved(es, new, c, s, first, last)
  <2>1. last <= Len(s) /\ new = Placed(es, c, s, first, last) /\ s \in Seq(Entity)
    BY <1>2, <1>3, <1>4
  <2>2. Apart(s, first, last) /\ Current(es, s, first, last)
    BY <1>10, <1>11 DEF Apart, Current, At
  <2>3. QED BY <2>1, <2>2, PlacedFacts
<1>13. \A id \in Ids : new[id].chunk = es[id].chunk /\ new[id].version = es[id].version
  <2> SUFFICES ASSUME NEW id \in Ids PROVE new[id].chunk = es[id].chunk /\ new[id].version = es[id].version
    OBVIOUS
  <2>1. CASE \E i \in first..last : s[i][1] = id
    <3>1. PICK i \in first..last : s[i][1] = id
      BY <2>1
    <3>2. new[id].chunk = c /\ es[id].chunk = c
      BY <1>10, <1>12, <3>1 DEF Moved, At
    <3>3. QED BY <1>12, <3>2 DEF Moved
  <2>2. CASE \A i \in first..last : s[i][1] # id
    BY <1>12, <2>2 DEF Moved
  <2>3. QED BY <2>1, <2>2
<1>14. /\ \A d \in Chunks : d # c => P2[d] = DOMAIN ents[d] /\ P2[d] = P[d]
       /\ P2[c] = 1..(L - count)
  BY <1>4, <1>5 DEF PlacesOf, EntsType
<1>15. first..last \subseteq P2[c] \cap Nat
  BY <1>10, <1>14
<1>16. ASSUME NEW d \in Chunks, NEW i \in P2[d], ~ (d = c /\ i \in first..last)
       PROVE  /\ i \in P[d] /\ (d = c => s[i] = ents[c][i])
              /\ \A j \in first..last : s[j][1] # ents[d][i][1]
  <2>1. d = c => i \in 1..(L - count) /\ (i <= start \/ i > last)
    BY <1>3, <1>14, <1>16
  <2>2. d = c => /\ i \in 1..L /\ i \notin (start + 1)..(start + count)
                 /\ \A j \in first..last : i # L - m + j - start
    BY <1>3, <2>1
  <2>3. i \in P[d] /\ (d = c => s[i] = ents[c][i])
    BY <1>4, <1>6, <1>14, <1>16, <2>1, <2>2
  <2>4. ASSUME NEW j \in first..last, s[j][1] = ents[d][i][1] PROVE FALSE
    <3>1. PICK b \in P[c] : b = L - m + j - start /\ s[j] = ents[c][b]
      BY <1>10
    <3>2. c = d /\ b = i
      BY <1>9, <2>3, <2>4, <3>1
    <3>3. QED BY <2>2, <3>1, <3>2
  <2>5. QED BY <2>3, <2>4
<1>17. ASSUME NEW d \in Chunks, NEW i \in P[d], \A j \in first..last : s[j][1] # ents[d][i][1]
       PROVE  i \in P2[d] /\ ~ (d = c /\ i \in first..last)
  <2>1. CASE d # c
    BY <1>14, <2>1
  <2>2. CASE d = c
    <3>1. i \in 1..L /\ i \notin (start + 1)..(start + count)
      BY <1>6, <2>2
    <3>2. ~ (i > L - m)
      <4>1. SUFFICES ASSUME i > L - m PROVE FALSE
        OBVIOUS
      <4>2. PICK j \in first..last : i = L - m + j - start
        <5>1. i - L + m + start \in first..last
          BY <1>3, <3>1, <4>1
        <5>2. i = L - m + (i - L + m + start) - start
          BY <3>1
        <5>3. QED BY <5>1, <5>2
      <4>3. QED BY <1>10, <1>17, <2>2, <4>2
    <3>3. i \in 1..(L - count) /\ i \notin first..last
      BY <1>3, <3>1, <3>2
    <3>4. QED BY <1>14, <2>2, <3>3
  <2>3. QED BY <2>1, <2>2
<1>18. Shifted(P, P2, ents, c, s, first, last)
  BY <1>15, <1>16, <1>17 DEF Shifted
<1>19. QED BY <1>12, <1>13, <1>18, <1>7, MovedAgree

\* Chunk c with t appended is s, and places P2 are P, but the entities in t are
\* at its end.
Appended(P, P2, en, c, t, s) ==
  /\ s = en[c] \o t /\ P[c] = DOMAIN en[c] /\ P2[c] = DOMAIN s
  /\ \A i \in P[c] : \A j \in 1..Len(t) : t[j][1] # en[c][i][1]
  /\ \A d \in Chunks : d # c =>
       \A i : i \in P2[d] <=> i \in P[d] /\ \A j \in 1..Len(t) : t[j][1] # en[d][i][1]

\* Entries new have entities t in chunk c, and the others, and all versions, as es.
Arrived(es, new, c, t) ==
  /\ new \in EntriesType
  /\ \A j \in 1..Len(t) : new[t[j][1]].chunk = c
  /\ \A id \in Ids : (\A j \in 1..Len(t) : t[j][1] # id) => new[id] = es[id]
  /\ \A id \in Ids : new[id].version = es[id].version

(* When entities t are appended to chunk c and leave their old places,     *)
(* entries and chunks agree (fill_entities, move_entities).                *)
LEMMA AppendedAgree ==
  ASSUME ents \in EntsType, NEW es \in EntriesType, NEW P, Within(P, ents), Agree(es, ents, P),
         NEW c \in Chunks, NEW t \in Seq(Entity), Apart(t, 1, Len(t)), Current(es, t, 1, Len(t)),
         NEW s, NEW P2, Appended(P, P2, ents, c, t, s),
         NEW new, new = Placed(es, c, s, Len(ents[c]) + 1, Len(s))
  PROVE  /\ s \in Seq(Entity) /\ Len(s) = Len(ents[c]) + Len(t)
         /\ Arrived(es, new, c, t)
         /\ Agree(new, [ents EXCEPT ![c] = s], P2)
<1>1. PICK k \in Nat, n \in Nat, first \in Nat \ {0}, last \in Nat :
           k = Len(ents[c]) /\ n = Len(t) /\ first = k + 1 /\ last = k + n
  <2>1. Len(ents[c]) \in Nat /\ Len(t) \in Nat
    BY LenProperties DEF EntsType
  <2>2. QED BY <2>1
<1>2. /\ s \in Seq(Entity) /\ Len(s) = k + n /\ DOMAIN s = 1..(k + n)
      /\ \A i \in 1..(k + n) : s[i] = IF i <= k THEN ents[c][i] ELSE t[i - k]
  <2>1. ents[c] \in Seq(Entity)
    BY DEF EntsType
  <2>2. s = ents[c] \o t
    BY DEF Appended
  <2>3. QED BY <1>1, <2>1, <2>2, ConcatProperties, LenProperties
<1>3. \A i \in first..last : i - k \in 1..n /\ i \in 1..(k + n) /\ s[i] = t[i - k]
  <2> SUFFICES ASSUME NEW i \in first..last PROVE i - k \in 1..n /\ i \in 1..(k + n) /\ s[i] = t[i - k]
    OBVIOUS
  <2>1. i - k \in 1..n /\ i \in 1..(k + n) /\ ~ (i <= k)
    BY <1>1
  <2>2. QED BY <1>2, <2>1
<1>4. \A j \in 1..n : k + j \in first..last /\ s[k + j] = t[j]
  <2> SUFFICES ASSUME NEW j \in 1..n PROVE k + j \in first..last /\ s[k + j] = t[j]
    OBVIOUS
  <2>1. k + j \in first..last /\ (k + j) - k = j
    BY <1>1
  <2>2. QED BY <1>3, <2>1
<1>5. Apart(s, first, last)
  <2>1. SUFFICES ASSUME NEW i \in first..last, NEW j \in first..last, s[i][1] = s[j][1] PROVE i = j
    BY DEF Apart
  <2>2. t[i - k][1] = t[j - k][1] /\ i - k \in 1..n /\ j - k \in 1..n
    BY <1>3, <2>1
  <2>3. i - k = j - k
    BY <1>1, <2>2 DEF Apart
  <2>4. QED BY <2>3
<1>6. Current(es, s, first, last)
  BY <1>1, <1>3 DEF Current
<1>7. new = Placed(es, c, s, first, last) /\ last <= Len(s)
  BY <1>1, <1>2
<1>8. new \in EntriesType /\ Moved(es, new, c, s, first, last)
  BY <1>2, <1>5, <1>6, <1>7, PlacedFacts
<1>9. /\ \A d \in Chunks : d # c =>
            \A i : i \in P2[d] <=> i \in P[d] /\ \A j \in 1..n : t[j][1] # ents[d][i][1]
      /\ \A i \in P[c] : \A j \in 1..n : t[j][1] # ents[c][i][1]
      /\ P2[c] = 1..(k + n) /\ P[c] = 1..k
  <2>1. DOMAIN ents[c] = 1..k
    BY <1>1, LenProperties DEF EntsType
  <2>2. QED BY <1>1, <1>2, <2>1 DEF Appended
<1>10. \A id : (\A i \in first..last : s[i][1] # id) <=> (\A j \in 1..n : t[j][1] # id)
  <2> SUFFICES ASSUME NEW id
               PROVE  (\A i \in first..last : s[i][1] # id) <=> (\A j \in 1..n : t[j][1] # id)
    OBVIOUS
  <2>1. ASSUME \A i \in first..last : s[i][1] # id, NEW j \in 1..n PROVE t[j][1] # id
    BY <1>4, <2>1
  <2>2. ASSUME \A j \in 1..n : t[j][1] # id, NEW i \in first..last PROVE s[i][1] # id
    BY <1>3, <2>2
  <2>3. QED BY <2>1, <2>2
<1>11. first..last \subseteq P2[c] \cap Nat
  BY <1>3, <1>9
<1>12. ASSUME NEW d \in Chunks, NEW i \in P2[d], ~ (d = c /\ i \in first..last)
       PROVE  /\ i \in P[d] /\ (d = c => s[i] = ents[c][i])
              /\ \A j \in first..last : s[j][1] # ents[d][i][1]
  <2>1. CASE d = c
    <3>1. i \in 1..(k + n) /\ i <= k /\ i \in 1..k
      BY ONLY <1>1, <1>9, <1>12, <2>1
    <3>2. s[i] = ents[c][i] /\ i \in P[c]
      BY <1>2, <1>9, <3>1
    <3>3. QED BY <1>9, <1>10, <2>1, <3>2, ZenonT(30)
  <2>2. CASE d # c
    BY <1>9, <1>10, <2>2
  <2>3. QED BY <2>1, <2>2
<1>13. ASSUME NEW d \in Chunks, NEW i \in P[d], \A j \in first..last : s[j][1] # ents[d][i][1]
       PROVE  i \in P2[d] /\ ~ (d = c /\ i \in first..last)
  <2>1. CASE d = c
    <3>1. i \in 1..(k + n) /\ i \notin first..last
      BY <1>1, <1>9, <2>1
    <3>2. QED BY <1>9, <2>1, <3>1
  <2>2. CASE d # c
    BY <1>9, <1>10, <1>13, <2>2
  <2>3. QED BY <2>1, <2>2
<1>14. Shifted(P, P2, ents, c, s, first, last)
  BY <1>11, <1>12, <1>13 DEF Shifted
<1>15. Agree(new, [ents EXCEPT ![c] = s], P2)
  BY <1>8, <1>14, MovedAgree
<1>16. /\ \A id \in Ids : (\A j \in 1..n : t[j][1] # id) => new[id] = es[id]
       /\ \A id \in Ids : new[id].version = es[id].version
  BY <1>8, <1>10 DEF Moved
<1>17. \A j \in 1..n : new[t[j][1]].chunk = c
  BY <1>4, <1>8 DEF Moved, At
<1>18. Arrived(es, new, c, t)
  BY <1>1, <1>8, <1>16, <1>17 DEF Arrived
<1>19. QED BY <1>1, <1>2, <1>15, <1>18

-----------------------------------------------------------------------------
(* The registry.                                                           *)

\* The free list, the entries that were never used, and the versions.
RegistryInv ==
  /\ FreeListAgrees
  /\ \A id \in Ids : id >= size => entries[id].chunk = NoChunk
  /\ \A id \in Ids : entries[id].version < TransientVersion

RegistryTyped == entries \in EntriesType /\ size \in 0..MaxEntities /\ freeEntries \in Seq(Ids)

(* Which entries n new entities take: recycled ones and unused ones.       *)
LEMMA RecycledFacts ==
  ASSUME RegistryTyped, NEW n \in Nat \ {0}
  PROVE  /\ Recycled(n) \in Nat /\ Recycled(n) <= n /\ Recycled(n) <= Len(freeEntries)
         /\ Len(freeEntries) \in Nat /\ size \in Nat
         /\ \A i \in 1..Len(freeEntries) : freeEntries[i] \in Ids
<1>1. Len(freeEntries) \in Nat /\ size \in Nat
  BY LenProperties, ConstantsTyped DEF RegistryTyped
<1>2. \A i \in 1..Len(freeEntries) : freeEntries[i] \in Ids
  BY ElementOfSeq DEF RegistryTyped
<1>3. QED BY <1>1, <1>2 DEF Recycled, Lesser

(* New entities have different ids, which no entity has.                   *)
LEMMA NewEntitiesFacts ==
  ASSUME RegistryTyped, RegistryInv, NEW n \in Nat \ {0}, size + n - Recycled(n) <= MaxEntities,
         NEW t, t = NewEntities(n)
  PROVE  /\ t \in Seq(Entity) /\ Len(t) = n
         /\ Apart(t, 1, n) /\ Current(entries, t, 1, n)
         /\ \A i \in 1..n : t[i][1] \in Ids /\ entries[t[i][1]].chunk = NoChunk
         /\ \A id \in Ids : (\E i \in 1..n : t[i][1] = id) <=>
              \/ \E k \in (Len(freeEntries) - Recycled(n) + 1)..Len(freeEntries) : freeEntries[k] = id
              \/ id >= size /\ id < size + n - Recycled(n)
<1>1. PICK l \in Nat, r \in Nat, z \in Nat :
         l = Len(freeEntries) /\ r = Recycled(n) /\ z = size /\ r <= n /\ r <= l
  BY RecycledFacts
<1>2. /\ z + n - r <= MaxEntities /\ MaxEntities \in Nat
      /\ \A i \in 1..l : freeEntries[i] \in Ids
  BY <1>1, RecycledFacts, ConstantsTyped
<1> DEFINE id(i) == IF i <= r THEN freeEntries[l - r + i] ELSE z + i - r - 1
<1>3. t = [i \in 1..n |-> <<id(i), entries[id(i)].version>>]
  BY <1>1 DEF NewEntities
<1>4. /\ \A i \in DOMAIN freeEntries : entries[freeEntries[i]].chunk = NoChunk /\ freeEntries[i] < size
      /\ \A i, j \in DOMAIN freeEntries : freeEntries[i] = freeEntries[j] => i = j
      /\ DOMAIN freeEntries = 1..l
  <2>1. DOMAIN freeEntries = 1..l
    BY <1>1, LenProperties DEF RegistryTyped
  <2>2. \A i \in DOMAIN freeEntries : freeEntries[i] \in {k \in 0..(size - 1) : entries[k].chunk = NoChunk}
    BY DEF RegistryInv, FreeListAgrees
  <2>3. \A k \in 0..(size - 1) : k < size
    BY <1>1
  <2>4. QED BY <2>1, <2>2, <2>3 DEF RegistryInv, FreeListAgrees
<1>5. \A i \in 1..n : IF i <= r THEN l - r + i \in 1..l /\ id(i) = freeEntries[l - r + i]
                                                        /\ l - r + i \in (l - r + 1)..l
                      ELSE id(i) = z + i - r - 1 /\ id(i) >= z /\ id(i) < z + n - r /\ id(i) \in Ids
  <2> SUFFICES ASSUME NEW i \in 1..n
               PROVE  IF i <= r THEN l - r + i \in 1..l /\ id(i) = freeEntries[l - r + i]
                                                        /\ l - r + i \in (l - r + 1)..l
                      ELSE id(i) = z + i - r - 1 /\ id(i) >= z /\ id(i) < z + n - r /\ id(i) \in Ids
    OBVIOUS
  <2>1. i <= r => l - r + i \in 1..l /\ l - r + i \in (l - r + 1)..l
    BY <1>1
  <2>2. ~ (i <= r) => z + i - r - 1 \in Ids /\ z + i - r - 1 >= z /\ z + i - r - 1 < z + n - r
    BY <1>1, <1>2 DEF Ids
  <2>3. QED BY <2>1, <2>2
<1> HIDE DEF id
<1>6. \A i \in 1..n : id(i) \in Ids /\ entries[id(i)].chunk = NoChunk
  <2> SUFFICES ASSUME NEW i \in 1..n PROVE id(i) \in Ids /\ entries[id(i)].chunk = NoChunk
    OBVIOUS
  <2>1. CASE i <= r
    BY <1>2, <1>4, <1>5, <2>1
  <2>2. CASE ~ (i <= r)
    BY <1>1, <1>5, <2>2 DEF RegistryInv
  <2>3. QED BY <2>1, <2>2
<1>7. \A i, j \in 1..n : id(i) = id(j) => i = j
  <2>1. SUFFICES ASSUME NEW i \in 1..n, NEW j \in 1..n, id(i) = id(j) PROVE i = j
    OBVIOUS
  <2>2. CASE i <= r /\ j <= r
    <3>1. l - r + i = l - r + j
      BY <1>4, <1>5, <2>1, <2>2
    <3>2. QED BY <3>1
  <2>3. CASE ~ (i <= r) /\ ~ (j <= r)
    BY <1>5, <2>1, <2>3
  <2>4. ASSUME NEW a \in 1..n, NEW b \in 1..n, a <= r, ~ (b <= r) PROVE id(a) # id(b)
    <3>1. id(a) < size /\ id(b) >= z /\ id(a) \in Ids /\ id(b) \in Ids
      BY <1>4, <1>5, <1>6, <2>4, ZenonT(30)
    <3>2. \A x \in Ids : x \in Nat
      BY DEF Ids
    <3>3. QED BY <1>1, <3>1, <3>2
  <2>5. QED BY <2>1, <2>2, <2>3, <2>4
<1>8. \A i \in 1..n : t[i] \in Entity /\ t[i][1] = id(i) /\ t[i][2] = entries[id(i)].version
  <2>1. \A x \in Ids : entries[x].version \in Versions
    BY DEF RegistryTyped, EntriesType, EntryType
  <2>2. QED BY <1>3, <1>6, <2>1 DEF Entity
<1>9. t \in Seq(Entity) /\ Len(t) = n
  <2>1. t \in [1..n -> Entity]
    BY <1>3, <1>8
  <2>2. QED BY <2>1, SeqDef, LenProperties
<1>10. Apart(t, 1, n) /\ Current(entries, t, 1, n)
  BY <1>7, <1>8 DEF Apart, Current
<1>11. ASSUME NEW x \in Ids
       PROVE  (\E i \in 1..n : t[i][1] = x) <=>
              \/ \E k \in (l - r + 1)..l : freeEntries[k] = x
              \/ x >= z /\ x < z + n - r
  <2>1. ASSUME NEW i \in 1..n, t[i][1] = x
        PROVE  \/ \E k \in (l - r + 1)..l : freeEntries[k] = x
               \/ x >= z /\ x < z + n - r
    BY <1>5, <1>8, <2>1
  <2>2. ASSUME NEW k \in (l - r + 1)..l, freeEntries[k] = x
        PROVE  \E i \in 1..n : t[i][1] = x
    <3>1. l \in Nat /\ r \in Nat /\ r <= n /\ r <= l /\ k \in (l - r + 1)..l /\ n \in Nat
      BY <1>1
    <3>2. k - l + r \in 1..n /\ k - l + r <= r /\ l - r + (k - l + r) = k
      BY ONLY <3>1
    <3>3. PICK i \in 1..n : i <= r /\ l - r + i = k
      BY <3>2
    <3>4. QED BY <1>5, <1>8, <2>2, <3>3
  <2>3. ASSUME x >= z, x < z + n - r
        PROVE  \E i \in 1..n : t[i][1] = x
    <3>1. /\ x \in Nat /\ z \in Nat /\ r \in Nat /\ n \in Nat /\ r <= n
          /\ x >= z /\ x < z + n - r
      BY <1>1, <2>3 DEF Ids
    <3>2. /\ x - z + r + 1 \in 1..n /\ ~ (x - z + r + 1 <= r)
          /\ z + (x - z + r + 1) - r - 1 = x
      BY ONLY <3>1
    <3>3. PICK i \in 1..n : ~ (i <= r) /\ z + i - r - 1 = x
      BY <3>2
    <3>4. QED BY <1>5, <1>8, <3>3
  <2>4. QED BY <2>1, <2>2, <2>3
<1>12. QED BY <1>1, <1>6, <1>8, <1>9, <1>10, <1>11

(* The free list in terms of its places.                                   *)
LEMMA FreeListFacts ==
  ASSUME RegistryTyped, RegistryInv, NEW l, l = Len(freeEntries)
  PROVE  /\ l \in Nat /\ size \in Nat /\ size <= MaxEntities /\ MaxEntities \in Nat
         /\ \A i \in 1..l : /\ freeEntries[i] \in Ids /\ freeEntries[i] < size
                            /\ entries[freeEntries[i]].chunk = NoChunk
         /\ \A id \in Ids : id < size /\ entries[id].chunk = NoChunk => \E i \in 1..l : freeEntries[i] = id
         /\ \A i, j \in 1..l : freeEntries[i] = freeEntries[j] => i = j
         /\ \A id \in Ids : id >= size => entries[id].chunk = NoChunk
         /\ \A id \in Ids : entries[id].version < TransientVersion
<1>1. l \in Nat /\ DOMAIN freeEntries = 1..l /\ \A i \in 1..l : freeEntries[i] \in Ids
  BY LenProperties, ElementOfSeq DEF RegistryTyped
<1>2. size \in Nat /\ size <= MaxEntities /\ MaxEntities \in Nat
  BY ConstantsTyped DEF RegistryTyped
<1>3. {freeEntries[i] : i \in DOMAIN freeEntries} = {id \in 0..(size - 1) : entries[id].chunk = NoChunk}
  BY DEF RegistryInv, FreeListAgrees
<1>4. \A id \in 0..(size - 1) : id < size
  BY <1>2
<1>5. \A i \in 1..l : freeEntries[i] < size /\ entries[freeEntries[i]].chunk = NoChunk
  <2>1. \A i \in 1..l : freeEntries[i] \in {id \in 0..(size - 1) : entries[id].chunk = NoChunk}
    BY <1>1, <1>3
  <2>2. QED BY <1>4, <2>1
<1>6. \A id \in Ids : id < size => id \in 0..(size - 1)
  BY <1>2 DEF Ids
<1>7. \A id \in Ids : id < size /\ entries[id].chunk = NoChunk => \E i \in 1..l : freeEntries[i] = id
  BY <1>1, <1>3, <1>6
<1>8. QED BY <1>1, <1>2, <1>5, <1>7 DEF RegistryInv, FreeListAgrees

(* And back, for the entries a step leaves.                                *)
LEMMA FreeListAgreesBy ==
  ASSUME RegistryTyped', NEW l, l = Len(freeEntries'),
         \A i \in 1..l : freeEntries'[i] < size' /\ entries'[freeEntries'[i]].chunk = NoChunk,
         \A id \in Ids : id < size' /\ entries'[id].chunk = NoChunk => \E i \in 1..l : freeEntries'[i] = id,
         \A i, j \in 1..l : freeEntries'[i] = freeEntries'[j] => i = j
  PROVE  FreeListAgrees'
<1>1. DOMAIN freeEntries' = 1..l /\ \A i \in 1..l : freeEntries'[i] \in Ids
  BY LenProperties, ElementOfSeq DEF RegistryTyped
<1>2. size' \in Nat /\ size' <= MaxEntities /\ MaxEntities \in Nat
  BY ConstantsTyped DEF RegistryTyped
<1>3. \A id : id \in 0..(size' - 1) <=> id \in Ids /\ id < size'
  BY <1>2 DEF Ids
<1>4. \A id : id \in {freeEntries'[i] : i \in DOMAIN freeEntries'}
               <=> id \in {x \in 0..(size' - 1) : entries'[x].chunk = NoChunk}
  BY <1>1, <1>3
<1>5. QED BY <1>1, <1>4 DEF FreeListAgrees

(* Taking entries for new entities (new_entities).                         *)
LEMMA TakenRegistry ==
  ASSUME RegistryTyped, RegistryInv, NEW n \in Nat \ {0}, TakeEntities(n),
         NEW t, t = NewEntities(n), entries' \in EntriesType,
         \A j \in 1..n : entries'[t[j][1]].chunk # NoChunk,
         \A id \in Ids : (\A j \in 1..n : t[j][1] # id) => entries'[id] = entries[id],
         \A id \in Ids : entries'[id].version = entries[id].version
  PROVE  RegistryTyped' /\ RegistryInv'
<1>1. PICK l \in Nat, r \in Nat, z \in Nat :
         l = Len(freeEntries) /\ r = Recycled(n) /\ z = size /\ r <= n /\ r <= l
  BY RecycledFacts
<1>2. /\ z + n - r <= MaxEntities /\ freeEntries' = SubSeq(freeEntries, 1, l - r)
      /\ size' = z + n - r
  BY <1>1 DEF TakeEntities
<1>3. /\ \A i \in 1..l : freeEntries[i] \in Ids /\ freeEntries[i] < z /\ entries[freeEntries[i]].chunk = NoChunk
      /\ \A id \in Ids : id < z /\ entries[id].chunk = NoChunk => \E i \in 1..l : freeEntries[i] = id
      /\ \A i, j \in 1..l : freeEntries[i] = freeEntries[j] => i = j
      /\ \A id \in Ids : id >= z => entries[id].chunk = NoChunk
      /\ \A id \in Ids : entries[id].version < TransientVersion
  BY <1>1, FreeListFacts
<1>4. \A id \in Ids : (\E i \in 1..n : t[i][1] = id) <=>
        (\E k \in (l - r + 1)..l : freeEntries[k] = id) \/ (id >= z /\ id < z + n - r)
  <2>1. size + n - Recycled(n) <= MaxEntities
    BY <1>1, <1>2
  <2>2. \A id \in Ids : (\E i \in 1..n : t[i][1] = id) <=>
          \/ \E k \in (Len(freeEntries) - Recycled(n) + 1)..Len(freeEntries) : freeEntries[k] = id
          \/ id >= size /\ id < size + n - Recycled(n)
    BY <2>1, NewEntitiesFacts
  <2>3. QED BY <1>1, <2>2
<1>5. /\ freeEntries' \in Seq(Ids) /\ Len(freeEntries') = l - r
      /\ \A i \in 1..(l - r) : freeEntries'[i] = freeEntries[i] /\ i \in 1..l
  <2>1. freeEntries \in Seq(Ids)
    BY DEF RegistryTyped
  <2>2. \A i \in 1..(l - r) : i \in 1..l
    BY <1>1
  <2>3. \A i \in 1..(l - r) : freeEntries[i] \in Ids
    BY <1>3, <2>2
  <2>4. l - r \in Nat
    BY <1>1
  <2>5. freeEntries' = [i \in 1..(l - r) |-> freeEntries[i]]
    BY <1>2, <2>4
  <2>6. freeEntries' \in [1..(l - r) -> Ids]
    BY <2>3, <2>5
  <2>7. freeEntries' \in Seq(Ids) /\ Len(freeEntries') = l - r
    BY <2>4, <2>6, SeqDef, LenProperties
  <2>8. QED BY <2>2, <2>5, <2>7
<1>6. RegistryTyped'
  <2>1. z + n - r \in 0..MaxEntities
    BY <1>1, <1>2, ConstantsTyped, SMTT(30)
  <2>2. QED BY <1>2, <1>5, <2>1 DEF RegistryTyped
<1>7. \A id \in Ids : (\E i \in 1..n : t[i][1] = id) \/ entries'[id] = entries[id]
  OBVIOUS
<1>8. \A id \in Ids : entries'[id].chunk = NoChunk <=>
        entries[id].chunk = NoChunk /\ ~ (\E i \in 1..n : t[i][1] = id)
  BY <1>7
<1>9. ASSUME NEW i \in 1..(l - r)
      PROVE  freeEntries'[i] < size' /\ entries'[freeEntries'[i]].chunk = NoChunk
  <2>1. /\ freeEntries'[i] = freeEntries[i] /\ i \in 1..l
        /\ freeEntries[i] \in Ids /\ freeEntries[i] < z /\ entries[freeEntries[i]].chunk = NoChunk
    BY <1>3, <1>5
  <2>2. freeEntries[i] \in Nat
    BY <2>1 DEF Ids
  <2>3. freeEntries[i] < z + n - r /\ ~ (freeEntries[i] >= z)
    BY <1>1, <2>1, <2>2
  <2>4. \A k \in (l - r + 1)..l : freeEntries[k] # freeEntries[i]
    <3>1. \A k \in (l - r + 1)..l : k \in 1..l /\ k # i
      BY <1>1
    <3>2. QED BY <1>3, <2>1, <3>1
  <2>5. ~ (\E k \in 1..n : t[k][1] = freeEntries[i])
    BY <1>4, <2>1, <2>3, <2>4
  <2>6. QED BY ONLY <1>2, <1>8, <2>1, <2>3, <2>5
<1>10. ASSUME NEW id \in Ids, id < size', entries'[id].chunk = NoChunk
       PROVE  \E i \in 1..(l - r) : freeEntries'[i] = id
  <2>1. id \in Nat /\ entries[id].chunk = NoChunk /\ ~ (\E i \in 1..n : t[i][1] = id)
    BY <1>8, <1>10 DEF Ids
  <2>2. ~ (id >= z /\ id < z + n - r) /\ \A k \in (l - r + 1)..l : freeEntries[k] # id
    BY <1>4, <2>1
  <2>3. id < z
    BY <1>1, <1>2, <1>10, <2>1, <2>2
  <2>4. PICK i \in 1..l : freeEntries[i] = id
    BY <1>3, <2>1, <2>3
  <2>5. i \in 1..(l - r)
    BY <1>1, <2>2, <2>4
  <2>6. QED BY <1>5, <2>4, <2>5
<1>11. \A i, j \in 1..(l - r) : freeEntries'[i] = freeEntries'[j] => i = j
  BY ONLY <1>3, <1>5
<1>12. FreeListAgrees'
  BY <1>5, <1>6, <1>9, <1>10, <1>11, FreeListAgreesBy
<1>13. ASSUME NEW id \in Ids, id >= size' PROVE entries'[id].chunk = NoChunk
  <2>1. id \in Nat /\ id >= z /\ ~ (id < z + n - r)
    BY <1>1, <1>2, <1>13, SMTT(30) DEF Ids
  <2>2. \A k \in (l - r + 1)..l : freeEntries[k] # id
    <3>1. \A k \in (l - r + 1)..l : k \in 1..l
      BY <1>1
    <3>2. \A k \in 1..l : freeEntries[k] \in Nat /\ freeEntries[k] < z
      BY <1>3 DEF Ids
    <3>3. QED BY <1>1, <2>1, <3>1, <3>2
  <2>3. QED BY <1>3, <1>4, <1>8, <2>1, <2>2
<1>14. \A id \in Ids : entries'[id].version < TransientVersion
  BY <1>3
<1>15. QED BY <1>6, <1>12, <1>13, <1>14 DEF RegistryInv

\* The entries q of entities are freed.
Returning(q) ==
  /\ q \in Seq(Ids) /\ freeEntries' = freeEntries \o q /\ size' = size
  /\ entries' \in EntriesType
  /\ \A i, j \in 1..Len(q) : q[i] = q[j] => i = j
  /\ \A i \in 1..Len(q) : entries[q[i]].chunk # NoChunk
  /\ \A id \in Ids : entries'[id].chunk = NoChunk <=>
       entries[id].chunk = NoChunk \/ \E i \in 1..Len(q) : q[i] = id
  /\ \A id \in Ids : entries'[id].version < TransientVersion

(* Freed entries go to the end of the free list (free_entities).           *)
LEMMA ReturnedRegistry ==
  ASSUME RegistryTyped, RegistryInv, NEW q, Returning(q)
  PROVE  RegistryTyped' /\ RegistryInv'
<1>1. PICK l \in Nat, n \in Nat : l = Len(freeEntries) /\ n = Len(q)
  BY LenProperties DEF RegistryTyped, Returning
<1>2. /\ size' = size /\ entries' \in EntriesType
      /\ \A i, j \in 1..n : q[i] = q[j] => i = j
      /\ \A i \in 1..n : entries[q[i]].chunk # NoChunk
      /\ \A id \in Ids : entries'[id].chunk = NoChunk <=>
           entries[id].chunk = NoChunk \/ \E i \in 1..n : q[i] = id
      /\ \A id \in Ids : entries'[id].version < TransientVersion
  BY <1>1 DEF Returning
<1>3. /\ size \in Nat
      /\ \A i \in 1..l : /\ freeEntries[i] \in Ids /\ freeEntries[i] < size
                         /\ entries[freeEntries[i]].chunk = NoChunk
      /\ \A id \in Ids : id < size /\ entries[id].chunk = NoChunk => \E i \in 1..l : freeEntries[i] = id
      /\ \A i, j \in 1..l : freeEntries[i] = freeEntries[j] => i = j
      /\ \A id \in Ids : id >= size => entries[id].chunk = NoChunk
  BY <1>1, FreeListFacts
<1>4. /\ freeEntries' \in Seq(Ids) /\ Len(freeEntries') = l + n
      /\ \A i \in 1..(l + n) : freeEntries'[i] = IF i <= l THEN freeEntries[i] ELSE q[i - l]
  <2>1. freeEntries \in Seq(Ids) /\ q \in Seq(Ids) /\ freeEntries' = freeEntries \o q
    BY DEF RegistryTyped, Returning
  <2>2. QED BY <1>1, <2>1, ConcatProperties
<1>5. /\ \A i \in 1..l : i \in 1..(l + n) /\ freeEntries'[i] = freeEntries[i]
      /\ \A i \in 1..n : l + i \in 1..(l + n) /\ freeEntries'[l + i] = q[i]
      /\ \A i \in 1..(l + n) : i \in 1..l \/ \E j \in 1..n : i = l + j
  <2>1. \A i \in 1..l : i \in 1..(l + n) /\ i <= l
    BY <1>1
  <2>2. \A i \in 1..n : l + i \in 1..(l + n) /\ ~ (l + i <= l) /\ (l + i) - l = i
    BY <1>1
  <2>3. ASSUME NEW i \in 1..(l + n), i \notin 1..l PROVE \E j \in 1..n : i = l + j
    <3>1. i - l \in 1..n /\ i = l + (i - l)
      BY <1>1, <2>3
    <3>2. QED BY <3>1
  <2>4. QED BY <1>4, <2>1, <2>2, <2>3
<1>6. \A i \in 1..n : q[i] \in Ids /\ q[i] < size
  <2>1. \A i \in 1..n : q[i] \in Ids
    BY <1>1, ElementOfSeq DEF Returning
  <2>2. \A i \in 1..n : ~ (q[i] >= size)
    BY <1>3, <1>2, <2>1
  <2>3. \A i \in 1..n : q[i] \in Nat
    BY <2>1 DEF Ids
  <2>4. QED BY <1>3, <2>1, <2>2, <2>3
<1>7. RegistryTyped'
  BY <1>4, <1>2 DEF RegistryTyped
<1>8. ASSUME NEW i \in 1..(l + n)
      PROVE  freeEntries'[i] < size' /\ entries'[freeEntries'[i]].chunk = NoChunk
  <2>1. CASE i \in 1..l
    BY <1>3, <1>5, <1>2, <2>1
  <2>2. ASSUME NEW j \in 1..n, i = l + j
        PROVE  freeEntries'[i] < size' /\ entries'[freeEntries'[i]].chunk = NoChunk
    BY <1>5, <1>6, <1>2, <2>2
  <2>3. QED BY <1>5, <2>1, <2>2
<1>9. ASSUME NEW id \in Ids, id < size', entries'[id].chunk = NoChunk
      PROVE  \E i \in 1..(l + n) : freeEntries'[i] = id
  <2>1. CASE entries[id].chunk = NoChunk
    BY <1>3, <1>5, <1>9, <1>2, <2>1
  <2>2. CASE \E i \in 1..n : q[i] = id
    BY <1>5, <2>2
  <2>3. QED BY <1>9, <1>2, <2>1, <2>2
<1>10. ASSUME NEW i \in 1..(l + n), NEW j \in 1..(l + n), freeEntries'[i] = freeEntries'[j]
      PROVE  i = j
  <2>1. \A a \in 1..l, b \in 1..n : freeEntries[a] # q[b]
    BY <1>3, <1>2
  <2>2. CASE i \in 1..l /\ j \in 1..l
    BY <1>3, <1>5, <1>10, <2>2
  <2>3. ASSUME NEW a \in 1..n, NEW b \in 1..n, i = l + a, j = l + b PROVE i = j
    BY <1>5, <1>10, <1>2, <2>3
  <2>4. ASSUME NEW b \in 1..n, i \in 1..l, j = l + b PROVE FALSE
    BY <1>5, <1>10, <2>1, <2>4
  <2>5. ASSUME NEW a \in 1..n, i = l + a, j \in 1..l PROVE FALSE
    BY <1>5, <1>10, <2>1, <2>5
  <2>6. QED BY <1>5, <2>2, <2>3, <2>4, <2>5
<1>11. FreeListAgrees'
  BY <1>4, <1>7, <1>8, <1>9, <1>10, FreeListAgreesBy
<1>12. ASSUME NEW id \in Ids, id >= size' PROVE entries'[id].chunk = NoChunk
  BY <1>3, <1>6, <1>12, <1>2
<1>13. QED BY <1>7, <1>11, <1>12, <1>2 DEF RegistryInv

-----------------------------------------------------------------------------
(* The chunks of groups.                                                   *)

ListsTyped ==
  /\ ents \in EntsType
  /\ pt \in [Chunks -> PoolTypes]
  /\ group \in [Chunks -> Groups \cup {NoGroup}]
  /\ index \in [Chunks -> Nat]
  /\ chunks \in [Groups -> Seq(Chunks)]
  /\ firstFree \in [Groups -> Nat]

\* Lists and indices agree, the full chunks come first, no chunk holds more than
\* it can, and one that is in its pool holds nothing.
ListsInv ==
  /\ ListsAgree
  /\ FullFirst
  /\ \A g \in Groups : firstFree[g] <= Len(chunks[g])
  /\ \A c \in Chunks : IF group[c] = NoGroup THEN ents[c] = <<>> ELSE Len(ents[c]) <= CapacityOf(c)

(* What the lists say of a chunk of group g.                               *)
LEMMA ListedFacts ==
  ASSUME ListsTyped, ListsInv
  PROVE  /\ \A g \in Groups : /\ Len(chunks[g]) \in Nat /\ DOMAIN chunks[g] = 1..Len(chunks[g])
                              /\ firstFree[g] \in Nat /\ firstFree[g] <= Len(chunks[g])
                              /\ g # NoGroup
         /\ \A g \in Groups : \A i \in 1..Len(chunks[g]) :
              chunks[g][i] \in Chunks /\ group[chunks[g][i]] = g /\ index[chunks[g][i]] = i - 1
         /\ \A c \in Chunks : /\ group[c] # NoGroup => group[c] \in Groups
                              /\ index[c] \in Nat /\ Len(ents[c]) \in Nat
         /\ \A c \in Chunks : group[c] # NoGroup =>
              /\ index[c] < Len(chunks[group[c]]) /\ index[c] + 1 \in 1..Len(chunks[group[c]])
              /\ chunks[group[c]][index[c] + 1] = c
              /\ (Len(ents[c]) = CapacityOf(c) <=> index[c] < firstFree[group[c]])
              /\ Len(ents[c]) <= CapacityOf(c) /\ CapacityOf(c) \in Nat
         /\ \A c \in Chunks : group[c] = NoGroup => ents[c] = <<>>
<1>1. \A g \in Groups : /\ Len(chunks[g]) \in Nat /\ DOMAIN chunks[g] = 1..Len(chunks[g])
                        /\ firstFree[g] \in Nat /\ firstFree[g] <= Len(chunks[g])
                        /\ g # NoGroup
  BY LenProperties, ConstantsTyped DEF ListsTyped, ListsInv
<1>2. \A g \in Groups : \A i \in 1..Len(chunks[g]) :
        chunks[g][i] \in Chunks /\ group[chunks[g][i]] = g /\ index[chunks[g][i]] = i - 1
  <2>1. \A g \in Groups : chunks[g] \in Seq(Chunks)
    BY DEF ListsTyped
  <2>2. \A g \in Groups : \A i \in 1..Len(chunks[g]) : chunks[g][i] \in Chunks
    BY <2>1, ElementOfSeq
  <2>3. QED BY <1>1, <2>2 DEF ListsInv, ListsAgree
<1>3. \A c \in Chunks : /\ group[c] # NoGroup => group[c] \in Groups
                        /\ index[c] \in Nat /\ Len(ents[c]) \in Nat
  BY LenProperties DEF ListsTyped, EntsType
<1>4. ASSUME NEW c \in Chunks, group[c] # NoGroup
      PROVE  /\ index[c] < Len(chunks[group[c]]) /\ index[c] + 1 \in 1..Len(chunks[group[c]])
             /\ chunks[group[c]][index[c] + 1] = c
             /\ (Len(ents[c]) = CapacityOf(c) <=> index[c] < firstFree[group[c]])
             /\ Len(ents[c]) <= CapacityOf(c) /\ CapacityOf(c) \in Nat
  <2>1. group[c] \in Groups /\ Len(chunks[group[c]]) \in Nat /\ index[c] \in Nat
    BY <1>1, <1>3, <1>4
  <2>2. index[c] < Len(chunks[group[c]]) /\ chunks[group[c]][index[c] + 1] = c
    BY <1>4 DEF ListsInv, ListsAgree
  <2>3. index[c] + 1 \in 1..Len(chunks[group[c]])
    BY <2>1, <2>2
  <2>4. CapacityOf(c) \in Nat
    <3>1. Capacity \in [Groups -> [PoolTypes -> Nat]] /\ pt[c] \in PoolTypes
      BY ConstantsTyped DEF ListsTyped
    <3>2. QED BY <2>1, <3>1 DEF CapacityOf
  <2>5. Len(ents[c]) = CapacityOf(c) <=> index[c] < firstFree[group[c]]
    BY <1>4 DEF ListsInv, FullFirst, Full
  <2>6. Len(ents[c]) <= CapacityOf(c)
    BY <1>4 DEF ListsInv
  <2>7. QED BY <2>2, <2>3, <2>4, <2>5, <2>6
<1>5. \A c \in Chunks : group[c] = NoGroup => ents[c] = <<>>
  BY DEF ListsInv
<1>6. QED BY <1>1, <1>2, <1>3, <1>4, <1>5

(* And back, for the lists a step leaves.                                  *)
LEMMA ListsInvBy ==
  ASSUME ListsTyped',
         \A g \in Groups : firstFree'[g] <= Len(chunks'[g]),
         \A g \in Groups : \A i \in 1..Len(chunks'[g]) :
           group'[chunks'[g][i]] = g /\ index'[chunks'[g][i]] = i - 1,
         \A c \in Chunks : group'[c] # NoGroup =>
           /\ index'[c] < Len(chunks'[group'[c]]) /\ chunks'[group'[c]][index'[c] + 1] = c
           /\ (Len(ents'[c]) = Capacity[group'[c]][pt'[c]] <=> index'[c] < firstFree'[group'[c]])
           /\ Len(ents'[c]) <= Capacity[group'[c]][pt'[c]],
         \A c \in Chunks : group'[c] = NoGroup => ents'[c] = <<>>
  PROVE  ListsInv'
<1>1. \A g \in Groups : DOMAIN chunks'[g] = 1..Len(chunks'[g])
  BY LenProperties DEF ListsTyped
<1>2. ListsAgree'
  BY <1>1 DEF ListsAgree
<1>3. FullFirst'
  BY DEF FullFirst, Full, CapacityOf
<1>4. QED BY <1>2, <1>3 DEF ListsInv, CapacityOf

(* A chunk removed from the list of its group (remove_chunk).              *)
LEMMA RemovedFacts ==
  ASSUME ListsTyped, ListsInv, NEW c \in Chunks, NEW g \in Groups, group[c] = g
  PROVE  /\ RemovedFrom(g, c) \in Seq(Chunks) /\ Len(RemovedFrom(g, c)) = Len(chunks[g]) - 1
         /\ \A i \in 1..(Len(chunks[g]) - 1) :
              RemovedFrom(g, c)[i] = IF i <= index[c] THEN chunks[g][i] ELSE chunks[g][i + 1]
         /\ RemovedIndex(g, c) \in [Chunks -> Nat]
         /\ \A d \in Chunks : RemovedIndex(g, c)[d] =
              IF group[d] = g /\ index[d] > index[c] THEN index[d] - 1 ELSE index[d]
<1>1. PICK k \in Nat, l \in Nat : k = index[c] /\ l = Len(chunks[g]) /\ k < l
  BY ListedFacts
<1>2. /\ \A i \in 1..l : chunks[g][i] \in Chunks /\ group[chunks[g][i]] = g /\ index[chunks[g][i]] = i - 1
      /\ \A d \in Chunks : index[d] \in Nat
      /\ \A d \in Chunks : group[d] = g => index[d] + 1 \in 1..l /\ chunks[g][index[d] + 1] = d
  BY <1>1, ListedFacts, SMTT(30)
<1>3. RemovedFrom(g, c) = [i \in 1..(l - 1) |-> IF i <= k THEN chunks[g][i] ELSE chunks[g][i + 1]]
  BY <1>1 DEF RemovedFrom
<1>4. \A i \in 1..(l - 1) : (IF i <= k THEN chunks[g][i] ELSE chunks[g][i + 1]) \in Chunks
  <2>1. \A i \in 1..(l - 1) : i \in 1..l /\ i + 1 \in 1..l
    BY <1>1
  <2>2. QED BY <1>2, <2>1
<1>5. RemovedFrom(g, c) \in Seq(Chunks) /\ Len(RemovedFrom(g, c)) = l - 1
  <2>1. RemovedFrom(g, c) \in [1..(l - 1) -> Chunks] /\ l - 1 \in Nat
    BY <1>1, <1>3, <1>4
  <2>2. QED BY <2>1, SeqDef, LenProperties
<1>6. \A d \in Chunks : RemovedIndex(g, c)[d] =
        IF \E i \in (k + 2)..l : chunks[g][i] = d
        THEN (CHOOSE i \in (k + 2)..l : chunks[g][i] = d) - 2 ELSE index[d]
  BY <1>1 DEF RemovedIndex
<1>7. ASSUME NEW d \in Chunks
      PROVE  RemovedIndex(g, c)[d] = IF group[d] = g /\ index[d] > k THEN index[d] - 1 ELSE index[d]
  <2> DEFINE at == CHOOSE i \in (k + 2)..l : chunks[g][i] = d
  <2>1. CASE group[d] = g /\ index[d] > k
    <3>1. index[d] + 1 \in (k + 2)..l /\ chunks[g][index[d] + 1] = d
      BY <1>1, <1>2, <2>1
    <3>2. at \in (k + 2)..l /\ chunks[g][at] = d
      BY <3>1
    <3>3. RemovedIndex(g, c)[d] = at - 2
      BY <1>6, <3>1
    <3> HIDE DEF at
    <3>4. at \in 1..l
      BY <1>1, <3>2
    <3>5. index[d] = at - 1
      BY <1>2, <3>2, <3>4
    <3>6. QED BY <1>1, <2>1, <3>3, <3>4, <3>5
  <2>2. CASE ~ (group[d] = g /\ index[d] > k)
    <3>1. \A i \in (k + 2)..l : chunks[g][i] # d
      <4>1. SUFFICES ASSUME NEW i \in (k + 2)..l, chunks[g][i] = d PROVE FALSE
        OBVIOUS
      <4>2. i \in 1..l /\ i - 1 > k
        BY <1>1
      <4>3. QED BY <1>2, <2>2, <4>1, <4>2
    <3>2. QED BY <1>6, <2>2, <3>1
  <2>3. QED BY <2>1, <2>2
<1>8. RemovedIndex(g, c) \in [Chunks -> Nat]
  <2>1. RemovedIndex(g, c) = [d \in Chunks |-> RemovedIndex(g, c)[d]]
    BY DEF RemovedIndex
  <2>2. \A d \in Chunks : RemovedIndex(g, c)[d] \in Nat
    BY <1>1, <1>2, <1>7
  <2>3. QED BY <2>1, <2>2
<1>9. QED BY <1>1, <1>3, <1>5, <1>7, <1>8

\* List s, with indices ix and f chunks before the first free one, is a list of
\* the chunks of group g, less the chunk c or more the chunk c.
Ordered(g, c, s, ix, f) ==
  /\ s \in Seq(Chunks) /\ Len(s) \in Nat /\ ix \in [Chunks -> Nat] /\ f \in Nat /\ f <= Len(s)
  /\ \A i \in 1..Len(s) : s[i] \in Chunks /\ (s[i] = c \/ group[s[i]] = g) /\ ix[s[i]] = i - 1
  /\ \A d \in Chunks \ {c} : group[d] = g =>
       ix[d] < Len(s) /\ s[ix[d] + 1] = d /\ (ix[d] < f <=> index[d] < firstFree[g])

(* The list without the chunk is one again: places and indices agree, and  *)
(* the full chunks still come first.                                       *)
LEMMA RemovedOrder ==
  ASSUME ListsTyped, ListsInv, NEW c \in Chunks, NEW g \in Groups, group[c] = g,
         NEW R, R = RemovedFrom(g, c), NEW X, X = RemovedIndex(g, c), NEW F, F = RemovedFree(g, c)
  PROVE  /\ Ordered(g, c, R, X, F) /\ Len(R) = Len(chunks[g]) - 1
         /\ \A i \in 1..Len(R) : R[i] # c
         /\ \A d \in Chunks : group[d] # g => X[d] = index[d]
<1>1. PICK k \in Nat, l \in Nat, f \in Nat :
         k = index[c] /\ l = Len(chunks[g]) /\ f = firstFree[g] /\ k < l /\ f <= l
  BY ListedFacts
<1>2. /\ R \in Seq(Chunks) /\ Len(R) = l - 1
      /\ \A i \in 1..(l - 1) : R[i] = IF i <= k THEN chunks[g][i] ELSE chunks[g][i + 1]
      /\ X \in [Chunks -> Nat]
      /\ \A d \in Chunks : X[d] = IF group[d] = g /\ index[d] > k THEN index[d] - 1 ELSE index[d]
  BY <1>1, RemovedFacts, ZenonT(30)
<1>3. /\ \A i \in 1..l : chunks[g][i] \in Chunks /\ group[chunks[g][i]] = g /\ index[chunks[g][i]] = i - 1
      /\ \A d \in Chunks : group[d] = g => index[d] \in 0..(l - 1) /\ chunks[g][index[d] + 1] = d
  BY <1>1, ListedFacts, SMTT(30)
<1>4. F = IF k < f THEN f - 1 ELSE f
  BY <1>1 DEF RemovedFree
<1>5. ASSUME NEW i \in 1..(l - 1)
      PROVE  R[i] \in Chunks \ {c} /\ group[R[i]] = g /\ X[R[i]] = i - 1
  <2>1. CASE i <= k
    <3>1. i \in 1..l /\ ~ (i - 1 > k) /\ i - 1 # k
      BY <1>1, <2>1
    <3>2. R[i] = chunks[g][i] /\ index[R[i]] = i - 1 /\ group[R[i]] = g /\ R[i] \in Chunks
      BY <1>2, <1>3, <2>1, <3>1
    <3>3. QED BY <1>1, <1>2, <3>1, <3>2
  <2>2. CASE ~ (i <= k)
    <3>1. i + 1 \in 1..l /\ (i + 1) - 1 = i /\ i > k /\ i # k
      BY <1>1, <2>2
    <3>2. R[i] = chunks[g][i + 1] /\ index[R[i]] = i /\ group[R[i]] = g /\ R[i] \in Chunks
      BY <1>2, <1>3, <2>2, <3>1, ZenonT(40)
    <3>3. QED BY <1>1, <1>2, <3>1, <3>2
  <2>3. QED BY <2>1, <2>2
<1>6. ASSUME NEW x \in 0..(l - 1)
      PROVE  /\ x > k => /\ x \in 1..(l - 1) /\ ~ (x <= k) /\ (x - 1) + 1 = x /\ x - 1 < l - 1
                         /\ (x - 1 < F <=> x < f)
             /\ x # k /\ ~ (x > k) => x + 1 \in 1..(l - 1) /\ x + 1 <= k /\ x < l - 1 /\ (x < F <=> x < f)
  <2>1. k < l /\ f <= l /\ x \in Nat /\ x < l
    BY <1>1
  <2>2. CASE x > k
    BY ONLY <1>4, <2>1, <2>2, k \in Nat, l \in Nat, f \in Nat
  <2>3. CASE x < k
    BY ONLY <1>4, <2>1, <2>3, k \in Nat, l \in Nat, f \in Nat
  <2>4. x = k \/ x < k \/ x > k
    BY <2>1
  <2>5. QED BY <2>2, <2>3, <2>4
<1>7. ASSUME NEW d \in Chunks \ {c}, group[d] = g
      PROVE  X[d] < l - 1 /\ R[X[d] + 1] = d /\ (X[d] < F <=> index[d] < f)
  <2>1. PICK x \in 0..(l - 1) : x = index[d] /\ chunks[g][x + 1] = d
    BY <1>3, <1>7
  <2>2. x # k
    BY <1>1, <1>3, <2>1
  <2>3. CASE x > k
    <3>1. /\ x \in 1..(l - 1) /\ ~ (x <= k) /\ (x - 1) + 1 = x /\ x - 1 < l - 1
          /\ (x - 1 < F <=> x < f)
      BY <1>6, <2>3
    <3>2. X[d] = x - 1 /\ R[x] = d
      BY <1>2, <1>7, <2>1, <2>3, <3>1
    <3>3. QED BY <2>1, <3>1, <3>2
  <2>4. CASE ~ (x > k)
    <3>1. x + 1 \in 1..(l - 1) /\ x + 1 <= k /\ x < l - 1 /\ (x < F <=> x < f)
      BY <1>6, <2>2, <2>4
    <3>2. X[d] = x /\ R[x + 1] = d
      BY <1>2, <1>7, <2>1, <2>4, <3>1
    <3>3. QED BY <2>1, <3>1, <3>2
  <2>5. QED BY <2>3, <2>4
<1>8. F \in Nat /\ F <= l - 1 /\ l - 1 \in Nat
  BY <1>1, <1>4
<1>9. Ordered(g, c, R, X, F)
  BY <1>1, <1>2, <1>5, <1>7, <1>8 DEF Ordered
<1>10. QED BY <1>1, <1>2, <1>5, <1>9

\* Where add_chunk puts a chunk, and the chunks that are full then.
PlaceIn(g, full) == IF full THEN firstFree[g] ELSE Len(chunks[g])
AddedFree(g, full) == IF full THEN firstFree[g] + 1 ELSE firstFree[g]

\* A chunk comes to a group, and a full one with one chunk after it at most; ix
\* has the indices of the chunks of the group.
Inserts(c, g, full, ix) ==
  /\ group[c] # g /\ full \in BOOLEAN
  /\ ~ (full /\ firstFree[g] + 1 < Len(chunks[g]))
  /\ ix \in [Chunks -> Nat] /\ \A d \in Chunks : group[d] = g => ix[d] = index[d]

\* Chunk c comes to place p of the list of group g.
Inserted(c, g, ix, p, A, I) ==
  /\ p \in Nat /\ p <= Len(chunks[g])
  /\ A \in Seq(Chunks) /\ Len(A) = Len(chunks[g]) + 1
  /\ \A i \in 1..(Len(chunks[g]) + 1) :
       A[i] = IF i <= p THEN chunks[g][i] ELSE IF i = p + 1 THEN c ELSE chunks[g][i - 1]
  /\ I \in [Chunks -> Nat] /\ I[c] = p
  /\ \A d \in Chunks \ {c} :
       I[d] = IF group[d] = g /\ index[d] >= p THEN index[d] + 1 ELSE ix[d]

(* A chunk in the list of a group it was not in (add_chunk): at the end, or*)
(* before the only chunk that is not full, or after the full ones.         *)
LEMMA InsertedFacts ==
  ASSUME ListsTyped, ListsInv, NEW c \in Chunks, NEW g \in Groups, NEW full, NEW ix, Inserts(c, g, full, ix),
         NEW A, A = AddedTo(g, c, full), NEW I, I = AddedIndex(ix, g, c, full),
         NEW p, p = PlaceIn(g, full)
  PROVE  Inserted(c, g, ix, p, A, I)
<1>. /\ group[c] # g /\ full \in BOOLEAN
     /\ ~ (full /\ firstFree[g] + 1 < Len(chunks[g]))
     /\ ix \in [Chunks -> Nat] /\ \A d \in Chunks : group[d] = g => ix[d] = index[d]
  BY DEF Inserts
<1>1. PICK l \in Nat, f \in Nat : l = Len(chunks[g]) /\ f = firstFree[g] /\ f <= l
  BY ListedFacts
<1>2. /\ \A i \in 1..l : chunks[g][i] \in Chunks /\ group[chunks[g][i]] = g /\ index[chunks[g][i]] = i - 1
      /\ \A d \in Chunks : group[d] = g => index[d] \in 0..(l - 1) /\ chunks[g][index[d] + 1] = d
  BY <1>1, ListedFacts, SMTT(30)
<1>3. CASE ~ full
  <2>1. p = l /\ A = Append(chunks[g], c) /\ I = [ix EXCEPT ![c] = l]
    BY <1>1, <1>3 DEF AddedTo, AddedIndex, PlaceIn
  <2>2. chunks[g] \in Seq(Chunks)
    BY DEF ListsTyped
  <2>3. /\ A \in Seq(Chunks) /\ Len(A) = l + 1
        /\ \A i \in 1..l : A[i] = chunks[g][i]
        /\ A[l + 1] = c
    BY <1>1, <2>1, <2>2, AppendProperties
  <2>4. \A i \in 1..(l + 1) :
          A[i] = IF i <= p THEN chunks[g][i] ELSE IF i = p + 1 THEN c ELSE chunks[g][i - 1]
    BY <2>1, <2>3
  <2>5. \A d \in Chunks : group[d] = g => ~ (index[d] >= l)
    BY <1>2
  <2>6. QED BY <1>1, <2>1, <2>3, <2>4, <2>5 DEF Inserted
<1>4. CASE full /\ f = l
  <2>1. p = l /\ I = [ix EXCEPT ![c] = l]
    BY <1>1, <1>4 DEF AddedIndex, PlaceIn
  <2>2. A = [i \in 1..(l + 1) |-> IF i <= l THEN chunks[g][i]
                                 ELSE IF i = l + 1 THEN c ELSE chunks[g][l + 1]]
    BY <1>1, <1>4 DEF AddedTo
  <2>3. \A i \in 1..(l + 1) : A[i] = IF i <= l THEN chunks[g][i] ELSE c
    BY <2>2
  <2>4. A \in Seq(Chunks) /\ Len(A) = l + 1
    <3>1. A \in [1..(l + 1) -> Chunks]
      BY <1>2, <2>2, <2>3
    <3>2. QED BY <3>1, SeqDef, LenProperties
  <2>5. \A d \in Chunks : group[d] = g => ~ (index[d] >= l)
    BY <1>2
  <2>6. \A i \in 1..(l + 1) :
          A[i] = IF i <= p THEN chunks[g][i] ELSE IF i = p + 1 THEN c ELSE chunks[g][i - 1]
    BY <2>1, <2>3
  <2>7. QED BY <1>1, <2>1, <2>4, <2>5, <2>6 DEF Inserted
<1>5. CASE full /\ f # l
  <2>1. l = f + 1 /\ p = f
    BY <1>1, <1>5 DEF PlaceIn
  <2>2. PICK e : e = chunks[g][f + 1]
    OBVIOUS
  <2>3. e \in Chunks \ {c} /\ group[e] = g /\ index[e] = f /\ f + 1 \in 1..l
    BY <1>2, <2>1, <2>2
  <2>4. I = [ix EXCEPT ![c] = f, ![e] = f + 1]
    BY <1>1, <1>5, <2>1, <2>2 DEF AddedIndex
  <2>5. A = [i \in 1..(l + 1) |-> IF i <= f THEN chunks[g][i] ELSE IF i = f + 1 THEN c ELSE e]
    BY <1>1, <1>5, <2>2 DEF AddedTo
  <2>6. A \in Seq(Chunks) /\ Len(A) = l + 1
    <3>1. \A i \in 1..(l + 1) : i <= f => i \in 1..l
      BY <2>1
    <3>2. A \in [1..(l + 1) -> Chunks]
      BY <1>2, <2>3, <2>5, <3>1
    <3>3. QED BY <3>2, SeqDef, LenProperties
  <2>7. ASSUME NEW i \in 1..(l + 1)
        PROVE  A[i] = IF i <= p THEN chunks[g][i] ELSE IF i = p + 1 THEN c ELSE chunks[g][i - 1]
    <3>1. ~ (i <= f) /\ i # f + 1 => i - 1 = f + 1
      BY <2>1
    <3>2. QED BY <2>1, <2>2, <2>5, <3>1
  <2>8. ASSUME NEW d \in Chunks \ {c}
        PROVE  I[d] = IF group[d] = g /\ index[d] >= p THEN index[d] + 1 ELSE ix[d]
    <3>1. CASE d = e
      BY <2>1, <2>3, <2>4, <3>1
    <3>2. CASE d # e
      <4>1. I[d] = ix[d]
        BY <2>4, <3>2
      <4>2. ~ (group[d] = g /\ index[d] >= f)
        <5>1. SUFFICES ASSUME group[d] = g, index[d] >= f PROVE FALSE
          OBVIOUS
        <5>2. index[d] = f
          BY <1>2, <2>1, <5>1
        <5>3. QED BY <1>2, <2>2, <3>2, <5>1, <5>2
      <4>3. QED BY <2>1, <4>1, <4>2
    <3>3. QED BY <3>1, <3>2
  <2>9. I \in [Chunks -> Nat] /\ I[c] = p
    BY <2>1, <2>3, <2>4
  <2>10. QED BY <1>1, <2>1, <2>6, <2>7, <2>8, <2>9 DEF Inserted
<1>6. QED BY <1>3, <1>4, <1>5

(* The list with the chunk is one again.                                   *)
LEMMA InsertedOrder ==
  ASSUME ListsTyped, ListsInv, NEW c \in Chunks, NEW g \in Groups, NEW full, NEW ix, Inserts(c, g, full, ix),
         NEW A, A = AddedTo(g, c, full), NEW I, I = AddedIndex(ix, g, c, full),
         NEW F, F = AddedFree(g, full)
  PROVE  /\ Ordered(g, c, A, I, F) /\ Len(A) = Len(chunks[g]) + 1
         /\ I[c] < Len(A) /\ A[I[c] + 1] = c /\ (I[c] < F <=> full)
         /\ \A d \in Chunks \ {c} : group[d] # g => I[d] = ix[d]
<1>. /\ group[c] # g /\ full \in BOOLEAN
     /\ ~ (full /\ firstFree[g] + 1 < Len(chunks[g]))
     /\ ix \in [Chunks -> Nat] /\ \A d \in Chunks : group[d] = g => ix[d] = index[d]
  BY DEF Inserts
<1>1. PICK l \in Nat, f \in Nat, p \in Nat :
         /\ l = Len(chunks[g]) /\ f = firstFree[g] /\ f <= l
         /\ p = IF full THEN f ELSE l
  <2>1. /\ Len(chunks[g]) \in Nat /\ firstFree[g] \in Nat /\ firstFree[g] <= Len(chunks[g])
    BY ListedFacts
  <2>2. QED BY <2>1
<1>2. /\ p <= l /\ A \in Seq(Chunks) /\ Len(A) = l + 1
      /\ \A i \in 1..(l + 1) :
           A[i] = IF i <= p THEN chunks[g][i] ELSE IF i = p + 1 THEN c ELSE chunks[g][i - 1]
      /\ I \in [Chunks -> Nat] /\ I[c] = p
      /\ \A d \in Chunks \ {c} :
           I[d] = IF group[d] = g /\ index[d] >= p THEN index[d] + 1 ELSE ix[d]
  <2>1. p = PlaceIn(g, full)
    BY <1>1 DEF PlaceIn
  <2>2. Inserted(c, g, ix, p, A, I)
    BY <2>1, InsertedFacts
  <2>3. QED BY <1>1, <2>2 DEF Inserted
<1>3. /\ \A i \in 1..l : chunks[g][i] \in Chunks \ {c} /\ group[chunks[g][i]] = g /\ index[chunks[g][i]] = i - 1
      /\ \A d \in Chunks : group[d] = g => index[d] \in 0..(l - 1) /\ chunks[g][index[d] + 1] = d
  <2>1. \A i \in 1..l : chunks[g][i] \in Chunks /\ group[chunks[g][i]] = g /\ index[chunks[g][i]] = i - 1
    BY <1>1, ListedFacts
  <2>2. \A d \in Chunks : group[d] = g => index[d] \in Nat /\ index[d] < l /\ chunks[g][index[d] + 1] = d
    BY <1>1, ListedFacts, SMTT(30)
  <2>3. QED BY <2>1, <2>2
<1>4. ASSUME NEW i \in 1..(l + 1)
      PROVE  A[i] \in Chunks /\ (A[i] = c \/ group[A[i]] = g) /\ I[A[i]] = i - 1
  <2>1. CASE i <= p
    <3>1. i \in 1..l /\ ~ (i - 1 >= p)
      BY <1>2, <2>1
    <3>2. PICK d : d = chunks[g][i]
      OBVIOUS
    <3>3. A[i] = d
      BY <1>2, <2>1, <3>2
    <3>4. d \in Chunks \ {c} /\ group[d] = g /\ index[d] = i - 1
      BY <1>3, <3>1, <3>2
    <3>5. I[d] = index[d]
      BY <1>2, <3>1, <3>4
    <3>6. QED BY <3>3, <3>4, <3>5
  <2>2. CASE i = p + 1
    <3>1. A[i] = c /\ i - 1 = p
      BY <1>2, <2>2
    <3>2. QED BY <1>2, <3>1
  <2>3. CASE i > p + 1
    <3>1. i - 1 \in 1..l /\ (i - 1) - 1 >= p /\ ((i - 1) - 1) + 1 = i - 1 /\ ~ (i <= p) /\ i # p + 1
      BY <2>3
    <3>2. A[i] = chunks[g][i - 1]
      BY <1>2, <3>1
    <3>3. A[i] \in Chunks \ {c} /\ group[A[i]] = g /\ index[A[i]] = (i - 1) - 1
      BY <1>3, <3>1, <3>2
    <3>4. QED BY <1>2, <3>1, <3>3
  <2>4. QED BY <2>1, <2>2, <2>3
<1>5. ASSUME NEW d \in Chunks \ {c}, group[d] = g
      PROVE  I[d] < l + 1 /\ A[I[d] + 1] = d /\ (I[d] < F <=> index[d] < f)
  <2>1. PICK x \in 0..(l - 1) : x = index[d] /\ chunks[g][x + 1] = d /\ ix[d] = x
    BY <1>3, <1>5
  <2>2. CASE x >= p
    <3>1. x \in Nat /\ x < l
      BY <2>1
    <3>2. x + 2 \in 1..(l + 1) /\ ~ (x + 2 <= p) /\ x + 2 # p + 1 /\ (x + 2) - 1 = x + 1 /\ (x + 1) + 1 = x + 2
      BY ONLY <2>2, <3>1, l \in Nat, p \in Nat
    <3>3. I[d] = x + 1 /\ A[x + 2] = d
      BY <1>2, <1>5, <2>1, <2>2, <3>2
    <3>4. full
      BY <1>1, <2>1, <2>2
    <3>5. x + 1 < l + 1 /\ (x + 1 < F <=> x < f)
      BY <1>1, <2>1, <3>4 DEF AddedFree
    <3>6. QED BY <2>1, <3>2, <3>3, <3>5
  <2>3. CASE ~ (x >= p)
    <3>1. x + 1 \in 1..(l + 1) /\ x + 1 <= p
      <4>1. x \in Nat /\ x < l
        BY <2>1
      <4>2. QED BY ONLY <2>3, <4>1, l \in Nat, p \in Nat
    <3>2. I[d] = x /\ A[x + 1] = d
      BY <1>2, <1>5, <2>1, <2>3, <3>1
    <3>3. x < l + 1 /\ (x < F <=> x < f)
      BY <1>1, <2>1, <2>3 DEF AddedFree
    <3>4. QED BY <2>1, <3>2, <3>3
  <2>4. QED BY <2>2, <2>3
<1>6. p < l + 1 /\ A[p + 1] = c /\ (p < F <=> full) /\ F \in Nat /\ F <= l + 1
  <2>1. p + 1 \in 1..(l + 1) /\ ~ (p + 1 <= p)
    BY <1>2
  <2>2. A[p + 1] = c
    BY <1>2, <2>1
  <2>3. (p < F <=> full) /\ F \in Nat /\ F <= l + 1 /\ p < l + 1
    <3>1. CASE full
      <4>1. p = f /\ F = f + 1
        BY <1>1, <3>1 DEF AddedFree
      <4>2. f <= l
        BY <1>1
      <4>3. QED BY ONLY <3>1, <4>1, <4>2, f \in Nat, l \in Nat
    <3>2. CASE ~ full
      <4>1. p = l /\ F = f
        BY <1>1, <3>2 DEF AddedFree
      <4>2. QED BY <1>1, <3>2, <4>1
    <3>3. QED BY <3>1, <3>2
  <2>4. QED BY <2>2, <2>3
<1>7. \A d \in Chunks \ {c} : group[d] # g => I[d] = ix[d]
  BY <1>2
<1>8. Ordered(g, c, A, I, F)
  BY <1>1, <1>2, <1>4, <1>5, <1>6 DEF Ordered
<1>9. QED BY <1>1, <1>2, <1>6, <1>7, <1>8

(* The list of a group that chunk c neither leaves nor comes to.           *)
LEMMA OrderedSame ==
  ASSUME ListsTyped, ListsInv, NEW c \in Chunks, NEW g \in Groups, group[c] # g
  PROVE  /\ Ordered(g, c, chunks[g], index, firstFree[g])
         /\ \A i \in 1..Len(chunks[g]) : chunks[g][i] \in Chunks \ {c} /\ group[chunks[g][i]] = g
<1>1. chunks[g] \in Seq(Chunks) /\ index \in [Chunks -> Nat]
  BY DEF ListsTyped
<1>2. Len(chunks[g]) \in Nat /\ firstFree[g] \in Nat /\ firstFree[g] <= Len(chunks[g]) /\ g # NoGroup
  BY ListedFacts
<1>3. \A i \in 1..Len(chunks[g]) :
        chunks[g][i] \in Chunks /\ group[chunks[g][i]] = g /\ index[chunks[g][i]] = i - 1
  BY ListedFacts
<1>4. \A d \in Chunks \ {c} : group[d] = g => index[d] < Len(chunks[g]) /\ chunks[g][index[d] + 1] = d
  BY <1>2, ListedFacts, ZenonT(30)
<1>5. QED BY <1>1, <1>2, <1>3, <1>4 DEF Ordered

(* Only the indices of the chunks of a list count.                         *)
LEMMA Reindexed ==
  ASSUME NEW c, NEW g, NEW s, NEW ix, NEW f, Ordered(g, c, s, ix, f), NEW ix2 \in [Chunks -> Nat],
         \A i \in 1..Len(s) : ix2[s[i]] = ix[s[i]],
         \A d \in Chunks \ {c} : group[d] = g => ix2[d] = ix[d]
  PROVE  Ordered(g, c, s, ix2, f)
BY DEF Ordered

(* Lists and indices agree after a step when every list is in order but    *)
(* for the chunk c that the step moves, and c is where it belongs.         *)
LEMMA ListsInvByOrder ==
  ASSUME ListsTyped, ListsInv, ListsTyped', NEW c \in Chunks,
         \A d \in Chunks \ {c} : group'[d] = group[d] /\ ents'[d] = ents[d] /\ pt'[d] = pt[d],
         \A h \in Groups : Ordered(h, c, chunks'[h], index', firstFree'[h]),
         \A h \in Groups : group'[c] # h => \A i \in 1..Len(chunks'[h]) : chunks'[h][i] # c,
         group'[c] = NoGroup => ents'[c] = <<>>,
         group'[c] # NoGroup =>
           /\ index'[c] < Len(chunks'[group'[c]]) /\ chunks'[group'[c]][index'[c] + 1] = c
           /\ (Len(ents'[c]) = Capacity[group'[c]][pt'[c]] <=> index'[c] < firstFree'[group'[c]])
           /\ Len(ents'[c]) <= Capacity[group'[c]][pt'[c]]
  PROVE  ListsInv'
<1>1. \A h \in Groups : firstFree'[h] <= Len(chunks'[h])
  BY DEF Ordered
<1>2. ASSUME NEW h \in Groups, NEW i \in 1..Len(chunks'[h])
      PROVE  group'[chunks'[h][i]] = h /\ index'[chunks'[h][i]] = i - 1
  <2>1. PICK d : d = chunks'[h][i]
    OBVIOUS
  <2>2. d \in Chunks /\ (d = c \/ group[d] = h) /\ index'[d] = i - 1
    BY <2>1 DEF Ordered
  <2>3. group'[d] = h
    BY <2>1, <2>2
  <2>4. QED BY <2>1, <2>2, <2>3
<1>3. ASSUME NEW d \in Chunks, group'[d] # NoGroup
      PROVE  /\ index'[d] < Len(chunks'[group'[d]]) /\ chunks'[group'[d]][index'[d] + 1] = d
             /\ (Len(ents'[d]) = Capacity[group'[d]][pt'[d]] <=> index'[d] < firstFree'[group'[d]])
             /\ Len(ents'[d]) <= Capacity[group'[d]][pt'[d]]
  <2>1. CASE d = c
    BY <1>3, <2>1
  <2>2. CASE d # c
    <3>1. group'[d] = group[d] /\ ents'[d] = ents[d] /\ pt'[d] = pt[d] /\ group[d] # NoGroup
      BY <1>3, <2>2
    <3>2. PICK h \in Groups : h = group[d]
      BY <3>1, ListedFacts
    <3>3. /\ index'[d] < Len(chunks'[h]) /\ chunks'[h][index'[d] + 1] = d
          /\ (index'[d] < firstFree'[h] <=> index[d] < firstFree[h])
      <4>1. Ordered(h, c, chunks'[h], index', firstFree'[h])
        OBVIOUS
      <4>2. QED BY <2>2, <3>2, <4>1 DEF Ordered
    <3>4. /\ (Len(ents[d]) = Capacity[h][pt[d]] <=> index[d] < firstFree[h])
          /\ Len(ents[d]) <= Capacity[h][pt[d]]
      BY <3>1, <3>2, ListedFacts DEF CapacityOf
    <3>5. QED BY <3>1, <3>2, <3>3, <3>4
  <2>3. QED BY <2>1, <2>2
<1>4. \A d \in Chunks : group'[d] = NoGroup => ents'[d] = <<>>
  BY ListedFacts
<1>5. QED BY <1>1, <1>2, <1>3, <1>4, ListsInvBy

\* The cases of ResizeChunk: the chunk goes back to its pool, becomes full, is
\* full no more, or keeps its place.
Removes(g, c, s) ==
  /\ s = <<>> /\ ents' = [ents EXCEPT ![c] = s]
  /\ chunks' = [chunks EXCEPT ![g] = RemovedFrom(g, c)]
  /\ index' = [RemovedIndex(g, c) EXCEPT ![c] = 0]
  /\ firstFree' = [firstFree EXCEPT ![g] = RemovedFree(g, c)]
  /\ group' = [group EXCEPT ![c] = NoGroup]
  /\ pt' = [pt EXCEPT ![c] = "default"]

Exchanges(g, c, s, border, free) ==
  /\ s # <<>> /\ ents' = [ents EXCEPT ![c] = s]
  /\ ExchangedWith(g, c, border)
  /\ firstFree' = [firstFree EXCEPT ![g] = free]
  /\ UNCHANGED <<group, pt>>

Fills(g, c, s) ==
  /\ ~ Full(c) /\ Len(s) = CapacityOf(c)
  /\ Exchanges(g, c, s, firstFree[g], firstFree[g] + 1)

Frees(g, c, s) ==
  /\ Full(c) /\ Len(s) < CapacityOf(c)
  /\ Exchanges(g, c, s, firstFree[g] - 1, firstFree[g] - 1)

Keeps(g, c, s) ==
  /\ s # <<>> /\ Full(c) = (Len(s) = CapacityOf(c))
  /\ ents' = [ents EXCEPT ![c] = s]
  /\ UNCHANGED <<lists, pt>>

\* resize_chunk does one of these four things.
LEMMA ResizeCases ==
  ASSUME NEW g, NEW c, NEW s, ResizeChunk(g, c, s)
  PROVE  /\ Removes(g, c, s) \/ Fills(g, c, s) \/ Frees(g, c, s) \/ Keeps(g, c, s)
         /\ groupSize' = [groupSize EXCEPT ![g] = SizeAfter(g, c, Len(s))]
         /\ ents' = [ents EXCEPT ![c] = s]
BY DEF ResizeChunk, Removes, Fills, Frees, Keeps, Exchanges

\* An empty chunk leaves its list, which closes the gap.
LEMMA RemovesLists ==
  ASSUME ListsTyped, ListsInv, NEW c \in Chunks, NEW g \in Groups, group[c] = g, NEW s, Removes(g, c, s)
  PROVE  ListsTyped' /\ ListsInv' /\ Len(chunks'[g]) = Len(chunks[g]) - 1
<1>1. PICK R, X, F : R = RemovedFrom(g, c) /\ X = RemovedIndex(g, c) /\ F = RemovedFree(g, c)
  OBVIOUS
<1>2. Ordered(g, c, R, X, F) /\ Len(R) = Len(chunks[g]) - 1
  BY <1>1, RemovedOrder
<1>3. \A i \in 1..Len(R) : R[i] \in Chunks \ {c}
  <2>1. \A i \in 1..Len(R) : R[i] \in Chunks
    BY <1>2 DEF Ordered
  <2>2. \A i \in 1..Len(R) : R[i] # c
    BY <1>1, RemovedOrder
  <2>3. QED BY <2>1, <2>2
<1>4. \A d \in Chunks : group[d] # g => X[d] = index[d]
  BY <1>1, RemovedOrder
<1>5. R \in Seq(Chunks) /\ X \in [Chunks -> Nat] /\ F \in Nat
  BY <1>2 DEF Ordered
<1>6. /\ ents' = [ents EXCEPT ![c] = <<>>] /\ pt' = [pt EXCEPT ![c] = "default"]
      /\ group' = [group EXCEPT ![c] = NoGroup] /\ index' = [X EXCEPT ![c] = 0]
      /\ chunks' = [chunks EXCEPT ![g] = R] /\ firstFree' = [firstFree EXCEPT ![g] = F]
  BY <1>1 DEF Removes
<1>7. ListsTyped'
  BY <1>5, <1>6, EmptySeq DEF ListsTyped, EntsType, PoolTypes
<1>8. \A d \in Chunks \ {c} : group'[d] = group[d] /\ ents'[d] = ents[d] /\ pt'[d] = pt[d]
  BY <1>6 DEF ListsTyped, EntsType
<1>9. group'[c] = NoGroup /\ ents'[c] = <<>> /\ NoGroup \notin Groups
  BY <1>6, ConstantsTyped DEF ListsTyped, EntsType
<1>10. index' \in [Chunks -> Nat] /\ \A d \in Chunks \ {c} : index'[d] = X[d]
  BY <1>5, <1>6
<1>11. \A h \in Groups : /\ chunks'[h] = IF h = g THEN R ELSE chunks[h]
                         /\ firstFree'[h] = IF h = g THEN F ELSE firstFree[h]
  BY <1>6 DEF ListsTyped
<1>12. ASSUME NEW h \in Groups
       PROVE  /\ Ordered(h, c, chunks'[h], index', firstFree'[h])
              /\ \A i \in 1..Len(chunks'[h]) : chunks'[h][i] # c
  <2>1. CASE h = g
    <3>1. Ordered(g, c, R, index', F)
      BY <1>2, <1>3, <1>10, Reindexed
    <3>2. QED BY <1>3, <1>11, <2>1, <3>1
  <2>2. CASE h # g
    <3>1. /\ Ordered(h, c, chunks[h], index, firstFree[h])
          /\ \A i \in 1..Len(chunks[h]) : chunks[h][i] \in Chunks \ {c} /\ group[chunks[h][i]] = h
      BY <2>2, OrderedSame
    <3>2. \A d \in Chunks \ {c} : group[d] = h => index'[d] = index[d]
      BY <1>4, <1>10, <2>2
    <3>3. Ordered(h, c, chunks[h], index', firstFree[h])
      BY <1>10, <3>1, <3>2, Reindexed
    <3>4. QED BY <1>11, <2>2, <3>1, <3>3
  <2>3. QED BY <2>1, <2>2
<1>13. ListsInv'
  BY <1>7, <1>8, <1>9, <1>12, ListsInvByOrder
<1>14. QED BY <1>2, <1>7, <1>11, <1>13

(* Two chunks of a list that change places (mark_full, mark_free).         *)
LEMMA ExchangedFacts ==
  ASSUME ListsTyped, ListsInv, NEW c \in Chunks, NEW g \in Groups, group[c] = g,
         NEW b \in Nat, b < Len(chunks[g]), ExchangedWith(g, c, b)
  PROVE  /\ chunks' \in [Groups -> Seq(Chunks)] /\ index' \in [Chunks -> Nat]
         /\ \A h \in Groups : Len(chunks'[h]) = Len(chunks[h])
         /\ \A h \in Groups : \A i \in 1..Len(chunks'[h]) :
              group[chunks'[h][i]] = h /\ index'[chunks'[h][i]] = i - 1
         /\ \A d \in Chunks : group[d] # NoGroup =>
              index'[d] < Len(chunks'[group[d]]) /\ chunks'[group[d]][index'[d] + 1] = d
         /\ \A d \in Chunks : group[d] # g => index'[d] = index[d]
         /\ index'[c] = b
         /\ \A d \in Chunks \ {c} : group[d] = g =>
              index'[d] = IF index[d] = b THEN index[c] ELSE index[d]
<1>1. PICK k \in Nat, l \in Nat : k = index[c] /\ l = Len(chunks[g]) /\ k < l /\ b < l /\ g # NoGroup
  BY ListedFacts
<1>2. /\ \A h \in Groups : \A i \in 1..Len(chunks[h]) :
           chunks[h][i] \in Chunks /\ group[chunks[h][i]] = h /\ index[chunks[h][i]] = i - 1
      /\ \A d \in Chunks : index[d] \in Nat /\ (group[d] # NoGroup => group[d] \in Groups)
      /\ \A d \in Chunks : group[d] # NoGroup =>
           /\ index[d] < Len(chunks[group[d]]) /\ chunks[group[d]][index[d] + 1] = d
  BY ListedFacts
<1>3. k + 1 \in 1..l /\ b + 1 \in 1..l /\ chunks[g][k + 1] = c
  BY <1>1, <1>2
<1>4. PICK e \in Chunks : e = chunks[g][b + 1] /\ group[e] = g /\ index[e] = b
  BY <1>1, <1>2, <1>3
<1>5. PICK t : t = Swapped(chunks[g], k + 1, b + 1)
  OBVIOUS
<1>6. /\ t \in Seq(Chunks) /\ Len(t) = l
      /\ \A i \in 1..l : t[i] = IF i = b + 1 THEN c ELSE IF i = k + 1 THEN e ELSE chunks[g][i]
  <2>1. chunks[g] \in Seq(Chunks) /\ DOMAIN chunks[g] = 1..l /\ chunks[g] \in [1..l -> Chunks]
    BY <1>1, LenProperties DEF ListsTyped
  <2>2. PICK u : u = [chunks[g] EXCEPT ![k + 1] = e]
    OBVIOUS
  <2>3. u \in [1..l -> Chunks] /\ \A i \in 1..l : u[i] = IF i = k + 1 THEN e ELSE chunks[g][i]
    BY <2>1, <2>2
  <2>4. t = [u EXCEPT ![b + 1] = c]
    BY <1>3, <1>4, <1>5, <2>2 DEF Swapped
  <2>5. t \in [1..l -> Chunks] /\ \A i \in 1..l : t[i] = IF i = b + 1 THEN c ELSE u[i]
    BY <2>3, <2>4
  <2>6. t \in Seq(Chunks) /\ Len(t) = l
    BY <1>1, <2>5, SeqDef, LenProperties
  <2>7. QED BY <2>3, <2>5, <2>6
<1>7. chunks' = [chunks EXCEPT ![g] = t]
  BY <1>1, <1>5 DEF ExchangedWith
<1>8. /\ index' \in [Chunks -> Nat]
      /\ \A d \in Chunks : index'[d] = IF d = e THEN k ELSE IF d = c THEN b ELSE index[d]
  <2>1. PICK u : u = [index EXCEPT ![c] = index[chunks[g][b + 1]]]
    OBVIOUS
  <2>2. u \in [Chunks -> Nat] /\ \A d \in Chunks : u[d] = IF d = c THEN b ELSE index[d]
    BY <1>4, <2>1 DEF ListsTyped
  <2>3. index' = [u EXCEPT ![e] = k]
    BY <1>1, <1>4, <2>1 DEF ExchangedWith
  <2>4. QED BY <2>2, <2>3
<1>9. /\ chunks' \in [Groups -> Seq(Chunks)]
      /\ \A h \in Groups : chunks'[h] = IF h = g THEN t ELSE chunks[h]
  BY <1>6, <1>7 DEF ListsTyped
<1>10. \A h \in Groups : Len(chunks'[h]) = Len(chunks[h])
  BY <1>1, <1>6, <1>9
<1>11. e = c <=> b = k
  BY <1>1, <1>3, <1>4
<1>12. ASSUME NEW h \in Groups, NEW i \in 1..Len(chunks'[h])
       PROVE  group[chunks'[h][i]] = h /\ index'[chunks'[h][i]] = i - 1
  <2>1. CASE h # g
    <3>1. /\ chunks'[h][i] = chunks[h][i] /\ chunks[h][i] \in Chunks /\ group[chunks[h][i]] = h
          /\ index[chunks[h][i]] = i - 1
      BY <1>2, <1>9, <1>10, <2>1
    <3>2. QED BY <1>4, <1>8, <2>1, <3>1
  <2>2. CASE h = g
    <3>1. /\ i \in 1..l /\ chunks'[h][i] = t[i] /\ chunks[g][i] \in Chunks
          /\ group[chunks[g][i]] = g /\ index[chunks[g][i]] = i - 1
      BY <1>1, <1>2, <1>9, <1>10, <2>2
    <3>2. CASE i = b + 1
      <4>1. t[i] = c /\ i - 1 = b
        BY <1>6, <3>1, <3>2
      <4>2. index'[c] = b
        BY <1>8, <1>11
      <4>3. QED BY <2>2, <3>1, <4>1, <4>2
    <3>3. CASE i # b + 1 /\ i = k + 1
      <4>1. t[i] = e /\ i - 1 = k
        BY <1>6, <3>1, <3>3
      <4>2. QED BY <1>4, <1>8, <2>2, <3>1, <4>1
    <3>4. CASE i # b + 1 /\ i # k + 1
      <4>1. t[i] = chunks[g][i] /\ i - 1 # b /\ i - 1 # k
        BY <1>1, <1>6, <3>1, <3>4
      <4>2. chunks[g][i] # c /\ chunks[g][i] # e
        BY <1>1, <1>4, <3>1, <4>1
      <4>3. QED BY <1>8, <2>2, <3>1, <4>1, <4>2
    <3>5. QED BY <3>2, <3>3, <3>4
  <2>3. QED BY <2>1, <2>2
<1>13. ASSUME NEW d \in Chunks, group[d] # NoGroup
       PROVE  index'[d] < Len(chunks'[group[d]]) /\ chunks'[group[d]][index'[d] + 1] = d
  <2>1. group[d] \in Groups /\ index[d] \in Nat
    BY <1>2, <1>13
  <2>2. CASE group[d] # g
    BY <1>2, <1>4, <1>8, <1>9, <1>10, <1>13, <2>1, <2>2
  <2>3. CASE d = e
    <3>1. t[k + 1] = e
      BY <1>3, <1>6, <1>11
    <3>2. QED BY <1>1, <1>4, <1>6, <1>8, <1>9, <2>3, <3>1, SMTT(30)
  <2>4. CASE d = c /\ d # e
    BY <1>1, <1>3, <1>6, <1>8, <1>9, <2>4
  <2>5. CASE group[d] = g /\ d # c /\ d # e
    <3>1. PICK x \in Nat : x = index[d] /\ x < l /\ chunks[g][x + 1] = d
      <4>1. index[d] < Len(chunks[group[d]]) /\ chunks[group[d]][index[d] + 1] = d
        BY <1>2, <1>13
      <4>2. index[d] \in Nat
        BY <2>1
      <4>3. index[d] < l /\ chunks[g][index[d] + 1] = d
        BY <1>1, <2>5, <4>1
      <4>4. QED BY <4>2, <4>3
    <3>2. x + 1 \in 1..l /\ x # k /\ x # b
      <4>1. x + 1 \in 1..l
        BY <3>1
      <4>2. x # k
        BY <1>3, <2>5, <3>1
      <4>3. x # b
        BY <1>4, <2>5, <3>1
      <4>4. QED BY <4>1, <4>2, <4>3
    <3>3. x + 1 # k + 1 /\ x + 1 # b + 1
      BY <3>2
    <3>4. t[x + 1] = d
      BY <1>6, <3>1, <3>2, <3>3
    <3>5. QED BY <1>6, <1>8, <1>9, <2>5, <3>1, <3>4
  <2>6. QED BY <2>2, <2>3, <2>4, <2>5
<1>14. index'[c] = b
  BY <1>8, <1>11
<1>15. \A d \in Chunks \ {c} : group[d] = g => index'[d] = IF index[d] = b THEN index[c] ELSE index[d]
  <2> SUFFICES ASSUME NEW d \in Chunks \ {c}, group[d] = g
               PROVE  index'[d] = IF index[d] = b THEN index[c] ELSE index[d]
    OBVIOUS
  <2>1. index[d] = b => d = e
    BY <1>1, <1>2, <1>4
  <2>2. QED BY <1>1, <1>4, <1>8, <2>1
<1>16. \A d \in Chunks : group[d] # g => index'[d] = index[d]
  BY <1>4, <1>8
<1>17. QED BY <1>8, <1>9, <1>10, <1>12, <1>13, <1>14, <1>15, <1>16

(* A list whose chunk c, at the border, becomes full or is full no more.   *)
LEMMA ExchangesLists ==
  ASSUME ListsTyped, ListsInv, NEW c \in Chunks, NEW g \in Groups, group[c] = g,
         NEW s \in Seq(Entity), Len(s) <= CapacityOf(c),
         NEW b \in Nat, b < Len(chunks[g]), NEW f \in Nat, f <= Len(chunks[g]),
         Exchanges(g, c, s, b, f),
         Len(s) = CapacityOf(c) <=> b < f,
         \A d \in Chunks \ {c} : group[d] = g =>
           (index[d] < firstFree[g] <=> (IF index[d] = b THEN index[c] ELSE index[d]) < f)
  PROVE  ListsTyped' /\ ListsInv' /\ Len(chunks'[g]) = Len(chunks[g])
<1>1. /\ ents' = [ents EXCEPT ![c] = s] /\ firstFree' = [firstFree EXCEPT ![g] = f]
      /\ group' = group /\ pt' = pt
  BY DEF Exchanges
<1>2. ExchangedWith(g, c, b)
  BY DEF Exchanges
<1>3. /\ chunks' \in [Groups -> Seq(Chunks)] /\ index' \in [Chunks -> Nat]
      /\ \A h \in Groups : Len(chunks'[h]) = Len(chunks[h])
      /\ \A h \in Groups : \A i \in 1..Len(chunks'[h]) :
           group[chunks'[h][i]] = h /\ index'[chunks'[h][i]] = i - 1
      /\ \A d \in Chunks : group[d] # NoGroup =>
           index'[d] < Len(chunks'[group[d]]) /\ chunks'[group[d]][index'[d] + 1] = d
      /\ \A d \in Chunks : group[d] # g => index'[d] = index[d]
      /\ index'[c] = b
      /\ \A d \in Chunks \ {c} : group[d] = g =>
           index'[d] = IF index[d] = b THEN index[c] ELSE index[d]
  BY <1>2, ExchangedFacts
<1>4. /\ \A d \in Chunks : ents'[d] = IF d = c THEN s ELSE ents[d]
      /\ \A h \in Groups : firstFree'[h] = IF h = g THEN f ELSE firstFree[h]
  BY <1>1 DEF ListsTyped, EntsType
<1>5. ListsTyped'
  <2>1. ents' \in EntsType
    BY <1>1 DEF ListsTyped, EntsType
  <2>2. firstFree' \in [Groups -> Nat]
    BY <1>1 DEF ListsTyped
  <2>3. QED BY <1>1, <1>3, <2>1, <2>2 DEF ListsTyped
<1>6. /\ \A h \in Groups : firstFree[h] <= Len(chunks[h]) /\ h # NoGroup
      /\ \A d \in Chunks : group[d] # NoGroup => group[d] \in Groups
      /\ \A d \in Chunks : group[d] # NoGroup =>
           /\ (Len(ents[d]) = CapacityOf(d) <=> index[d] < firstFree[group[d]])
           /\ Len(ents[d]) <= CapacityOf(d)
      /\ \A d \in Chunks : group[d] = NoGroup => ents[d] = <<>>
  BY ListedFacts
<1>7. \A h \in Groups : firstFree'[h] <= Len(chunks'[h])
  <2>1. SUFFICES ASSUME NEW h \in Groups
                 PROVE  firstFree'[h] <= Len(chunks'[h])
    OBVIOUS
  <2>2. Len(chunks'[h]) = Len(chunks[h])
    BY ONLY <1>3, h \in Groups
  <2>3. firstFree'[h] = IF h = g THEN f ELSE firstFree[h]
    BY ONLY <1>4, h \in Groups
  <2>4. firstFree[h] <= Len(chunks[h])
    BY ONLY <1>6, h \in Groups
  <2>5. QED BY ONLY <2>2, <2>3, <2>4, f <= Len(chunks[g])
<1>8. ASSUME NEW d \in Chunks, group'[d] # NoGroup
      PROVE  /\ (Len(ents'[d]) = Capacity[group'[d]][pt'[d]] <=> index'[d] < firstFree'[group'[d]])
             /\ Len(ents'[d]) <= Capacity[group'[d]][pt'[d]]
  <2>1. Capacity[group'[d]][pt'[d]] = CapacityOf(d) /\ group'[d] = group[d] /\ group[d] \in Groups
    BY <1>1, <1>6, <1>8 DEF CapacityOf
  <2>2. CASE d = c
    BY <1>3, <1>4, <2>1, <2>2
  <2>3. CASE d # c /\ group[d] = g
    <3>1. index'[d] = (IF index[d] = b THEN index[c] ELSE index[d])
      BY <1>3, <2>3
    <3>2. index[d] < firstFree[g] <=> index'[d] < f
      BY <2>3, <3>1
    <3>3. QED BY <1>4, <1>6, <1>8, <2>1, <2>3, <3>2
  <2>4. CASE group[d] # g
    <3>1. index'[d] = index[d] /\ ents'[d] = ents[d] /\ firstFree'[group[d]] = firstFree[group[d]]
      BY <1>3, <1>4, <2>1, <2>4
    <3>2. /\ (Len(ents[d]) = CapacityOf(d) <=> index[d] < firstFree[group[d]])
          /\ Len(ents[d]) <= CapacityOf(d)
      BY <1>6, <1>8, <2>1
    <3>3. QED BY <2>1, <3>1, <3>2
  <2>5. QED BY <2>2, <2>3, <2>4
<1>9. \A d \in Chunks : group'[d] = NoGroup => ents'[d] = <<>>
  BY <1>1, <1>4, <1>6
<1>10. ListsInv'
  <2>1. \A d \in Chunks : group'[d] # NoGroup =>
           index'[d] < Len(chunks'[group'[d]]) /\ chunks'[group'[d]][index'[d] + 1] = d
    BY <1>1, <1>3
  <2>2. \A h \in Groups : \A i \in 1..Len(chunks'[h]) :
           group'[chunks'[h][i]] = h /\ index'[chunks'[h][i]] = i - 1
    BY <1>1, <1>3
  <2>3. QED BY <1>5, <1>7, <1>8, <1>9, <2>1, <2>2, ListsInvBy
<1>11. QED BY <1>3, <1>5, <1>10

(* resize_chunk keeps the lists in order.                                  *)
LEMMA ResizeLists ==
  ASSUME ListsTyped, ListsInv, NEW c \in Chunks, NEW g \in Groups, group[c] = g,
         NEW s \in Seq(Entity), Len(s) <= CapacityOf(c), ResizeChunk(g, c, s)
  PROVE  /\ ListsTyped' /\ ListsInv'
         /\ ents' = [ents EXCEPT ![c] = s]
         /\ group' = IF s = <<>> THEN [group EXCEPT ![c] = NoGroup] ELSE group
         /\ Len(chunks'[g]) = IF s = <<>> THEN Len(chunks[g]) - 1 ELSE Len(chunks[g])
<1>1. PICK k \in Nat, l \in Nat, f \in Nat :
         /\ k = index[c] /\ l = Len(chunks[g]) /\ f = firstFree[g] /\ k < l /\ f <= l
         /\ (Full(c) <=> k < f)
  <2>1. /\ index[c] \in Nat /\ Len(chunks[g]) \in Nat /\ firstFree[g] \in Nat
        /\ index[c] < Len(chunks[g]) /\ firstFree[g] <= Len(chunks[g])
        /\ (Full(c) <=> index[c] < firstFree[g])
    BY ListedFacts DEF Full
  <2>2. QED BY <2>1
<1>2. \A d \in Chunks \ {c} : group[d] = g => index[d] # k /\ index[d] \in Nat
  <2>1. \A d \in Chunks : group[d] = g => chunks[g][index[d] + 1] = d /\ index[d] \in Nat
    BY ListedFacts
  <2>2. QED BY <1>1, <2>1
<1>3. CASE Removes(g, c, s)
  <2>1. ListsTyped' /\ ListsInv' /\ Len(chunks'[g]) = Len(chunks[g]) - 1
    BY <1>3, RemovesLists
  <2>2. QED BY <1>3, <2>1 DEF Removes
<1>4. CASE Fills(g, c, s)
  <2>1. ~ (k < f) /\ Len(s) = CapacityOf(c) /\ Exchanges(g, c, s, f, f + 1)
    BY <1>1, <1>4 DEF Fills
  <2>2. f < l /\ f + 1 \in Nat /\ f + 1 <= l /\ f < f + 1
    BY <1>1, <2>1
  <2>3. \A d \in Chunks \ {c} : group[d] = g =>
          (index[d] < firstFree[g] <=> (IF index[d] = f THEN index[c] ELSE index[d]) < f + 1)
    <3>1. \A x \in Nat : x # k => (x < f <=> (IF x = f THEN k ELSE x) < f + 1)
      BY <2>1
    <3>2. QED BY <1>1, <1>2, <3>1
  <2>4. ListsTyped' /\ ListsInv' /\ Len(chunks'[g]) = Len(chunks[g])
    <3>1. f < Len(chunks[g]) /\ f + 1 <= Len(chunks[g])
      BY <1>1, <2>2
    <3>2. Len(s) = CapacityOf(c) <=> f < f + 1
      BY ONLY <2>1, <2>2
    <3>3. QED BY <2>1, <2>2, <2>3, <3>1, <3>2, ExchangesLists
  <2>5. QED BY <2>1, <2>4 DEF Exchanges
<1>5. CASE Frees(g, c, s)
  <2>1. k < f /\ Len(s) < CapacityOf(c) /\ Exchanges(g, c, s, f - 1, f - 1)
    BY <1>1, <1>5 DEF Frees
  <2>2. PICK e \in Nat : e = f - 1 /\ e < l /\ e <= l /\ ~ (e < e) /\ k <= e /\ f = e + 1
    BY <1>1, <2>1
  <2>3. \A d \in Chunks \ {c} : group[d] = g =>
          (index[d] < firstFree[g] <=> (IF index[d] = e THEN index[c] ELSE index[d]) < e)
    <3>1. \A x \in Nat : x # k => (x < f <=> (IF x = e THEN k ELSE x) < e)
      BY <2>2
    <3>2. QED BY <1>1, <1>2, <3>1
  <2>4. Exchanges(g, c, s, e, e) /\ (Len(s) = CapacityOf(c) <=> e < e)
    <3>1. CapacityOf(c) \in Nat /\ Len(s) \in Nat
      BY ListedFacts, LenProperties
    <3>2. QED BY <2>1, <2>2, <3>1
  <2>5. ListsTyped' /\ ListsInv' /\ Len(chunks'[g]) = Len(chunks[g])
    <3>1. e < Len(chunks[g]) /\ e <= Len(chunks[g])
      BY <1>1, <2>2
    <3>2. QED BY <2>3, <2>4, <3>1, ExchangesLists
  <2>6. QED BY <2>4, <2>5 DEF Exchanges
<1>6. CASE Keeps(g, c, s)
  <2>1. /\ ents' = [ents EXCEPT ![c] = s] /\ s # <<>> /\ Full(c) = (Len(s) = CapacityOf(c))
        /\ group' = group /\ index' = index /\ chunks' = chunks /\ firstFree' = firstFree /\ pt' = pt
    BY <1>6 DEF Keeps, lists
  <2>2. \A d \in Chunks : ents'[d] = IF d = c THEN s ELSE ents[d]
    BY <2>1 DEF ListsTyped, EntsType
  <2>3. ListsTyped'
    <3>1. ents' \in EntsType
      BY <2>1 DEF ListsTyped, EntsType
    <3>2. QED BY <2>1, <3>1 DEF ListsTyped
  <2>4. ListsAgree'
    BY <2>1 DEF ListsInv, ListsAgree
  <2>5. ASSUME NEW d \in Chunks
        PROVE  /\ group'[d] # NoGroup => (Full(d)' <=> index'[d] < firstFree'[group'[d]])
               /\ IF group'[d] = NoGroup THEN ents'[d] = <<>> ELSE Len(ents'[d]) <= CapacityOf(d)'
    <3>1. CapacityOf(d)' = CapacityOf(d)
      BY <2>1 DEF CapacityOf
    <3>2. Full(d)' <=> Full(d)
      BY <2>1, <2>2, <3>1 DEF Full
    <3>3. g # NoGroup
      BY ListedFacts
    <3>4. group[d] # NoGroup => (Full(d) <=> index[d] < firstFree[group[d]])
      BY DEF ListsInv, FullFirst
    <3>5. IF group[d] = NoGroup THEN ents[d] = <<>> ELSE Len(ents[d]) <= CapacityOf(d)
      BY DEF ListsInv
    <3>6. IF group'[d] = NoGroup THEN ents'[d] = <<>> ELSE Len(ents'[d]) <= CapacityOf(d)'
      BY <2>1, <2>2, <3>1, <3>3, <3>5
    <3>7. QED BY <2>1, <3>2, <3>4, <3>6
  <2>6. ListsInv'
    BY <2>1, <2>4, <2>5 DEF ListsInv, FullFirst
  <2>7. QED BY <2>1, <2>3, <2>6
<1>7. QED BY <1>3, <1>4, <1>5, <1>6, ResizeCases

\* Chunk c of a pool of size p goes to the end of the list of group g.
Adds(g, c, p) ==
  /\ group[c] = NoGroup
  /\ firstFree[g] = Len(chunks[g])
  /\ pt' = [pt EXCEPT ![c] = p]
  /\ chunks' = [chunks EXCEPT ![g] = AddedTo(g, c, FALSE)]
  /\ index' = AddedIndex(index, g, c, FALSE)
  /\ group' = [group EXCEPT ![c] = g]
  /\ ents' = ents /\ firstFree' = firstFree

(* A list whose chunks are all full gets a chunk (add_chunk).              *)
LEMMA AddedLists ==
  ASSUME ListsTyped, ListsInv, NEW c \in Chunks, NEW g \in Groups, NEW p \in PoolTypes, Adds(g, c, p),
         Capacity[g][p] > 0
  PROVE  /\ ListsTyped' /\ ListsInv'
         /\ index' = [index EXCEPT ![c] = firstFree[g]]
         /\ Len(chunks'[g]) = Len(chunks[g]) + 1
<1>1. PICK A, I, F : A = AddedTo(g, c, FALSE) /\ I = AddedIndex(index, g, c, FALSE) /\ F = firstFree[g]
  OBVIOUS
<1>2. g # NoGroup /\ group[c] = NoGroup /\ index \in [Chunks -> Nat]
  BY ConstantsTyped DEF Adds, ListsTyped
<1>3. Inserts(c, g, FALSE, index) /\ F = AddedFree(g, FALSE)
  BY <1>1, <1>2 DEF Inserts, AddedFree
<1>4. /\ Ordered(g, c, A, I, F) /\ Len(A) = Len(chunks[g]) + 1
      /\ I[c] < Len(A) /\ A[I[c] + 1] = c /\ (I[c] < F <=> FALSE)
      /\ \A d \in Chunks \ {c} : group[d] # g => I[d] = index[d]
  <2>1. PICK full : full = FALSE
    OBVIOUS
  <2>2. Inserts(c, g, full, index)
    BY <1>3, <2>1
  <2>3. A = AddedTo(g, c, full) /\ I = AddedIndex(index, g, c, full) /\ F = AddedFree(g, full)
    BY <1>1, <1>3, <2>1
  <2>4. index \in [Chunks -> Nat]
    BY <1>2
  <2>5. /\ Ordered(g, c, A, I, F) /\ Len(A) = Len(chunks[g]) + 1
        /\ I[c] < Len(A) /\ A[I[c] + 1] = c /\ (I[c] < F <=> full)
        /\ \A d \in Chunks \ {c} : group[d] # g => I[d] = index[d]
    BY <2>2, <2>3, InsertedOrder
  <2>6. QED BY <2>1, <2>5
<1>5. A \in Seq(Chunks) /\ I \in [Chunks -> Nat] /\ F \in Nat
  BY <1>4 DEF Ordered
<1>6. /\ ents' = ents /\ firstFree' = firstFree
      /\ pt' = [pt EXCEPT ![c] = p] /\ group' = [group EXCEPT ![c] = g]
      /\ chunks' = [chunks EXCEPT ![g] = A] /\ index' = I
  BY <1>1 DEF Adds
<1>7. ListsTyped'
  BY <1>5, <1>6 DEF ListsTyped
<1>8. \A d \in Chunks \ {c} : group'[d] = group[d] /\ ents'[d] = ents[d] /\ pt'[d] = pt[d]
  BY <1>6 DEF ListsTyped
<1>9. group'[c] = g /\ pt'[c] = p /\ ents'[c] = <<>>
  BY <1>2, <1>6 DEF ListsTyped, ListsInv
<1>10. \A h \in Groups : chunks'[h] = IF h = g THEN A ELSE chunks[h]
  BY <1>6 DEF ListsTyped
<1>11. ASSUME NEW h \in Groups
       PROVE  /\ Ordered(h, c, chunks'[h], index', firstFree'[h])
              /\ h # g => \A i \in 1..Len(chunks'[h]) : chunks'[h][i] # c
  <2>1. CASE h = g
    BY <1>1, <1>4, <1>6, <1>10, <2>1
  <2>2. CASE h # g
    <3>1. /\ Ordered(h, c, chunks[h], index, firstFree[h])
          /\ \A i \in 1..Len(chunks[h]) : chunks[h][i] \in Chunks \ {c} /\ group[chunks[h][i]] = h
      BY <1>2, OrderedSame, ConstantsTyped
    <3>2. \A d \in Chunks \ {c} : group[d] = h => I[d] = index[d]
      BY <1>4, <2>2
    <3>3. Ordered(h, c, chunks[h], I, firstFree[h])
      <4>1. I \in [Chunks -> Nat]
        BY <1>5
      <4>2. \A i \in 1..Len(chunks[h]) : I[chunks[h][i]] = index[chunks[h][i]]
        BY <3>1, <3>2
      <4>3. Ordered(h, c, chunks[h], index, firstFree[h])
        BY <3>1
      <4>4. QED BY <3>2, <4>1, <4>2, <4>3, Reindexed
    <3>4. index' = I /\ firstFree'[h] = firstFree[h] /\ chunks'[h] = chunks[h]
      BY <1>6, <1>10, <2>2
    <3>5. Ordered(h, c, chunks'[h], index', firstFree'[h])
      BY <3>3, <3>4
    <3>6. \A i \in 1..Len(chunks'[h]) : chunks'[h][i] # c
      BY <3>1, <3>4
    <3>7. QED BY <3>5, <3>6
  <2>3. QED BY <2>1, <2>2
<1>12. /\ (Len(ents'[c]) = Capacity[g][p] <=> FALSE) /\ Len(ents'[c]) <= Capacity[g][p]
  <2>1. Capacity[g][p] \in Nat /\ Capacity[g][p] > 0 /\ Len(<<>>) = 0
    BY ConstantsTyped
  <2>2. QED BY <1>9, <2>1
<1>13. ListsInv'
  <2>1. /\ index'[c] < Len(chunks'[g]) /\ chunks'[g][index'[c] + 1] = c
        /\ (index'[c] < firstFree'[g] <=> FALSE)
    BY <1>1, <1>4, <1>6, <1>10
  <2>2. QED BY <1>2, <1>7, <1>8, <1>9, <1>11, <1>12, <2>1, ListsInvByOrder
<1>14. index' = [index EXCEPT ![c] = firstFree[g]]
  BY DEF Adds, AddedIndex
<1>15. QED BY <1>4, <1>7, <1>10, <1>13, <1>14

\* Chunk c goes to group g as it is, and add_chunk has one chunk to make room
\* for it at most.
HandsOver(c, g) ==
  /\ group[c] \in Groups \ {g} /\ Archetype[g] = Archetype[group[c]]
  /\ MoveChunk(c, g)
  /\ ~ Crowds

(* The lists of both groups when a chunk is handed over.                   *)
LEMMA HandedLists ==
  ASSUME ListsTyped, ListsInv, NEW c \in Chunks, NEW g \in Groups, HandsOver(c, g)
  PROVE  /\ ListsTyped' /\ ListsInv'
         /\ ents' = ents /\ group' = [group EXCEPT ![c] = g]
         /\ Len(chunks'[group[c]]) = Len(chunks[group[c]]) - 1
<1>1. PICK from \in Groups \ {g} : from = group[c]
  BY DEF HandsOver
<1>2. PICK full \in BOOLEAN : full = Full(c)
  BY DEF Full
<1>3. PICK R, X, F : R = RemovedFrom(from, c) /\ X = RemovedIndex(from, c) /\ F = RemovedFree(from, c)
  OBVIOUS
<1>4. PICK A, I, G : A = AddedTo(g, c, full) /\ I = AddedIndex(X, g, c, full) /\ G = AddedFree(g, full)
  OBVIOUS
<1>5. /\ ents' = ents /\ pt' = pt /\ group' = [group EXCEPT ![c] = g] /\ index' = I
      /\ chunks' = [chunks EXCEPT ![from] = R, ![g] = A]
  BY <1>1, <1>2, <1>3, <1>4 DEF HandsOver, MoveChunk
<1>6. firstFree' = [firstFree EXCEPT ![from] = F, ![g] = G]
  <2>1. firstFree' = [firstFree EXCEPT ![from] = F, ![g] = IF full THEN @ + 1 ELSE @]
    BY <1>1, <1>2, <1>3 DEF HandsOver, MoveChunk
  <2>2. QED BY <1>4, <2>1 DEF AddedFree, ListsTyped
<1>7. g # NoGroup /\ from # NoGroup /\ Capacity[g] = Capacity[from]
  BY <1>1, ConstantsTyped DEF HandsOver
<1>8. Ordered(from, c, R, X, F) /\ Len(R) = Len(chunks[from]) - 1
  BY <1>1, <1>3, RemovedOrder
<1>9. \A i \in 1..Len(R) : R[i] \in Chunks \ {c} /\ group[R[i]] = from
  BY <1>1, <1>3, <1>8, RemovedOrder, SMTT(20) DEF Ordered
<1>10. \A d \in Chunks : group[d] # from => X[d] = index[d]
  BY <1>1, <1>3, RemovedOrder
<1>11. R \in Seq(Chunks) /\ X \in [Chunks -> Nat] /\ F \in Nat
  BY <1>8 DEF Ordered
<1>12. Inserts(c, g, full, X)
  <2>1. ~ (full /\ firstFree[g] + 1 < Len(chunks[g]))
    <3>1. group'[c] = g /\ g \notin {group[c], NoGroup} /\ group[c] # NoGroup
      BY <1>1, <1>5, <1>7 DEF ListsTyped
    <3>2. QED BY <1>2, <3>1 DEF HandsOver, Crowds
  <2>2. QED BY <1>1, <1>10, <1>11, <2>1 DEF Inserts
<1>13. /\ Ordered(g, c, A, I, G) /\ Len(A) = Len(chunks[g]) + 1
       /\ I[c] < Len(A) /\ A[I[c] + 1] = c /\ (I[c] < G <=> full)
       /\ \A d \in Chunks \ {c} : group[d] # g => I[d] = X[d]
  BY <1>4, <1>12, InsertedOrder
<1>14. A \in Seq(Chunks) /\ I \in [Chunks -> Nat] /\ G \in Nat
  BY <1>13 DEF Ordered
<1>15. ListsTyped'
  BY <1>5, <1>6, <1>11, <1>14 DEF ListsTyped
<1>16. group'[c] = g /\ \A d \in Chunks \ {c} : group'[d] = group[d] /\ ents'[d] = ents[d] /\ pt'[d] = pt[d]
  BY <1>5 DEF ListsTyped
<1>17. /\ chunks'[g] = A /\ chunks'[from] = R /\ firstFree'[g] = G /\ firstFree'[from] = F
       /\ \A h \in Groups \ {g, from} : chunks'[h] = chunks[h] /\ firstFree'[h] = firstFree[h]
  BY <1>5, <1>6 DEF ListsTyped
<1>18. ASSUME NEW h \in Groups
       PROVE  /\ Ordered(h, c, chunks'[h], index', firstFree'[h])
              /\ h # g => \A i \in 1..Len(chunks'[h]) : chunks'[h][i] # c
  <2>1. CASE h = g
    BY <1>5, <1>13, <1>17, <2>1
  <2>2. CASE h = from
    <3>1. \A d \in Chunks \ {c} : group[d] = from => I[d] = X[d]
      BY <1>13
    <3>2. Ordered(from, c, R, I, F)
      BY <1>8, <1>9, <1>14, <3>1, Reindexed
    <3>3. QED BY <1>5, <1>9, <1>17, <2>2, <3>2
  <2>3. CASE h # g /\ h # from
    <3>1. /\ Ordered(h, c, chunks[h], index, firstFree[h])
          /\ \A i \in 1..Len(chunks[h]) : chunks[h][i] \in Chunks \ {c} /\ group[chunks[h][i]] = h
      BY <1>1, <2>3, OrderedSame
    <3>2. \A d \in Chunks \ {c} : group[d] = h => I[d] = index[d]
      BY <1>10, <1>13, <2>3
    <3>3. Ordered(h, c, chunks[h], I, firstFree[h])
      BY <1>14, <3>1, <3>2, Reindexed
    <3>4. QED BY <1>5, <1>17, <2>3, <3>1, <3>3
  <2>4. QED BY <2>1, <2>2, <2>3
<1>19. /\ index'[c] < Len(chunks'[g]) /\ chunks'[g][index'[c] + 1] = c
       /\ (Len(ents'[c]) = Capacity[g][pt'[c]] <=> index'[c] < firstFree'[g])
       /\ Len(ents'[c]) <= Capacity[g][pt'[c]]
  <2>1. Capacity[g][pt[c]] = CapacityOf(c)
    BY <1>1, <1>7 DEF CapacityOf
  <2>2. Len(ents[c]) <= CapacityOf(c) /\ (full <=> Len(ents[c]) = CapacityOf(c))
    BY <1>1, <1>2, <1>7, ListedFacts DEF Full
  <2>3. QED BY <1>5, <1>13, <1>17, <2>1, <2>2
<1>20. ListsInv'
  BY <1>7, <1>15, <1>16, <1>18, <1>19, ListsInvByOrder
<1>21. QED BY <1>1, <1>5, <1>8, <1>15, <1>17, <1>20

-----------------------------------------------------------------------------
(* The sizes of groups.                                                    *)

\* The places of the chunks in which groups gr has g.
HeldOf(en, gr, g) == UNION {{c} \X DOMAIN en[c] : c \in {d \in Chunks : gr[d] = g}}

SizesInv ==
  /\ groupSize \in [Groups -> Nat]
  /\ \A g \in Groups : IsFiniteSet(Held(g)) /\ groupSize[g] = Cardinality(Held(g))

(* The places of one chunk.                                                *)
LEMMA PlacesOfOne ==
  ASSUME NEW c, NEW s \in Seq(Entity)
  PROVE  IsFiniteSet({c} \X DOMAIN s) /\ Cardinality({c} \X DOMAIN s) = Len(s)
<1>1. DOMAIN s = 1..Len(s) /\ Len(s) \in Nat
  BY LenProperties
<1>2. IsFiniteSet(1..Len(s)) /\ Cardinality(1..Len(s)) = Len(s)
  <2>1. \A n \in Nat : IsFiniteSet(1..n) /\ Cardinality(1..n) = n
    BY ONLY FS_Interval
  <2>2. QED BY ONLY <1>1, <2>1
<1>3. IsFiniteSet(DOMAIN s) /\ Cardinality(DOMAIN s) = Len(s)
  BY <1>1, <1>2
<1>4. IsFiniteSet({c}) /\ Cardinality({c}) = 1
  BY FS_Singleton
<1>5. IsFiniteSet({c} \X DOMAIN s) /\ Cardinality({c} \X DOMAIN s) = 1 * Len(s)
  <2>1. /\ IsFiniteSet({c} \X DOMAIN s)
        /\ Cardinality({c} \X DOMAIN s) = Cardinality({c}) * Cardinality(DOMAIN s)
    BY <1>3, <1>4, FS_Product
  <2>2. QED BY <1>3, <1>4, <2>1
<1>6. 1 * Len(s) = Len(s)
  <2>1. \A n \in Nat : 1 * n = n
    OBVIOUS
  <2>2. QED BY <1>1, <2>1
<1>7. QED BY <1>5, <1>6

\* Chunk c holds s from now on, or goes back to its pool.
Resized(en, gr, c, s, en2, gr2) ==
  /\ en2 = [en EXCEPT ![c] = s]
  /\ gr2 = IF s = <<>> THEN [gr EXCEPT ![c] = NoGroup] ELSE gr

(* The places a group holds when its chunk c holds s.                      *)
LEMMA ResizedHeld ==
  ASSUME NEW en \in EntsType, NEW gr \in [Chunks -> Groups \cup {NoGroup}],
         NEW c \in Chunks, NEW g \in Groups, gr[c] = g, NEW s \in Seq(Entity),
         NEW en2, NEW gr2, Resized(en, gr, c, s, en2, gr2),
         IsFiniteSet(HeldOf(en, gr, g))
  PROVE  /\ IsFiniteSet(HeldOf(en2, gr2, g))
         /\ Len(en[c]) <= Cardinality(HeldOf(en, gr, g))
         /\ Cardinality(HeldOf(en2, gr2, g)) = Cardinality(HeldOf(en, gr, g)) - Len(en[c]) + Len(s)
         /\ \A h \in Groups \ {g} : HeldOf(en2, gr2, h) = HeldOf(en, gr, h)
<1> DEFINE H == HeldOf(en, gr, g)
           old == {c} \X DOMAIN en[c]
           new == {c} \X DOMAIN s
           rest == H \ old
<1>1. /\ \A d \in Chunks : en2[d] = IF d = c THEN s ELSE en[d]
      /\ \A d \in Chunks : gr2[d] = IF d = c /\ s = <<>> THEN NoGroup ELSE gr[d]
      /\ g # NoGroup /\ NoGroup \notin Groups /\ IsFiniteSet(H)
  BY ConstantsTyped DEF EntsType, Resized
<1>2. en[c] \in Seq(Entity)
  BY DEF EntsType
<1>3. /\ IsFiniteSet(old) /\ Cardinality(old) = Len(en[c]) /\ IsFiniteSet(new) /\ Cardinality(new) = Len(s)
      /\ Len(en[c]) \in Nat /\ Len(s) \in Nat
  BY <1>2, PlacesOfOne, LenProperties
<1>4. s = <<>> => new = {}
  OBVIOUS
<1>5. old \subseteq H
  BY DEF HeldOf
<1>6. \A x \in rest : \E d \in Chunks \ {c} : gr[d] = g /\ x \in {d} \X DOMAIN en[d]
  BY DEF HeldOf
<1>7. HeldOf(en2, gr2, g) = rest \cup new
  <2>1. ASSUME NEW x \in HeldOf(en2, gr2, g) PROVE x \in rest \cup new
    <3>1. PICK d \in Chunks : gr2[d] = g /\ x \in {d} \X DOMAIN en2[d]
      BY DEF HeldOf
    <3>2. CASE d = c
      BY <1>1, <3>1, <3>2
    <3>3. CASE d # c
      <4>1. gr[d] = g /\ x \in {d} \X DOMAIN en[d]
        BY <1>1, <3>1, <3>3
      <4>2. x \in H
        BY <4>1 DEF HeldOf
      <4>3. x \notin old
        BY <3>3, <4>1
      <4>4. QED BY <4>2, <4>3
    <3>4. QED BY <3>2, <3>3
  <2>2. ASSUME NEW x \in rest PROVE x \in HeldOf(en2, gr2, g)
    <3>1. PICK d \in Chunks \ {c} : gr[d] = g /\ x \in {d} \X DOMAIN en[d]
      BY <1>6
    <3>2. gr2[d] = g /\ x \in {d} \X DOMAIN en2[d]
      BY <1>1, <3>1
    <3>3. QED BY <3>2 DEF HeldOf
  <2>3. ASSUME NEW x \in new PROVE x \in HeldOf(en2, gr2, g)
    <3>1. s # <<>>
      BY <1>4
    <3>2. gr2[c] = g /\ x \in {c} \X DOMAIN en2[c]
      BY <1>1, <3>1
    <3>3. QED BY <3>2 DEF HeldOf
  <2>4. QED BY <2>1, <2>2, <2>3
<1>8. rest \cap new = {}
  BY <1>6
<1> HIDE DEF H, old, new
<1>9. IsFiniteSet(rest) /\ Cardinality(rest) = Cardinality(H) - Len(en[c])
  <2>1. H \cap old = old
    BY <1>5
  <2>2. IsFiniteSet(H \ old) /\ Cardinality(H \ old) = Cardinality(H) - Cardinality(H \cap old)
    BY FS_Difference DEF H
  <2>3. QED BY <1>3, <2>1, <2>2
<1> HIDE DEF rest
<1>10. IsFiniteSet(rest \cup new) /\ Cardinality(rest \cup new) = Cardinality(H) - Len(en[c]) + Len(s)
  <2>1. Cardinality(rest) \in Nat /\ Cardinality(H) \in Nat
    BY <1>1, <1>9, FS_CardinalityType
  <2>2. Cardinality(rest \cap new) = 0
    BY <1>8, FS_EmptySet
  <2>3. IsFiniteSet(rest \cup new) /\ Cardinality(rest \cup new) = Cardinality(rest) + Cardinality(new) - 0
    <3>1. /\ IsFiniteSet(rest \cup new)
          /\ Cardinality(rest \cup new) = Cardinality(rest) + Cardinality(new) - Cardinality(rest \cap new)
      BY <1>3, <1>9, FS_Union
    <3>2. QED BY <2>2, <3>1
  <2>4. QED BY <1>3, <1>9, <2>1, <2>3
<1>11. Len(en[c]) <= Cardinality(H)
  BY <1>1, <1>3, <1>5, FS_Subset
<1>12. ASSUME NEW h \in Groups \ {g}
       PROVE  HeldOf(en2, gr2, h) = HeldOf(en, gr, h)
  <2>1. \A d \in Chunks : gr2[d] = h <=> gr[d] = h
    BY <1>1
  <2>2. \A d \in Chunks : gr[d] = h => en2[d] = en[d]
    BY <1>1
  <2>3. \A x : x \in HeldOf(en2, gr2, h) <=> \E d \in Chunks : gr2[d] = h /\ x \in {d} \X DOMAIN en2[d]
    BY DEF HeldOf
  <2>4. \A x : x \in HeldOf(en, gr, h) <=> \E d \in Chunks : gr[d] = h /\ x \in {d} \X DOMAIN en[d]
    BY DEF HeldOf
  <2>5. \A x : x \in HeldOf(en2, gr2, h) <=> x \in HeldOf(en, gr, h)
    BY <2>1, <2>2, <2>3, <2>4
  <2>6. QED BY <2>5
<1>13. QED BY <1>7, <1>10, <1>11, <1>12 DEF H

(* resize_chunk keeps the sizes of the groups right.                       *)
LEMMA ResizeSizes ==
  ASSUME ListsTyped, ListsInv, SizesInv, NEW c \in Chunks, NEW g \in Groups, group[c] = g,
         NEW s \in Seq(Entity), Len(s) <= CapacityOf(c), ResizeChunk(g, c, s)
  PROVE  SizesInv'
<1>1. /\ ents' = [ents EXCEPT ![c] = s]
      /\ group' = IF s = <<>> THEN [group EXCEPT ![c] = NoGroup] ELSE group
  BY ResizeLists
<1>2. groupSize' = [groupSize EXCEPT ![g] = SizeAfter(g, c, Len(s))]
  BY ResizeCases
<1>3. ents \in EntsType /\ group \in [Chunks -> Groups \cup {NoGroup}]
  BY DEF ListsTyped
<1>4. /\ groupSize \in [Groups -> Nat]
      /\ \A h \in Groups : IsFiniteSet(HeldOf(ents, group, h)) /\ groupSize[h] = Cardinality(HeldOf(ents, group, h))
  BY DEF SizesInv, Held, HeldOf
<1>5. /\ IsFiniteSet(HeldOf(ents', group', g))
      /\ Len(ents[c]) <= Cardinality(HeldOf(ents, group, g))
      /\ Cardinality(HeldOf(ents', group', g)) = Cardinality(HeldOf(ents, group, g)) - Len(ents[c]) + Len(s)
      /\ \A h \in Groups \ {g} : HeldOf(ents', group', h) = HeldOf(ents, group, h)
  <2>1. PICK en2, gr2 : en2 = ents' /\ gr2 = group'
    OBVIOUS
  <2>2. Resized(ents, group, c, s, en2, gr2)
    BY <1>1, <2>1 DEF Resized
  <2>3. IsFiniteSet(HeldOf(ents, group, g))
    BY <1>4
  <2>4. /\ IsFiniteSet(HeldOf(en2, gr2, g))
        /\ Len(ents[c]) <= Cardinality(HeldOf(ents, group, g))
        /\ Cardinality(HeldOf(en2, gr2, g)) = Cardinality(HeldOf(ents, group, g)) - Len(ents[c]) + Len(s)
        /\ \A h \in Groups \ {g} : HeldOf(en2, gr2, h) = HeldOf(ents, group, h)
    BY <1>3, <2>2, <2>3, ResizedHeld
  <2>5. QED BY <2>1, <2>4
<1>6. Len(ents[c]) \in Nat /\ Len(s) \in Nat /\ groupSize[g] \in Nat
  BY <1>3, <1>4, LenProperties DEF EntsType
<1>7. SizeAfter(g, c, Len(s)) = Cardinality(HeldOf(ents', group', g)) /\ SizeAfter(g, c, Len(s)) \in Nat
  <2>1. \A x, m, n \in Nat : m <= x => x + n - m = x - m + n /\ x + n - m \in Nat
    OBVIOUS
  <2>2. SizeAfter(g, c, Len(s)) = groupSize[g] + Len(s) - Len(ents[c]) /\ Len(ents[c]) <= groupSize[g]
    BY <1>4, <1>5 DEF SizeAfter
  <2>3. QED BY <1>4, <1>5, <1>6, <2>1, <2>2
<1>8. groupSize' \in [Groups -> Nat]
  BY <1>2, <1>4, <1>7
<1>9. \A h \in Groups : IsFiniteSet(HeldOf(ents', group', h)) /\ groupSize'[h] = Cardinality(HeldOf(ents', group', h))
  <2>1. \A h \in Groups : groupSize'[h] = IF h = g THEN SizeAfter(g, c, Len(s)) ELSE groupSize[h]
    BY <1>2, <1>4
  <2>2. QED BY <1>4, <1>5, <1>7, <2>1
<1>10. QED BY <1>8, <1>9 DEF SizesInv, Held, HeldOf

\* Chunk c is one of group g from now on.
Handed(gr, c, g, gr2) == gr2 = [gr EXCEPT ![c] = g]

(* The places of a chunk that is handed over go with it.                   *)
LEMMA HandedHeld ==
  ASSUME NEW en \in EntsType, NEW gr \in [Chunks -> Groups \cup {NoGroup}],
         NEW c \in Chunks, NEW g \in Groups, NEW from \in Groups \ {g}, gr[c] = from,
         NEW gr2, Handed(gr, c, g, gr2),
         IsFiniteSet(HeldOf(en, gr, from)), IsFiniteSet(HeldOf(en, gr, g))
  PROVE  /\ IsFiniteSet(HeldOf(en, gr2, from)) /\ IsFiniteSet(HeldOf(en, gr2, g))
         /\ Len(en[c]) <= Cardinality(HeldOf(en, gr, from))
         /\ Cardinality(HeldOf(en, gr2, from)) = Cardinality(HeldOf(en, gr, from)) - Len(en[c])
         /\ Cardinality(HeldOf(en, gr2, g)) = Cardinality(HeldOf(en, gr, g)) + Len(en[c])
         /\ \A h \in Groups \ {g, from} : HeldOf(en, gr2, h) = HeldOf(en, gr, h)
<1> DEFINE H == HeldOf(en, gr, from)
           K == HeldOf(en, gr, g)
           own == {c} \X DOMAIN en[c]
<1>1. \A d \in Chunks : gr2[d] = IF d = c THEN g ELSE gr[d]
  BY DEF Handed
<1>2. IsFiniteSet(own) /\ Cardinality(own) = Len(en[c]) /\ Len(en[c]) \in Nat
  <2>1. en[c] \in Seq(Entity)
    BY DEF EntsType
  <2>2. QED BY <2>1, PlacesOfOne, LenProperties
<1>3. \A h, x : x \in HeldOf(en, gr, h) <=> \E d \in Chunks : gr[d] = h /\ x \in {d} \X DOMAIN en[d]
  BY DEF HeldOf
<1>4. \A h, x : x \in HeldOf(en, gr2, h) <=> \E d \in Chunks : gr2[d] = h /\ x \in {d} \X DOMAIN en[d]
  BY DEF HeldOf
<1>5. \A d \in Chunks : \A x : x \in {d} \X DOMAIN en[d] /\ x \in own => d = c
  OBVIOUS
<1>6. own \subseteq H
  BY <1>3
<1>7. K \cap own = {}
  <2>1. ASSUME NEW x \in K, x \in own PROVE FALSE
    <3>1. PICK d \in Chunks : gr[d] = g /\ x \in {d} \X DOMAIN en[d]
      BY <1>3
    <3>2. d = c
      BY <1>5, <2>1, <3>1
    <3>3. QED BY <3>1, <3>2
  <2>2. QED BY <2>1
<1>8. HeldOf(en, gr2, from) = H \ own
  <2>1. ASSUME NEW x \in HeldOf(en, gr2, from) PROVE x \in H \ own
    <3>1. PICK d \in Chunks : gr2[d] = from /\ x \in {d} \X DOMAIN en[d]
      BY <1>4
    <3>2. d # c /\ gr[d] = from
      BY <1>1, <3>1
    <3>3. x \in H
      BY <1>3, <3>1, <3>2
    <3>4. x \notin own
      BY <1>5, <3>1, <3>2
    <3>5. QED BY <3>3, <3>4
  <2>2. ASSUME NEW x \in H \ own PROVE x \in HeldOf(en, gr2, from)
    <3>1. PICK d \in Chunks : gr[d] = from /\ x \in {d} \X DOMAIN en[d]
      BY <1>3
    <3>2. gr2[d] = from
      BY <1>1, <3>1
    <3>3. QED BY <1>4, <3>1, <3>2
  <2>3. QED BY <2>1, <2>2
<1>9. HeldOf(en, gr2, g) = K \cup own
  <2>1. ASSUME NEW x \in HeldOf(en, gr2, g) PROVE x \in K \cup own
    <3>1. PICK d \in Chunks : gr2[d] = g /\ x \in {d} \X DOMAIN en[d]
      BY <1>4
    <3>2. CASE d = c
      BY <3>1, <3>2
    <3>3. CASE d # c
      BY <1>1, <1>3, <3>1, <3>3
    <3>4. QED BY <3>2, <3>3
  <2>2. ASSUME NEW x \in K PROVE x \in HeldOf(en, gr2, g)
    <3>1. PICK d \in Chunks : gr[d] = g /\ x \in {d} \X DOMAIN en[d]
      BY <1>3
    <3>2. gr2[d] = g
      BY <1>1, <3>1
    <3>3. QED BY <1>4, <3>1, <3>2
  <2>3. ASSUME NEW x \in own PROVE x \in HeldOf(en, gr2, g)
    BY <1>1, <1>4
  <2>4. QED BY <2>1, <2>2, <2>3
<1>10. ASSUME NEW h \in Groups \ {g, from}
       PROVE  HeldOf(en, gr2, h) = HeldOf(en, gr, h)
  <2>1. \A d \in Chunks : gr2[d] = h <=> gr[d] = h
    BY <1>1
  <2>2. \A x : x \in HeldOf(en, gr2, h) <=> x \in HeldOf(en, gr, h)
    BY <1>3, <1>4, <2>1
  <2>3. QED BY <2>2
<1>11. IsFiniteSet(H) /\ IsFiniteSet(K)
  OBVIOUS
<1> HIDE DEF H, K, own
<1>12. Cardinality(H) \in Nat /\ Cardinality(K) \in Nat
  BY <1>11, FS_CardinalityType
<1>13. /\ IsFiniteSet(H \ own) /\ Cardinality(H \ own) = Cardinality(H) - Len(en[c])
       /\ Len(en[c]) <= Cardinality(H)
  <2>1. H \cap own = own
    BY <1>6
  <2>2. IsFiniteSet(H \ own) /\ Cardinality(H \ own) = Cardinality(H) - Cardinality(H \cap own)
    BY <1>11, FS_Difference
  <2>3. Len(en[c]) <= Cardinality(H)
    BY <1>2, <1>6, <1>11, FS_Subset
  <2>4. QED BY <1>2, <2>1, <2>2, <2>3
<1>14. IsFiniteSet(K \cup own) /\ Cardinality(K \cup own) = Cardinality(K) + Len(en[c])
  <2>1. Cardinality(K \cap own) = 0
    BY <1>7, FS_EmptySet
  <2>2. /\ IsFiniteSet(K \cup own)
        /\ Cardinality(K \cup own) = Cardinality(K) + Cardinality(own) - Cardinality(K \cap own)
    BY <1>2, <1>11, FS_Union
  <2>3. QED BY <1>2, <1>12, <2>1, <2>2
<1>15. QED BY <1>8, <1>9, <1>10, <1>13, <1>14 DEF H, K

(* A handover keeps the sizes of the groups right.                         *)
LEMMA HandedSizes ==
  ASSUME ListsTyped, ListsInv, SizesInv, NEW c \in Chunks, NEW g \in Groups, HandsOver(c, g)
  PROVE  SizesInv'
<1>1. PICK from \in Groups \ {g} : from = group[c]
  BY DEF HandsOver
<1>2. PICK n : n = Len(ents[c])
  OBVIOUS
<1>3. ents' = ents /\ group' = [group EXCEPT ![c] = g]
  BY DEF HandsOver, MoveChunk
<1>4. groupSize' = [groupSize EXCEPT ![from] = @ - n, ![g] = @ + n]
  BY <1>1, <1>2 DEF HandsOver, MoveChunk
<1>5. ents \in EntsType /\ group \in [Chunks -> Groups \cup {NoGroup}]
  BY DEF ListsTyped
<1>6. /\ groupSize \in [Groups -> Nat]
      /\ \A h \in Groups : IsFiniteSet(HeldOf(ents, group, h)) /\ groupSize[h] = Cardinality(HeldOf(ents, group, h))
  BY DEF SizesInv, Held, HeldOf
<1>7. /\ IsFiniteSet(HeldOf(ents, group', from)) /\ IsFiniteSet(HeldOf(ents, group', g))
      /\ n <= Cardinality(HeldOf(ents, group, from))
      /\ Cardinality(HeldOf(ents, group', from)) = Cardinality(HeldOf(ents, group, from)) - n
      /\ Cardinality(HeldOf(ents, group', g)) = Cardinality(HeldOf(ents, group, g)) + n
      /\ \A h \in Groups \ {g, from} : HeldOf(ents, group', h) = HeldOf(ents, group, h)
  <2>1. PICK gr2 : gr2 = group'
    OBVIOUS
  <2>2. Handed(group, c, g, gr2)
    BY <1>3, <2>1 DEF Handed
  <2>3. IsFiniteSet(HeldOf(ents, group, from)) /\ IsFiniteSet(HeldOf(ents, group, g))
    BY <1>6
  <2>4. /\ IsFiniteSet(HeldOf(ents, gr2, from)) /\ IsFiniteSet(HeldOf(ents, gr2, g))
        /\ n <= Cardinality(HeldOf(ents, group, from))
        /\ Cardinality(HeldOf(ents, gr2, from)) = Cardinality(HeldOf(ents, group, from)) - n
        /\ Cardinality(HeldOf(ents, gr2, g)) = Cardinality(HeldOf(ents, group, g)) + n
        /\ \A h \in Groups \ {g, from} : HeldOf(ents, gr2, h) = HeldOf(ents, group, h)
    <3>1. ents \in EntsType /\ group \in [Chunks -> Groups \cup {NoGroup}] /\ group[c] = from
      BY <1>1, <1>5
    <3>2. /\ IsFiniteSet(HeldOf(ents, gr2, from)) /\ IsFiniteSet(HeldOf(ents, gr2, g))
          /\ Len(ents[c]) <= Cardinality(HeldOf(ents, group, from))
          /\ Cardinality(HeldOf(ents, gr2, from)) = Cardinality(HeldOf(ents, group, from)) - Len(ents[c])
          /\ Cardinality(HeldOf(ents, gr2, g)) = Cardinality(HeldOf(ents, group, g)) + Len(ents[c])
          /\ \A h \in Groups \ {g, from} : HeldOf(ents, gr2, h) = HeldOf(ents, group, h)
      BY <2>2, <2>3, <3>1, HandedHeld
    <3>3. QED BY <1>2, <3>2
  <2>5. QED BY <2>1, <2>4
<1>8. n \in Nat
  BY <1>2, <1>5, LenProperties DEF EntsType
<1>9. \A h \in Groups : groupSize'[h] = IF h = g THEN groupSize[h] + n
                                        ELSE IF h = from THEN groupSize[h] - n ELSE groupSize[h]
  BY <1>1, <1>4, <1>6
<1>10. groupSize' \in [Groups -> Nat]
  <2>1. groupSize[from] \in Nat /\ groupSize[g] \in Nat /\ n <= groupSize[from]
    BY <1>6, <1>7
  <2>2. groupSize[from] - n \in Nat /\ groupSize[g] + n \in Nat
    BY <1>8, <2>1
  <2>3. groupSize' = [groupSize EXCEPT ![from] = groupSize[from] - n, ![g] = groupSize[g] + n]
    BY <1>1, <1>4, <1>6
  <2>4. QED BY <1>6, <2>2, <2>3
<1>11. \A h \in Groups : IsFiniteSet(HeldOf(ents, group', h)) /\ groupSize'[h] = Cardinality(HeldOf(ents, group', h))
  <2>1. ASSUME NEW h \in Groups \ {g, from}
        PROVE  IsFiniteSet(HeldOf(ents, group', h)) /\ groupSize'[h] = Cardinality(HeldOf(ents, group', h))
    BY <1>6, <1>7, <1>9
  <2>2. IsFiniteSet(HeldOf(ents, group', g)) /\ groupSize'[g] = Cardinality(HeldOf(ents, group', g))
    BY <1>6, <1>7, <1>9
  <2>3. IsFiniteSet(HeldOf(ents, group', from)) /\ groupSize'[from] = Cardinality(HeldOf(ents, group', from))
    BY <1>1, <1>6, <1>7, <1>9
  <2>4. QED BY <2>1, <2>2, <2>3
<1>12. QED BY <1>3, <1>10, <1>11 DEF SizesInv, Held, HeldOf

-----------------------------------------------------------------------------
(* The inductive invariant.                                                *)

\* The places that count: a running cast has moved away from some of its view.
PlacesNow ==
  IF task.kind = "cast"
  THEN PlacesBut(ents, task.chunk, task.start + 1, task.start + task.count - task.left)
  ELSE PlacesOf(ents)

EntriesInv == Agree(entries, ents, PlacesNow)

\* A chunk that its group lists holds entities, but for the one that was claimed
\* for the entities to come.
EmptyIsNext ==
  \A c \in Chunks : group[c] # NoGroup /\ ents[c] = <<>> =>
    Filling /\ group[c] = task.group /\ index[c] = firstFree[task.group]

\* A view that is cast is in a chunk of another group, and so are the chunks
\* still to be cast.
CastInv ==
  task.kind = "cast" =>
    /\ group[task.chunk] \in Groups \ {task.group}
    /\ task.start + task.count <= Len(ents[task.chunk])
    /\ task.left <= task.count
    /\ \A i \in 1..Len(task.more) :
         group[task.more[i]] = group[task.chunk] /\ task.more[i] # task.chunk
    /\ \A i, j \in 1..Len(task.more) : task.more[i] = task.more[j] => i = j

ClearInv == task.kind = "clear" => chunks[task.group] # <<>>

\* Chunks are still to be handed over to a group they can go to.
AdoptInv ==
  task.kind = "adopt" =>
    /\ task.from # task.group /\ Archetype[task.from] = Archetype[task.group]
    /\ chunks[task.from] # <<>>

TaskInv == task \in Tasks /\ EmptyIsNext /\ CastInv /\ ClearInv /\ AdoptInv

StorageInv ==
  /\ RegistryTyped /\ RegistryInv
  /\ ListsTyped /\ ListsInv
  /\ SizesInv
  /\ EntriesInv
  /\ TaskInv

(* What the kinds of calls keep.                                           *)
LEMMA TaskFacts ==
  ASSUME task \in Tasks
  PROVE  /\ task.kind \in {"none", "allocate", "cast", "clear", "adopt"}
         /\ task.kind = "none" <=> Idle
         /\ task.kind = "allocate" => task.group \in Groups /\ task.left \in Nat \ {0}
         /\ task.kind = "cast" => /\ task.group \in Groups /\ task.left \in Nat /\ task.chunk \in Chunks
                                  /\ task.start \in Nat /\ task.count \in Nat \ {0}
                                  /\ task.more \in Seq(Chunks)
         /\ task.kind = "clear" => task.group \in Groups
         /\ task.kind = "adopt" => task.group \in Groups /\ task.from \in Groups
         /\ Filling => task.left \in Nat \ {0}
<1>1. /\ task.kind \in {"none", "allocate", "cast", "clear", "adopt"}
      /\ task.kind = "none" <=> Idle
      /\ task.kind = "allocate" => task.group \in Groups /\ task.left \in Nat \ {0}
      /\ task.kind = "cast" => /\ task.group \in Groups /\ task.left \in Nat /\ task.chunk \in Chunks
                               /\ task.start \in Nat /\ task.count \in Nat \ {0}
                               /\ task.more \in Seq(Chunks)
      /\ task.kind = "clear" => task.group \in Groups
      /\ task.kind = "adopt" => task.group \in Groups /\ task.from \in Groups
  BY DEF Tasks, NoTask, Idle
<1>2. QED BY <1>1 DEF Filling

\* A chunk comes from one of the pools, and has room for an entity.
LEMMA ClaimedType ==
  ASSUME NEW g \in Groups, NEW n \in Nat \ {0}
  PROVE  ClaimPool(g, n) \in PoolTypes /\ Capacity[g][ClaimPool(g, n)] > 0
<1>1. PICK p : p = ClaimPool(g, n)
  OBVIOUS
<1>2. /\ Capacity[g]["small"] \in Nat /\ Capacity[g]["default"] \in Nat
      /\ Capacity[g]["large"] > 0 /\ LargeHint \in Nat
  BY ConstantsTyped DEF PoolTypes
<1>3. \/ p = "small" /\ n < Capacity[g]["small"]
      \/ p = "large"
      \/ p = "default" /\ ~ (n > Capacity[g]["default"] * LargeHint)
  BY <1>1 DEF ClaimPool
<1>4. p \in PoolTypes
  BY <1>3 DEF PoolTypes
<1>5. Capacity[g][p] > 0
  <2>1. CASE p = "small" /\ n < Capacity[g]["small"]
    BY <1>2, <2>1
  <2>2. CASE p = "large"
    BY <1>2, <2>2
  <2>3. CASE p = "default" /\ ~ (n > Capacity[g]["default"] * LargeHint)
    <3>1. 0 * LargeHint = 0 /\ n > 0
      BY <1>2
    <3>2. Capacity[g]["default"] # 0
      BY <2>3, <3>1
    <3>3. QED BY <1>2, <2>3, <3>2
  <2>4. QED BY <1>3, <2>1, <2>2, <2>3
<1>6. QED BY <1>1, <1>4, <1>5

(* The entity at a place is one the registry can have.                     *)
LEMMA PlaceFacts ==
  ASSUME ents \in EntsType, NEW c \in Chunks
  PROVE  /\ Len(ents[c]) \in Nat /\ DOMAIN ents[c] = 1..Len(ents[c])
         /\ \A i \in 1..Len(ents[c]) : ents[c][i] \in Entity /\ ents[c][i][1] \in Ids
<1>1. ents[c] \in Seq(Entity)
  BY DEF EntsType
<1>2. Len(ents[c]) \in Nat /\ DOMAIN ents[c] = 1..Len(ents[c])
  BY <1>1, LenProperties
<1>3. \A i \in 1..Len(ents[c]) : ents[c][i] \in Entity
  BY <1>1, ElementOfSeq
<1>4. QED BY <1>2, <1>3 DEF Entity

(* The invariant implies what the runs check.                              *)
LEMMA InvTypeOK ==
  ASSUME StorageInv
  PROVE  TypeOK
BY DEF StorageInv, RegistryTyped, ListsTyped, SizesInv, TaskInv, TypeOK, EntriesType, EntryType, EntsType

\* What the runs check of entries follows from the invariant.
LEMMA InvEntriesAgree ==
  ASSUME StorageInv
  PROVE  EntriesAgree
<1>1. /\ entries \in EntriesType /\ ents \in EntsType /\ EntriesInv
      /\ \A id \in Ids : entries[id].chunk \in Chunks \cup {NoChunk}
  BY DEF StorageInv, RegistryTyped, ListsTyped, EntriesType, EntryType
<1>2. \A c \in Chunks : PlacesNow[c] = Places(c)
  BY DEF PlacesNow, Places, PlacesOf, PlacesBut
<1>3. ASSUME NEW c \in Chunks, NEW i \in Places(c)
      PROVE  entries[ents[c][i][1]] = [chunk |-> c, index |-> i - 1, version |-> ents[c][i][2]]
  <2>1. At(entries[ents[c][i][1]], c, i, ents[c][i][2])
    BY <1>1, <1>2 DEF EntriesInv, Agree
  <2>2. i \in 1..Len(ents[c])
    BY <1>1, PlaceFacts DEF Places
  <2>3. ents[c][i][1] \in Ids
    BY <1>1, <2>2, PlaceFacts
  <2>4. PICK e \in EntryType : e = entries[ents[c][i][1]]
    BY <1>1, <2>3 DEF EntriesType
  <2>5. PICK v : v = ents[c][i][2]
    OBVIOUS
  <2>6. e = [chunk |-> c, index |-> i - 1, version |-> v]
    BY <2>1, <2>4, <2>5 DEF At, EntryType
  <2>7. QED BY <2>4, <2>5, <2>6
<1>4. ASSUME NEW id \in Ids, entries[id].chunk # NoChunk
      PROVE  /\ entries[id].index + 1 \in Places(entries[id].chunk)
             /\ ents[entries[id].chunk][entries[id].index + 1][1] = id
  BY <1>1, <1>2, <1>4 DEF EntriesInv, Agree
<1>5. QED BY <1>3, <1>4 DEF EntriesAgree

(* An entity's chunk is one of a group and holds it.                       *)
LEMMA HomeFacts ==
  ASSUME StorageInv, NEW id \in Ids, entries[id].chunk # NoChunk
  PROVE  /\ entries[id].chunk \in Chunks
         /\ entries[id].index + 1 \in PlacesNow[entries[id].chunk]
         /\ entries[id].index + 1 \in 1..Len(ents[entries[id].chunk])
         /\ ents[entries[id].chunk][entries[id].index + 1][1] = id
         /\ ents[entries[id].chunk] # <<>>
         /\ group[entries[id].chunk] \in Groups
<1>1. /\ entries[id].chunk \in Chunks /\ ents \in EntsType /\ EntriesInv
      /\ group[entries[id].chunk] \in Groups \cup {NoGroup}
  BY DEF StorageInv, RegistryTyped, ListsTyped, EntriesType, EntryType
<1>2. /\ entries[id].index + 1 \in PlacesNow[entries[id].chunk]
      /\ ents[entries[id].chunk][entries[id].index + 1][1] = id
  BY DEF StorageInv, EntriesInv, Agree
<1>3. PlacesNow[entries[id].chunk] \subseteq 1..Len(ents[entries[id].chunk])
  BY <1>1, PlaceFacts DEF PlacesNow, PlacesOf, PlacesBut
<1>4. ents[entries[id].chunk] # <<>>
  BY <1>2, <1>3
<1>5. group[entries[id].chunk] # NoGroup
  BY <1>1, <1>4 DEF StorageInv, ListsInv
<1>6. QED BY <1>1, <1>2, <1>3, <1>4, <1>5

(* No group lists an empty chunk when no call is filling one.              *)
LEMMA NoneEmpty ==
  ASSUME StorageInv, ~ Filling
  PROVE  \A c \in Chunks : group[c] # NoGroup => ents[c] # <<>>
BY DEF StorageInv, TaskInv, EmptyIsNext

(* And no other one after resize_chunk, when there was no other before.    *)
LEMMA ResizedNoneEmpty ==
  ASSUME ListsTyped, NEW c \in Chunks, NEW s,
         ents' = [ents EXCEPT ![c] = s],
         group' = IF s = <<>> THEN [group EXCEPT ![c] = NoGroup] ELSE group,
         \A d \in Chunks \ {c} : group[d] # NoGroup => ents[d] # <<>>
  PROVE  \A d \in Chunks : group'[d] # NoGroup => ents'[d] # <<>>
BY DEF ListsTyped, EntsType

-----------------------------------------------------------------------------
(* Calls that begin: only task changes.                                    *)

\* Without a view taken out, all places count.
LEMMA ButNone ==
  ASSUME NEW en, NEW d, NEW first \in Nat, NEW last \in Nat, last < first
  PROVE  PlacesBut(en, d, first, last) = PlacesOf(en)
<1>1. first..last = {}
  OBVIOUS
<1>2. \A S : S \ (first..last) = S
  BY <1>1
<1>3. QED BY <1>2 DEF PlacesBut, PlacesOf

(* A call that begins has moved nothing yet.                               *)
LEMMA CallBegins ==
  ASSUME StorageInv, Idle, UNCHANGED <<registry, ents, pt, lists, groupSize>>,
         TaskInv',
         task'.kind = "cast" => task'.left = task'.count
  PROVE  StorageInv'
<1>1. /\ entries' = entries /\ size' = size /\ freeEntries' = freeEntries /\ ents' = ents /\ pt' = pt
      /\ group' = group /\ index' = index /\ chunks' = chunks /\ firstFree' = firstFree
      /\ groupSize' = groupSize
  BY DEF registry, lists
<1>2. RegistryTyped' /\ RegistryInv'
  BY <1>1 DEF StorageInv, RegistryTyped, RegistryInv, FreeListAgrees
<1>3. ListsTyped' /\ ListsInv'
  <2>1. ListsTyped'
    BY <1>1 DEF StorageInv, ListsTyped
  <2>2. ListsAgree' /\ FullFirst'
    BY <1>1 DEF StorageInv, ListsInv, ListsAgree, FullFirst, Full, CapacityOf
  <2>3. QED BY <1>1, <2>1, <2>2 DEF StorageInv, ListsInv, CapacityOf
<1>4. SizesInv'
  BY <1>1 DEF StorageInv, SizesInv, Held
<1>5. Agree(entries, ents, PlacesOf(ents))
  BY DEF StorageInv, EntriesInv, PlacesNow, Idle, NoTask
<1>6. PlacesNow' = PlacesOf(ents)
  <2>1. CASE task'.kind = "cast"
    <3>1. task'.start \in Nat /\ task'.count \in Nat /\ task'.left = task'.count
      BY <2>1, TaskFacts DEF TaskInv, Tasks, NoTask
    <3>2. /\ task'.start + 1 \in Nat /\ task'.start + task'.count - task'.left \in Nat
          /\ task'.start + task'.count - task'.left < task'.start + 1
      BY <3>1
    <3>3. PlacesNow' = PlacesBut(ents, task'.chunk, task'.start + 1, task'.start + task'.count - task'.left)
      BY <1>1, <2>1 DEF PlacesNow, PlacesBut
    <3>4. QED BY <3>2, <3>3, ButNone
  <2>2. CASE task'.kind # "cast"
    BY <1>1, <2>2 DEF PlacesNow, PlacesOf
  <2>3. QED BY <2>1, <2>2
<1>7. EntriesInv'
  BY <1>1, <1>5, <1>6 DEF EntriesInv, Agree
<1>8. QED BY <1>2, <1>3, <1>4, <1>7 DEF StorageInv

\* A call of allocate keeps the invariant.
LEMMA AllocateStep ==
  ASSUME StorageInv, NEW g \in Groups, NEW n \in 1..MaxCount, Allocate(g, n)
  PROVE  StorageInv'
<1>1. /\ Idle /\ UNCHANGED <<registry, ents, pt, lists, groupSize>>
      /\ task' = [kind |-> "allocate", group |-> g, left |-> n]
  BY DEF Allocate
<1>2. n \in Nat \ {0}
  BY ConstantsTyped
<1>3. task' \in Tasks /\ task'.kind = "allocate"
  BY <1>1, <1>2 DEF Tasks
<1>4. EmptyIsNext'
  BY <1>1, NoneEmpty DEF EmptyIsNext, lists, Idle, NoTask, Filling
<1>5. QED BY <1>1, <1>3, <1>4, CallBegins DEF TaskInv, CastInv, ClearInv, AdoptInv

\* So does a call of clear.
LEMMA ClearStep ==
  ASSUME StorageInv, NEW g \in Groups, Clear(g)
  PROVE  StorageInv'
<1>1. /\ Idle /\ UNCHANGED <<registry, ents, pt, lists, groupSize>>
      /\ task' = [kind |-> "clear", group |-> g] /\ chunks[g] # <<>>
  BY DEF Clear
<1>2. task' \in Tasks /\ task'.kind = "clear" /\ task'.group = g
  BY <1>1 DEF Tasks
<1>3. EmptyIsNext'
  BY <1>1, NoneEmpty DEF EmptyIsNext, lists, Idle, NoTask, Filling
<1>4. ClearInv'
  BY <1>1, <1>2 DEF ClearInv, lists
<1>5. QED BY <1>1, <1>2, <1>3, <1>4, CallBegins DEF TaskInv, CastInv, AdoptInv

(* A chunk that is handed over, by a cast of a view that is all of it or of*)
(* a group: the call is over, or goes on to the chunks that are left.      *)
LEMMA HandedStep ==
  ASSUME StorageInv, task.kind \in {"none", "adopt"}, NEW c \in Chunks, NEW g \in Groups, HandsOver(c, g),
         task' \in Tasks, task'.kind \in {"none", "adopt"}, AdoptInv'
  PROVE  StorageInv'
<1>1. /\ entries' = entries /\ size' = size /\ freeEntries' = freeEntries /\ ents' = ents
      /\ group' = [group EXCEPT ![c] = g] /\ group[c] \in Groups
  BY DEF HandsOver, MoveChunk, registry
<1>2. RegistryTyped' /\ RegistryInv'
  BY <1>1 DEF StorageInv, RegistryTyped, RegistryInv, FreeListAgrees
<1>3. ListsTyped' /\ ListsInv'
  BY HandedLists DEF StorageInv
<1>4. SizesInv'
  BY HandedSizes DEF StorageInv
<1>5. EntriesInv'
  <2>1. PlacesNow' = PlacesNow
    BY <1>1 DEF PlacesNow, PlacesOf
  <2>2. EntriesInv
    BY DEF StorageInv
  <2>3. QED BY <1>1, <2>1, <2>2 DEF EntriesInv, Agree
<1>6. EmptyIsNext'
  <2>1. \A d \in Chunks : group[d] # NoGroup => ents[d] # <<>>
    BY NoneEmpty DEF Filling
  <2>2. \A d \in Chunks : group'[d] # NoGroup => group[d] # NoGroup
    BY <1>1, ConstantsTyped DEF StorageInv, ListsTyped
  <2>3. QED BY <1>1, <2>1, <2>2 DEF EmptyIsNext
<1>7. CastInv' /\ ClearInv'
  BY DEF CastInv, ClearInv
<1>8. QED BY <1>2, <1>3, <1>4, <1>5, <1>6, <1>7 DEF StorageInv, TaskInv

(* A view is cast part by part, or its chunk is handed over.               *)
LEMMA CastViewStep ==
  ASSUME StorageInv, ~ Crowds, Idle, NEW c \in Chunks, NEW start \in Nat, NEW count \in Nat,
         IsView(c, start, count), NEW g \in Groups, CastView(c, start, count, g)
  PROVE  /\ StorageInv'
         /\ HandsOver(c, g) \/ UNCHANGED <<registry, ents, group>>
<1>1. /\ group[c] \in Groups /\ count \in Nat \ {0} /\ start + count <= Len(ents[c]) /\ g # group[c]
  BY DEF IsView, CastView, StorageInv, ListsTyped
<1>2. CASE Archetype[g] = Archetype[group[c]] /\ MoveChunk(c, g) /\ UNCHANGED task
  <2>1. HandsOver(c, g)
    BY <1>1, <1>2 DEF HandsOver
  <2>2. task.kind = "none" /\ task' = task /\ task \in Tasks
    BY <1>2 DEF Idle, NoTask, StorageInv, TaskInv
  <2>3. AdoptInv'
    BY <2>2 DEF AdoptInv
  <2>4. StorageInv'
    BY <2>1, <2>2, <2>3, HandedStep
  <2>5. QED BY <2>1, <2>4
<1>3. CASE /\ UNCHANGED <<registry, ents, pt, lists, groupSize>>
           /\ task' = [kind |-> "cast", group |-> g, left |-> count, chunk |-> c,
                       start |-> start, count |-> count, more |-> <<>>]
  <2>1. <<>> \in Seq(Chunks) /\ Len(<<>>) = 0
    OBVIOUS
  <2>2. /\ task' \in Tasks
        /\ task'.kind = "cast" /\ task'.group = g /\ task'.left = count /\ task'.chunk = c
        /\ task'.start = start /\ task'.count = count /\ task'.more = <<>>
    BY <1>1, <1>3, <2>1 DEF Tasks
  <2>3. EmptyIsNext'
    BY <1>3, NoneEmpty DEF EmptyIsNext, lists, Idle, NoTask, Filling
  <2>4. CastInv'
    BY <1>1, <1>3, <2>1, <2>2 DEF CastInv, lists
  <2>5. StorageInv'
    BY <1>3, <2>2, <2>3, <2>4, CallBegins DEF TaskInv, ClearInv, AdoptInv
  <2>6. QED BY <1>3, <2>5 DEF lists
<1>4. QED BY <1>2, <1>3 DEF CastView

(* The chunks of a list without the first one are others.                  *)
LEMMA RestOfList ==
  ASSUME ListsTyped, ListsInv, NEW g \in Groups, chunks[g] # <<>>
  PROVE  /\ Head(chunks[g]) \in Chunks /\ group[Head(chunks[g])] = g
         /\ Tail(chunks[g]) \in Seq(Chunks)
         /\ \A i \in 1..Len(Tail(chunks[g])) :
              group[Tail(chunks[g])[i]] = g /\ Tail(chunks[g])[i] # Head(chunks[g])
         /\ \A i, j \in 1..Len(Tail(chunks[g])) : Tail(chunks[g])[i] = Tail(chunks[g])[j] => i = j
<1>1. chunks[g] \in Seq(Chunks)
  BY DEF ListsTyped
<1>2. PICK l \in Nat \ {0} : l = Len(chunks[g])
  BY <1>1, LenProperties, EmptySeq
<1>3. \A i \in 1..l : chunks[g][i] \in Chunks /\ group[chunks[g][i]] = g /\ index[chunks[g][i]] = i - 1
  BY <1>2, ListedFacts
<1>4. /\ Head(chunks[g]) = chunks[g][1] /\ Tail(chunks[g]) \in Seq(Chunks)
      /\ Len(Tail(chunks[g])) = l - 1
      /\ \A i \in 1..(l - 1) : Tail(chunks[g])[i] = chunks[g][i + 1]
  BY <1>1, <1>2, HeadTailProperties
<1>5. \A i \in 1..(l - 1) : i + 1 \in 1..l /\ 1 \in 1..l /\ i + 1 # 1
  OBVIOUS
<1>6. \A i, j \in 1..l : chunks[g][i] = chunks[g][j] => i = j
  BY <1>3
<1>7. \A i, j \in 1..(l - 1) : Tail(chunks[g])[i] = Tail(chunks[g])[j] => i = j
  <2>1. \A i, j \in 1..(l - 1) : Tail(chunks[g])[i] = Tail(chunks[g])[j] => i + 1 = j + 1
    BY <1>4, <1>5, <1>6
  <2>2. \A i, j \in 1..(l - 1) : i + 1 = j + 1 => i = j
    OBVIOUS
  <2>3. QED BY <2>1, <2>2
<1>8. \A i \in 1..(l - 1) : group[Tail(chunks[g])[i]] = g /\ Tail(chunks[g])[i] # Head(chunks[g])
  BY <1>3, <1>4, <1>5, <1>6
<1>9. Head(chunks[g]) \in Chunks /\ group[Head(chunks[g])] = g
  BY <1>3, <1>4
<1>10. QED BY <1>4, <1>7, <1>8, <1>9

\* So does a call that casts a whole group.
LEMMA CastGroupStep ==
  ASSUME StorageInv, NEW from \in Groups, NEW g \in Groups, CastGroup(from, g)
  PROVE  StorageInv'
<1>. /\ Idle /\ UNCHANGED <<registry, ents, pt, lists, groupSize>> /\ chunks[from] # <<>> /\ from # g
  BY DEF CastGroup
<1>1. CASE Archetype[from] = Archetype[g] /\ task' = [kind |-> "adopt", group |-> g, from |-> from]
  <2>1. task' \in Tasks /\ task'.kind = "adopt" /\ task'.group = g /\ task'.from = from
    BY <1>1 DEF Tasks
  <2>2. EmptyIsNext'
    BY NoneEmpty DEF EmptyIsNext, lists, Idle, NoTask, Filling
  <2>3. AdoptInv'
    BY <1>1, <2>1 DEF AdoptInv, lists
  <2>4. QED BY <2>1, <2>2, <2>3, CallBegins DEF TaskInv, CastInv, ClearInv
<1>2. CASE task' = CastChunk(g, Head(chunks[from]), Tail(chunks[from]))
  <2>1. PICK d, m : d = Head(chunks[from]) /\ m = Tail(chunks[from])
    OBVIOUS
  <2>2. /\ d \in Chunks /\ group[d] = from /\ m \in Seq(Chunks)
        /\ \A i \in 1..Len(m) : group[m[i]] = from /\ m[i] # d
        /\ \A i, j \in 1..Len(m) : m[i] = m[j] => i = j
    BY <1>2, <2>1, RestOfList DEF StorageInv
  <2>3. Len(ents[d]) \in Nat \ {0} /\ from # NoGroup
    <3>1. ents[d] # <<>> /\ ents[d] \in Seq(Entity) /\ from # NoGroup
      BY <1>2, <2>2, NoneEmpty, ConstantsTyped
         DEF StorageInv, ListsTyped, EntsType, Idle, NoTask, Filling
    <3>2. QED BY <3>1, LenProperties, EmptySeq
  <2>4. /\ task' \in Tasks
        /\ task'.kind = "cast" /\ task'.group = g /\ task'.left = Len(ents[d]) /\ task'.chunk = d
        /\ task'.start = 0 /\ task'.count = Len(ents[d]) /\ task'.more = m
    BY <1>2, <2>1, <2>2, <2>3 DEF Tasks, CastChunk
  <2>5. EmptyIsNext'
    BY <1>2, NoneEmpty DEF EmptyIsNext, lists, Idle, NoTask, Filling
  <2>6. CastInv'
    BY <1>2, <2>2, <2>3, <2>4 DEF CastInv, lists
  <2>7. QED BY <1>2, <2>4, <2>5, <2>6, CallBegins DEF TaskInv, ClearInv, AdoptInv
<1>3. QED BY <1>1, <1>2 DEF CastGroup

-----------------------------------------------------------------------------
(* A chunk is claimed.                                                     *)

\* What a chunk that was claimed brings.
LEMMA NewChunkFacts ==
  ASSUME StorageInv, NEW c \in Chunks, NewChunk(c)
  PROVE  /\ Filling /\ task.group \in Groups /\ group[c] = NoGroup /\ ents[c] = <<>>
         /\ task.kind = "allocate" \/ task.kind = "cast"
         /\ Adds(task.group, c, ClaimPool(task.group, task.left))
         /\ UNCHANGED <<registry, ents, firstFree, groupSize, task>>
         /\ \A d \in Chunks : d # c => group'[d] = group[d]
<1>1. /\ Filling /\ task.kind \in {"allocate", "cast"} /\ task \in Tasks /\ group[c] = NoGroup
      /\ group' = [group EXCEPT ![c] = task.group]
  BY DEF NewChunk, Filling, StorageInv, TaskInv
<1>2. task.group \in Groups
  BY <1>1, TaskFacts
<1>3. ents[c] = <<>>
  BY <1>1 DEF StorageInv, ListsInv
<1>4. Adds(task.group, c, ClaimPool(task.group, task.left))
  BY DEF NewChunk, Adds
<1>5. \A d \in Chunks : d # c => group'[d] = group[d]
  BY <1>1 DEF StorageInv, ListsTyped
<1>6. UNCHANGED <<registry, ents, firstFree, groupSize, task>>
  BY DEF NewChunk
<1>7. QED BY <1>1, <1>2, <1>3, <1>4, <1>5, <1>6

\* Claiming a chunk keeps the invariant.
LEMMA NewChunkStep ==
  ASSUME StorageInv, NEW c \in Chunks, NewChunk(c)
  PROVE  StorageInv'
<1>1. PICK g \in Groups : g = task.group
  BY NewChunkFacts
<1>2. /\ Filling /\ group[c] = NoGroup /\ ents[c] = <<>>
      /\ task.kind = "allocate" \/ task.kind = "cast"
      /\ Adds(g, c, ClaimPool(g, task.left))
      /\ UNCHANGED <<registry, ents, firstFree, groupSize, task>>
      /\ \A d \in Chunks : d # c => group'[d] = group[d]
  BY <1>1, NewChunkFacts
<1>3. /\ entries' = entries /\ size' = size /\ freeEntries' = freeEntries /\ ents' = ents
      /\ firstFree' = firstFree /\ groupSize' = groupSize /\ task' = task
  BY <1>2 DEF registry
<1>4. /\ ListsTyped' /\ ListsInv' /\ index' = [index EXCEPT ![c] = firstFree[g]]
  <2>1. PICK p : p = ClaimPool(g, task.left)
    OBVIOUS
  <2>2. task.left \in Nat \ {0}
    BY <1>2, TaskFacts DEF StorageInv, TaskInv
  <2>3. p \in PoolTypes /\ Capacity[g][p] > 0
    BY <2>1, <2>2, ClaimedType
  <2>4. Adds(g, c, p)
    BY <1>2, <2>1
  <2>5. ListsTyped /\ ListsInv
    BY DEF StorageInv
  <2>6. QED BY <2>3, <2>4, <2>5, AddedLists
<1>5. /\ group' = [group EXCEPT ![c] = g] /\ firstFree[g] = Len(chunks[g]) /\ g # NoGroup
      /\ \A d \in Chunks : group'[d] = IF d = c THEN g ELSE group[d]
      /\ \A d \in Chunks : index'[d] = IF d = c THEN firstFree[g] ELSE index[d]
  BY <1>2, <1>4, ConstantsTyped DEF Adds, StorageInv, ListsTyped
<1>6. RegistryTyped' /\ RegistryInv'
  BY <1>3 DEF StorageInv, RegistryTyped, RegistryInv, FreeListAgrees
<1>7. SizesInv'
  <2>1. ASSUME NEW h \in Groups
        PROVE  Held(h)' = Held(h)
    <3>1. \A d \in Chunks : (group'[d] = h <=> group[d] = h) \/ ents[d] = <<>>
      BY <1>2, <1>5
    <3>2. \A x : x \in Held(h) <=> \E d \in Chunks : group[d] = h /\ x \in {d} \X DOMAIN ents[d]
      BY DEF Held
    <3>3. \A x : x \in Held(h)' <=> \E d \in Chunks : group'[d] = h /\ x \in {d} \X DOMAIN ents[d]
      BY <1>3 DEF Held
    <3>4. \A d : {d} \X DOMAIN <<>> = {}
      OBVIOUS
    <3>5. \A d \in Chunks : \A x \in {d} \X DOMAIN ents[d] : ents[d] # <<>>
      BY <3>4
    <3>6. \A x : x \in Held(h)' <=> x \in Held(h)
      BY <3>1, <3>2, <3>3, <3>5
    <3>7. QED BY <3>6
  <2>2. QED BY <1>3, <2>1 DEF StorageInv, SizesInv
<1>8. EntriesInv'
  BY <1>3 DEF StorageInv, EntriesInv, Agree, PlacesNow, PlacesOf, PlacesBut
<1>9. EmptyIsNext'
  <2>1. SUFFICES ASSUME NEW d \in Chunks, group'[d] # NoGroup, ents'[d] = <<>>
                 PROVE  Filling' /\ group'[d] = task'.group /\ index'[d] = firstFree'[task'.group]
    BY DEF EmptyIsNext
  <2>2. Filling'
    BY <1>2, <1>3 DEF Filling
  <2>3. d = c
    <3>1. SUFFICES ASSUME d # c PROVE FALSE
      OBVIOUS
    <3>2. group[d] # NoGroup /\ ents[d] = <<>>
      BY <1>3, <1>5, <2>1, <3>1
    <3>3. group[d] = g /\ index[d] = firstFree[g]
      BY <1>1, <3>2 DEF StorageInv, TaskInv, EmptyIsNext
    <3>4. index[d] < Len(chunks[g]) /\ Len(chunks[g]) \in Nat /\ index[d] \in Nat
      BY <3>2, <3>3, ListedFacts DEF StorageInv
    <3>5. QED BY <1>5, <3>3, <3>4
  <2>4. QED BY <1>1, <1>3, <1>5, <2>2, <2>3
<1>10. CastInv'
  <2>1. SUFFICES ASSUME task.kind = "cast"
                 PROVE  /\ group'[task.chunk] \in Groups \ {task.group}
                        /\ task.start + task.count <= Len(ents[task.chunk])
                        /\ task.left <= task.count
                        /\ \A i \in 1..Len(task.more) :
                             group'[task.more[i]] = group'[task.chunk] /\ task.more[i] # task.chunk
                        /\ \A i, j \in 1..Len(task.more) : task.more[i] = task.more[j] => i = j
    BY <1>3 DEF CastInv
  <2>2. /\ group[task.chunk] \in Groups \ {task.group}
        /\ task.start + task.count <= Len(ents[task.chunk])
        /\ task.left <= task.count
        /\ \A i \in 1..Len(task.more) :
             group[task.more[i]] = group[task.chunk] /\ task.more[i] # task.chunk
        /\ \A i, j \in 1..Len(task.more) : task.more[i] = task.more[j] => i = j
    BY <2>1 DEF StorageInv, TaskInv, CastInv
  <2>3. task.chunk \in Chunks /\ task.more \in Seq(Chunks)
    BY <2>1, TaskFacts DEF StorageInv, TaskInv
  <2>4. \A i \in 1..Len(task.more) : task.more[i] \in Chunks
    BY <2>3, ElementOfSeq
  <2>5. NoGroup \notin Groups
    BY ConstantsTyped
  <2>6. group'[task.chunk] = group[task.chunk]
    BY <1>2, <1>5, <2>2, <2>3, <2>5
  <2>7. \A i \in 1..Len(task.more) : group'[task.more[i]] = group[task.more[i]]
    BY <1>2, <1>5, <2>2, <2>4, <2>5
  <2>8. QED BY <2>2, <2>6, <2>7
<1>11. TaskInv'
  BY <1>2, <1>3, <1>9, <1>10 DEF StorageInv, TaskInv, ClearInv, AdoptInv
<1>12. QED BY <1>4, <1>6, <1>7, <1>8, <1>11 DEF StorageInv

(* No entity is in a chunk that is claimed.                                *)
LEMMA NewChunkHome ==
  ASSUME StorageInv, NEW c \in Chunks, NewChunk(c)
  PROVE  Home' = Home
<1>1. /\ group[c] = NoGroup /\ entries' = entries /\ \A d \in Chunks : d # c => group'[d] = group[d]
  BY NewChunkFacts DEF registry
<1>2. ASSUME NEW id \in Ids, entries[id].chunk # NoChunk
      PROVE  group'[entries[id].chunk] = group[entries[id].chunk]
  BY <1>1, <1>2, HomeFacts, ConstantsTyped
<1>3. QED BY <1>1, <1>2 DEF Home

-----------------------------------------------------------------------------
(* A chunk gets another content.                                           *)

(* What resize_chunk keeps, and what it changes.                           *)
LEMMA ResizeKeeps ==
  ASSUME StorageInv, NEW c \in Chunks, NEW g \in Groups, group[c] = g,
         NEW s \in Seq(Entity), Len(s) <= CapacityOf(c), ResizeChunk(g, c, s),
         \A d \in Chunks \ {c} : group[d] # NoGroup => ents[d] # <<>>
  PROVE  /\ ListsTyped' /\ ListsInv' /\ SizesInv' /\ EmptyIsNext'
         /\ ents' = [ents EXCEPT ![c] = s]
         /\ \A d \in Chunks : ents'[d] = IF d = c THEN s ELSE ents[d]
         /\ \A d \in Chunks : group'[d] = IF d = c /\ s = <<>> THEN NoGroup ELSE group[d]
         /\ Len(chunks'[g]) = IF s = <<>> THEN Len(chunks[g]) - 1 ELSE Len(chunks[g])
         /\ \A d \in Chunks : group'[d] # NoGroup => ents'[d] # <<>>
<1>1. ListsTyped /\ ListsInv /\ SizesInv
  BY DEF StorageInv
<1>2. /\ ListsTyped' /\ ListsInv' /\ ents' = [ents EXCEPT ![c] = s]
      /\ group' = IF s = <<>> THEN [group EXCEPT ![c] = NoGroup] ELSE group
      /\ Len(chunks'[g]) = IF s = <<>> THEN Len(chunks[g]) - 1 ELSE Len(chunks[g])
  BY <1>1, ResizeLists
<1>3. SizesInv'
  BY <1>1, ResizeSizes
<1>4. \A d \in Chunks : group'[d] # NoGroup => ents'[d] # <<>>
  BY <1>1, <1>2, ResizedNoneEmpty
<1>5. /\ \A d \in Chunks : ents'[d] = IF d = c THEN s ELSE ents[d]
      /\ \A d \in Chunks : group'[d] = IF d = c /\ s = <<>> THEN NoGroup ELSE group[d]
  BY <1>1, <1>2 DEF ListsTyped, EntsType
<1>6. EmptyIsNext'
  BY <1>4 DEF EmptyIsNext
<1>7. QED BY <1>2, <1>3, <1>4, <1>5, <1>6

(* allocate_view fills a chunk of the group that has room, and no other    *)
(* chunk is empty.                                                         *)
LEMMA FirstFreeFacts ==
  ASSUME StorageInv, Filling, NEW g, g = task.group, firstFree[g] < Len(chunks[g]),
         NEW c, c = FirstFree(g)
  PROVE  /\ g \in Groups /\ c \in Chunks /\ group[c] = g
         /\ Fitting \in Nat \ {0} /\ Fitting <= task.left /\ task.left \in Nat \ {0}
         /\ Len(ents[c]) + Fitting <= CapacityOf(c)
         /\ \A d \in Chunks \ {c} : group[d] # NoGroup => ents[d] # <<>>
<1>1. g \in Groups /\ task.left \in Nat \ {0}
  BY TaskFacts DEF Filling, StorageInv, TaskInv
<1>2. PICK f \in Nat : f = firstFree[g] /\ f < Len(chunks[g]) /\ Len(chunks[g]) \in Nat
  BY <1>1, ListedFacts DEF StorageInv
<1>3. f + 1 \in 1..Len(chunks[g]) /\ c = chunks[g][f + 1]
  BY <1>2 DEF FirstFree
<1>4. c \in Chunks /\ group[c] = g /\ index[c] = f + 1 - 1
  BY <1>1, <1>3, ListedFacts DEF StorageInv
<1>5. g # NoGroup
  BY <1>1, ConstantsTyped
<1>6. /\ Len(ents[c]) = CapacityOf(c) <=> index[c] < firstFree[g]
      /\ Len(ents[c]) <= CapacityOf(c) /\ CapacityOf(c) \in Nat /\ Len(ents[c]) \in Nat
  BY <1>4, <1>5, ListedFacts DEF StorageInv
<1>7. PICK m \in Nat, k \in Nat : m = Len(ents[c]) /\ k = CapacityOf(c) /\ m < k
  BY <1>2, <1>4, <1>6
<1>8. PICK n \in Nat \ {0} : n = task.left
  BY <1>1
<1>9. Fitting = IF n < k - m THEN n ELSE k - m
  BY <1>7, <1>8 DEF Fitting, Lesser, FirstFree
<1>10. Fitting \in Nat \ {0} /\ Fitting <= n /\ m + Fitting <= k
  <2>1. m < k
    BY ONLY <1>7
  <2>2. QED BY ONLY <1>9, <2>1, m \in Nat, k \in Nat, n \in Nat \ {0}
<1>11. ASSUME NEW d \in Chunks \ {c}, group[d] # NoGroup, ents[d] = <<>>
       PROVE  FALSE
  <2>1. group[d] = g /\ index[d] = f
    BY <1>2, <1>11 DEF StorageInv, TaskInv, EmptyIsNext
  <2>2. chunks[g][index[d] + 1] = d
    BY <1>11, <2>1, ListedFacts, SMTT(30) DEF StorageInv
  <2>3. QED BY <1>3, <2>1, <2>2
<1>12. QED BY <1>1, <1>4, <1>7, <1>8, <1>10, <1>11

-----------------------------------------------------------------------------
(* A part of allocate().                                                   *)

\* What new entities in a chunk change, and what they leave alone.
LEMMA AllocateViewFacts ==
  ASSUME StorageInv, AllocateView, NEW g, g = task.group, NEW c, c = FirstFree(g),
         NEW n, n = Fitting, NEW t, t = NewEntities(n), NEW s, s = ents[c] \o t
  PROVE  /\ g \in Groups /\ c \in Chunks /\ group[c] = g /\ n \in Nat \ {0} /\ n <= task.left
         /\ t \in Seq(Entity) /\ Len(t) = n /\ s \in Seq(Entity) /\ s # <<>> /\ Len(s) <= CapacityOf(c)
         /\ \A i \in 1..n : t[i][1] \in Ids /\ entries[t[i][1]].chunk = NoChunk
         /\ \A i \in 1..n : entries'[t[i][1]].chunk = c
         /\ \A id \in Ids : (\A i \in 1..n : t[i][1] # id) => entries'[id] = entries[id]
         /\ \A id \in Ids : entries'[id].version = entries[id].version
         /\ ListsTyped' /\ ListsInv' /\ SizesInv' /\ EmptyIsNext'
         /\ \A d \in Chunks : group'[d] = group[d]
         /\ RegistryTyped' /\ RegistryInv'
         /\ Agree(entries', ents', PlacesOf(ents'))
         /\ task' = IF n = task.left THEN NoTask ELSE [task EXCEPT !.left = @ - n]
         /\ task.kind = "allocate"
<1>1. /\ Filling /\ task.kind = "allocate" /\ firstFree[g] < Len(chunks[g])
      /\ TakeEntities(n)
      /\ entries' = Placed(entries, c, s, Len(ents[c]) + 1, Len(s))
      /\ ResizeChunk(g, c, s)
      /\ task' = IF n = task.left THEN NoTask ELSE [task EXCEPT !.left = @ - n]
  BY DEF AllocateView
<1>2. /\ g \in Groups /\ c \in Chunks /\ group[c] = g
      /\ n \in Nat \ {0} /\ n <= task.left
      /\ Len(ents[c]) + n <= CapacityOf(c)
      /\ \A d \in Chunks \ {c} : group[d] # NoGroup => ents[d] # <<>>
  BY <1>1, FirstFreeFacts
<1>3. /\ RegistryTyped /\ RegistryInv /\ ents \in EntsType /\ entries \in EntriesType
      /\ Agree(entries, ents, PlacesOf(ents)) /\ size + n - Recycled(n) <= MaxEntities
  BY <1>1 DEF StorageInv, EntriesInv, PlacesNow, ListsTyped, RegistryTyped, TakeEntities
<1>4. /\ t \in Seq(Entity) /\ Len(t) = n
      /\ Apart(t, 1, n) /\ Current(entries, t, 1, n)
      /\ \A i \in 1..n : t[i][1] \in Ids /\ entries[t[i][1]].chunk = NoChunk
  BY <1>2, <1>3, NewEntitiesFacts
<1>5. \A d \in Chunks : \A i \in DOMAIN ents[d] : \A j \in 1..n : t[j][1] # ents[d][i][1]
  <2>1. SUFFICES ASSUME NEW d \in Chunks, NEW i \in DOMAIN ents[d], NEW j \in 1..n,
                        t[j][1] = ents[d][i][1]
                 PROVE  FALSE
    OBVIOUS
  <2>2. At(entries[ents[d][i][1]], d, i, ents[d][i][2])
    BY <1>3 DEF Agree, PlacesOf
  <2>3. entries[ents[d][i][1]].chunk = d /\ NoChunk \notin Chunks
    BY <2>2, ConstantsTyped DEF At
  <2>4. QED BY <1>4, <2>1, <2>3
<1>6. PICK P, P2, new : /\ P = PlacesOf(ents) /\ P2 = PlacesOf([ents EXCEPT ![c] = s])
                        /\ new = Placed(entries, c, s, Len(ents[c]) + 1, Len(s))
  OBVIOUS
<1>7. /\ \A d \in Chunks : P[d] = DOMAIN ents[d]
      /\ P2[c] = DOMAIN s /\ \A d \in Chunks \ {c} : P2[d] = DOMAIN ents[d]
  BY <1>2, <1>3, <1>6 DEF PlacesOf, EntsType
<1>8. Within(P, ents)
  BY <1>7 DEF Within
<1>9. Appended(P, P2, ents, c, t, s)
  <2>1. /\ \A i \in P[c] : \A j \in 1..Len(t) : t[j][1] # ents[c][i][1]
        /\ \A d \in Chunks : d # c =>
             \A i : i \in P2[d] <=> i \in P[d] /\ \A j \in 1..Len(t) : t[j][1] # ents[d][i][1]
    BY <1>2, <1>4, <1>5, <1>7
  <2>2. QED BY <1>2, <1>7, <2>1 DEF Appended
<1>10. /\ s \in Seq(Entity) /\ Len(s) = Len(ents[c]) + Len(t)
       /\ Arrived(entries, new, c, t)
       /\ Agree(new, [ents EXCEPT ![c] = s], P2)
  <2>1. Apart(t, 1, Len(t)) /\ Current(entries, t, 1, Len(t)) /\ t \in Seq(Entity)
    BY <1>4
  <2>2. /\ ents \in EntsType /\ entries \in EntriesType /\ Agree(entries, ents, P)
        /\ new = Placed(entries, c, s, Len(ents[c]) + 1, Len(s)) /\ c \in Chunks
    BY ONLY <1>2, <1>3, <1>6
  <2>3. QED BY ONLY <1>8, <1>9, <2>1, <2>2, AppendedAgree
<1>11. /\ entries' = new /\ new \in EntriesType
       /\ \A j \in 1..n : new[t[j][1]].chunk = c
       /\ \A id \in Ids : (\A j \in 1..n : t[j][1] # id) => new[id] = entries[id]
       /\ \A id \in Ids : new[id].version = entries[id].version
  BY ONLY <1>1, <1>4, <1>6, <1>10 DEF Arrived
<1>12. Len(s) <= CapacityOf(c) /\ s # <<>>
  <2>1. Len(ents[c]) \in Nat /\ Len(s) = Len(ents[c]) + n
    BY <1>2, <1>3, <1>4, <1>10, PlaceFacts
  <2>2. Len(s) # 0 /\ Len(s) <= CapacityOf(c)
    BY <1>2, <2>1
  <2>3. QED BY <2>2
<1>13. /\ ListsTyped' /\ ListsInv' /\ SizesInv' /\ EmptyIsNext' /\ ents' = [ents EXCEPT ![c] = s]
       /\ \A d \in Chunks : group'[d] = group[d]
  <2>1. /\ StorageInv /\ c \in Chunks /\ g \in Groups /\ group[c] = g
        /\ s \in Seq(Entity) /\ Len(s) <= CapacityOf(c) /\ ResizeChunk(g, c, s)
        /\ \A d \in Chunks \ {c} : group[d] # NoGroup => ents[d] # <<>>
    BY <1>1, <1>2, <1>10, <1>12
  <2>2. /\ ListsTyped' /\ ListsInv' /\ SizesInv' /\ EmptyIsNext' /\ ents' = [ents EXCEPT ![c] = s]
        /\ \A d \in Chunks : group'[d] = IF d = c /\ s = <<>> THEN NoGroup ELSE group[d]
    BY ONLY <2>1, ResizeKeeps, SMTT(20)
  <2>3. QED BY <1>12, <2>2
<1>14. RegistryTyped' /\ RegistryInv'
  <2>1. /\ entries' \in EntriesType
        /\ \A j \in 1..n : entries'[t[j][1]].chunk # NoChunk
        /\ \A id \in Ids : (\A j \in 1..n : t[j][1] # id) => entries'[id] = entries[id]
        /\ \A id \in Ids : entries'[id].version = entries[id].version
    <3>1. c # NoChunk
      BY ONLY <1>2, ConstantsTyped
    <3>2. QED BY <1>11, <3>1
  <2>2. QED BY <1>1, <1>2, <1>3, <2>1, TakenRegistry, SMTT(30)
<1>15. Agree(entries', ents', PlacesOf(ents'))
  BY <1>6, <1>10, <1>11, <1>13
<1>16. /\ \A i \in 1..n : entries'[t[i][1]].chunk = c
       /\ \A id \in Ids : (\A i \in 1..n : t[i][1] # id) => entries'[id] = entries[id]
       /\ \A id \in Ids : entries'[id].version = entries[id].version
  BY <1>11
<1>17. QED BY ONLY <1>1, <1>2, <1>4, <1>10, <1>12, <1>13, <1>14, <1>15, <1>16

\* New entities in a chunk keep the invariant.
LEMMA AllocateViewStep ==
  ASSUME StorageInv, AllocateView
  PROVE  StorageInv'
<1>1. PICK g, c, n, t, s : /\ g = task.group /\ c = FirstFree(g)
                           /\ n = Fitting /\ t = NewEntities(n) /\ s = ents[c] \o t
  OBVIOUS
<1>2. /\ g \in Groups /\ n \in Nat \ {0} /\ n <= task.left
      /\ ListsTyped' /\ ListsInv' /\ SizesInv' /\ EmptyIsNext'
      /\ RegistryTyped' /\ RegistryInv'
      /\ Agree(entries', ents', PlacesOf(ents'))
      /\ task' = IF n = task.left THEN NoTask ELSE [task EXCEPT !.left = @ - n]
      /\ task.kind = "allocate"
  BY <1>1, AllocateViewFacts
<1>3. task \in Tasks /\ task.left \in Nat \ {0}
  BY <1>2, TaskFacts DEF StorageInv, TaskInv
<1>4. PICK m \in Nat : m = task.left
  BY <1>3
<1>5. task = [kind |-> "allocate", group |-> g, left |-> m]
  BY <1>1, <1>2, <1>3, <1>4 DEF Tasks, NoTask
<1>6. task' = NoTask \/ (task' = [kind |-> "allocate", group |-> g, left |-> m - n] /\ m - n \in Nat \ {0})
  BY <1>2, <1>4, <1>5
<1>7. task' \in Tasks /\ task'.kind \in {"none", "allocate"}
  BY <1>2, <1>6 DEF Tasks, NoTask
<1>8. TaskInv'
  BY <1>2, <1>7 DEF TaskInv, CastInv, ClearInv, AdoptInv
<1>9. EntriesInv'
  <2>1. PlacesNow' = PlacesOf(ents')
    BY <1>7 DEF PlacesNow, PlacesOf
  <2>2. QED BY <1>2, <2>1 DEF EntriesInv, Agree
<1>10. QED BY <1>2, <1>8, <1>9 DEF StorageInv

-----------------------------------------------------------------------------
(* A part of cast().                                                       *)

(* Entries that change their places only.                                  *)
LEMMA SameRegistry ==
  ASSUME RegistryTyped, RegistryInv, size' = size, freeEntries' = freeEntries,
         entries' \in EntriesType,
         \A id \in Ids : entries'[id].chunk = NoChunk <=> entries[id].chunk = NoChunk,
         \A id \in Ids : entries'[id].version = entries[id].version
  PROVE  RegistryTyped' /\ RegistryInv'
<1>1. RegistryTyped'
  BY DEF RegistryTyped
<1>2. PICK l : l = Len(freeEntries)
  OBVIOUS
<1>3. /\ \A i \in 1..l : /\ freeEntries[i] \in Ids /\ freeEntries[i] < size
                         /\ entries[freeEntries[i]].chunk = NoChunk
      /\ \A id \in Ids : id < size /\ entries[id].chunk = NoChunk => \E i \in 1..l : freeEntries[i] = id
      /\ \A i, j \in 1..l : freeEntries[i] = freeEntries[j] => i = j
      /\ \A id \in Ids : id >= size => entries[id].chunk = NoChunk
      /\ \A id \in Ids : entries[id].version < TransientVersion
  BY <1>2, FreeListFacts
<1>4. /\ l = Len(freeEntries')
      /\ \A i \in 1..l : freeEntries'[i] < size' /\ entries'[freeEntries'[i]].chunk = NoChunk
      /\ \A id \in Ids : id < size' /\ entries'[id].chunk = NoChunk => \E i \in 1..l : freeEntries'[i] = id
      /\ \A i, j \in 1..l : freeEntries'[i] = freeEntries'[j] => i = j
  BY <1>2, <1>3
<1>5. FreeListAgrees'
  BY <1>1, <1>4, FreeListAgreesBy
<1>6. QED BY <1>1, <1>3, <1>5 DEF RegistryInv

\* Entities t are the n after place b of chunk d.
IsPart(t, d, b, n) == t = SubSeq(ents[d], b + 1, b + n)

(* The entities a cast moves next stand in its view.                       *)
LEMMA MovingFacts ==
  ASSUME ents \in EntsType, NEW P, Agree(entries, ents, P),
         NEW d \in Chunks, NEW first \in Nat, NEW b \in Nat, NEW n \in Nat \ {0}, first <= b + 1,
         NEW l \in Nat, l = Len(ents[d]), b + n <= l,
         P = PlacesBut(ents, d, first, b), NEW t, IsPart(t, d, b, n)
  PROVE  /\ Within(P, ents)
         /\ t \in Seq(Entity) /\ Len(t) = n
         /\ \A i \in 1..n : /\ b + i \in P[d] /\ t[i] = ents[d][b + i]
                            /\ t[i][1] \in Ids /\ entries[t[i][1]].chunk = d
         /\ Apart(t, 1, n) /\ Current(entries, t, 1, n)
         /\ \A e \in Chunks : \A k \in P[e] : \A i \in 1..n :
              t[i][1] = ents[e][k][1] => e = d /\ k = b + i
<1>1. DOMAIN ents[d] = 1..l /\ ents[d] \in Seq(Entity)
  BY PlaceFacts DEF EntsType
<1>2. Within(P, ents)
  BY DEF Within, PlacesBut
<1>3. \A i \in 1..n : b + i \in 1..l /\ b + i \notin first..b
  OBVIOUS
<1>4. \A i \in 1..n : b + i \in P[d]
  BY <1>1, <1>3 DEF PlacesBut
<1>5. \A k \in 1..l : ents[d][k] \in Entity /\ ents[d][k][1] \in Ids
  BY PlaceFacts
<1>6. t \in Seq(Entity) /\ Len(t) = n /\ \A i \in 1..n : t[i] = ents[d][b + i]
  <2>1. /\ b + 1 \in Int /\ b + n \in Int /\ b + 1 <= b + n
        /\ \A i \in (b + 1)..(b + n) : i \in 1..l
    OBVIOUS
  <2>2. \A i \in (b + 1)..(b + n) : ents[d][i] \in Entity
    BY <1>5, <2>1
  <2>3. /\ t \in Seq(Entity)
        /\ Len(t) = IF b + 1 <= b + n THEN b + n - (b + 1) + 1 ELSE 0
        /\ \A i \in 1..(b + n - (b + 1) + 1) : t[i] = ents[d][b + 1 + i - 1]
    BY ONLY <2>1, <2>2, SubSeqProperties, IsPart(t, d, b, n), SMTT(30) DEF IsPart
  <2>4. b + n - (b + 1) + 1 = n /\ \A i \in 1..n : b + 1 + i - 1 = b + i
    OBVIOUS
  <2>5. QED BY <2>1, <2>3, <2>4
<1>7. \A i \in 1..n : At(entries[t[i][1]], d, b + i, t[i][2])
  <2>1. \A i \in 1..n : At(entries[ents[d][b + i][1]], d, b + i, ents[d][b + i][2])
    BY <1>4 DEF Agree
  <2>2. QED BY <1>6, <2>1
<1>8. \A i \in 1..n : entries[t[i][1]].chunk = d /\ entries[t[i][1]].version = t[i][2]
  BY <1>7 DEF At
<1>9. \A i \in 1..n : t[i][1] \in Ids
  BY <1>3, <1>5, <1>6
<1>10. ASSUME NEW e \in Chunks, NEW k \in P[e], NEW i \in 1..n, t[i][1] = ents[e][k][1]
       PROVE  e = d /\ k = b + i
  <2>1. b + i \in P[d] /\ ents[d][b + i][1] = ents[e][k][1]
    BY <1>4, <1>6, <1>10
  <2>2. PICK q \in P[d] : q = b + i /\ ents[d][q][1] = ents[e][k][1]
    BY <2>1
  <2>3. /\ ents \in EntsType /\ Within(P, ents) /\ Agree(entries, ents, P)
        /\ d \in Chunks /\ e \in Chunks /\ q \in P[d] /\ k \in P[e]
    BY <1>2
  <2>4. d = e /\ q = k
    BY ONLY <2>2, <2>3, OnePlace
  <2>5. QED BY <2>2, <2>4
<1>11. Apart(t, 1, n)
  <2>1. SUFFICES ASSUME NEW i \in 1..n, NEW j \in 1..n, t[i][1] = t[j][1] PROVE i = j
    BY DEF Apart
  <2>2. b + j \in P[d] /\ t[i][1] = ents[d][b + j][1]
    BY <1>4, <1>6, <2>1
  <2>3. b + j = b + i
    BY <1>10, <2>2
  <2>4. QED BY <2>3
<1>12. Current(entries, t, 1, n)
  BY <1>8 DEF Current
<1>13. QED BY <1>2, <1>4, <1>6, <1>8, <1>9, <1>10, <1>11, <1>12

\* Entities t move to the end of chunk c, which holds s then: the places that
\* count go from P to P2, the entries to new.
PartMoves(P, P2, c, d, first, b, n, t, s, new) ==
  /\ P = PlacesBut(ents, d, first, b) /\ IsPart(t, d, b, n)
  /\ s = ents[c] \o t /\ new = Placed(entries, c, s, Len(ents[c]) + 1, Len(s))
  /\ P2 = PlacesBut([ents EXCEPT ![c] = s], d, first, b + n)

(* Moved to another chunk, they are registered there.                      *)
LEMMA MovedPart ==
  ASSUME ents \in EntsType, entries \in EntriesType, NEW P, Agree(entries, ents, P),
         NEW c \in Chunks, NEW d \in Chunks, d # c,
         NEW first \in Nat, NEW b \in Nat, NEW n \in Nat \ {0}, first <= b + 1,
         NEW l \in Nat, l = Len(ents[d]), b + n <= l,
         NEW P2, NEW t, NEW s, NEW new, PartMoves(P, P2, c, d, first, b, n, t, s, new)
  PROVE  /\ s \in Seq(Entity) /\ Len(s) = Len(ents[c]) + Len(t)
         /\ Arrived(entries, new, c, t)
         /\ Agree(new, [ents EXCEPT ![c] = s], P2)
<1>1. /\ Within(P, ents)
      /\ t \in Seq(Entity) /\ Len(t) = n
      /\ \A i \in 1..n : b + i \in P[d] /\ t[i] = ents[d][b + i]
      /\ Apart(t, 1, n) /\ Current(entries, t, 1, n)
      /\ \A e \in Chunks : \A k \in P[e] : \A i \in 1..n :
           t[i][1] = ents[e][k][1] => e = d /\ k = b + i
  <2>1. /\ ents \in EntsType /\ Agree(entries, ents, P)
        /\ d \in Chunks /\ first \in Nat /\ b \in Nat /\ n \in Nat \ {0} /\ first <= b + 1
        /\ l \in Nat /\ l = Len(ents[d]) /\ b + n <= l
        /\ P = PlacesBut(ents, d, first, b) /\ IsPart(t, d, b, n)
    BY DEF PartMoves
  <2>2. QED BY ONLY <2>1, MovingFacts, SMTT(30)
<1>2. /\ \A e \in Chunks \ {d} : P[e] = DOMAIN ents[e]
      /\ P[d] = 1..l \ (first..b)
      /\ P2[c] = DOMAIN s /\ \A e \in Chunks \ {c, d} : P2[e] = DOMAIN ents[e]
      /\ P2[d] = 1..l \ (first..(b + n))
  <2>1. DOMAIN ents[d] = 1..l
    BY PlaceFacts
  <2>2. \A e \in Chunks : [ents EXCEPT ![c] = s][e] = IF e = c THEN s ELSE ents[e]
    BY DEF EntsType
  <2>3. P = PlacesBut(ents, d, first, b) /\ P2 = PlacesBut([ents EXCEPT ![c] = s], d, first, b + n)
    BY DEF PartMoves
  <2>4. QED BY <2>1, <2>2, <2>3 DEF PlacesBut
<1>3. \A i \in P[c] : \A j \in 1..n : t[j][1] # ents[c][i][1]
  BY <1>1
<1>4. ASSUME NEW e \in Chunks, e # c, NEW i
      PROVE  i \in P2[e] <=> i \in P[e] /\ \A j \in 1..n : t[j][1] # ents[e][i][1]
  <2>1. CASE e # d
    <3>1. P2[e] = P[e]
      BY <1>2, <1>4, <2>1
    <3>2. \A k \in P[e] : \A j \in 1..n : t[j][1] # ents[e][k][1]
      BY <1>1, <2>1
    <3>3. QED BY <3>1, <3>2
  <2>2. CASE e = d
    <3>1. ASSUME i \in P[d], NEW j \in 1..n, t[j][1] = ents[d][i][1] PROVE i \in first..(b + n)
      <4>1. i = b + j
        BY <1>1, <3>1
      <4>2. QED BY <4>1
    <3>2. ASSUME i \in P[d], i \in first..(b + n)
          PROVE  \E j \in 1..n : t[j][1] = ents[d][i][1]
      <4>1. i \in 1..l /\ i \notin first..b
        BY <1>2, <3>2
      <4>2. PICK j \in 1..n : b + j = i
        <5>1. i - b \in 1..n /\ b + (i - b) = i
          BY <3>2, <4>1
        <5>2. QED BY <5>1
      <4>3. QED BY <1>1, <4>2
    <3>3. \A k : k \in first..b => k \in first..(b + n)
      OBVIOUS
    <3>4. i \in P2[d] <=> i \in P[d] /\ i \notin first..(b + n)
      BY <1>2, <3>3
    <3>5. QED BY <2>2, <3>1, <3>2, <3>4
  <2>3. QED BY <2>1, <2>2
<1>5. Appended(P, P2, ents, c, t, s)
  <2>1. /\ \A i \in P[c] : \A j \in 1..Len(t) : t[j][1] # ents[c][i][1]
        /\ \A e \in Chunks : e # c =>
             \A i : i \in P2[e] <=> i \in P[e] /\ \A j \in 1..Len(t) : t[j][1] # ents[e][i][1]
    BY ONLY <1>1, <1>3, <1>4
  <2>2. s = ents[c] \o t /\ P[c] = DOMAIN ents[c] /\ P2[c] = DOMAIN s
    BY <1>2 DEF PartMoves
  <2>3. QED BY ONLY <2>1, <2>2 DEF Appended
<1>6. /\ Apart(t, 1, Len(t)) /\ Current(entries, t, 1, Len(t)) /\ t \in Seq(Entity)
      /\ Within(P, ents)
  BY <1>1
<1>7. /\ ents \in EntsType /\ entries \in EntriesType /\ Agree(entries, ents, P) /\ c \in Chunks
      /\ new = Placed(entries, c, s, Len(ents[c]) + 1, Len(s))
  BY DEF PartMoves
<1>8. QED BY ONLY <1>5, <1>6, <1>7, AppendedAgree

(* How far a cast has come.                                                *)
LEMMA CastFacts ==
  ASSUME StorageInv, task.kind = "cast", NEW d, d = task.chunk, NEW l, l = Len(ents[d])
  PROVE  /\ d \in Chunks /\ group[d] \in Groups \ {task.group} /\ task.group \in Groups
         /\ task.start \in Nat /\ task.count \in Nat \ {0} /\ task.left \in Nat
         /\ task.left <= task.count /\ task.start + task.count <= l /\ l \in Nat
         /\ task.start + 1 <= task.start + task.count - task.left + 1
         /\ task.start + task.count - task.left \in Nat
         /\ PlacesNow = PlacesBut(ents, d, task.start + 1, task.start + task.count - task.left)
<1>1. /\ d \in Chunks /\ task.start \in Nat /\ task.count \in Nat \ {0} /\ task.left \in Nat
      /\ task.group \in Groups
  BY TaskFacts DEF StorageInv, TaskInv
<1>2. /\ group[d] \in Groups \ {task.group}
      /\ task.start + task.count <= l /\ task.left <= task.count
  BY DEF StorageInv, TaskInv, CastInv
<1>3. l \in Nat
  BY <1>1, PlaceFacts DEF StorageInv, ListsTyped
<1>4. /\ task.start + 1 <= task.start + task.count - task.left + 1
      /\ task.start + task.count - task.left \in Nat
  BY <1>1, <1>2, SMTT(30)
<1>5. PlacesNow = PlacesBut(ents, d, task.start + 1, task.start + task.count - task.left)
  BY DEF PlacesNow
<1>6. QED BY <1>1, <1>2, <1>3, <1>4, <1>5

\* A part of n entities of chunk d, after place b, goes to chunk c of group g
\* that holds s then; the view starts at place first.
Part(g, c, d, first, b, n, t, s) ==
  /\ g = task.group /\ c = FirstFree(g) /\ d = task.chunk /\ first = task.start + 1
  /\ b = task.start + task.count - task.left /\ n = Fitting
  /\ t = SubSeq(ents[d], b + 1, b + n) /\ s = ents[c] \o t

\* What moving a part of a view changes, and what it leaves alone.
LEMMA PartFacts ==
  ASSUME StorageInv, CastPart,
         NEW g, NEW c, NEW d, NEW first, NEW b, NEW n, NEW t, NEW s, Part(g, c, d, first, b, n, t, s)
  PROVE  /\ g \in Groups /\ c \in Chunks /\ group[c] = g /\ n \in Nat \ {0} /\ n <= task.left
         /\ d \in Chunks /\ group[d] \in Groups \ {g} /\ d # c /\ first \in Nat /\ b \in Nat
         /\ first <= b + 1 /\ Len(ents[d]) \in Nat /\ b + n <= Len(ents[d])
         /\ Len(ents[c]) + n <= CapacityOf(c)
         /\ \A e \in Chunks \ {c} : group[e] # NoGroup => ents[e] # <<>>
         /\ entries' = Placed(entries, c, s, Len(ents[c]) + 1, Len(s))
         /\ ResizeChunk(g, c, s)
         /\ task' = [task EXCEPT !.left = @ - n] /\ task.kind = "cast"
         /\ size' = size /\ freeEntries' = freeEntries
         /\ PlacesNow = PlacesBut(ents, d, first, b)
         /\ IsPart(t, d, b, n) /\ s = ents[c] \o t
<1>1. /\ Filling /\ task.kind = "cast" /\ firstFree[g] < Len(chunks[g])
      /\ entries' = Placed(entries, c, s, Len(ents[c]) + 1, Len(s))
      /\ ResizeChunk(g, c, s)
      /\ task' = [task EXCEPT !.left = @ - n]
      /\ size' = size /\ freeEntries' = freeEntries
  BY DEF CastPart, Part
<1>2. /\ g \in Groups /\ c \in Chunks /\ group[c] = g
      /\ n \in Nat \ {0} /\ n <= task.left
      /\ Len(ents[c]) + n <= CapacityOf(c)
      /\ \A e \in Chunks \ {c} : group[e] # NoGroup => ents[e] # <<>>
  BY <1>1, FirstFreeFacts DEF Part
<1>3. PICK l : l = Len(ents[d])
  OBVIOUS
<1>4. /\ d \in Chunks /\ group[d] \in Groups \ {g} /\ g = task.group
      /\ task.start \in Nat /\ task.count \in Nat \ {0} /\ task.left \in Nat
      /\ task.left <= task.count /\ task.start + task.count <= l /\ l \in Nat
      /\ first = task.start + 1 /\ b = task.start + task.count - task.left
      /\ PlacesNow = PlacesBut(ents, d, first, b)
  BY <1>1, <1>3, CastFacts DEF Part
<1>5. first \in Nat /\ b \in Nat /\ first <= b + 1 /\ b + n <= l
  BY ONLY <1>2, <1>4, SMTT(30)
<1>6. IsPart(t, d, b, n) /\ s = ents[c] \o t
  BY DEF IsPart, Part
<1>7. QED BY ONLY <1>1, <1>2, <1>3, <1>4, <1>5, <1>6

(* What a part of a cast changes.                                          *)
LEMMA CastPartFacts ==
  ASSUME StorageInv, CastPart,
         NEW g, NEW c, NEW d, NEW first, NEW b, NEW n, NEW t, NEW s, Part(g, c, d, first, b, n, t, s)
  PROVE  /\ t \in Seq(Entity) /\ Len(t) = n
         /\ \A i \in 1..n : t[i][1] \in Ids /\ entries[t[i][1]].chunk = d
         /\ Arrived(entries, entries', c, t)
         /\ ListsTyped' /\ ListsInv' /\ SizesInv' /\ EmptyIsNext'
         /\ \A e \in Chunks : group'[e] = group[e]
         /\ ents'[d] = ents[d]
         /\ RegistryTyped' /\ RegistryInv'
         /\ Agree(entries', ents', PlacesBut(ents', d, first, b + n))
<1>1. /\ g \in Groups /\ c \in Chunks /\ group[c] = g /\ n \in Nat \ {0}
      /\ d \in Chunks /\ d # c /\ first \in Nat /\ b \in Nat
      /\ first <= b + 1 /\ Len(ents[d]) \in Nat /\ b + n <= Len(ents[d])
      /\ Len(ents[c]) + n <= CapacityOf(c)
      /\ \A e \in Chunks \ {c} : group[e] # NoGroup => ents[e] # <<>>
      /\ entries' = Placed(entries, c, s, Len(ents[c]) + 1, Len(s))
      /\ ResizeChunk(g, c, s)
      /\ size' = size /\ freeEntries' = freeEntries
      /\ PlacesNow = PlacesBut(ents, d, first, b)
      /\ IsPart(t, d, b, n) /\ s = ents[c] \o t
  BY PartFacts
<1>2. /\ RegistryTyped /\ RegistryInv /\ ents \in EntsType /\ entries \in EntriesType
      /\ Agree(entries, ents, PlacesNow)
  BY DEF StorageInv, EntriesInv, ListsTyped, RegistryTyped
<1>3. PICK P, P2, new, l : /\ P = PlacesNow /\ P2 = PlacesBut([ents EXCEPT ![c] = s], d, first, b + n)
                           /\ new = Placed(entries, c, s, Len(ents[c]) + 1, Len(s))
                           /\ l = Len(ents[d])
  OBVIOUS
<1>4. /\ Agree(entries, ents, P) /\ P = PlacesBut(ents, d, first, b)
      /\ l \in Nat /\ l = Len(ents[d]) /\ b + n <= l
      /\ c \in Chunks /\ d \in Chunks /\ d # c /\ first \in Nat /\ b \in Nat /\ n \in Nat \ {0} /\ first <= b + 1
      /\ ents \in EntsType /\ entries \in EntriesType
  BY ONLY <1>1, <1>2, <1>3
<1>5. /\ t \in Seq(Entity) /\ Len(t) = n
      /\ \A i \in 1..n : t[i][1] \in Ids /\ entries[t[i][1]].chunk = d
  <2>1. IsPart(t, d, b, n)
    BY <1>1
  <2>2. QED BY ONLY <1>4, <2>1, MovingFacts
<1>6. /\ s \in Seq(Entity) /\ Len(s) = Len(ents[c]) + Len(t)
      /\ Arrived(entries, new, c, t)
      /\ Agree(new, [ents EXCEPT ![c] = s], P2)
  <2>1. PartMoves(P, P2, c, d, first, b, n, t, s, new)
    BY <1>1, <1>3 DEF PartMoves
  <2>2. QED BY ONLY <1>4, <2>1, MovedPart
<1>7. entries' = new
  BY <1>1, <1>3
<1>8. Len(s) <= CapacityOf(c) /\ s # <<>>
  <2>1. Len(ents[c]) \in Nat
    BY <1>1, <1>2, PlaceFacts
  <2>2. Len(s) = Len(ents[c]) + n /\ n \in Nat \ {0} /\ Len(ents[c]) + n <= CapacityOf(c)
    BY <1>1, <1>5, <1>6
  <2>3. Len(s) # 0 /\ Len(s) <= CapacityOf(c)
    BY ONLY <2>1, <2>2
  <2>4. QED BY <2>3
<1>9. /\ ListsTyped' /\ ListsInv' /\ SizesInv' /\ EmptyIsNext' /\ ents' = [ents EXCEPT ![c] = s]
      /\ ents'[d] = ents[d]
      /\ \A e \in Chunks : group'[e] = group[e]
  <2>1. /\ StorageInv /\ c \in Chunks /\ g \in Groups /\ group[c] = g
        /\ s \in Seq(Entity) /\ Len(s) <= CapacityOf(c) /\ ResizeChunk(g, c, s)
        /\ \A e \in Chunks \ {c} : group[e] # NoGroup => ents[e] # <<>>
    BY <1>1, <1>6, <1>8
  <2>2. /\ ListsTyped' /\ ListsInv' /\ SizesInv' /\ EmptyIsNext' /\ ents' = [ents EXCEPT ![c] = s]
        /\ \A e \in Chunks : ents'[e] = IF e = c THEN s ELSE ents[e]
        /\ \A e \in Chunks : group'[e] = IF e = c /\ s = <<>> THEN NoGroup ELSE group[e]
    BY ONLY <2>1, ResizeKeeps
  <2>3. ents'[d] = ents[d]
    BY <1>1, <2>2
  <2>4. QED BY <1>8, <2>2, <2>3
<1>10. RegistryTyped' /\ RegistryInv'
  <2>1. /\ entries' \in EntriesType
        /\ \A j \in 1..n : entries'[t[j][1]].chunk = c
        /\ \A id \in Ids : (\A j \in 1..n : t[j][1] # id) => entries'[id] = entries[id]
        /\ \A id \in Ids : entries'[id].version = entries[id].version
    BY ONLY <1>5, <1>6, <1>7 DEF Arrived
  <2>2. c # NoChunk /\ d # NoChunk
    BY <1>1, ConstantsTyped
  <2>3. ASSUME NEW id \in Ids
        PROVE  entries'[id].chunk = NoChunk <=> entries[id].chunk = NoChunk
    <3>1. CASE \A j \in 1..n : t[j][1] # id
      BY <2>1, <3>1
    <3>2. CASE \E j \in 1..n : t[j][1] = id
      <4>1. entries'[id].chunk = c /\ entries[id].chunk = d
        BY <1>5, <2>1, <3>2
      <4>2. QED BY ONLY <2>2, <4>1
    <3>3. QED BY <3>1, <3>2
  <2>4. QED BY <1>1, <1>2, <2>1, <2>3, SameRegistry
<1>11. Agree(entries', ents', PlacesBut(ents', d, first, b + n))
  BY <1>3, <1>6, <1>7, <1>9
<1>12. QED BY <1>5, <1>6, <1>7, <1>9, <1>10, <1>11

\* Moving a part of a view keeps the invariant.
LEMMA CastPartStep ==
  ASSUME StorageInv, CastPart
  PROVE  StorageInv'
<1>1. PICK g, c, d, first, b, n, t, s : Part(g, c, d, first, b, n, t, s)
  <2>1. PICK g, d, first, b, n : /\ g = task.group /\ d = task.chunk /\ first = task.start + 1
                                 /\ b = task.start + task.count - task.left /\ n = Fitting
    OBVIOUS
  <2>2. PICK c, t : c = FirstFree(g) /\ t = SubSeq(ents[d], b + 1, b + n)
    OBVIOUS
  <2>3. Part(g, c, d, first, b, n, t, ents[c] \o t)
    BY <2>1, <2>2 DEF Part
  <2>4. QED BY <2>3
<1>2. /\ ListsTyped' /\ ListsInv' /\ SizesInv' /\ EmptyIsNext'
      /\ \A e \in Chunks : group'[e] = group[e]
      /\ ents'[d] = ents[d]
      /\ RegistryTyped' /\ RegistryInv'
      /\ Agree(entries', ents', PlacesBut(ents', d, first, b + n))
  BY <1>1, CastPartFacts
<1>3. /\ n \in Nat \ {0} /\ n <= task.left /\ task' = [task EXCEPT !.left = @ - n] /\ task.kind = "cast"
      /\ d = task.chunk /\ first = task.start + 1 /\ b = task.start + task.count - task.left
  <2>1. n \in Nat \ {0} /\ n <= task.left /\ task' = [task EXCEPT !.left = @ - n] /\ task.kind = "cast"
    BY <1>1, PartFacts
  <2>2. d = task.chunk /\ first = task.start + 1 /\ b = task.start + task.count - task.left
    BY <1>1 DEF Part
  <2>3. QED BY <2>1, <2>2
<1>4. /\ task \in Tasks /\ task.start \in Nat /\ task.count \in Nat \ {0} /\ task.left \in Nat
      /\ task.left <= task.count /\ task.chunk \in Chunks /\ task.more \in Seq(Chunks)
      /\ task.group \in Groups
  BY <1>3, TaskFacts DEF StorageInv, TaskInv, CastInv
<1>5. PICK m \in Nat : m = task.left - n
  BY <1>3, <1>4
<1>6. task' = [task EXCEPT !.left = m]
  BY <1>3, <1>5
<1>7. /\ task'.kind = "cast" /\ task'.group = task.group /\ task'.left = m
      /\ task'.chunk = task.chunk /\ task'.start = task.start /\ task'.count = task.count
      /\ task'.more = task.more /\ task' \in Tasks
  <2>1. /\ task.kind = "cast" /\ m \in Nat /\ task \in Tasks
        /\ task' = [task EXCEPT !.left = m]
    BY <1>3, <1>4, <1>6
  <2>2. PICK x \in Tasks : x = task /\ x.kind = "cast" /\ task' = [x EXCEPT !.left = m]
    BY ONLY <2>1
  <2>3. x \in [kind : {"cast"}, group : Groups, left : Nat, chunk : Chunks, start : Nat,
               count : Nat \ {0}, more : Seq(Chunks)]
    BY ONLY <2>2 DEF Tasks, NoTask
  <2>4. QED BY ONLY <2>1, <2>2, <2>3 DEF Tasks
<1>8. m <= task.count /\ task.start + task.count - m = b + n
  BY <1>3, <1>4, <1>5, SMTT(30)
<1>9. CastInv'
  <2>1. /\ group[task.chunk] \in Groups \ {task.group}
        /\ task.start + task.count <= Len(ents[task.chunk])
        /\ \A i \in 1..Len(task.more) :
             group[task.more[i]] = group[task.chunk] /\ task.more[i] # task.chunk
        /\ \A i, j \in 1..Len(task.more) : task.more[i] = task.more[j] => i = j
    BY <1>3 DEF StorageInv, TaskInv, CastInv
  <2>2. \A i \in 1..Len(task.more) : task.more[i] \in Chunks
    BY <1>4, ElementOfSeq
  <2>3. /\ group'[task.chunk] = group[task.chunk] /\ ents'[task.chunk] = ents[task.chunk]
        /\ \A i \in 1..Len(task.more) : group'[task.more[i]] = group[task.more[i]]
    BY <1>2, <1>3, <1>4, <2>2
  <2>4. QED BY <1>7, <1>8, <2>1, <2>3 DEF CastInv
<1>10. TaskInv'
  BY <1>2, <1>7, <1>9 DEF TaskInv, ClearInv, AdoptInv
<1>11. EntriesInv'
  <2>1. PlacesNow' = PlacesBut(ents', d, first, b + n)
    BY <1>3, <1>7, <1>8 DEF PlacesNow, PlacesBut
  <2>2. QED BY <1>2, <2>1 DEF EntriesInv, Agree
<1>12. QED BY <1>2, <1>10, <1>11 DEF StorageInv

-----------------------------------------------------------------------------
(* Entities leave a chunk.                                                 *)

\* Places start+1..start+count of chunk c are a view of a group's chunk.
GoodView(c, start, count) ==
  /\ c \in Chunks /\ group[c] \in Groups /\ start \in Nat /\ count \in Nat \ {0}
  /\ start + count <= Len(ents[c])

\* The view leaves the chunk, in which s remains then; the entries were es before.
Leaves(es, c, start, count, s) ==
  /\ es \in EntriesType /\ Agree(es, ents, PlacesBut(ents, c, start + 1, start + count))
  /\ s = Remaining(c, start, count) /\ FreeView(es, c, start, count)

\* What taking a view out of its chunk changes, and what it leaves alone.
LEMMA FreeViewFacts ==
  ASSUME StorageInv, NEW c, NEW start, NEW count, GoodView(c, start, count),
         NEW es, NEW s, Leaves(es, c, start, count, s), ~ Filling
  PROVE  /\ ListsTyped' /\ ListsInv' /\ SizesInv' /\ EmptyIsNext'
         /\ Len(s) = Len(ents[c]) - count
         /\ \A d \in Chunks : ents'[d] = IF d = c THEN s ELSE ents[d]
         /\ \A d \in Chunks : group'[d] = IF d = c /\ s = <<>> THEN NoGroup ELSE group[d]
         /\ Len(chunks'[group[c]]) = IF s = <<>> THEN Len(chunks[group[c]]) - 1 ELSE Len(chunks[group[c]])
         /\ \A d \in Chunks : group'[d] # NoGroup => ents'[d] # <<>>
         /\ entries' \in EntriesType
         /\ \A id \in Ids : entries'[id].chunk = es[id].chunk /\ entries'[id].version = es[id].version
         /\ Agree(entries', ents', PlacesOf(ents'))
<1>1. /\ c \in Chunks /\ group[c] \in Groups /\ start \in Nat /\ count \in Nat \ {0}
      /\ start + count <= Len(ents[c])
  BY DEF GoodView
<1>2. /\ es \in EntriesType /\ Agree(es, ents, PlacesBut(ents, c, start + 1, start + count))
      /\ s = Remaining(c, start, count)
      /\ entries' = Placed(es, c, s, start + 1, start + Moving(c, start, count))
      /\ ResizeChunk(group[c], c, s)
  BY DEF Leaves, FreeView
<1>3. ents \in EntsType /\ ListsTyped /\ ListsInv
  BY DEF StorageInv, ListsTyped
<1>4. Remaining(c, start, count) \in Seq(Entity) /\ Len(Remaining(c, start, count)) = Len(ents[c]) - count
  BY ONLY <1>1, <1>3, RemainingFacts
<1>5. s \in Seq(Entity) /\ Len(s) = Len(ents[c]) - count
  BY <1>2, <1>4
<1>6. Len(s) <= CapacityOf(c)
  <2>1. Len(ents[c]) <= CapacityOf(c) /\ CapacityOf(c) \in Nat /\ Len(ents[c]) \in Nat
    BY <1>1, <1>3, ListedFacts, ConstantsTyped
  <2>2. QED BY ONLY <1>1, <1>5, <2>1
<1>7. PICK new, P2, g : /\ new = Placed(es, c, s, start + 1, start + Moving(c, start, count))
                        /\ P2 = PlacesOf([ents EXCEPT ![c] = s]) /\ g = group[c]
  OBVIOUS
<1>8. /\ new \in EntriesType
      /\ \A id \in Ids : new[id].chunk = es[id].chunk /\ new[id].version = es[id].version
      /\ Agree(new, [ents EXCEPT ![c] = s], P2)
  BY ONLY <1>1, <1>2, <1>3, <1>7, FreeViewAgree
<1>9. /\ ListsTyped' /\ ListsInv' /\ SizesInv' /\ EmptyIsNext'
      /\ ents' = [ents EXCEPT ![c] = s]
      /\ \A d \in Chunks : ents'[d] = IF d = c THEN s ELSE ents[d]
      /\ \A d \in Chunks : group'[d] = IF d = c /\ s = <<>> THEN NoGroup ELSE group[d]
      /\ Len(chunks'[g]) = IF s = <<>> THEN Len(chunks[g]) - 1 ELSE Len(chunks[g])
      /\ \A d \in Chunks : group'[d] # NoGroup => ents'[d] # <<>>
  <2>1. \A d \in Chunks : group[d] # NoGroup => ents[d] # <<>>
    BY NoneEmpty
  <2>2. /\ StorageInv /\ c \in Chunks /\ g \in Groups /\ group[c] = g
        /\ s \in Seq(Entity) /\ Len(s) <= CapacityOf(c) /\ ResizeChunk(g, c, s)
        /\ \A d \in Chunks \ {c} : group[d] # NoGroup => ents[d] # <<>>
    BY <1>1, <1>2, <1>5, <1>6, <1>7, <2>1
  <2>3. QED BY ONLY <2>2, ResizeKeeps
<1>10. entries' = new
  BY <1>2, <1>7
<1>11. Agree(entries', ents', PlacesOf(ents'))
  BY <1>7, <1>8, <1>9, <1>10
<1>12. QED BY <1>5, <1>7, <1>8, <1>9, <1>10, <1>11

(* What free_entities changes.                                             *)
LEMMA FreeEntitiesFacts ==
  ASSUME StorageInv, NEW c, NEW start, NEW count, GoodView(c, start, count),
         FreeEntities(c, start, count), ~ Filling, task.kind # "cast",
         NEW s, s = Remaining(c, start, count)
  PROVE  /\ RegistryTyped' /\ RegistryInv'
         /\ ListsTyped' /\ ListsInv' /\ SizesInv' /\ EmptyIsNext'
         /\ Len(s) = Len(ents[c]) - count
         /\ \A d \in Chunks : group'[d] = IF d = c /\ s = <<>> THEN NoGroup ELSE group[d]
         /\ Len(chunks'[group[c]]) = IF s = <<>> THEN Len(chunks[group[c]]) - 1 ELSE Len(chunks[group[c]])
         /\ Agree(entries', ents', PlacesOf(ents'))
         /\ \A i \in (start + 1)..(start + count) :
              ents[c][i][1] \in Ids /\ entries[ents[c][i][1]].chunk = c
         /\ \A id \in Ids :
              IF \E i \in (start + 1)..(start + count) : ents[c][i][1] = id
              THEN entries'[id].chunk = NoChunk /\ entries'[id].version = NextVersion(entries[id].version)
              ELSE entries'[id].chunk = entries[id].chunk /\ entries'[id].version = entries[id].version
<1>1. /\ c \in Chunks /\ group[c] \in Groups /\ start \in Nat /\ count \in Nat \ {0}
      /\ start + count <= Len(ents[c])
  BY DEF GoodView
<1>2. PICK es, q, first, last :
        /\ es = Freed(entries, ents[c], start + 1, start + count)
        /\ q = [i \in 1..count |-> ents[c][start + i][1]]
        /\ first = start + 1 /\ last = start + count
  OBVIOUS
<1>3. freeEntries' = freeEntries \o q /\ FreeView(es, c, start, count) /\ size' = size
  BY <1>2 DEF FreeEntities
<1>4. /\ ents \in EntsType /\ entries \in EntriesType /\ Agree(entries, ents, PlacesOf(ents))
      /\ \A id \in Ids : entries[id].version < TransientVersion
      /\ RegistryTyped /\ RegistryInv
  BY DEF StorageInv, EntriesInv, PlacesNow, ListsTyped, RegistryTyped, RegistryInv
<1>5. /\ first \in Nat \ {0} /\ last \in Nat /\ last <= Len(ents[c])
      /\ es = Freed(entries, ents[c], first, last)
  BY ONLY <1>1, <1>2
<1>6. /\ es \in EntriesType /\ \A id \in Ids : es[id].version < TransientVersion
      /\ Gone(entries, es, ents[c], first, last)
  BY ONLY <1>4, <1>5, FreedFacts
<1>7. Agree(es, ents, PlacesBut(ents, c, first, last))
  BY ONLY <1>1, <1>4, <1>5, <1>6, FreedAgree
<1>8. Leaves(es, c, start, count, s)
  BY <1>2, <1>3, <1>6, <1>7 DEF Leaves
<1>9. /\ ListsTyped' /\ ListsInv' /\ SizesInv' /\ EmptyIsNext'
      /\ Len(s) = Len(ents[c]) - count
      /\ \A d \in Chunks : group'[d] = IF d = c /\ s = <<>> THEN NoGroup ELSE group[d]
      /\ Len(chunks'[group[c]]) = IF s = <<>> THEN Len(chunks[group[c]]) - 1 ELSE Len(chunks[group[c]])
      /\ entries' \in EntriesType
      /\ \A id \in Ids : entries'[id].chunk = es[id].chunk /\ entries'[id].version = es[id].version
      /\ Agree(entries', ents', PlacesOf(ents'))
  BY <1>8, FreeViewFacts
<1>10. \A id \in Ids :
         IF \E i \in first..last : ents[c][i][1] = id
         THEN es[id].chunk = NoChunk /\ es[id].version = NextVersion(entries[id].version)
         ELSE es[id] = entries[id]
  BY <1>6 DEF Gone
<1>11. \A i \in first..last : i \in 1..Len(ents[c]) /\ i \in Nat
  BY ONLY <1>1, <1>5
<1>12. \A i \in first..last : /\ ents[c][i][1] \in Ids /\ entries[ents[c][i][1]].chunk = c
                              /\ entries[ents[c][i][1]].index = i - 1
  <2>1. DOMAIN ents[c] = 1..Len(ents[c]) /\ \A i \in 1..Len(ents[c]) : ents[c][i][1] \in Ids
    BY ONLY <1>1, <1>4, PlaceFacts
  <2>2. \A i \in first..last : At(entries[ents[c][i][1]], c, i, ents[c][i][2])
    BY <1>1, <1>4, <1>11, <2>1 DEF Agree, PlacesOf
  <2>3. QED BY <1>11, <2>1, <2>2 DEF At
<1>13. \A i \in 1..count : start + i \in first..last
  BY ONLY <1>1, <1>2
<1>14. \A i \in first..last : i - start \in 1..count /\ start + (i - start) = i
  BY ONLY <1>1, <1>2
<1>15. /\ q \in Seq(Ids) /\ Len(q) = count
       /\ \A i \in 1..count : q[i] = ents[c][start + i][1]
  <2>1. \A i \in 1..count : ents[c][start + i][1] \in Ids
    BY <1>12, <1>13
  <2>2. q \in [1..count -> Ids] /\ count \in Nat
    BY <1>1, <1>2, <2>1
  <2>3. QED BY <1>2, <2>2, SeqDef, LenProperties
<1>16. \A k \in 1..count : \E i \in first..last : i = start + k /\ q[k] = ents[c][i][1]
  BY <1>13, <1>15
<1>17. /\ \A i, j \in 1..count : q[i] = q[j] => i = j
       /\ \A i \in 1..count : entries[q[i]].chunk = c
  <2>1. \A k \in 1..count : \E i \in Nat : /\ i = start + k /\ entries[q[k]].index = i - 1
                                           /\ entries[q[k]].chunk = c
    BY <1>11, <1>12, <1>16
  <2>2. ASSUME NEW i \in 1..count, NEW j \in 1..count, q[i] = q[j] PROVE i = j
    <3>1. PICK k \in Nat, m \in Nat : /\ k = start + i /\ entries[q[i]].index = k - 1
                                      /\ m = start + j /\ entries[q[j]].index = m - 1
      BY <2>1
    <3>2. start + i = start + j
      <4>1. k - 1 = m - 1
        BY ONLY <2>2, <3>1
      <4>2. k = m
        BY ONLY <3>1, <4>1
      <4>3. QED BY ONLY <3>1, <4>2
    <3>3. start \in Nat /\ i \in Nat /\ j \in Nat
      BY <1>1
    <3>4. QED BY ONLY <3>2, <3>3
  <2>3. QED BY <2>1, <2>2
<1>18. \A id \in Ids : (\E i \in 1..count : q[i] = id) <=> (\E i \in first..last : ents[c][i][1] = id)
  <2>1. \A i \in first..last : \E k \in 1..count : i = start + k
    BY <1>14
  <2>2. \A i \in first..last : \E k \in 1..count : q[k] = ents[c][i][1]
    BY <1>15, <2>1
  <2>3. QED BY <1>16, <2>2
<1>19. Returning(q)
  <2>1. \A id \in Ids : entries'[id].chunk = NoChunk <=>
          entries[id].chunk = NoChunk \/ \E i \in 1..count : q[i] = id
    BY <1>9, <1>10, <1>18
  <2>2. c # NoChunk
    BY <1>1, ConstantsTyped
  <2>3. \A id \in Ids : entries'[id].version < TransientVersion
    BY <1>6, <1>9
  <2>4. QED BY <1>3, <1>9, <1>15, <1>17, <2>1, <2>2, <2>3 DEF Returning
<1>20. RegistryTyped' /\ RegistryInv'
  BY ONLY <1>4, <1>19, ReturnedRegistry
<1>21. \A id \in Ids :
         IF \E i \in first..last : ents[c][i][1] = id
         THEN entries'[id].chunk = NoChunk /\ entries'[id].version = NextVersion(entries[id].version)
         ELSE entries'[id].chunk = entries[id].chunk /\ entries'[id].version = entries[id].version
  BY <1>9, <1>10
<1>22. QED BY <1>2, <1>9, <1>12, <1>20, <1>21

(* A view of a call: any view of a chunk that is not in its pool.          *)
LEMMA ViewIsGood ==
  ASSUME StorageInv, NEW c \in Chunks, NEW start \in Nat, NEW count \in Nat, IsView(c, start, count)
  PROVE  GoodView(c, start, count)
BY DEF IsView, GoodView, StorageInv, ListsTyped

(* destroy() of a view outside of a cast.                                  *)
LEMMA FreeEntitiesStep ==
  ASSUME StorageInv, NEW c, NEW start, NEW count, GoodView(c, start, count),
         FreeEntities(c, start, count), Idle, task' = task
  PROVE  StorageInv'
<1>1. ~ Filling /\ task = NoTask /\ task.kind = "none"
  BY DEF Idle, NoTask, Filling
<1>2. PICK s : s = Remaining(c, start, count)
  OBVIOUS
<1>3. /\ RegistryTyped' /\ RegistryInv' /\ ListsTyped' /\ ListsInv' /\ SizesInv' /\ EmptyIsNext'
      /\ Agree(entries', ents', PlacesOf(ents'))
  BY <1>1, <1>2, FreeEntitiesFacts
<1>4. TaskInv'
  BY <1>1, <1>3 DEF TaskInv, CastInv, ClearInv, AdoptInv, Tasks
<1>5. EntriesInv'
  BY <1>1, <1>3 DEF EntriesInv, PlacesNow, Agree, PlacesOf
<1>6. QED BY <1>3, <1>4, <1>5 DEF StorageInv

\* Destroying a view keeps the invariant.
LEMMA DestroyStep ==
  ASSUME StorageInv, ~ Crowds, NEW c \in Chunks, NEW start \in Nat, NEW count \in Nat,
         Destroy(c, start, count)
  PROVE  StorageInv'
<1>1. Idle /\ IsView(c, start, count)
  BY DEF Destroy
<1>2. CASE Dead[group[c]] # NoGroup /\ CastView(c, start, count, Dead[group[c]])
  <2>1. Dead[group[c]] \in Groups
    BY <1>1, <1>2, ViewIsGood, ConstantsTyped DEF GoodView
  <2>2. QED BY <1>1, <1>2, <2>1, CastViewStep
<1>3. CASE FreeEntities(c, start, count) /\ UNCHANGED task
  BY <1>1, <1>3, ViewIsGood, FreeEntitiesStep
<1>4. QED BY <1>2, <1>3 DEF Destroy

\* So does a cast to no group, which frees the entities.
LEMMA CastToNoGroupStep ==
  ASSUME StorageInv, NEW c \in Chunks, NEW start \in Nat, NEW count \in Nat, CastToNoGroup(c, start, count)
  PROVE  StorageInv'
BY ViewIsGood, FreeEntitiesStep DEF CastToNoGroup

\* A call of cast keeps the invariant.
LEMMA CastStep ==
  ASSUME StorageInv, ~ Crowds, NEW c \in Chunks, NEW start \in Nat, NEW count \in Nat,
         NEW g \in Groups, Cast(c, start, count, g)
  PROVE  StorageInv'
BY CastViewStep DEF Cast

(* The first chunk of a group that is cleared.                             *)
LEMMA ClearChunkFacts ==
  ASSUME StorageInv, ClearChunk, NEW g, g = task.group, NEW c, c = Head(chunks[g])
  PROVE  /\ g \in Groups /\ c \in Chunks /\ group[c] = g /\ ~ Filling /\ task.kind = "clear"
         /\ GoodView(c, 0, Len(ents[c])) /\ FreeEntities(c, 0, Len(ents[c]))
         /\ chunks[g] # <<>>
<1>1. /\ task.kind = "clear" /\ task \in Tasks /\ FreeEntities(c, 0, Len(ents[c])) /\ chunks[g] # <<>>
  BY DEF ClearChunk, StorageInv, TaskInv, ClearInv
<1>2. g \in Groups /\ ~ Filling
  BY <1>1, TaskFacts DEF Filling
<1>3. c \in Chunks /\ group[c] = g
  BY <1>1, <1>2, RestOfList DEF StorageInv
<1>4. ents[c] # <<>> /\ ents[c] \in Seq(Entity)
  BY <1>2, <1>3, NoneEmpty, ConstantsTyped, SMTT(30) DEF StorageInv, ListsTyped, EntsType
<1>5. Len(ents[c]) \in Nat \ {0} /\ 0 + Len(ents[c]) <= Len(ents[c])
  BY <1>4, LenProperties, EmptySeq
<1>6. GoodView(c, 0, Len(ents[c]))
  BY <1>2, <1>3, <1>5 DEF GoodView
<1>7. QED BY <1>1, <1>2, <1>3, <1>6

\* Clearing one chunk keeps the invariant.
LEMMA ClearChunkStep ==
  ASSUME StorageInv, ClearChunk
  PROVE  StorageInv'
<1>1. PICK g, c, l : g = task.group /\ c = Head(chunks[g]) /\ l = Len(ents[c])
  OBVIOUS
<1>2. /\ g \in Groups /\ c \in Chunks /\ group[c] = g /\ ~ Filling /\ task.kind = "clear"
      /\ GoodView(c, 0, l) /\ FreeEntities(c, 0, l) /\ chunks[g] # <<>>
  BY <1>1, ClearChunkFacts
<1>3. PICK s : s = Remaining(c, 0, l)
  OBVIOUS
<1>4. /\ RegistryTyped' /\ RegistryInv' /\ ListsTyped' /\ ListsInv' /\ SizesInv' /\ EmptyIsNext'
      /\ Len(s) = Len(ents[c]) - l
      /\ Len(chunks'[group[c]]) = IF s = <<>> THEN Len(chunks[group[c]]) - 1 ELSE Len(chunks[group[c]])
      /\ Agree(entries', ents', PlacesOf(ents'))
  <2>1. task.kind # "cast"
    BY <1>2
  <2>2. QED BY <1>2, <1>3, <2>1, FreeEntitiesFacts
<1>5. task' = IF Len(chunks[g]) = 1 THEN NoTask ELSE task
  BY <1>1 DEF ClearChunk
<1>6. task \in Tasks /\ NoTask \in Tasks /\ NoTask.kind = "none"
  BY DEF StorageInv, TaskInv, Tasks, NoTask
<1>7. task' \in Tasks /\ task'.kind \in {"none", "clear"}
  BY <1>2, <1>5, <1>6
<1>8. ClearInv'
  <2>1. SUFFICES ASSUME task' = task, Len(chunks[g]) # 1 PROVE chunks'[g] # <<>>
    BY <1>1, <1>5, <1>6 DEF ClearInv
  <2>2. chunks[g] \in Seq(Chunks) /\ chunks'[g] \in Seq(Chunks)
    BY <1>2, <1>4 DEF StorageInv, ListsTyped
  <2>3. Len(chunks[g]) \in Nat \ {0}
    BY <1>2, <2>2, LenProperties, EmptySeq
  <2>4. Len(chunks'[g]) # 0
    BY <1>2, <1>4, <2>1, <2>3
  <2>5. QED BY <2>2, <2>4
<1>9. TaskInv'
  BY <1>4, <1>7, <1>8 DEF TaskInv, CastInv, AdoptInv
<1>10. EntriesInv'
  BY <1>4, <1>7 DEF EntriesInv, PlacesNow, Agree, PlacesOf
<1>11. QED BY <1>4, <1>9, <1>10 DEF StorageInv

-----------------------------------------------------------------------------
(* The view of a cast has moved: the chunk goes on without it.             *)

\* What closing the gap a cast left changes, and what it leaves alone.
LEMMA EndCastFacts ==
  ASSUME StorageInv, EndCast, NEW d, d = task.chunk, NEW s, s = Remaining(d, task.start, task.count)
  PROVE  /\ ListsTyped' /\ ListsInv' /\ SizesInv' /\ EmptyIsNext'
         /\ d \in Chunks
         /\ \A e \in Chunks \ {d} : ents'[e] = ents[e] /\ group'[e] = group[e]
         /\ \A e \in Chunks : group'[e] # NoGroup => ents'[e] # <<>>
         /\ \A e \in Chunks : ents'[e] # <<>> => group'[e] = group[e]
         /\ RegistryTyped' /\ RegistryInv'
         /\ \A id \in Ids : entries'[id].chunk = entries[id].chunk /\ entries'[id].version = entries[id].version
         /\ Agree(entries', ents', PlacesOf(ents'))
<1>1. /\ task.kind = "cast" /\ task.left = 0
      /\ FreeView(entries, d, task.start, task.count)
      /\ size' = size /\ freeEntries' = freeEntries
  BY DEF EndCast
<1>2. PICK l, start, count : l = Len(ents[d]) /\ start = task.start /\ count = task.count
  OBVIOUS
<1>3. /\ d \in Chunks /\ group[d] \in Groups
      /\ start \in Nat /\ count \in Nat \ {0} /\ start + count <= l
      /\ PlacesNow = PlacesBut(ents, d, start + 1, start + count - 0)
  BY <1>1, <1>2, CastFacts
<1>4. start + count - 0 = start + count
  BY ONLY <1>3
<1>5. GoodView(d, start, count) /\ ~ Filling
  BY <1>1, <1>2, <1>3 DEF GoodView, Filling
<1>6. /\ entries \in EntriesType /\ Agree(entries, ents, PlacesBut(ents, d, start + 1, start + count))
      /\ RegistryTyped /\ RegistryInv
  BY <1>3, <1>4 DEF StorageInv, EntriesInv, RegistryTyped
<1>7. Leaves(entries, d, start, count, s)
  BY <1>1, <1>2, <1>6 DEF Leaves
<1>8. /\ ListsTyped' /\ ListsInv' /\ SizesInv' /\ EmptyIsNext'
      /\ \A e \in Chunks : ents'[e] = IF e = d THEN s ELSE ents[e]
      /\ \A e \in Chunks : group'[e] = IF e = d /\ s = <<>> THEN NoGroup ELSE group[e]
      /\ \A e \in Chunks : group'[e] # NoGroup => ents'[e] # <<>>
      /\ entries' \in EntriesType
      /\ \A id \in Ids : entries'[id].chunk = entries[id].chunk /\ entries'[id].version = entries[id].version
      /\ Agree(entries', ents', PlacesOf(ents'))
  BY <1>5, <1>7, FreeViewFacts
<1>9. RegistryTyped' /\ RegistryInv'
  BY <1>1, <1>6, <1>8, SameRegistry
<1>10. QED BY <1>3, <1>8, <1>9

\* Closing the gap keeps the invariant.
LEMMA EndCastStep ==
  ASSUME StorageInv, EndCast
  PROVE  StorageInv'
<1>1. PICK d, s : d = task.chunk /\ s = Remaining(d, task.start, task.count)
  OBVIOUS
<1>2. /\ ListsTyped' /\ ListsInv' /\ SizesInv' /\ EmptyIsNext'
      /\ d \in Chunks
      /\ \A e \in Chunks \ {d} : ents'[e] = ents[e] /\ group'[e] = group[e]
      /\ \A e \in Chunks : group'[e] # NoGroup => ents'[e] # <<>>
      /\ RegistryTyped' /\ RegistryInv'
      /\ Agree(entries', ents', PlacesOf(ents'))
  BY <1>1, EndCastFacts
<1>3. /\ task.kind = "cast"
      /\ task' = IF task.more = <<>> THEN NoTask ELSE CastChunk(task.group, Head(task.more), Tail(task.more))
  BY DEF EndCast
<1>4. /\ task.more \in Seq(Chunks) /\ group[d] \in Groups \ {task.group} /\ task.group \in Groups
      /\ \A i \in 1..Len(task.more) : group[task.more[i]] = group[d] /\ task.more[i] # d
      /\ \A i, j \in 1..Len(task.more) : task.more[i] = task.more[j] => i = j
  BY <1>1, <1>3, TaskFacts DEF StorageInv, TaskInv, CastInv
<1>5. CASE task.more = <<>>
  <2>1. task' = NoTask /\ NoTask \in Tasks /\ NoTask.kind = "none"
    BY <1>3, <1>5 DEF Tasks, NoTask
  <2>2. TaskInv'
    BY <1>2, <2>1 DEF TaskInv, CastInv, ClearInv, AdoptInv
  <2>3. EntriesInv'
    BY <1>2, <2>1 DEF EntriesInv, PlacesNow, Agree, PlacesOf
  <2>4. QED BY <1>2, <2>2, <2>3 DEF StorageInv
<1>6. CASE task.more # <<>>
  <2>1. PICK h, m, g : h = Head(task.more) /\ m = Tail(task.more) /\ g = task.group
    OBVIOUS
  <2>2. PICK l \in Nat \ {0} : l = Len(task.more)
    <3>1. Len(task.more) \in Nat \ {0}
      BY <1>4, <1>6, LenProperties, EmptySeq
    <3>2. QED BY <3>1
  <2>3. /\ h = task.more[1] /\ m \in Seq(Chunks) /\ Len(m) = l - 1
        /\ \A i \in 1..(l - 1) : m[i] = task.more[i + 1]
        /\ \A i \in 1..l : task.more[i] \in Chunks
    BY <1>4, <1>6, <2>1, <2>2, HeadTailProperties, ElementOfSeq
  <2>4. /\ \A i \in 1..l : group[task.more[i]] = group[d] /\ task.more[i] # d
        /\ \A i, j \in 1..l : task.more[i] = task.more[j] => i = j
        /\ 1 \in 1..l /\ \A i \in 1..(l - 1) : i + 1 \in 1..l /\ i + 1 # 1
        /\ \A i, j \in 1..(l - 1) : i + 1 = j + 1 => i = j
    BY <1>4, <2>2
  <2>5. h \in Chunks /\ group[h] = group[d] /\ h # d
    BY ONLY <2>3, <2>4
  <2>6. group'[h] = group[d] /\ ents'[h] = ents[h]
    BY <1>2, <2>5
  <2>7. ents[h] # <<>> /\ ents[h] \in Seq(Entity)
    BY <1>2, <1>4, <2>5, <2>6, ConstantsTyped DEF StorageInv, ListsTyped, EntsType
  <2>8. PICK k \in Nat \ {0} : k = Len(ents[h])
    <3>1. Len(ents[h]) \in Nat \ {0}
      BY <2>7, LenProperties, EmptySeq
    <3>2. QED BY <3>1
  <2>9. task' = [kind |-> "cast", group |-> g, left |-> k, chunk |-> h, start |-> 0, count |-> k, more |-> m]
    BY <1>3, <1>6, <2>1, <2>8 DEF CastChunk
  <2>10. /\ task' \in Tasks
         /\ task'.kind = "cast" /\ task'.group = g /\ task'.left = k /\ task'.chunk = h
         /\ task'.start = 0 /\ task'.count = k /\ task'.more = m
    BY <1>4, <2>1, <2>3, <2>5, <2>9 DEF Tasks
  <2>11. /\ \A i \in 1..(l - 1) : m[i] \in Chunks /\ group'[m[i]] = group[d] /\ m[i] # h
         /\ \A i, j \in 1..(l - 1) : m[i] = m[j] => i = j
    <3>1. ASSUME NEW i \in 1..(l - 1)
          PROVE  m[i] \in Chunks /\ group'[m[i]] = group[d] /\ m[i] # h
      <4>1. m[i] = task.more[i + 1] /\ i + 1 \in 1..l /\ i + 1 # 1
        BY <2>3, <2>4
      <4>2. m[i] \in Chunks /\ group[m[i]] = group[d] /\ m[i] # d
        BY <2>3, <2>4, <4>1
      <4>3. m[i] # h
        BY <2>3, <2>4, <4>1
      <4>4. QED BY <1>2, <4>2, <4>3
    <3>2. ASSUME NEW i \in 1..(l - 1), NEW j \in 1..(l - 1), m[i] = m[j]
          PROVE  i = j
      <4>1. task.more[i + 1] = task.more[j + 1] /\ i + 1 \in 1..l /\ j + 1 \in 1..l
        BY <2>3, <2>4, <3>2
      <4>2. i + 1 = j + 1
        BY <2>4, <4>1
      <4>3. QED BY <2>4, <4>2
    <3>3. QED BY <3>1, <3>2
  <2>12. CastInv'
    <3>1. 0 + k <= Len(ents'[h]) /\ k <= k
      BY <2>6, <2>8
    <3>2. group'[h] \in Groups \ {g}
      BY <1>4, <2>1, <2>6
    <3>3. /\ \A i \in 1..Len(m) : group'[m[i]] = group'[h] /\ m[i] # h
          /\ \A i, j \in 1..Len(m) : m[i] = m[j] => i = j
      BY <2>3, <2>6, <2>11
    <3>4. QED BY <2>10, <3>1, <3>2, <3>3 DEF CastInv
  <2>13. TaskInv'
    BY <1>2, <2>10, <2>12 DEF TaskInv, ClearInv, AdoptInv
  <2>14. PlacesNow' = PlacesOf(ents')
    <3>1. /\ 0 + 1 \in Nat /\ 0 + k - k \in Nat /\ 0 + k - k < 0 + 1
      OBVIOUS
    <3>2. PlacesBut(ents', h, 0 + 1, 0 + k - k) = PlacesOf(ents')
      BY <3>1, ButNone
    <3>3. PlacesNow' = PlacesBut(ents', h, 0 + 1, 0 + k - k)
      BY <2>10 DEF PlacesNow, PlacesBut
    <3>4. QED BY <3>2, <3>3
  <2>15. EntriesInv'
    BY <1>2, <2>14 DEF EntriesInv, Agree
  <2>16. QED BY <1>2, <2>13, <2>15 DEF StorageInv
<1>7. QED BY <1>5, <1>6

-----------------------------------------------------------------------------
(* The invariant.                                                          *)

\* An empty storage satisfies the invariant.
LEMMA InitInv == Init => StorageInv
<1>. SUFFICES ASSUME Init PROVE StorageInv
  OBVIOUS
<1>. USE DEF Init
<1>1. /\ \A id \in Ids : /\ entries[id].chunk = NoChunk /\ entries[id].index = 0
                         /\ entries[id].version = 0
      /\ \A c \in Chunks : ents[c] = <<>> /\ group[c] = NoGroup
      /\ \A g \in Groups : chunks[g] = <<>> /\ firstFree[g] = 0 /\ groupSize[g] = 0
      /\ size = 0 /\ freeEntries = <<>> /\ task.kind = "none"
  BY DEF Free, NoTask
<1>2. RegistryTyped
  <2>1. 0 \in Versions
    BY ConstantsTyped DEF Versions
  <2>2. entries \in EntriesType
    BY <2>1 DEF EntriesType, EntryType, Free
  <2>3. QED BY <2>2, ConstantsTyped DEF RegistryTyped
<1>3. RegistryInv
  <2>1. {freeEntries[i] : i \in DOMAIN freeEntries} = {}
    BY <1>1
  <2>2. {id \in 0..(size - 1) : entries[id].chunk = NoChunk} = {}
    BY <1>1
  <2>3. FreeListAgrees
    BY <2>1, <2>2, <1>1 DEF FreeListAgrees
  <2>4. QED BY <1>1, <2>3, ConstantsTyped DEF RegistryInv
<1>4. ListsTyped
  BY DEF ListsTyped, EntsType, PoolTypes
<1>5. ListsInv
  BY <1>1 DEF ListsInv, ListsAgree, FullFirst
<1>6. SizesInv
  <2>1. \A g \in Groups : Held(g) = {}
    BY <1>1 DEF Held
  <2>2. QED BY <1>1, <2>1, FS_EmptySet DEF SizesInv
<1>7. EntriesInv
  BY <1>1 DEF EntriesInv, Agree, PlacesNow, PlacesOf
<1>8. TaskInv
  BY <1>1 DEF TaskInv, Tasks, NoTask, EmptyIsNext, CastInv, ClearInv, AdoptInv
<1>9. QED BY <1>2, <1>3, <1>4, <1>5, <1>6, <1>7, <1>8 DEF StorageInv

(* The next chunk of a group that is cast is handed over.                  *)
LEMMA AdoptChunkStep ==
  ASSUME StorageInv, ~ Crowds, AdoptChunk, NEW g, g = task.group, NEW c, c = Head(chunks[task.from])
  PROVE  StorageInv' /\ c \in Chunks /\ g \in Groups /\ HandsOver(c, g)
<1>1. PICK from : from = task.from
  OBVIOUS
<1>2. /\ task.kind = "adopt" /\ task \in Tasks /\ from # g /\ Archetype[from] = Archetype[g]
      /\ chunks[from] # <<>> /\ MoveChunk(c, g)
      /\ task' = IF Len(chunks[from]) = 1 THEN NoTask ELSE task
  BY <1>1 DEF AdoptChunk, StorageInv, TaskInv, AdoptInv
<1>3. g \in Groups /\ from \in Groups
  BY <1>1, <1>2, TaskFacts
<1>4. c \in Chunks /\ group[c] = from
  BY <1>1, <1>2, <1>3, RestOfList DEF StorageInv
<1>5. HandsOver(c, g)
  BY <1>2, <1>3, <1>4 DEF HandsOver
<1>6. Len(chunks'[from]) = Len(chunks[from]) - 1
  BY <1>3, <1>4, <1>5, HandedLists DEF StorageInv
<1>7. task' \in Tasks /\ task'.kind \in {"none", "adopt"}
  BY <1>2 DEF Tasks, NoTask
<1>8. AdoptInv'
  <2>1. CASE Len(chunks[from]) = 1
    BY <1>2, <2>1 DEF AdoptInv, NoTask
  <2>2. CASE Len(chunks[from]) # 1
    <3>1. Len(chunks[from]) \in Nat
      BY <1>3, ListedFacts DEF StorageInv
    <3>2. Len(chunks'[from]) # 0
      BY <1>6, <2>2, <3>1
    <3>3. chunks'[from] # <<>>
      BY <3>2
    <3>4. QED BY <1>1, <1>2, <2>2, <3>3 DEF AdoptInv
  <2>3. QED BY <2>1, <2>2
<1>9. StorageInv'
  BY <1>2, <1>3, <1>4, <1>5, <1>7, <1>8, HandedStep
<1>10. QED BY <1>3, <1>4, <1>5, <1>9

\* A step of a call keeps the invariant.
LEMMA StepOfCall ==
  ASSUME StorageInv, ~ Crowds, Step
  PROVE  StorageInv'
BY NewChunkStep, AllocateViewStep, CastPartStep, EndCastStep, AdoptChunkStep, ClearChunkStep DEF Step

\* Every step keeps the invariant.
LEMMA NextInv ==
  ASSUME StorageInv, ~ Crowds, Next
  PROVE  StorageInv'
<1>1. ASSUME NEW g \in Groups, NEW n \in 1..MaxCount, Allocate(g, n)
      PROVE  StorageInv'
  BY <1>1, AllocateStep
<1>2. ASSUME NEW c \in Chunks, NEW start \in 0..(MaxEntities - 1), NEW count \in 1..MaxEntities,
             \/ Destroy(c, start, count)
             \/ CastToNoGroup(c, start, count)
             \/ \E g \in Groups : Cast(c, start, count, g)
      PROVE  StorageInv'
  <2>1. start \in Nat /\ count \in Nat
    BY ConstantsTyped
  <2>2. QED BY <1>2, <2>1, DestroyStep, CastToNoGroupStep, CastStep
<1>3. ASSUME NEW from \in Groups, NEW g \in Groups, CastGroup(from, g)
      PROVE  StorageInv'
  BY <1>3, CastGroupStep
<1>4. ASSUME NEW g \in Groups, Clear(g)
      PROVE  StorageInv'
  BY <1>4, ClearStep
<1>5. QED BY <1>1, <1>2, <1>3, <1>4, StepOfCall DEF Next

(* A step that changes nothing.                                            *)
LEMMA StutterInv ==
  ASSUME StorageInv, UNCHANGED vars
  PROVE  StorageInv'
<1>. USE DEF vars
<1>1. RegistryTyped' /\ RegistryInv'
  BY DEF StorageInv, RegistryTyped, RegistryInv, FreeListAgrees
<1>2. ListsTyped' /\ ListsInv'
  BY DEF StorageInv, ListsTyped, ListsInv, ListsAgree, FullFirst, Full, CapacityOf
<1>3. SizesInv'
  BY DEF StorageInv, SizesInv, Held
<1>4. EntriesInv'
  <2>1. PlacesNow' = PlacesNow
    BY DEF PlacesNow, PlacesOf, PlacesBut
  <2>2. entries' = entries /\ ents' = ents
    OBVIOUS
  <2>3. EntriesInv
    BY DEF StorageInv
  <2>4. QED BY <2>1, <2>2, <2>3 DEF EntriesInv, Agree
<1>5. TaskInv'
  BY DEF StorageInv, TaskInv, EmptyIsNext, Filling, CastInv, ClearInv, AdoptInv
<1>6. QED BY <1>1, <1>2, <1>3, <1>4, <1>5 DEF StorageInv

(* The registry, the chunks, the lists of the groups and the running call  *)
(* agree after every step of every call, and when chunks are handed over,  *)
(* up to where add_chunk is asked to put a full chunk before two or more   *)
(* that are not full (storage.cpp:42-127, :489-585, archetype.cpp:351-430, *)
(* entities.cpp:38-127).                                                   *)
THEOREM StorageInvariant ==
  TidySpec => []StorageInv
<1>1. Init => StorageInv
  BY InitInv
<1>2. StorageInv /\ [Next /\ ~ Crowds]_vars => StorageInv'
  BY NextInv, StutterInv
<1>3. QED BY <1>1, <1>2, PTL DEF TidySpec

(* Every variable keeps its type.                                          *)
THEOREM TypeCorrect ==
  TidySpec => []TypeOK
<1>1. StorageInv => TypeOK
  BY InvTypeOK
<1>2. QED BY <1>1, StorageInvariant, PTL

(* The registry sends every handle to the place where its entity is, and   *)
(* every entity to be found in a chunk has its place in the registry, after*)
(* every part of a cast as well (entities.cpp:86, :115, storage.cpp:124).  *)
THEOREM EntriesStay ==
  TidySpec => []EntriesAgree
<1>1. StorageInv => EntriesAgree
  BY InvEntriesAgree
<1>2. QED BY <1>1, StorageInvariant, PTL

(* No entry is free twice, none that is in use is free, and none is lost   *)
(* (entities.cpp:38-76).                                                   *)
THEOREM FreeListExact ==
  TidySpec => []FreeListAgrees
<1>1. StorageInv => FreeListAgrees
  BY DEF StorageInv, RegistryInv
<1>2. QED BY <1>1, StorageInvariant, PTL

(* A group lists its chunks, each once and at its index, however chunks    *)
(* are claimed, exchanged, handed over and given back (archetype.cpp:      *)
(* 351-404).                                                               *)
THEOREM ListsStay ==
  TidySpec => []ListsAgree
<1>1. StorageInv => ListsAgree
  BY DEF StorageInv, ListsInv
<1>2. QED BY <1>1, StorageInvariant, PTL

(* The chunks before firstFree are the full ones, so that the chunk that   *)
(* allocate_view fills has room (archetype.cpp:406-430, storage.cpp:42).   *)
THEOREM FullChunksFirst ==
  TidySpec => []FullFirst
<1>1. StorageInv => FullFirst
  BY DEF StorageInv, ListsInv
<1>2. QED BY <1>1, StorageInvariant, PTL

(* A group's size is the number of entities in its chunks                  *)
(* (archetype.cpp:376-389).                                                *)
THEOREM SizesExact ==
  TidySpec => []SizesAgree
<1>1. StorageInv => SizesAgree
  BY DEF StorageInv, SizesInv, SizesAgree
<1>2. QED BY <1>1, StorageInvariant, PTL

=============================================================================
