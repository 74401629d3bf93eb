------------------------ MODULE JobSchedulerProofs --------------------------
(***************************************************************************)
(* Proofs about JobScheduler for any number of jobs, entries and storages, *)
(* and any queries, when every storage is bound to the same thread, as the *)
(* assumption OneThread says (with two, sync_all of one thread clears the  *)
(* entries of the other).                                                  *)
(*                                                                         *)
(* The argument: an entry forgets an unfinished job only when an exclusive *)
(* writer that waits for it takes its place, or when the main thread waits *)
(* for it itself (CoverInv).  So whoever a new job must follow is among    *)
(* its dependencies or followed by one of them (DepsInv), and since what   *)
(* is done has itself followed everybody it had to (StartedInv), a job     *)
(* whose dependencies are done may start.                                  *)
(***************************************************************************)
EXTENDS JobScheduler, TLAPS

OneThread == \A t, u \in Threads : t = u

Scheduled(j) == phase[j] # "none"

(* Jobs are scheduled in order, with a query.                              *)
QueryInv ==
  \A j \in Jobs : Scheduled(j) =>
    /\ query[j] \in Queries
    /\ \A i \in Jobs : i < j => Scheduled(i)

(* Only scheduled jobs are in an entry.                                    *)
EntryInv ==
  \A e \in Entries : \A j \in owned[e] \cup shared[e] : Scheduled(j)

(* The counters count the jobs that have not reached their deferred block. *)
CounterInv ==
  \A j \in Jobs :
    /\ Scheduled(j) /\ ~ Over(j) => j \in allCounter
    /\ Scheduled(j) /\ ~ Over(j) => j \in counter[QueryStorage[query[j]]]

(* JO!MustFollow, in the terms of this module (FollowsIsMustFollow).       *)
Follows(j, i) ==
  /\ i < j
  /\ \E e \in Entries :
       \/ Reads(query[j], e) /\ Changes(query[i], e)
       \/ Writes(query[j], e) /\ Accesses(query[i], e)
       \/ /\ Atomic(query[j], e) /\ Reads(query[i], e)
          /\ \A k \in Jobs : i < k /\ k < j => ~ Writes(query[k], e)

(* A job that has started has followed whom it must.                       *)
StartedInv ==
  \A i, j \in Jobs :
    Scheduled(j) /\ phase[j] # "waiting" /\ Follows(j, i) => Over(i)

(* In S there is an exclusive writer of e that was scheduled after i.      *)
Behind(S, e, i) == \E k \in S : i < k /\ Writes(query[k], e)

(* A main thread waits for i, or for a writer of e behind it.              *)
Awaited(e, i) ==
  \E t \in Threads :
    pc[t] = "events" /\ (i \in waits[t] \/ Behind(waits[t], e, i))

(* An unfinished job is in its entries, or somebody else stands for it.    *)
CoverInv ==
  \A e \in Entries, i \in Jobs :
    Scheduled(i) /\ ~ Over(i) =>
      /\ Reads(query[i], e) =>
           i \in shared[e] \/ Behind(owned[e], e, i) \/ Awaited(e, i)
      /\ Changes(query[i], e) =>
           i \in owned[e] \/ Behind(owned[e], e, i) \/ Awaited(e, i)

(* The dependencies of a job imply all it must follow.                     *)
DepsInv ==
  \A i, j \in Jobs :
    phase[j] = "waiting" /\ Follows(j, i) =>
      Over(i) \/ i \in deps[j] \/ \E k \in deps[j] : Follows(k, i)

(* What a thread waits for has been scheduled, and is no longer in the     *)
(* entries it asked for.                                                   *)
SyncInv ==
  \A t \in Threads :
    /\ \A j \in waits[t] : Scheduled(j)
    /\ pc[t] = "events" => \A e \in Entries :
         /\ asks[t][e] # "none" => owned[e] = {}
         /\ asks[t][e] = "write" => shared[e] = {}
    /\ pc[t] = "storage" =>
         /\ target[t] \in Storages
         /\ \A e \in Entries :
              asks[t][e] # "none" => StorageOfEntry(e) = target[t]
    /\ pc[t] = "clear" => \A e \in Entries, j \in Jobs :
         asks[t][e] # "none" /\ Scheduled(j) /\ Accesses(query[j], e)
           => Over(j)

(* The main thread has got access only to what no unfinished job uses.     *)
MineInv ==
  \A e \in Entries, j \in Jobs :
    Scheduled(j) /\ ~ Over(j) =>
      /\ mine[e] = "write" => ~ Accesses(query[j], e)
      /\ mine[e] # "none" => ~ Changes(query[j], e)

IInv ==
  /\ TypeOK /\ QueryInv /\ EntryInv /\ CounterInv /\ StartedInv /\ CoverInv
  /\ DepsInv /\ SyncInv /\ MineInv

-----------------------------------------------------------------------------
(* Lemmas about single steps.                                              *)

\* Follows is what JobOrder demands.
LEMMA FollowsIsMustFollow ==
  ASSUME NEW i, NEW j
  PROVE  JO!MustFollow(j, i) <=> Follows(j, i)
<1>1. JO!Jobs = Jobs
  BY DEF JO!Jobs, Jobs
<1>2. \A q, e, m : JO!FirstAccess(q, e, m) <=> FirstAccess(q, e, m)
  BY DEF JO!FirstAccess, FirstAccess
<1>3. \A q, e : /\ JO!Reads(q, e) <=> Reads(q, e)
                /\ JO!Atomic(q, e) <=> Atomic(q, e)
                /\ JO!Writes(q, e) <=> Writes(q, e)
  BY <1>2 DEF JO!Reads, JO!Atomic, JO!Writes, Reads, Atomic, Writes
<1>4. \A q, e : /\ JO!Changes(q, e) <=> Changes(q, e)
                /\ JO!Accesses(q, e) <=> Accesses(q, e)
  BY <1>3 DEF JO!Changes, JO!Accesses, Changes, Accesses
<1>5. QED
  BY <1>1, <1>3, <1>4 DEF JO!MustFollow, Follows

(* An access of a query is to an entry of its storage.                     *)
LEMMA AccessStorage ==
  ASSUME NEW q \in Queries, NEW e \in Entries, Accesses(q, e)
  PROVE  StorageOfEntry(e) = QueryStorage[q]
<1>1. PICK i \in DOMAIN Params[q] : Params[q][i].entry = e
  BY DEF Accesses, Changes, Reads, Atomic, Writes, FirstAccess
<1>2. QED
  BY <1>1, StoragesAssumption

(* What the steps of a job have in common.                                 *)
LEMMA JobStepFacts ==
  ASSUME TypeOK, NEW j \in Jobs, JobStep(j)
  PROVE  /\ UNCHANGED <<owned, shared, query, pc, waits, target, asks, mine>>
         /\ \A i \in Jobs :
              /\ Scheduled(i)' <=> Scheduled(i)
              /\ Over(i) => Over(i)'
              /\ ~ Over(i)' => (i \in allCounter => i \in allCounter')
              /\ ~ Over(i)' => \A s \in Storages :
                   i \in counter[s] => i \in counter'[s]
              /\ phase'[i] = "waiting" =>
                   phase[i] = "waiting" /\ deps'[i] = deps[i]
         /\ phase' \in [Jobs -> JobPhases]
<1> USE DEF TypeOK, JobMoves, entryVars, threadVars, Scheduled, Over, JobPhases
<1>1. CASE Start(j)
  BY <1>1 DEF Start
<1>2. CASE EndJob(j)
  BY <1>2 DEF EndJob
<1>3. CASE ReleaseStorage(j)
  BY <1>3 DEF ReleaseStorage
<1>4. CASE Signal(j)
  BY <1>4 DEF Signal
<1>5. QED
  BY <1>1, <1>2, <1>3, <1>4 DEF JobStep

SyncCall(t) ==
  \/ \E e \in Entries, readonly \in BOOLEAN : SyncEntry(t, e, readonly)
  \/ \E a \in Archetypes : SyncArchetype(t, a)
  \/ \E s \in Storages : SyncStorage(t, s)
  \/ SyncAll(t)

(* What the steps of the sync functions and gc_entries have in common.     *)
LEMMA ThreadFacts ==
  ASSUME TypeOK, NEW t \in Threads,
         SyncCall(t) \/ ThreadStep(t) \/ GcEntries(t)
  PROVE  /\ UNCHANGED <<phase, query, deps, allCounter, counter>>
         /\ owned' \in [Entries -> SUBSET Jobs]
         /\ shared' \in [Entries -> SUBSET Jobs]
         /\ \A e \in Entries : owned'[e] \subseteq owned[e]
                               /\ shared'[e] \subseteq shared[e]
<1> USE DEF TypeOK, entryVars, jobVars, threadVars
<1>1. CASE \E e \in Entries, readonly \in BOOLEAN : SyncEntry(t, e, readonly)
  BY <1>1 DEF SyncEntry, Call
<1>2. CASE \E a \in Archetypes : SyncArchetype(t, a)
  BY <1>2 DEF SyncArchetype, Call
<1>3. CASE (\E s \in Storages : SyncStorage(t, s)) \/ SyncAll(t)
  BY <1>3 DEF SyncStorage, SyncAll, Call
<1>4. CASE EventsSignalled(t) \/ CounterIsZero(t)
  BY <1>4 DEF EventsSignalled, CounterIsZero, Return
<1>5. CASE ClearEntries(t)
  BY <1>5 DEF ClearEntries, Return
<1>6. CASE GcEntries(t)
  BY <1>6 DEF GcEntries
<1>7. QED
  BY <1>1, <1>2, <1>3, <1>4, <1>5, <1>6 DEF SyncCall, ThreadStep

(* The kinds of step.                                                      *)
LEMMA Steps ==
  ASSUME [Next]_vars
  PROVE  \/ \E t \in Threads, j \in Jobs, q \in Queries : Schedule(t, j, q)
         \/ \E j \in Jobs : JobStep(j)
         \/ \E t \in Threads : SyncCall(t) \/ ThreadStep(t) \/ GcEntries(t)
         \/ UNCHANGED vars
  BY DEF Next, ThreadCall, SyncCall

-----------------------------------------------------------------------------
(* The inductive invariant, conjunct by conjunct.                          *)

\* Scheduled jobs have queries, and are scheduled in order.
LEMMA QueryStep ==
  ASSUME TypeOK, QueryInv, [Next]_vars
  PROVE  QueryInv'
<1>1. ASSUME NEW t \in Threads, NEW j \in Jobs, NEW q \in Queries,
             Schedule(t, j, q)
      PROVE  QueryInv'
  BY <1>1 DEF Schedule, TypeOK, QueryInv, Scheduled
<1>2. ASSUME NEW j \in Jobs, JobStep(j)
      PROVE  QueryInv'
  BY <1>2, JobStepFacts DEF QueryInv
<1>3. ASSUME NEW t \in Threads,
             SyncCall(t) \/ ThreadStep(t) \/ GcEntries(t)
      PROVE  QueryInv'
  BY <1>3, ThreadFacts DEF QueryInv, Scheduled
<1>4. CASE UNCHANGED vars
  BY <1>4 DEF QueryInv, Scheduled, vars, jobVars
<1>5. QED
  BY <1>1, <1>2, <1>3, <1>4, Steps

\* Entries have scheduled jobs only.
LEMMA EntryStep ==
  ASSUME TypeOK, EntryInv, [Next]_vars
  PROVE  EntryInv'
<1>1. ASSUME NEW t \in Threads, NEW j \in Jobs, NEW q \in Queries,
             Schedule(t, j, q)
      PROVE  EntryInv'
  <2>1. \A e \in Entries : \A i \in owned'[e] \cup shared'[e] :
          i \in Jobs /\ (i = j \/ Scheduled(i))
    BY <1>1 DEF Schedule, TypeOK, EntryInv, NewOwned, NewShared
  <2>2. \A i \in Jobs : i = j \/ Scheduled(i) => Scheduled(i)'
    BY <1>1 DEF Schedule, TypeOK, Scheduled
  <2>3. QED
    BY <2>1, <2>2 DEF EntryInv
<1>2. ASSUME NEW j \in Jobs, JobStep(j)
      PROVE  EntryInv'
  BY <1>2, JobStepFacts DEF EntryInv, TypeOK
<1>3. ASSUME NEW t \in Threads,
             SyncCall(t) \/ ThreadStep(t) \/ GcEntries(t)
      PROVE  EntryInv'
  BY <1>3, ThreadFacts DEF EntryInv, Scheduled
<1>4. CASE UNCHANGED vars
  BY <1>4 DEF EntryInv, Scheduled, vars, entryVars, jobVars
<1>5. QED
  BY <1>1, <1>2, <1>3, <1>4, Steps

\* Counters count the jobs that have not ended.
LEMMA CounterStep ==
  ASSUME TypeOK, QueryInv, CounterInv, [Next]_vars
  PROVE  CounterInv'
<1>1. ASSUME NEW t \in Threads, NEW j \in Jobs, NEW q \in Queries,
             Schedule(t, j, q)
      PROVE  CounterInv'
  <2>1. QueryStorage[q] \in Storages
    BY StoragesAssumption
  <2>2. ASSUME NEW i \in Jobs
        PROVE  (/\ Scheduled(i) /\ ~ Over(i) => i \in allCounter
                /\ Scheduled(i) /\ ~ Over(i) =>
                     i \in counter[QueryStorage[query[i]]])'
    <3>1. CASE i = j
      BY <1>1, <2>1, <3>1 DEF Schedule, TypeOK
    <3>2. CASE i # j
      <4>1. phase'[i] = phase[i] /\ query'[i] = query[i]
        BY <1>1, <3>2 DEF Schedule, TypeOK
      <4>2. Scheduled(i) => QueryStorage[query[i]] \in Storages
        BY StoragesAssumption DEF QueryInv
      <4>3. \A s \in Storages : counter[s] \subseteq counter'[s]
        BY <1>1, <2>1 DEF Schedule, TypeOK
      <4>4. QED
        BY <1>1, <4>1, <4>2, <4>3
           DEF Schedule, CounterInv, Scheduled, Over
    <3>3. QED
      BY <3>1, <3>2
  <2>3. QED
    BY <2>2 DEF CounterInv
<1>2. ASSUME NEW j \in Jobs, JobStep(j)
      PROVE  CounterInv'
  <2>1. \A i \in Jobs : Scheduled(i) => QueryStorage[query[i]] \in Storages
    BY StoragesAssumption DEF QueryInv
  <2>2. QED
    BY <1>2, <2>1, JobStepFacts DEF CounterInv
<1>3. ASSUME NEW t \in Threads,
             SyncCall(t) \/ ThreadStep(t) \/ GcEntries(t)
      PROVE  CounterInv'
  BY <1>3, ThreadFacts DEF CounterInv, Scheduled, Over
<1>4. CASE UNCHANGED vars
  BY <1>4 DEF CounterInv, Scheduled, Over, vars, jobVars
<1>5. QED
  BY <1>1, <1>2, <1>3, <1>4, Steps

(* Whom a scheduled job follows does not change when others are scheduled. *)
LEMMA FollowsFrame ==
  ASSUME TypeOK, QueryInv, NEW t \in Threads, NEW j \in Jobs,
         NEW q \in Queries, Schedule(t, j, q)
  PROVE  \A i \in Jobs : i # j =>
           /\ phase'[i] = phase[i]
           /\ query'[i] = query[i]
           /\ Scheduled(i) => i < j
           /\ \A k \in Jobs : Scheduled(i) => (Follows(i, k)' <=> Follows(i, k))
<1> SUFFICES ASSUME NEW i \in Jobs, i # j
             PROVE  /\ phase'[i] = phase[i]
                    /\ query'[i] = query[i]
                    /\ Scheduled(i) => i < j
                    /\ \A k \in Jobs :
                         Scheduled(i) => (Follows(i, k)' <=> Follows(i, k))
  OBVIOUS
<1>1. \A k \in Jobs : k # j => phase'[k] = phase[k] /\ query'[k] = query[k]
  BY DEF Schedule, TypeOK
<1>2. Scheduled(i) => i < j
  BY MaxJobsAssumption DEF Schedule, QueryInv, Scheduled, Jobs
<1>3. ASSUME NEW k \in Jobs, Scheduled(i)
      PROVE  Follows(i, k)' <=> Follows(i, k)
  <2>1. CASE k < i
    <3>1. k # j /\ \A l \in Jobs : k < l /\ l < i => l # j
      BY <1>2, <1>3, <2>1, MaxJobsAssumption DEF Jobs
    <3>2. QED
      BY <1>1, <2>1, <3>1 DEF Follows
  <2>2. CASE ~ (k < i)
    BY <2>2 DEF Follows
  <2>3. QED
    BY <2>1, <2>2
<1>4. QED
  BY <1>1, <1>2, <1>3

\* Every step keeps the types.
LEMMA TypeStep ==
  ASSUME TypeOK, QueryInv, EntryInv, [Next]_vars
  PROVE  TypeOK'
<1>1. ASSUME NEW t \in Threads, NEW j \in Jobs, NEW q \in Queries,
             Schedule(t, j, q)
      PROVE  TypeOK'
  <2>1. QueryStorage[q] \in Storages
    BY StoragesAssumption
  <2>2. \A e \in Entries : \A i \in EntryDeps(q, e) : i \in Jobs /\ i < j
    <3>1. SUFFICES ASSUME NEW e \in Entries, NEW i \in owned[e] \cup shared[e]
                   PROVE  i \in Jobs /\ i < j
      BY DEF EntryDeps
    <3>2. i \in Jobs /\ Scheduled(i) /\ ~ Scheduled(j)
      BY <1>1 DEF EntryInv, TypeOK, Schedule, Scheduled
    <3>3. QED
      BY <1>1, <3>2, FollowsFrame
  <2>3. deps'[j] = UNION {EntryDeps(q, e) : e \in Entries}
    BY <1>1 DEF Schedule, TypeOK
  <2>4. \A i \in deps'[j] : i \in Jobs /\ i < j
    BY <2>2, <2>3
  <2>5. /\ DOMAIN deps' = Jobs /\ deps' = [i \in Jobs |-> deps'[i]]
        /\ \A i \in Jobs : i # j => deps'[i] = deps[i]
    <3>1. deps' = [deps EXCEPT ![j] = UNION {EntryDeps(q, e) : e \in Entries}]
      BY <1>1 DEF Schedule
    <3>2. QED
      BY <3>1 DEF TypeOK
  <2>6. /\ deps' \in [Jobs -> SUBSET Jobs]
        /\ \A k \in Jobs : \A i \in deps'[k] : i < k
    <3>1. \A k \in Jobs : deps'[k] \in SUBSET Jobs /\ \A i \in deps'[k] : i < k
      BY <2>4, <2>5 DEF TypeOK
    <3>2. QED
      BY <2>5, <3>1
  <2>7. owned' \in [Entries -> SUBSET Jobs] /\ shared' \in [Entries -> SUBSET Jobs]
    BY <1>1 DEF Schedule, TypeOK, NewOwned, NewShared
  <2>8. /\ allCounter' \in SUBSET Jobs
        /\ counter' \in [Storages -> SUBSET Jobs]
        /\ phase' \in [Jobs -> JobPhases]
        /\ query' \in [Jobs -> Queries \cup {NoQuery}]
    BY <1>1, <2>1 DEF Schedule, TypeOK, JobPhases
  <2>9. mine' \in [Entries -> Permissions]
    BY <1>1 DEF Schedule, TypeOK, Left, Permissions
  <2>10. QED
    BY <1>1, <2>6, <2>7, <2>8, <2>9 DEF Schedule, TypeOK, threadVars
<1>2. ASSUME NEW j \in Jobs, JobStep(j)
      PROVE  TypeOK'
  <2>1. /\ allCounter' \in SUBSET Jobs
        /\ counter' \in [Storages -> SUBSET Jobs]
        /\ deps' \in [Jobs -> SUBSET Jobs]
        /\ \A k \in Jobs : deps'[k] \subseteq deps[k]
    <3>1. /\ allCounter \in SUBSET Jobs /\ counter \in [Storages -> SUBSET Jobs]
          /\ deps \in [Jobs -> SUBSET Jobs]
      BY DEF TypeOK
    <3>2. CASE Start(j)
      BY ONLY <3>1, <3>2 DEF Start
    <3>3. CASE EndJob(j)
      BY ONLY <3>1, <3>3 DEF EndJob
    <3>4. CASE ReleaseStorage(j)
      BY ONLY <3>1, <3>4 DEF ReleaseStorage
    <3>5. CASE Signal(j)
      BY ONLY <3>1, <3>5 DEF Signal
    <3>6. QED BY <1>2, <3>2, <3>3, <3>4, <3>5 DEF JobStep
  <2>2. QED
    BY <1>2, <2>1, JobStepFacts DEF TypeOK
<1>3. ASSUME NEW t \in Threads,
             SyncCall(t) \/ ThreadStep(t) \/ GcEntries(t)
      PROVE  TypeOK'
  <2>1. /\ pc' \in [Threads -> ThreadPCs]
        /\ target' \in [Threads -> Storages \cup {NoStorage}]
        /\ asks' \in [Threads -> [Entries -> Permissions]]
        /\ mine' \in [Entries -> Permissions]
    <3> USE DEF TypeOK, ThreadPCs, Permissions, NoPermission, threadVars
    <3>1. CASE \E e \in Entries, readonly \in BOOLEAN : SyncEntry(t, e, readonly)
      BY <3>1 DEF SyncEntry, Call
    <3>2. CASE \E a \in Archetypes : SyncArchetype(t, a)
      BY <3>2 DEF SyncArchetype, Call
    <3>3. CASE \E s \in Storages : SyncStorage(t, s)
      BY <3>3 DEF SyncStorage, Call
    <3>4. CASE SyncAll(t)
      BY <3>4 DEF SyncAll, Call
    <3>5. CASE EventsSignalled(t) \/ ClearEntries(t)
      <4>1. Return(t)
        BY <3>5 DEF EventsSignalled, ClearEntries
      <4>2. /\ pc' \in [Threads -> ThreadPCs]
            /\ target' \in [Threads -> Storages \cup {NoStorage}]
            /\ asks' \in [Threads -> [Entries -> Permissions]]
        BY <4>1 DEF Return
      <4>3. mine' \in [Entries -> Permissions]
        BY <4>1 DEF Return
      <4>4. QED
        BY <4>2, <4>3
    <3>6. CASE CounterIsZero(t) \/ GcEntries(t)
      BY <3>6 DEF CounterIsZero, GcEntries
    <3>7. QED
      BY <1>3, <3>1, <3>2, <3>3, <3>4, <3>5, <3>6 DEF SyncCall, ThreadStep
  <2>2. waits' \in [Threads -> SUBSET Jobs]
    <3> USE DEF TypeOK, threadVars
    <3>1. ASSUME NEW e \in Entries, NEW readonly \in BOOLEAN,
                 SyncEntry(t, e, readonly)
          PROVE  waits' \in [Threads -> SUBSET Jobs]
      BY <3>1 DEF SyncEntry, Collected
    <3>2. ASSUME NEW a \in Archetypes, SyncArchetype(t, a)
          PROVE  waits' \in [Threads -> SUBSET Jobs]
      <4> DEFINE X == UNION {Collected(e, FALSE) :
                               e \in {f \in Entries : ArchetypeOf[f] = a}}
      <4>1. \A e \in Entries : Collected(e, FALSE) \subseteq Jobs
        BY DEF Collected
      <4>2. X \subseteq Jobs
        <5>1. \A i \in X : \E e \in Entries : i \in Collected(e, FALSE)
          BY Zenon
        <5>2. QED
          BY <4>1, <5>1, Zenon
      <4>3. waits' = [waits EXCEPT ![t] = X]
        BY <3>2 DEF SyncArchetype
      <4> HIDE DEF X
      <4>4. QED
        BY <4>2, <4>3
    <3>3. CASE EventsSignalled(t) \/ ClearEntries(t)
      BY <3>3 DEF EventsSignalled, ClearEntries, Return
    <3>4. CASE \/ (\E s \in Storages : SyncStorage(t, s)) \/ SyncAll(t)
               \/ CounterIsZero(t) \/ GcEntries(t)
      BY <3>4 DEF SyncStorage, SyncAll, CounterIsZero, GcEntries
    <3>5. QED
      BY <1>3, <3>1, <3>2, <3>3, <3>4 DEF SyncCall, ThreadStep
  <2>3. QED
    BY <1>3, <2>1, <2>2, ThreadFacts DEF TypeOK
<1>4. CASE UNCHANGED vars
  BY <1>4 DEF TypeOK, vars, entryVars, jobVars, threadVars
<1>5. QED
  BY <1>1, <1>2, <1>3, <1>4, Steps

\* Who follows whom depends on the queries alone.
LEMMA FollowsUnchanged ==
  ASSUME UNCHANGED query
  PROVE  \A i, k : Follows(i, k)' <=> Follows(i, k)
BY DEF Follows

(* What a job waits for is over, once its dependencies are done.           *)
LEMMA DependenciesSuffice ==
  ASSUME TypeOK, StartedInv, DepsInv,
         NEW j \in Jobs, phase[j] = "waiting",
         \A i \in deps[j] : phase[i] = "done"
  PROVE  \A i \in Jobs : Follows(j, i) => Over(i)
<1> SUFFICES ASSUME NEW i \in Jobs, Follows(j, i), ~ Over(i)
             PROVE  FALSE
  OBVIOUS
<1>1. i \in deps[j] \/ \E k \in deps[j] : Follows(k, i)
  BY DEF DepsInv
<1>2. CASE i \in deps[j]
  BY <1>2 DEF Over
<1>3. CASE \E k \in deps[j] : Follows(k, i)
  <2>1. PICK k \in Jobs : phase[k] = "done" /\ Follows(k, i)
    BY <1>3 DEF TypeOK
  <2>2. QED
    BY <2>1 DEF StartedInv, Scheduled
<1>4. QED
  BY <1>1, <1>2, <1>3

\* Who starts has been preceded by all it must follow.
LEMMA StartedStep ==
  ASSUME TypeOK, QueryInv, StartedInv, DepsInv, [Next]_vars
  PROVE  StartedInv'
<1>1. ASSUME NEW t \in Threads, NEW j \in Jobs, NEW q \in Queries,
             Schedule(t, j, q)
      PROVE  StartedInv'
  <2>1. phase'[j] = "waiting" /\ phase[j] = "none"
    BY <1>1 DEF Schedule, TypeOK
  <2>2. SUFFICES ASSUME NEW i \in Jobs, NEW k \in Jobs, k # j,
                        Scheduled(k)', phase'[k] # "waiting", Follows(k, i)'
                 PROVE  Over(i)'
    BY <2>1 DEF StartedInv
  <2>3. Over(i)
    BY <1>1, <2>2, FollowsFrame DEF StartedInv, Scheduled
  <2>4. QED
    BY <1>1, <2>1, <2>3, FollowsFrame DEF Over
<1>2. ASSUME NEW j \in Jobs, JobStep(j)
      PROVE  StartedInv'
  <2>1. SUFFICES ASSUME NEW i \in Jobs, NEW k \in Jobs,
                        Scheduled(k)', phase'[k] # "waiting", Follows(k, i)'
                 PROVE  Over(i)
    BY <1>2, JobStepFacts DEF StartedInv
  <2>2. Scheduled(k) /\ Follows(k, i)
    BY <1>2, <2>1, JobStepFacts, FollowsUnchanged
  <2>3. CASE phase[k] # "waiting"
    BY <2>2, <2>3 DEF StartedInv
  <2>4. CASE phase[k] = "waiting"
    <3>1. k = j /\ \A l \in deps[k] : phase[l] = "done"
      BY <1>2, <2>1, <2>4
         DEF JobStep, Start, EndJob, ReleaseStorage, Signal, JobMoves, TypeOK
    <3>2. QED
      BY <2>2, <2>4, <3>1, DependenciesSuffice
  <2>5. QED
    BY <2>3, <2>4
<1>3. ASSUME NEW t \in Threads,
             SyncCall(t) \/ ThreadStep(t) \/ GcEntries(t)
      PROVE  StartedInv'
  BY <1>3, ThreadFacts, FollowsUnchanged DEF StartedInv, Scheduled, Over
<1>4. CASE UNCHANGED vars
  BY <1>4, FollowsUnchanged DEF StartedInv, Scheduled, Over, vars, jobVars
<1>5. QED
  BY <1>1, <1>2, <1>3, <1>4, Steps

(* While the thread awaits no events the entries cover everything.         *)
LEMMA EntriesCover ==
  ASSUME OneThread, CoverInv, NEW t \in Threads, pc[t] # "events",
         NEW e \in Entries, NEW i \in Jobs, Scheduled(i), ~ Over(i)
  PROVE  /\ ~ Awaited(e, i)
         /\ Reads(query[i], e) => i \in shared[e] \/ Behind(owned[e], e, i)
         /\ Changes(query[i], e) => i \in owned[e] \/ Behind(owned[e], e, i)
<1>1. ~ Awaited(e, i)
  BY DEF Awaited, OneThread
<1>2. QED
  BY <1>1 DEF CoverInv

(* An exclusive writer that is done has followed those before it.          *)
LEMMA WriterDone ==
  ASSUME StartedInv, NEW i \in Jobs, NEW k \in Jobs, phase[k] = "done",
         NEW e \in Entries, i < k, Writes(query[k], e), Accesses(query[i], e)
  PROVE  Over(i)
BY DEF StartedInv, Follows, Scheduled

(* So what is covered by events that are signalled is over.                *)
LEMMA SignalledCover ==
  ASSUME OneThread, TypeOK, StartedInv, CoverInv,
         NEW t \in Threads, EventsSignalled(t),
         NEW e \in Entries, NEW i \in Jobs, Scheduled(i), ~ Over(i)
  PROVE  /\ Reads(query[i], e) => i \in shared[e] \/ Behind(owned[e], e, i)
         /\ Changes(query[i], e) => i \in owned[e] \/ Behind(owned[e], e, i)
<1>1. ASSUME Accesses(query[i], e)
      PROVE  ~ Awaited(e, i)
  <2>1. SUFFICES ASSUME Awaited(e, i)
                 PROVE  FALSE
    OBVIOUS
  <2>2. i \in waits[t] \/ Behind(waits[t], e, i)
    BY <2>1 DEF Awaited, OneThread
  <2>3. \A k \in waits[t] : k \in Jobs /\ phase[k] = "done"
    BY DEF EventsSignalled, TypeOK
  <2>4. CASE i \in waits[t]
    BY <2>3, <2>4 DEF Over
  <2>5. CASE Behind(waits[t], e, i)
    BY <1>1, <2>3, <2>5, WriterDone DEF Behind
  <2>6. QED
    BY <2>2, <2>4, <2>5
<1>2. QED
  BY <1>1 DEF CoverInv, Accesses

\* Whoever a waiting job must follow stays accounted for.
LEMMA DepsStep ==
  ASSUME OneThread, TypeOK, QueryInv, EntryInv, CoverInv, DepsInv, [Next]_vars
  PROVE  DepsInv'
<1>1. ASSUME NEW t \in Threads, NEW j \in Jobs, NEW q \in Queries,
             Schedule(t, j, q)
      PROVE  DepsInv'
  <2>1. /\ phase[j] = "none" /\ pc[t] = "idle" /\ query'[j] = q
        /\ \A i \in Jobs : i < j => Scheduled(i)
        /\ \A e \in Entries : EntryDeps(q, e) \subseteq deps'[j]
        /\ \A k \in Jobs : k # j => deps'[k] = deps[k]
    BY <1>1 DEF Schedule, TypeOK, Scheduled
  <2>2. \A i \in Jobs : i # j => (Over(i)' <=> Over(i))
    BY <1>1, FollowsFrame DEF Over
  <2>3. ASSUME NEW i \in Jobs, Follows(j, i)', ~ Over(i)'
        PROVE  i \in deps'[j] \/ \E k \in deps'[j] : Follows(k, i)'
    <3>1. i < j /\ i # j /\ Scheduled(i) /\ ~ Over(i) /\ query'[i] = query[i]
      <4>1. i < j /\ i # j
        BY <2>3 DEF Follows, Jobs
      <4>2. QED
        BY <1>1, <2>1, <2>2, <2>3, <4>1, FollowsFrame
    <3>2. ASSUME NEW e \in Entries, NEW k \in owned[e], i < k,
                 Writes(query[k], e), Accesses(query[i], e)
          PROVE  k \in Jobs /\ k < j /\ Follows(k, i)' /\ query'[k] = query[k]
      <4>1. k \in Jobs /\ Scheduled(k)
        BY DEF EntryInv, TypeOK
      <4>2. k # j
        BY <2>1, <4>1 DEF Scheduled
      <4>3. Follows(k, i)
        BY <3>2 DEF Follows
      <4>4. QED
        BY <1>1, <4>1, <4>2, <4>3, FollowsFrame
    <3>3. PICK e \in Entries :
            \/ Reads(q, e) /\ Changes(query[i], e)
            \/ Writes(q, e) /\ Accesses(query[i], e)
            \/ /\ Atomic(q, e) /\ Reads(query[i], e)
               /\ \A k \in Jobs : i < k /\ k < j => ~ Writes(query'[k], e)
      BY <2>1, <2>3, <3>1 DEF Follows
    <3>4. /\ Reads(query[i], e) => i \in shared[e] \/ Behind(owned[e], e, i)
          /\ Changes(query[i], e) => i \in owned[e] \/ Behind(owned[e], e, i)
      BY <2>1, <3>1, EntriesCover
    <3>5. CASE Reads(q, e) /\ Changes(query[i], e)
      <4>1. owned[e] \subseteq deps'[j]
        BY <2>1, <3>5 DEF EntryDeps
      <4>2. QED
        BY <3>2, <3>4, <3>5, <4>1 DEF Behind, Accesses
    <3>6. CASE Writes(q, e) /\ Accesses(query[i], e)
      <4>1. owned[e] \subseteq deps'[j] /\ shared[e] \subseteq deps'[j]
        BY <2>1, <3>6 DEF EntryDeps, Changes
      <4>2. QED
        BY <3>2, <3>4, <3>6, <4>1 DEF Behind, Accesses
    <3>7. CASE /\ Atomic(q, e) /\ Reads(query[i], e)
               /\ \A k \in Jobs : i < k /\ k < j => ~ Writes(query'[k], e)
      <4>1. shared[e] \subseteq deps'[j]
        BY <2>1, <3>7 DEF EntryDeps, Changes
      <4>2. ~ Behind(owned[e], e, i)
        BY <3>2, <3>7 DEF Behind, Accesses
      <4>3. QED
        BY <3>4, <3>7, <4>1, <4>2
    <3>8. QED
      BY <3>3, <3>5, <3>6, <3>7
  <2>4. ASSUME NEW i \in Jobs, NEW k \in Jobs, k # j, phase'[k] = "waiting",
               Follows(k, i)', ~ Over(i)'
        PROVE  i \in deps'[k] \/ \E l \in deps'[k] : Follows(l, i)'
    <3>1. phase[k] = "waiting" /\ Scheduled(k) /\ Follows(k, i)
      BY <1>1, <2>4, FollowsFrame DEF Scheduled
    <3>2. ~ Over(i)
      BY <2>1, <2>2, <2>4 DEF Over
    <3>3. i \in deps[k] \/ \E l \in deps[k] : Follows(l, i)
      BY <3>1, <3>2 DEF DepsInv
    <3>4. \A l \in deps[k] : l \in Jobs /\ Scheduled(l) /\ l # j
      BY <2>1, <3>1 DEF TypeOK, QueryInv, Scheduled
    <3>5. QED
      BY <1>1, <2>1, <2>4, <3>3, <3>4, FollowsFrame
  <2>5. QED
    BY <2>3, <2>4 DEF DepsInv
<1>2. ASSUME NEW j \in Jobs, JobStep(j)
      PROVE  DepsInv'
  BY <1>2, JobStepFacts, FollowsUnchanged DEF DepsInv
<1>3. ASSUME NEW t \in Threads,
             SyncCall(t) \/ ThreadStep(t) \/ GcEntries(t)
      PROVE  DepsInv'
  BY <1>3, ThreadFacts, FollowsUnchanged DEF DepsInv, Over
<1>4. CASE UNCHANGED vars
  BY <1>4, FollowsUnchanged DEF DepsInv, Over, vars, jobVars
<1>5. QED
  BY <1>1, <1>2, <1>3, <1>4, Steps

\* Entries forget a job only for one that stands for it.
LEMMA CoverStep ==
  ASSUME OneThread, TypeOK, QueryInv, EntryInv, StartedInv, CoverInv, SyncInv,
         [Next]_vars
  PROVE  CoverInv'
<1> DEFINE Covered(e, i) ==
      /\ Reads(query[i], e) =>
           i \in shared[e] \/ Behind(owned[e], e, i) \/ Awaited(e, i)
      /\ Changes(query[i], e) =>
           i \in owned[e] \/ Behind(owned[e], e, i) \/ Awaited(e, i)
<1>1. ASSUME NEW t \in Threads, NEW j \in Jobs, NEW q \in Queries,
             Schedule(t, j, q)
      PROVE  CoverInv'
  <2>1. /\ phase[j] = "none" /\ pc[t] = "idle" /\ query'[j] = q
        /\ \A e \in Entries : /\ owned'[e] = NewOwned(j, q, e)
                              /\ shared'[e] = NewShared(j, q, e)
    BY <1>1 DEF Schedule, TypeOK
  <2>2. \A e \in Entries : Covered(e, j)'
    BY <2>1 DEF NewOwned, NewShared
  <2>3. ASSUME NEW e \in Entries, NEW i \in Jobs, i # j,
               Scheduled(i)', ~ Over(i)'
        PROVE  Covered(e, i)'
    <3>1. Scheduled(i) /\ ~ Over(i) /\ query'[i] = query[i] /\ i < j
      BY <1>1, <2>3, FollowsFrame DEF Scheduled, Over
    <3>2. /\ Reads(query[i], e) => i \in shared[e] \/ Behind(owned[e], e, i)
          /\ Changes(query[i], e) => i \in owned[e] \/ Behind(owned[e], e, i)
      BY <2>1, <3>1, EntriesCover
    <3>3. CASE Writes(q, e)
      <4>1. j \in owned'[e]
        BY <2>1, <3>3 DEF NewOwned, Changes
      <4>2. Behind(owned[e], e, i)'
        BY <2>1, <3>1, <3>3, <4>1 DEF Behind
      <4>3. QED
        BY <4>2
    <3>4. CASE ~ Writes(q, e)
      <4>1. owned[e] \subseteq owned'[e] /\ shared[e] \subseteq shared'[e]
        BY <2>1, <3>4 DEF NewOwned, NewShared
      <4>2. \A k \in owned[e] : query'[k] = query[k]
        BY <1>1, <2>1, FollowsFrame DEF EntryInv, TypeOK, Scheduled
      <4>3. Behind(owned[e], e, i) => Behind(owned[e], e, i)'
        BY <4>1, <4>2 DEF Behind
      <4>4. QED
        BY <3>1, <3>2, <4>1, <4>3
    <3>5. QED
      BY <3>3, <3>4
  <2>4. QED
    BY <2>2, <2>3 DEF CoverInv
<1>2. ASSUME NEW j \in Jobs, JobStep(j)
      PROVE  CoverInv'
  <2>1. UNCHANGED <<owned, shared, query, pc, waits>>
    BY <1>2, JobStepFacts
  <2>2. \A e \in Entries, i \in Jobs : Covered(e, i)' <=> Covered(e, i)
    BY <2>1 DEF Behind, Awaited
  <2>3. \A i \in Jobs : /\ Scheduled(i)' => Scheduled(i)
                        /\ ~ Over(i)' => ~ Over(i)
    BY <1>2, JobStepFacts
  <2>4. QED
    BY <2>2, <2>3 DEF CoverInv
<1>3. ASSUME NEW t \in Threads,
             SyncCall(t) \/ ThreadStep(t) \/ GcEntries(t)
      PROVE  CoverInv'
  <2>1. UNCHANGED <<phase, query>>
    BY <1>3, ThreadFacts
  <2>2. SUFFICES ASSUME NEW e \in Entries, NEW i \in Jobs,
                        Scheduled(i), ~ Over(i)
                 PROVE  Covered(e, i)'
    BY <2>1 DEF CoverInv, Scheduled, Over
  <2>3. ASSUME /\ Reads(query[i], e) =>
                    i \in shared[e] \/ Behind(owned[e], e, i)
               /\ Changes(query[i], e) =>
                    i \in owned[e] \/ Behind(owned[e], e, i),
               owned'[e] = owned[e], shared'[e] = shared[e]
        PROVE  Covered(e, i)'
    BY <2>1, <2>3 DEF Behind
  <2>4. ASSUME pc'[t] = "events", pc[t] = "idle",
               owned[e] \subseteq waits'[t],
               shared[e] \subseteq waits'[t] \/ shared[e] = shared'[e]
        PROVE  Covered(e, i)'
    <3>1. /\ Reads(query[i], e) => i \in shared[e] \/ Behind(owned[e], e, i)
          /\ Changes(query[i], e) => i \in owned[e] \/ Behind(owned[e], e, i)
      BY <2>2, <2>4, EntriesCover
    <3>2. i \in owned[e] \/ Behind(owned[e], e, i) => Awaited(e, i)'
      BY <2>1, <2>4 DEF Awaited, Behind
    <3>3. i \in shared[e] => i \in shared'[e] \/ Awaited(e, i)'
      BY <2>1, <2>4 DEF Awaited, Behind
    <3>4. QED
      BY <2>1, <3>1, <3>2, <3>3
  <2>5. ASSUME NEW f \in Entries, NEW readonly \in BOOLEAN,
               SyncEntry(t, f, readonly)
        PROVE  Covered(e, i)'
    <3>1. pc[t] = "idle" /\ pc'[t] = "events"
      BY <2>5 DEF SyncEntry, Call, TypeOK
    <3>2. CASE e = f
      <4>1. owned[e] \subseteq waits'[t]
        BY <2>5, <3>2 DEF SyncEntry, Collected, TypeOK
      <4>2. shared[e] \subseteq waits'[t] \/ shared[e] = shared'[e]
        BY <2>5, <3>2 DEF SyncEntry, Collected, TypeOK
      <4>3. QED
        BY <2>4, <3>1, <4>1, <4>2
    <3>3. CASE e # f
      <4>1. owned'[e] = owned[e] /\ shared'[e] = shared[e]
        BY <2>5, <3>3 DEF SyncEntry, TypeOK
      <4>2. QED
        BY <2>2, <2>3, <3>1, <4>1, EntriesCover
    <3>4. QED
      BY <3>2, <3>3
  <2>6. ASSUME NEW a \in Archetypes, SyncArchetype(t, a)
        PROVE  Covered(e, i)'
    <3>1. pc[t] = "idle" /\ pc'[t] = "events"
      BY <2>6 DEF SyncArchetype, Call, TypeOK
    <3>2. CASE ArchetypeOf[e] = a
      <4>1. Collected(e, FALSE) \subseteq waits'[t]
        BY <2>6, <3>2 DEF SyncArchetype, TypeOK
      <4>2. owned[e] \subseteq waits'[t] /\ shared[e] \subseteq waits'[t]
        BY <4>1 DEF Collected
      <4>3. QED
        BY <2>4, <3>1, <4>2
    <3>3. CASE ArchetypeOf[e] # a
      <4>1. owned'[e] = owned[e] /\ shared'[e] = shared[e]
        BY <2>6, <3>3 DEF SyncArchetype
      <4>2. QED
        BY <2>2, <2>3, <3>1, <4>1, EntriesCover
    <3>4. QED
      BY <3>2, <3>3
  <2>7. CASE (\E s \in Storages : SyncStorage(t, s)) \/ SyncAll(t)
    <3>1. pc[t] = "idle" /\ UNCHANGED <<owned, shared>>
      BY <2>7 DEF SyncStorage, SyncAll, Call, entryVars
    <3>2. QED
      BY <2>2, <2>3, <3>1, EntriesCover
  <2>8. CASE EventsSignalled(t)
    <3>1. UNCHANGED <<owned, shared>>
      BY <2>8 DEF EventsSignalled, entryVars
    <3>2. QED
      BY <2>2, <2>3, <2>8, <3>1, SignalledCover
  <2>9. CASE CounterIsZero(t)
    <3>1. pc[t] # "events" /\ UNCHANGED <<owned, shared>>
      BY <2>9 DEF CounterIsZero, entryVars
    <3>2. QED
      BY <2>2, <2>3, <3>1, EntriesCover
  <2>10. CASE ClearEntries(t)
    <3>1. pc[t] = "clear"
      BY <2>10 DEF ClearEntries
    <3>2. CASE asks[t][e] = "none"
      <4>1. owned'[e] = owned[e] /\ shared'[e] = shared[e]
        BY <2>10, <3>2 DEF ClearEntries
      <4>2. QED
        BY <2>2, <2>3, <3>1, <4>1, EntriesCover
    <3>3. CASE asks[t][e] # "none"
      <4>1. ~ Accesses(query[i], e)
        BY <2>2, <3>1, <3>3 DEF SyncInv
      <4>2. QED
        BY <2>1, <4>1 DEF Accesses
    <3>4. QED
      BY <3>2, <3>3
  <2>11. CASE GcEntries(t)
    <3>1. pc[t] = "idle"
      BY <2>11 DEF GcEntries
    <3>2. PICK X \in SUBSET Expirable :
            owned'[e] = owned[e] \ X /\ shared'[e] = shared[e] \ X
      BY <2>11 DEF GcEntries
    <3>3. i \notin X
      BY <2>2 DEF Expirable, Over
    <3>4. Accesses(query[i], e) /\ Behind(owned[e], e, i)
            => Behind(owned[e], e, i)'
      BY <2>1, <2>2, <3>2, WriterDone DEF Behind, Expirable, TypeOK
    <3>5. /\ Reads(query[i], e) => i \in shared[e] \/ Behind(owned[e], e, i)
          /\ Changes(query[i], e) => i \in owned[e] \/ Behind(owned[e], e, i)
      BY <2>2, <3>1, EntriesCover
    <3>6. QED
      BY <2>1, <3>2, <3>3, <3>4, <3>5 DEF Accesses
  <2>12. QED
    BY <1>3, <2>5, <2>6, <2>7, <2>8, <2>9, <2>10, <2>11
       DEF SyncCall, ThreadStep
<1>4. CASE UNCHANGED vars
  BY <1>4 DEF CoverInv, Scheduled, Over, Behind, Awaited, vars, jobVars,
              entryVars, threadVars
<1>5. QED
  BY <1>1, <1>2, <1>3, <1>4, Steps

\* What a waiting thread waits for stays enough.
LEMMA SyncStep ==
  ASSUME OneThread, TypeOK, QueryInv, EntryInv, CounterInv, SyncInv, [Next]_vars
  PROVE  SyncInv'
<1>1. ASSUME NEW t \in Threads, NEW j \in Jobs, NEW q \in Queries,
             Schedule(t, j, q)
      PROVE  SyncInv'
  <2>1. \A u \in Threads : pc[u] = "idle"
    BY <1>1 DEF Schedule, OneThread
  <2>2. UNCHANGED threadVars
    BY <1>1 DEF Schedule
  <2>3. \A i \in Jobs : Scheduled(i) => Scheduled(i)'
    BY <1>1 DEF Schedule, TypeOK, Scheduled
  <2>4. QED
    BY <2>1, <2>2, <2>3 DEF SyncInv, threadVars, TypeOK
<1>2. ASSUME NEW j \in Jobs, JobStep(j)
      PROVE  SyncInv'
  BY <1>2, JobStepFacts DEF SyncInv, TypeOK
<1>3. ASSUME NEW t \in Threads,
             SyncCall(t) \/ ThreadStep(t) \/ GcEntries(t)
      PROVE  SyncInv'
  <2>1. UNCHANGED <<phase, query>>
    BY <1>3, ThreadFacts
  <2>2. ASSUME
          \A j \in waits'[t] : Scheduled(j),
          pc'[t] = "events" => \A e \in Entries :
            /\ asks'[t][e] # "none" => owned'[e] = {}
            /\ asks'[t][e] = "write" => shared'[e] = {},
          pc'[t] = "storage" =>
            /\ target'[t] \in Storages
            /\ \A e \in Entries :
                 asks'[t][e] # "none" => StorageOfEntry(e) = target'[t],
          pc'[t] = "clear" => \A e \in Entries, j \in Jobs :
            asks'[t][e] # "none" /\ Scheduled(j) /\ Accesses(query[j], e)
              => Over(j)
        PROVE  SyncInv'
    BY <2>1, <2>2 DEF SyncInv, OneThread, Scheduled, Over
  <2>3. \A j \in waits[t] : Scheduled(j)
    BY DEF SyncInv
  <2>4. ASSUME NEW f \in Entries, NEW readonly \in BOOLEAN,
               SyncEntry(t, f, readonly)
        PROVE  SyncInv'
    <3>1. /\ pc'[t] = "events"
          /\ asks'[t] = [e \in Entries |->
                IF e \in {f} THEN IF readonly THEN "read" ELSE "write"
                ELSE "none"]
      BY <2>4 DEF SyncEntry, Call, TypeOK
    <3>2. \A j \in waits'[t] : Scheduled(j)
      BY <2>4 DEF SyncEntry, Collected, EntryInv, TypeOK
    <3>3. owned'[f] = {} /\ (readonly \/ shared'[f] = {})
      BY <2>4 DEF SyncEntry, TypeOK
    <3>4. QED
      BY <2>2, <3>1, <3>2, <3>3
  <2>5. ASSUME NEW a \in Archetypes, SyncArchetype(t, a)
        PROVE  SyncInv'
    <3>1. /\ pc'[t] = "events"
          /\ asks'[t] = [e \in Entries |->
                IF e \in {f \in Entries : ArchetypeOf[f] = a}
                  THEN "write" ELSE "none"]
      BY <2>5 DEF SyncArchetype, Call, TypeOK
    <3>2. \A j \in waits'[t] : Scheduled(j)
      BY <2>5 DEF SyncArchetype, Collected, EntryInv, TypeOK
    <3>3. \A e \in Entries :
            ArchetypeOf[e] = a => owned'[e] = {} /\ shared'[e] = {}
      BY <2>5 DEF SyncArchetype
    <3>4. QED
      BY <2>2, <3>1, <3>2, <3>3
  <2>6. ASSUME NEW s \in Storages, SyncStorage(t, s)
        PROVE  SyncInv'
    <3>1. /\ pc'[t] = "storage" /\ target'[t] = s /\ waits'[t] = waits[t]
          /\ asks'[t] = [e \in Entries |->
                IF e \in {f \in Entries : StorageOfEntry(f) = s}
                  THEN "write" ELSE "none"]
      BY <2>6 DEF SyncStorage, Call, TypeOK
    <3>2. QED
      BY <2>2, <2>3, <3>1
  <2>7. CASE SyncAll(t)
    <3>1. pc'[t] = "all" /\ waits'[t] = waits[t]
      BY <2>7 DEF SyncAll, Call, TypeOK
    <3>2. QED
      BY <2>2, <2>3, <3>1
  <2>8. CASE EventsSignalled(t) \/ ClearEntries(t)
    <3>1. pc'[t] = "idle" /\ waits'[t] = {}
      BY <2>8 DEF EventsSignalled, ClearEntries, Return, TypeOK
    <3>2. QED
      BY <2>2, <3>1
  <2>9. CASE CounterIsZero(t)
    <3>1. pc'[t] = "clear" /\ UNCHANGED <<waits, asks, target>>
      BY <2>9 DEF CounterIsZero, TypeOK
    <3>2. ASSUME NEW e \in Entries, NEW j \in Jobs, asks[t][e] # "none",
                 Scheduled(j), Accesses(query[j], e)
          PROVE  Over(j)
      <4>1. CASE pc[t] = "all" /\ allCounter = {}
        BY <3>2, <4>1 DEF CounterInv
      <4>2. CASE pc[t] = "storage" /\ counter[target[t]] = {}
        <5>1. StorageOfEntry(e) = target[t]
          BY <3>2, <4>2 DEF SyncInv
        <5>2. QueryStorage[query[j]] = target[t]
          BY <3>2, <5>1, AccessStorage DEF QueryInv
        <5>3. QED
          BY <3>2, <4>2, <5>2 DEF CounterInv
      <4>3. QED
        BY <2>9, <4>1, <4>2 DEF CounterIsZero
    <3>3. QED
      BY <2>2, <2>3, <3>1, <3>2
  <2>10. CASE GcEntries(t)
    <3>1. pc'[t] = "idle" /\ waits'[t] = waits[t]
      BY <2>10 DEF GcEntries, threadVars
    <3>2. QED
      BY <2>2, <2>3, <3>1
  <2>11. QED
    BY <1>3, <2>4, <2>5, <2>6, <2>7, <2>8, <2>9, <2>10
       DEF SyncCall, ThreadStep
<1>4. CASE UNCHANGED vars
  BY <1>4 DEF SyncInv, Scheduled, Over, vars, jobVars, entryVars, threadVars
<1>5. QED
  BY <1>1, <1>2, <1>3, <1>4, Steps

\* What was synced no running job touches.
LEMMA MineStep ==
  ASSUME OneThread, TypeOK, QueryInv, EntryInv, StartedInv, CoverInv, SyncInv,
         MineInv, [Next]_vars
  PROVE  MineInv'
<1>1. ASSUME NEW t \in Threads, NEW j \in Jobs, NEW q \in Queries,
             Schedule(t, j, q)
      PROVE  MineInv'
  <2>1. query'[j] = q /\ \A e \in Entries : mine'[e] = Left(q, e)
    BY <1>1 DEF Schedule, TypeOK
  <2>2. \A i \in Jobs : i # j /\ Scheduled(i)' /\ ~ Over(i)'
          => Scheduled(i) /\ ~ Over(i) /\ query'[i] = query[i]
    BY <1>1, FollowsFrame DEF Scheduled, Over
  <2>3. QED
    BY <2>1, <2>2 DEF MineInv, Left, Accesses
<1>2. ASSUME NEW j \in Jobs, JobStep(j)
      PROVE  MineInv'
  BY <1>2, JobStepFacts DEF MineInv
<1>3. ASSUME NEW t \in Threads,
             SyncCall(t) \/ ThreadStep(t) \/ GcEntries(t)
      PROVE  MineInv'
  <2>1. UNCHANGED <<phase, query>>
    BY <1>3, ThreadFacts
  <2>2. CASE UNCHANGED mine
    BY <2>1, <2>2 DEF MineInv, Scheduled, Over
  <2>3. CASE EventsSignalled(t) \/ ClearEntries(t)
    <3>1. SUFFICES ASSUME NEW e \in Entries, NEW j \in Jobs,
                          Scheduled(j), ~ Over(j),
                          asks[t][e] # "none", mine'[e] = asks[t][e]
                   PROVE  /\ mine'[e] = "write" => ~ Accesses(query[j], e)
                          /\ mine'[e] # "none" => ~ Changes(query[j], e)
      <4>1. \A e \in Entries :
              \/ mine'[e] = mine[e]
              \/ asks[t][e] # "none" /\ mine'[e] = asks[t][e]
        BY <2>3 DEF EventsSignalled, ClearEntries, Return
      <4>2. QED
        BY <2>1, <3>1, <4>1 DEF MineInv, Scheduled, Over
    <3>2. CASE EventsSignalled(t)
      <4>1. owned[e] = {} /\ (asks[t][e] = "write" => shared[e] = {})
        BY <3>1, <3>2 DEF EventsSignalled, SyncInv
      <4>2. /\ Reads(query[j], e) =>
                 j \in shared[e] \/ Behind(owned[e], e, j)
            /\ Changes(query[j], e) =>
                 j \in owned[e] \/ Behind(owned[e], e, j)
        BY <3>1, <3>2, SignalledCover
      <4>3. QED
        BY <3>1, <4>1, <4>2 DEF Behind, Accesses
    <3>3. CASE ClearEntries(t)
      <4>1. ~ Accesses(query[j], e)
        BY <3>1, <3>3 DEF ClearEntries, SyncInv
      <4>2. QED
        BY <4>1 DEF Accesses
    <3>4. QED
      BY <2>3, <3>2, <3>3
  <2>4. QED
    BY <1>3, <2>2, <2>3
       DEF SyncCall, SyncEntry, SyncArchetype, SyncStorage, SyncAll, Call,
           ThreadStep, CounterIsZero, GcEntries
<1>4. CASE UNCHANGED vars
  BY <1>4 DEF MineInv, Scheduled, Over, vars, jobVars
<1>5. QED
  BY <1>1, <1>2, <1>3, <1>4, Steps

\* Before the first job the invariant holds.
LEMMA InitHolds ==
  ASSUME Init
  PROVE  IInv
<1> USE DEF Init
<1>1. TypeOK
  BY DEF TypeOK, JobPhases, ThreadPCs, Permissions, NoPermission
<1>2. QueryInv /\ EntryInv /\ CounterInv /\ StartedInv /\ CoverInv /\ MineInv
  BY DEF QueryInv, EntryInv, CounterInv, StartedInv, CoverInv, MineInv,
         Scheduled
<1>3. DepsInv /\ SyncInv
  BY DEF DepsInv, SyncInv
<1>4. QED
  BY <1>1, <1>2, <1>3 DEF IInv

\* The inductive invariant, with one scheduling thread.
LEMMA IInvHolds ==
  ASSUME OneThread
  PROVE  Spec => []IInv
<1>1. Init => IInv
  BY InitHolds
<1>2. IInv /\ [Next]_vars => IInv'
  <2>1. SUFFICES ASSUME IInv, [Next]_vars
                 PROVE  IInv'
    OBVIOUS
  <2>2. TypeOK' /\ QueryInv' /\ EntryInv' /\ CounterInv' /\ StartedInv'
    BY <2>1, TypeStep, QueryStep, EntryStep, CounterStep, StartedStep DEF IInv
  <2>3. CoverInv' /\ DepsInv' /\ SyncInv' /\ MineInv'
    BY <2>1, CoverStep, DepsStep, SyncStep, MineStep DEF IInv
  <2>4. QED
    BY <2>2, <2>3 DEF IInv
<1>3. QED
  BY <1>1, <1>2, PTL DEF Spec

-----------------------------------------------------------------------------
(* The theorems.                                                           *)

(* The types of the scheduler's state, and a job depends only on jobs that *)
(* were scheduled before it, so that dependencies form no cycle.  This     *)
(* needs no assumption about the threads.                                  *)
THEOREM JobTypeCorrect == Spec => []TypeOK
<1> DEFINE Inv == TypeOK /\ QueryInv /\ EntryInv
<1>1. Init => Inv
  BY InitHolds DEF IInv
<1>2. Inv /\ [Next]_vars => Inv'
  BY TypeStep, QueryStep, EntryStep
<1>3. Inv => TypeOK
  OBVIOUS
<1>4. QED
  BY <1>1, <1>2, <1>3, PTL DEF Spec

(* What a sync function has given to the main thread no running job        *)
(* changes, or, when it may write it, even reads.                          *)
THEOREM MainThreadSafeCorrect ==
  ASSUME OneThread
  PROVE  Spec => []MainThreadSafe
<1>1. IInv => MainThreadSafe
  BY DEF IInv, MineInv, MainThreadSafe, Scheduled, Over
<1>2. QED
  BY <1>1, IInvHolds, PTL

(* Every step of the scheduler is a step JobOrder allows, or leaves what   *)
(* JobOrder sees unchanged.                                                *)
LEMMA StepRefines ==
  ASSUME IInv, [Next]_vars
  PROVE  [JO!Next]_<<Stage, query>>
<1>1. JO!Jobs = Jobs
  BY DEF JO!Jobs, Jobs
<1>2. \A i \in Jobs : Stage[i] = IF phase[i] = "waiting" THEN "scheduled"
                                 ELSE IF Over(i) THEN "over" ELSE phase[i]
  BY DEF Stage, Over
<1>3. ASSUME NEW t \in Threads, NEW j \in Jobs, NEW q \in Queries,
             Schedule(t, j, q)
      PROVE  JO!Schedule(j, q)
  <2>1. phase' = [phase EXCEPT ![j] = "waiting"] /\ phase[j] = "none"
    BY <1>3 DEF Schedule
  <2>2. Stage[j] = "none" /\ \A i \in Jobs : i < j => Stage[i] # "none"
    BY <1>2, <1>3 DEF Schedule, Over
  <2>3. Stage' = [Stage EXCEPT ![j] = "scheduled"]
    BY <2>1 DEF Stage, Over, IInv, TypeOK
  <2>4. QED
    BY <1>1, <1>3, <2>2, <2>3 DEF Schedule, JO!Schedule
<1>4. ASSUME NEW j \in Jobs, Start(j)
      PROVE  JO!Start(j)
  <2>1. phase[j] = "waiting" /\ phase' = [phase EXCEPT ![j] = "running"]
        /\ query' = query /\ \A i \in deps[j] : phase[i] = "done"
    BY <1>4 DEF Start, JobMoves
  <2>2. \A i \in Jobs : JO!MustFollow(j, i) => Stage[i] = "over"
    <3>1. \A i \in Jobs : Follows(j, i) => Over(i)
      BY <2>1, DependenciesSuffice DEF IInv
    <3>2. QED
      BY <1>2, <3>1, FollowsIsMustFollow DEF Over
  <2>3. Stage[j] = "scheduled" /\ Stage' = [Stage EXCEPT ![j] = "running"]
    BY <2>1 DEF Stage, Over, IInv, TypeOK
  <2>4. QED
    BY <1>1, <2>1, <2>2, <2>3 DEF JO!Start
<1>5. ASSUME NEW j \in Jobs, EndJob(j)
      PROVE  JO!End(j)
  <2>1. phase[j] = "running" /\ phase' = [phase EXCEPT ![j] = "ended"]
        /\ query' = query
    BY <1>5 DEF EndJob, JobMoves
  <2>2. Stage[j] = "running" /\ Stage' = [Stage EXCEPT ![j] = "over"]
    BY <2>1 DEF Stage, Over, IInv, TypeOK
  <2>3. QED
    BY <2>1, <2>2 DEF JO!End
<1>6. ASSUME NEW j \in Jobs, ReleaseStorage(j) \/ Signal(j)
      PROVE  UNCHANGED <<Stage, query>>
  <2>1. PICK p \in {"released", "done"} :
          Over(j) /\ phase' = [phase EXCEPT ![j] = p] /\ query' = query
    BY <1>6 DEF ReleaseStorage, Signal, JobMoves, Over
  <2>2. QED
    BY <2>1 DEF Stage, Over, IInv, TypeOK
<1>7. ASSUME NEW t \in Threads,
             SyncCall(t) \/ ThreadStep(t) \/ GcEntries(t)
      PROVE  UNCHANGED <<Stage, query>>
  <2>1. UNCHANGED <<phase, query>>
    BY <1>7, ThreadFacts DEF IInv
  <2>2. QED
    BY <2>1 DEF Stage, Over
<1>8. CASE UNCHANGED vars
  BY <1>8 DEF Stage, Over, vars, jobVars
<1>9. QED
  BY <1>1, <1>3, <1>4, <1>5, <1>6, <1>7, <1>8, Steps DEF JO!Next, JobStep

(* The scheduler keeps the order of JobOrder, whatever the queries are and *)
(* however often the main thread synchronises in between.                  *)
THEOREM OrderedCorrect ==
  ASSUME OneThread
  PROVE  Spec => Ordered
<1>1. Init => JO!Init
  BY DEF Init, JO!Init, Stage, Over, JO!Jobs, Jobs
<1>2. IInv /\ [Next]_vars => [JO!Next]_<<Stage, query>>
  BY StepRefines
<1>3. QED
  BY <1>1, <1>2, IInvHolds, PTL DEF Spec, Ordered, JO!Spec
=============================================================================
