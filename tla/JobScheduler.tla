---------------------------- MODULE JobScheduler ----------------------------
(***************************************************************************)
(* The job scheduler of the entity component system (ecs/scheduler.cpp):   *)
(* the main thread of a storage schedules jobs, worker fibers run them,    *)
(* and the dependency entries order the jobs that access the same          *)
(* components.  The sync functions let the main thread itself access       *)
(* components.                                                             *)
(*                                                                         *)
(* The events in an entry are weak pointers: an event expires when its     *)
(* job is done and nobody else holds it.  Jobs never touch the entries, so *)
(* scheduling a job is one step with regard to them; every access to an    *)
(* entry comes from the main thread of its storage, except those of        *)
(* sync_all and gc_entries.  Resources (allResources) are left out: the    *)
(* code never sizes that vector, so every use of it is out of range.       *)
(***************************************************************************)
EXTENDS JobAccess, FiniteSets

CONSTANTS
  Threads,        \* threads that schedule and wait
  Storages,       \* dual_storage_t objects bound to the scheduler
  Main,           \* currentFiber of each storage
  Archetypes,
  ArchetypeOf,    \* the archetype of an entry
  StorageOf,      \* the storage of an archetype
  QueryStorage,   \* the storage a query was made for
  NoQuery, NoStorage

StorageOfEntry(e) == StorageOf[ArchetypeOf[e]]

ASSUME StoragesAssumption ==
  /\ Main \in [Storages -> Threads]
  /\ ArchetypeOf \in [Entries -> Archetypes]
  /\ StorageOf \in [Archetypes -> Storages]
  /\ QueryStorage \in [Queries -> Storages]
  /\ NoQuery \notin Queries
  /\ NoStorage \notin Storages
  /\ \A q \in Queries : \A i \in DOMAIN Params[q] :
       StorageOfEntry(Params[q][i].entry) = QueryStorage[q]

VARIABLES
  owned,          \* job_dependency_entry_t::owned
  shared,         \* job_dependency_entry_t::shared
  allCounter,     \* the jobs allCounter counts
  counter         \* the jobs dual_storage_t::counter counts

VARIABLES
  phase,          \* where each job is
  query,          \* the query it was scheduled with
  deps            \* the events it waits for before it starts

VARIABLES
  pc,             \* where each scheduling thread is
  waits,          \* the events a sync function waits for
  target,         \* the storage sync_storage waits for
  asks,           \* the entries the sync function is about, and how
  mine            \* history: access the main thread of an entry has got

entryVars  == <<owned, shared>>
jobVars    == <<phase, query, deps>>
threadVars == <<pc, waits, target, asks>>
vars == <<entryVars, allCounter, counter, jobVars, threadVars, mine>>

JobPhases    == {"none", "waiting", "running", "ended", "released", "done"}
ThreadPCs    == {"idle", "events", "all", "storage", "clear"}
Permissions  == {"none", "read", "write"}
NoPermission == [e \in Entries |-> "none"]

(* The types, and: a job waits only for jobs scheduled before it.         *)
TypeOK ==
  /\ owned \in [Entries -> SUBSET Jobs]
  /\ shared \in [Entries -> SUBSET Jobs]
  /\ allCounter \in SUBSET Jobs
  /\ counter \in [Storages -> SUBSET Jobs]
  /\ phase \in [Jobs -> JobPhases]
  /\ query \in [Jobs -> Queries \cup {NoQuery}]
  /\ deps \in [Jobs -> SUBSET Jobs]
  /\ \A j \in Jobs : \A i \in deps[j] : i < j
  /\ pc \in [Threads -> ThreadPCs]
  /\ waits \in [Threads -> SUBSET Jobs]
  /\ target \in [Threads -> Storages \cup {NoStorage}]
  /\ asks \in [Threads -> [Entries -> Permissions]]
  /\ mine \in [Entries -> Permissions]

Init ==
  /\ owned = [e \in Entries |-> {}]
  /\ shared = [e \in Entries |-> {}]
  /\ allCounter = {}
  /\ counter = [s \in Storages |-> {}]
  /\ phase = [j \in Jobs |-> "none"]
  /\ query = [j \in Jobs |-> NoQuery]
  /\ deps = [j \in Jobs |-> {}]
  /\ pc = [t \in Threads |-> "idle"]
  /\ waits = [t \in Threads |-> {}]
  /\ target = [t \in Threads |-> NoStorage]
  /\ asks = [t \in Threads |-> NoPermission]
  /\ mine = NoPermission

-----------------------------------------------------------------------------
(* Scheduling.                                                             *)

(* Mutant: the event of the job is stored before the others are read.      *)
WithItself(q, e) ==
  IF Accesses(q, e) THEN {CHOOSE j \in Jobs : phase[j] = "none"} ELSE {}

(* update_entry: the jobs one with query q has to wait for.                *)
EntryDeps(q, e) ==
  (IF Reads(q, e) \/ Writes(q, e) THEN owned[e] ELSE {})
    \cup (IF Changes(q, e) THEN shared[e] ELSE {})

(* update_entry: what it leaves in the entry.                              *)
NewOwned(j, q, e) ==
  (IF Writes(q, e) THEN {} ELSE owned[e])
    \cup (IF Changes(q, e) THEN {j} ELSE {})

NewShared(j, q, e) ==
  (IF Writes(q, e) THEN {} ELSE shared[e])
    \cup (IF Reads(q, e) THEN {j} ELSE {})

(* What a main thread may still do once a job with query q is scheduled.   *)
Left(q, e) ==
  IF Changes(q, e) THEN "none"
  ELSE IF Reads(q, e) /\ mine[e] # "none" THEN "read" ELSE mine[e]

(* schedule_ecs_job, schedule_job and their update_dependencies.           *)
Schedule(t, j, q) ==
  /\ pc[t] = "idle"
  /\ Main[QueryStorage[q]] = t
  /\ phase[j] = "none"
  /\ \A i \in Jobs : i < j => phase[i] # "none"
  /\ deps' = [deps EXCEPT ![j] = UNION {EntryDeps(q, e) : e \in Entries}]
  /\ owned' = [e \in Entries |-> NewOwned(j, q, e)]
  /\ shared' = [e \in Entries |-> NewShared(j, q, e)]
  /\ allCounter' = allCounter \cup {j}
  /\ counter' = [counter EXCEPT ![QueryStorage[q]] = @ \cup {j}]
  /\ phase' = [phase EXCEPT ![j] = "waiting"]
  /\ query' = [query EXCEPT ![j] = q]
  /\ mine' = [e \in Entries |-> Left(q, e)]
  /\ UNCHANGED threadVars

-----------------------------------------------------------------------------
(* The jobs.                                                               *)

JobMoves(j, from, to) ==
  /\ phase[j] = from
  /\ phase' = [phase EXCEPT ![j] = to]
  /\ UNCHANGED <<entryVars, query, threadVars, mine>>

(* All events it depends on are signalled, or expired; init, the callbacks *)
(* and teardown follow.                                                    *)
Start(j) ==
  /\ \A i \in deps[j] : phase[i] = "done"
  /\ JobMoves(j, "waiting", "running")
  /\ UNCHANGED <<allCounter, counter, deps>>

(* The deferred block at the end of the job ...                            *)
EndJob(j) ==
  /\ JobMoves(j, "running", "ended")
  /\ allCounter' = allCounter \ {j}
  /\ UNCHANGED <<counter, deps>>

(* Mutant: the counter of the storage is not decremented.                  *)
NotReleased(j) ==
  /\ JobMoves(j, "ended", "released")
  /\ UNCHANGED <<allCounter, counter, deps>>

ReleaseStorage(j) ==
  /\ JobMoves(j, "ended", "released")
  /\ counter' = [counter EXCEPT ![QueryStorage[query[j]]] = @ \ {j}]
  /\ UNCHANGED <<allCounter, deps>>

(* ... and the event of the task, signalled after it; the task is freed.   *)
Signal(j) ==
  /\ JobMoves(j, "released", "done")
  /\ deps' = [deps EXCEPT ![j] = {}]
  /\ UNCHANGED <<allCounter, counter>>

-----------------------------------------------------------------------------
(* The sync functions, called by the main threads.                         *)

(* The call starts to wait at l; it is about the entries in E.             *)
Call(t, l, E, permission) ==
  /\ pc[t] = "idle"
  /\ pc' = [pc EXCEPT ![t] = l]
  /\ asks' = [asks EXCEPT ![t] =
                [e \in Entries |-> IF e \in E THEN permission ELSE "none"]]
  /\ UNCHANGED <<allCounter, counter, jobVars, mine>>

(* It returns: the main thread may access the entries it asked for.        *)
Return(t) ==
  /\ pc' = [pc EXCEPT ![t] = "idle"]
  /\ mine' = [e \in Entries |->
                IF Main[StorageOfEntry(e)] = t /\ asks[t][e] # "none"
                     /\ mine[e] # "write"
                  THEN asks[t][e] ELSE mine[e]]
  /\ waits' = [waits EXCEPT ![t] = {}]
  /\ target' = [target EXCEPT ![t] = NoStorage]
  /\ asks' = [asks EXCEPT ![t] = NoPermission]
  /\ UNCHANGED <<allCounter, counter, jobVars>>

(* Mutant: the events of the readers are dropped instead of waited for.    *)
OnlyOwned(e, readonly) == owned[e]

(* What sync_entry collects from an entry.                                 *)
Collected(e, readonly) == owned[e] \cup (IF readonly THEN {} ELSE shared[e])

SyncEntry(t, e, readonly) ==
  /\ Main[StorageOfEntry(e)] = t
  /\ Call(t, "events", {e}, IF readonly THEN "read" ELSE "write")
  /\ waits' = [waits EXCEPT ![t] = Collected(e, readonly)]
  /\ owned' = [owned EXCEPT ![e] = {}]
  /\ shared' = IF readonly THEN shared ELSE [shared EXCEPT ![e] = {}]
  /\ UNCHANGED target

SyncArchetype(t, a) ==
  LET E == {e \in Entries : ArchetypeOf[e] = a}
  IN  /\ Main[StorageOf[a]] = t
      /\ Call(t, "events", E, "write")
      /\ waits' = [waits EXCEPT ![t] = UNION {Collected(e, FALSE) : e \in E}]
      /\ owned' = [e \in Entries |-> IF e \in E THEN {} ELSE owned[e]]
      /\ shared' = [e \in Entries |-> IF e \in E THEN {} ELSE shared[e]]
      /\ UNCHANGED target

EventsSignalled(t) ==
  /\ pc[t] = "events"
  /\ \A j \in waits[t] : phase[j] = "done"
  /\ Return(t)
  /\ UNCHANGED entryVars

SyncAll(t) ==
  /\ Call(t, "all", Entries, "write")
  /\ UNCHANGED <<entryVars, waits, target>>

SyncStorage(t, s) ==
  /\ Main[s] = t
  /\ Call(t, "storage", {e \in Entries : StorageOfEntry(e) = s}, "write")
  /\ target' = [target EXCEPT ![t] = s]
  /\ UNCHANGED <<entryVars, waits>>

(* The wait for the counter ends ...                                       *)
CounterIsZero(t) ==
  /\ \/ pc[t] = "all" /\ allCounter = {}
     \/ pc[t] = "storage" /\ counter[target[t]] = {}
  /\ pc' = [pc EXCEPT ![t] = "clear"]
  /\ UNCHANGED <<entryVars, allCounter, counter, jobVars, waits, target, asks,
                 mine>>

(* ... and the entries are cleared, without a lock.                        *)
ClearEntries(t) ==
  LET Kept(x) == [e \in Entries |-> IF asks[t][e] = "none" THEN x[e] ELSE {}]
  IN  /\ pc[t] = "clear"
      /\ owned' = Kept(owned)
      /\ shared' = Kept(shared)
      /\ Return(t)

(* Mutant: gc_entries drops events that are not signalled.                 *)
MayBeExpired == {j \in Jobs : phase[j] # "none"}

(* Events nobody needs to hold any more: of jobs that are done.            *)
Expirable == {j \in Jobs : phase[j] = "done"}

GcEntries(t) ==
  /\ pc[t] = "idle"
  /\ \E X \in SUBSET Expirable :
       /\ owned' = [e \in Entries |-> owned[e] \ X]
       /\ shared' = [e \in Entries |-> shared[e] \ X]
  /\ UNCHANGED <<allCounter, counter, jobVars, threadVars, mine>>

-----------------------------------------------------------------------------
JobStep(j) == Start(j) \/ EndJob(j) \/ ReleaseStorage(j) \/ Signal(j)

(* A thread goes on with the sync function it is in.                       *)
ThreadStep(t) == EventsSignalled(t) \/ CounterIsZero(t) \/ ClearEntries(t)

ThreadCall(t) ==
  \/ \E j \in Jobs, q \in Queries : Schedule(t, j, q)
  \/ \E e \in Entries, readonly \in BOOLEAN : SyncEntry(t, e, readonly)
  \/ \E a \in Archetypes : SyncArchetype(t, a)
  \/ \E s \in Storages : SyncStorage(t, s)
  \/ SyncAll(t) \/ GcEntries(t)

Next ==
  \/ \E j \in Jobs : JobStep(j)
  \/ \E t \in Threads : ThreadStep(t) \/ ThreadCall(t)

Spec == Init /\ [][Next]_vars

(* The fiber scheduler resumes a fiber whose event is signalled, and the   *)
(* operating system runs every thread; nothing makes a thread call.        *)
Fairness ==
  /\ \A j \in Jobs : WF_vars(JobStep(j))
  /\ \A t \in Threads : WF_vars(ThreadStep(t))

FairSpec == Spec /\ Fairness

-----------------------------------------------------------------------------
(* Properties.                                                             *)

Over(j) == phase[j] \in {"ended", "released", "done"}

(* Jobs as JobOrder sees them.                                             *)
Stage ==
  [j \in Jobs |-> CASE phase[j] = "waiting" -> "scheduled"
                    [] Over(j)              -> "over"
                    [] OTHER                -> phase[j]]

JO == INSTANCE JobOrder WITH stage <- Stage

(* The scheduler keeps the order JobOrder describes: dependencies that are *)
(* dropped from the entries are implied by those that remain.              *)
Ordered == JO!Spec

(* When a sync function has returned, and until the main thread schedules  *)
(* another job on the entry, no running job changes what the main thread   *)
(* may read, and none accesses what it may write.                          *)
MainThreadSafe ==
  \A e \in Entries, j \in Jobs :
    phase[j] = "running" =>
      /\ mine[e] = "write" => ~ Accesses(query[j], e)
      /\ mine[e] = "read" => ~ Changes(query[j], e)

(* Every job that was scheduled runs to its end: no cycle of dependencies. *)
JobsEnd == \A j \in Jobs : phase[j] = "waiting" ~> phase[j] = "done"

(* Every sync function returns.                                            *)
SyncsReturn == \A t \in Threads : pc[t] # "idle" ~> pc[t] = "idle"

(* "dependencies between ecs jobs are automatically resolved"              *)
(* (include/ecs/dual.h:769): jobs that conflict never run at once.  The    *)
(* code does not keep it (see JobOrder), and no run checks it.             *)
NoRace ==
  \A i, j \in Jobs :
    i < j /\ phase[i] = "running" /\ phase[j] = "running"
      => ~ Conflict(query[i], query[j])
=============================================================================
