# Formal models of SakuraEngine's concurrent core

TLA+ specifications, TLC configurations and TLAPS proofs for the parts of
SakuraEngine in which several threads, fibers or callbacks share state. The
models are translated from the C++ sources; `PROJECT.json` maps every definition
to the lines it stands for.

## 1. The system

SakuraEngine is a game engine: a runtime module (platform layer, I/O, tasks,
entity component system, resources, module loading, GPU abstraction), a renderer,
a render graph and tools on top of it. Paths below are relative to
`src/modules/`.

| Component | State it keeps | Operations | Hard behaviour | Correct when |
|---|---|---|---|---|
| **I/O services** `runtime/src/utils/io_service_util.hpp`, `ram_service.cpp`, `threaded_service.cpp` | a concurrent queue and a deque of tasks, service and thread status, the status words and cancel flags inside the clients' request objects | `request`, `try_cancel`, `defer_cancel`, `drain`, `stop`, `run`, `set_sleep_time`, `destroy`; one service thread: update, sort, peek, execute, sleep | no lock in lockless mode; wakeups that get lost; the client frees a request as soon as it looks ended; statuses stored by several threads | no task lost, duplicated or touched after it ended; callbacks in order; urgent tasks first; calls return |
| **ECS job scheduler** `runtime/src/ecs/scheduler.cpp` | per archetype and component the events of readers (`shared`) and writers (`owned`), two kinds of counters; inside a job the tasks and batches it is cut into | `schedule_ecs_job`, `schedule_job`, `sync_archetype`, `sync_entry`, `sync_query`, `sync_all`, `sync_storage`, `gc_entries` | jobs end while the main thread collects their events; entries forget events; counters and events end at different times; batches of a job run at once | conflicting jobs never overlap, jobs start in the promised order, what the main thread synced is not touched, a job gives every entity to its callback once, everything ends |
| **Resource system** `runtime/src/resource/` | records with reference lists and a status, requests with a phase, a lock-free queue of requests, lists of driven and of failed requests | resolve and unload of handles, `Update`, every phase of a request, `WaitRequest`, `Shutdown` | a load cancelled half-way, dependencies released from inside `Update`, I/O and deserialisation in flight | a referenced record is never destroyed; installed implies dependencies installed; a status says what the factory has made; what is held gets loaded, what is not held goes |
| **Entity registry** `runtime/src/ecs/entities.cpp` | entries with versions, a free list | `new_entities`, `free_entities`, `fill_entities`, `move_entities`, `shrink`, `reset` | stale identifiers, 8-bit versions, free list and entries must agree | a live entity is never forgotten or handed out twice |
| **ECS storage** `runtime/src/ecs/storage.cpp`, `archetype.cpp`, `query.cpp` | groups with a list of chunks, full ones first, a size and `firstFree`; chunks with entities and an index | `allocate`, `instantiate`, `destroy`, `cast`, `clear`, `reset`, `merge`, `defragment`, `pack_entities`, queries | long sequences of calls that move entities between chunks and chunks between groups | registry, lists and counts agree whatever sequence of calls ran |
| **VRAM service** `runtime/src/utils/vram_service.cpp` | batches of upload tasks with steps, command buffers, fences | request, batch steps | a batch is submitted once, when all its tasks are ready | a task finishes only after the GPU did |
| **Module manager** `runtime/src/module/module_manager.cpp` | a graph of modules, active flags | init and destroy the graph, patch | order, cycles, failures half-way | a module is active only while its dependencies are |
| **PSO and shader maps** `renderer/src/pso_map.cpp`, `shader_map.cpp` | reference counts, frames, requests in flight | install, free, garbage-collect | asynchronous installation against collection | nothing in use is collected |
| **Task layer** `runtime/include/task/task.hpp` | marl fibers, events, counters | schedule, wait, signal | vendored scheduler underneath | — |
| **Render graph, cgpu, type system, serialisation, scripting, GUI, networking, tools** | GPU objects, tables | — | sequential, pure I/O or generated | — |

How they meet: the resource system requests files from the I/O service, and its
`Update` is polled by the main thread; the renderer's maps issue requests to the
I/O service and continue in its callbacks; the VRAM service is a threaded I/O
service whose tasks are batches; jobs of the ECS run as fibers of the task layer
and read components through the chunk views the storage yields; the main thread
syncs before it touches components itself. Nearly everything else is sequential:
its difficulty is in long sequences of calls, not in threads.

## 2. The modules

| Module | What it is |
|---|---|
| `AsyncRequest` | what a service promises about one request: enqueued, then cancelled or taken up and executed stage by stage, every callback once per issue |
| `IOService` | the detailed service: clients, service thread, queue, task container, condition variable, statuses |
| `MCIOService` | instances of it |
| `SequenceLemmas` | what removing, permuting and concatenating does to sequences, and how many elements one without repetition has, proved |
| `IOServiceProofs` | the theorems about `IOService` |
| `JobAccess` | what a query tells the scheduler: entries and access modes |
| `JobOrder` | the order in which jobs may start, in terms of queries alone |
| `JobScheduler` | the detailed scheduler: entries, counters, jobs, scheduling threads |
| `MCJobScheduler` | instances of it |
| `JobSchedulerProofs` | the theorems about `JobScheduler` |
| `ParallelFor` | what a job over entities promises to its callback |
| `JobBatches` | how one job of `schedule_ecs_job` cuts views into tasks and batches and runs them |
| `MCJobBatches` | instances of it |
| `JobBatchesProofs` | the theorems about `JobBatches` |
| `ResourceSystem` | records, requests and `Update`, with clients, I/O, tasks and installations beside it |
| `MCResourceSystem` | instances of it |
| `ResourceSystemProofs` | the theorems about `ResourceSystem` |
| `EntitySet` | what the entity storage promises: entities in groups, handles that are never shared |
| `EntityStorage` | registry, chunks and groups, and the calls that work chunk by chunk |
| `MCEntityStorage` | instances of it |
| `EntityStorageProofs` | the inductive invariant of `EntityStorage` and the theorems that follow |
| `EntityStorageRefinement` | that `EntityStorage` implements `EntitySet`, proved |

`JobScheduler` and `JobBatches` are the same job seen from outside and from
inside: what `JobScheduler` calls running (from `Start` to `EndJob`) is what
`JobBatches` spells out. They share no state but the end of the job, and are
checked apart.

### IOService

State and code: `status` and `cancel` are the words inside
`skr_async_request_t`; `queue` is `TaskContainer::task_requests` (a
`moodycamel`-style concurrent queue: FIFO per producer, no order between
producers), `tasks` the deque, `taskMutex` the lock of locked mode;
`serviceStatus` is `_running_status`, `threadStatus` `_thread_status`. The
service thread has a program counter `svc` with one step per access to something
another thread may change: `LoopTop`, `BeginUpdate`, `Dequeue`/`DequeueFails`,
`CancelTask`/`KeepTask`/`EndCancels`, `SortTasks`, `FallAsleep`, `WaitForWake`,
`Timeout`, `SpuriousWake`, `WakeUp`, `Peek`/`PeekNothing`, `NotifyStage`,
`StoreStage`. A client has a program counter and the request it works on; a call
is a chain such as `Request → EnqueueStatus → Push → ResetCancel → Wake`.

`Lockless` selects the mode; then `Lock` does nothing. A fresh request object is
zero or, with `ZeroInit = FALSE`, holds any cancel flag, as the uninitialised
`skr_async_request_t` of `tests/fs/test/main.cpp` does. The two
instances of the stages, `RamStages` and `ThreadedStages`, are the RAM service
and the plain threaded service (the runs use the first, the theorems hold for
both). What the service does with a file (open, size,
read) is left out: a task is the sequence of its status callbacks.

External code is modelled by its contract: the concurrent queue, the stable and
the partial sort of EASTL (any permutation that is sorted as far as the function
guarantees), and the condition variable, which may wake without a signal and
forgets a signal nobody waits for.

`AsyncRequest` is refined by `IOService` (`Lifecycle`), with the callbacks as
the visible phase of a request.

### JobScheduler

A job is a number, in the order of scheduling. `owned[e]` and `shared[e]` are
the two lists of `job_dependency_entry_t`; as the code only iterates over them
and they hold weak pointers, a list is a set of jobs, and an expired pointer is
the event of a job that is done. `Schedule` is `schedule_ecs_job`,
`schedule_job` and `update_dependencies` in one step: entries are touched only
by the main thread of the storage, so no other step of the instance can come in
between (two main threads are hazard `scheduler.cpp:208`). A job then goes
through `Start` (all events it depends on are signalled), `EndJob` and
`ReleaseStorage` (the two counters of the deferred block, one after the other)
and `Signal` (the event). The sync functions are split where they wait:
`SyncEntry` and `SyncArchetype` take the events out of the entries, and
`EventsSignalled` returns; `SyncAll` and `SyncStorage` wait for a counter
(`CounterIsZero`), and `ClearEntries` clears afterwards, without a lock.
`sync_query` is a sequence of `SyncEntry`. `mine` is a history variable: the
access to components a return of a sync function gave to the main thread, until
it schedules a job that takes it back.

`JobAccess` keeps the rule of `syncedEntry`: the first parameter about an entry
decides (`FirstAccess`), and the ones after it are ignored. `Conflict` looks at all
of them.

`JobOrder` states the promise without entries or events. It is weaker than
"conflicting jobs never overlap" exactly where the code is: an atomic access
follows earlier readers, but not earlier exclusive writers, and only the first
access of a job to an entry counts. `NoRace` states what `dual.h:769` says, and
fails for exactly these two reasons; it stays in the module, and no run checks it.

### JobBatches

A job is what its query yields: `views` (ranges of one chunk each, those of a chunk
one after the other, as the plain loop of `query.cpp:862-886` makes them from masks),
the group sizes added up (`entityCount`, at least as many as the views have), the batch
size, and for each parameter whether it is a component of chunks, written, or accessed at
random. `tasks`, `batches`,
`startIndex`, `batchRemain`, `currentChunk`, `startTask` and `allocated` are the
locals of `scheduler.cpp:433-521`; the job's fiber takes one step per view or per part
of a view (`ProcessView`, `ScheduleWholeView`, `ScheduleSubView`), each batch a
step into the callback and one out of it (`ProcessTask`, `TaskProcessed`) and a
decrement of the counter (`EndBatch`). `HasWriteChunkComponent` is what the loop
of lines 363-376 computes, which every parameter overwrites.

It refines `ParallelFor` (`ImplementsParallelFor`): an entity is to do until a call
that was given it begins, calls that may touch any entity are alone, calls for one
chunk are not made at once when its components are written, and the job is over
after the last call.

### ResourceSystem

| Model | Code |
|---|---|
| `status`, `refs`, `active` | `loadingStatus`, `references` and `activeRequest` of `skr_resource_record_t`; `"ABSENT"` where there is no record |
| `req` | the `SResourceRequestImpl` objects; `rec = NoRecord` when their record has gone |
| `queue`, `updating`, `failed` | `requests`, `toUpdateRequests`, `failedRequests` of `SResourceSystemImpl` |
| `object`, `overlooked` | histories: what the factory has made; which records `LoadResource` took for loaded while they were being unloaded |
| `pc`, `at`, `spin`, `calls` | where `Update` is, and which handles of dependencies it has still to resolve or unload |

`Update` runs in steps: `BeginUpdate` takes over the queue, `ClearRequest` looks at one
request as `_ClearFinishedRequests` does, `UpdateRequest` is one turn of a request's
inner loop (the redirection of `_UpdateLoad`/`_UpdateUnload`, then the handler of its
phase), `ScheduleSerde` is `_UpdateAsyncSerde`. Handles of dependencies are resolved
and released inside a turn in the code; as these calls enqueue requests and destroy
records themselves, each is a step (`DependencyCall`), and no turn begins before
all are made. They come in any order: the code's order is that of a header's list,
about which nothing is assumed, but that a turn that does both releases old handles before
it resolves new ones. Clients call on the thread of `Update`, between two
updates, as the engine does. I/O, tasks and installations in the background end at any
moment (`IOEnds`, `LoadTask`, `InstallEnds`).

`RequestResource` is the whole of `OnRequestFileFinished` and what `Update` does around it.
`FillRequest` assigns the header that was read over the record's: on a second turn (a load
cancelled in `WAITFOR_IO` and wanted again) the handles resolved before are released, and the
new ones stay unresolved as long as `dependenciesLoaded` is true. `Update` goes on to `IO`
even when the type has no factory (`Factories`) and the status has just been set to `ERROR`. The
default `Unload` of a factory clears the dependencies of the header; a factory that overrides it
(`OwnUnload`) need not.

`Defined` cuts a behaviour off where the code would touch freed memory or a null pointer. What
follows has no meaning in the code, and the other properties are about what comes before. Each
part of `Defined` is accounted for:

| Part | Cuts off where | Checked by |
|---|---|---|
| `HandlesLive` | a record is destroyed under a handle | `ResourceSafety`, as `HeldRecordsLive`: only `overlooked` records |
| `BuffersLive` | a task reads, or a cancellation frees, a freed buffer | `ResourceSafety` |
| `IOTargetsLive` | a request ends with I/O in flight | `ResourceCancel`, violated |
| `RequestsHaveRecords` | a request has a turn or deserialises without a record | `ResourceLiveness`; it fails when a client holds the dependency too (section 5) |
| `FactoriesFound` | a request reads its file without a factory | no run: it fails whenever a type has none (section 5), and in the runs all have one |

### EntityStorage

| Model | Code |
|---|---|
| `entries`, `size`, `freeEntries` | `entity_registry_t`: an entry is a chunk, a place in it, a version |
| `ents`, `pt`, `group`, `index` | a `dual_chunk_t`: its entities (`count` is their number), pool type, group, index |
| `chunks`, `firstFree`, `groupSize` | `chunks`, `firstFree` and `size` of a `dual_group_t` |
| `task` | the call that is running, where it works chunk by chunk |

The calls are `Allocate`, `Cast`, `CastGroup`, `Destroy`, `CastToNoGroup` and `Clear`; the
first three and the last go on in steps, one per chunk (`NewChunk`, `AllocateView`, `CastPart`,
`EndCast`, `AdoptChunk`, `ClearChunk`). Between them callbacks of the caller run, which
do not call the storage. `ResizeChunk` is `resize_chunk` with all it calls: `mark_full`,
`mark_free`, `remove_chunk` and the return of an empty chunk to its pool. `AddedTo` is the
list after `add_chunk`, the overlapping copy of `archetype.cpp:367` as the compiler
leaves it. Component data is left out; where it goes, entities go.

Groups differ in components or in tags. `construct_group` strips tags and meta entities to find
the archetype (`archetype.cpp:200`), and `dead` is a tag (`type_registry.hpp:24`): so a group
and the group of its dying entities always share an archetype (`ConstantsTyped`), and a whole
chunk whose entities are destroyed is handed over (`MoveChunk`). Handing over is right
as long as `add_chunk` moves at most one chunk out of the way; with a full chunk and two chunks
that are not full its copy loses a chunk. `Crowds` is such a step, and `TidySpec` the
specification of the behaviours without: what comes after a chunk was lost is not
looked at, as with `Defined` above. `StorageTagging` runs `Spec` and shows the loss.

`EntityStorage` refines `EntitySet` (`ImplementsEntitySet`): chunks, indices and the
free list disappear, and what remains is where an entity is and which version its
handle has. `SizesAgree` counts places as a set (`Held`), so that no sum over chunks is
needed, which a proof could not unfold.

## 3. The runs

All runs check deadlock unless said otherwise.

| Run | Checks | Instance | Shows |
|---|---|---|---|
| `LocklessSafety` | `TypeOK`, `HeldOnce`, `HeldUntilEnded`, `Lifecycle`, `UrgentFirst` | lockless, partial sort, 2 clients, 2 requests of different priority issued any number of times, uninitialised flags, spurious wakes | nothing is lost, duplicated or touched after it ended; sorting half of the container is enough |
| `LockedSafety` | `HeldUntilEnded`, `NoSpuriousCancel`, `Lifecycle`, `NoOvertaking` | locked, stable sort, both cancellations, stop and run | the same in locked mode, and only asked-for cancellations; requests of equal priority keep their order |
| `FiniteSleepLiveness` | `Served`, `DrainReturns` | lockless, finite sleep time, fairness | every request ends, `drain` returns |
| `JobOrdering` | `TypeOK`, `MainThreadSafe`, `Ordered`, `JobsEnd`, `SyncsReturn` | 3 jobs, 3 queries on 2 entries, beside another storage; one main thread, fairness | order kept, sync functions safe, everything ends |
| `JobBatches` | `TypeOK`, `IndicesAgree`, `BatchesBounded`, `ImplementsParallelFor`, `JobEnds` | every selection of a chunk of 3 entities and one of 2, batch sizes 0 to 4, three kinds of parameters, with and without subqueries; fairness | every entity once, at its index, batches as large as asked for; the job ends |
| `ResourceSafety` | `TypeOK`, `HeldRecordsLive`, `RequestsAgree`, `DependenciesInstalled`, `StatusTruthful`, `BuffersLive` | a resource and its dependency, a client with handles of both, installation required, every failure; the resource keeps its dependencies when unloaded | records, requests, handles and objects agree |
| `ResourceLiveness` | `RequestsHaveRecords`, `LoadsEnd`, `UnloadsEnd` | handles of the resource only, with and without installation, the dependency read asynchronously, deserialisation in tasks that may fail; fairness | what is held gets loaded, and installed where that was asked for; what is not held goes; no record goes before its request has had its turn |
| `ResourceCancel` | `IOTargetsLive` — violated | no failures | a cancelled request is deleted with its I/O in flight |
| `ResourceReload` | `LoadsEnd` — violated | no failures, the resource read asynchronously; fairness | a load cancelled while its file is read, and wanted again, waits for ever for dependencies it has let go |
| `EntityStorageSafety` | `TypeOK`, `EntriesAgree`, `FreeListAgrees`, `ListsAgree`, `FullFirst`, `SizesAgree`, `ImplementsEntitySet` | `TidySpec`; 4 entities, 3 chunks, a group and the group of its dying entities, of one archetype | registry, chunks, lists and counts agree, also when chunks are handed over |
| `EntityStorageLiveness` | `EntriesAgree`, `CallsReturn` | `FairSpec`; 3 entities, 3 chunks of all three pools, the two groups and a third of another archetype, some of whose chunks hold no entity; fairness | loops end, and entities stay where the registry says when they move between archetypes and pools |
| `StorageTagging` | `AllListed` — violated | `Spec`; the instance of `EntityStorageSafety` | a full chunk handed to a group with two partly filled ones makes it lose one |

*Deadlock.* Where the system really may stop the run has `CHECK_DEADLOCK FALSE`: in the
I/O runs with `destroy`, with sleep time MAX, or when every request is issued
once, all clients may be done while the service thread sleeps or has gone;
`JobBatches` ends with its job; in the resource runs a behaviour ends where `Defined`
fails; in the storage runs a call stops when the pool has no chunk left, and in `TidySpec`
before a step of `Crowds`. `LockedSafety` and `JobOrdering` never stop and check deadlock.

*Bounds and why they are enough.*

* I/O: two requests of two clients reach every interleaving of enqueue, cancel, take-up
  and reuse of a request object. The number of issues is not bounded where `Reuse` is
  TRUE: the state space is finite by itself. A third request would give a
  sort a middle that is not the front of the rest; `UrgentFirst` was also checked with three
  requests of one client and finite sleep time, where it holds, and is proved for any number.
* Jobs: `MaxJobs = 3` gives the transitive cases, a writer that stands for those it
  displaced and a successor of it; with two entries a job may be behind another in one
  and beside it in the other. The queries are chosen so that all three modes meet on
  one entry and the two entries are crossed (`writeXreadY`, `readXwriteY`). The second
  storage only gives `sync_all` something else to look at. The theorems of section 4 have
  none of these bounds.
* Batches: 5 entities in 2 chunks and batch sizes up to 4 give views that end before, with and
  after their batch, batches that end with, inside and between chunks, and masks that
  leave less than `entityCount`.
* Resources: one dependency is enough for every order of two records' requests. Beside one
  active request each, failed requests are kept: four objects are all that are ever in use
  at a time in `ResourceSafety`, and three in `ResourceLiveness`, so that `MaxRequests`
  never stops a behaviour there. `Spins = 1` where the code has 16: a request that waits is
  left earlier, and the turns that are left out change nothing. `BatchSize` 9 keeps
  deserialisation on the updating thread, 1 makes every load a task. In `ResourceSafety` one
  resource is read asynchronously and the other deserialised in batches; `BuffersLive` does
  not hold for a resource that is both (section 5).
* Storage: chunks of 2, 3 and 4 (or 2, 2 and 3; or 0, 1 and 3) entities are filled, split, emptied
  and moved whole; three chunks give a list a front, a middle and an end. With four entities a
  group may have a full chunk before two partly filled ones, the smallest case in which
  `add_chunk` goes wrong: it is met by `StorageTagging`, and `EntityStorageSafety` goes up to it.
  `TransientVersion` is 2^8 - 1 in the code, here 1 or 2, so that versions wrap.
  `LargeHint` is 1 in `EntityStorageLiveness`, so that large chunks are claimed at all.

*Symmetry.* `EntityStorageSafety` treats chunks as interchangeable: they are only ever chosen
by `\E`, and the run has no liveness property.

*Fairness.* `WF` of the service thread and of a client inside a call: the
operating system runs every thread that can run. Nothing is assumed of calls
being made or of spurious wakes. For jobs and batches, `WF` of every step: marl
resumes a fiber when its event is signalled or its counter is zero, and callbacks
return; `WF` of a thread inside a sync function. For resources, `WF` of the thread of
`Update`, which the game calls every frame, and of I/O, tasks and installations, which
end; nothing of clients. For the storage, `WF` of the call that is running. With sleep
time MAX the I/O service is not live, in either mode, for the reasons in section 5.

## 4. What is proved

`IOServiceProofs`, for any clients, requests, priorities, modes and bounds:
`TypeCorrect`, `OwnershipCorrect`, `HeldOnceCorrect`, `HeldUntilEndedCorrect`,
`Refinement` (`Spec => Lifecycle`) and, for locked mode,
`NoSpuriousCancelCorrect`. `HeldOnce` and `HeldUntilEnded` are not inductive by
themselves: a service that is between `Peek` and the last stage holds a request
in neither container, and one between `KeepTask` and `EndCancels` walks over the
container with an index. `Ownership` adds where a request is for every program
counter (`CallInv`, `StageInv`, `PhaseInv` and the others), and the lemmas go
action by action; the facts about `RemoveAt`, `Append` and permutations are in
`SequenceLemmas`. The refinement then follows from `Ownership`: a callback is
only run for the request the service holds, whose phase is known.

Two theorems are about the order in which requests are served:

* `NoOvertakingCorrect`: `Spec => NoOvertaking`, in both modes, for every sort method but
  `"partial"`: `partial_sort` does not keep the order of tasks that are equally urgent. Few
  steps change a queue, the container or the current task (`OrderSteps`), and each has a
  lemma: `Dequeue` appends the front of a queue, which is ahead of what stays there;
  removing a task keeps the order of the others; a stable sort moves ahead only what is more
  urgent; and the task taken up is the front of the container. `Ownership` is needed
  throughout: that no request stands twice, and that each is queued by its own client.
* `UrgentFirstCorrect`: `Spec => UrgentFirst` in lockless mode, when the service sorts at all
  (`SortsAlone`). The inductive `FrontInv` says that between the sort and `peek_` the front
  of the container is its most urgent task, that the service sleeps only when the container
  is empty, and that no client searches it. Sorting half of the container is enough: no task
  behind is more urgent than one in the sorted half, which has at least the front when
  there are two tasks. In locked mode clients push into the container between the two steps.

`JobSchedulerProofs`, for any number of jobs, any queries, entries, archetypes
and storages:

* `JobTypeCorrect`: types, and dependencies only on earlier jobs, hence no cycle.
* `OrderedCorrect`: with one scheduling thread (`OneThread`), `Spec => Ordered`.
* `MainThreadSafeCorrect`: with one scheduling thread, `Spec => []MainThreadSafe`.

The difficulty is that the entries forget unfinished jobs. The inductive
invariant `IInv` says what remains: `CoverInv`, an unfinished job is in its
entry, or an exclusive writer scheduled after it is, or the main thread is
waiting for one of the two; `DepsInv`, whoever a waiting job must follow is over, is a
dependency, or must be followed by a dependency; `StartedInv`, who has started
has been preceded by all it must follow. A new job finds in the entries
either the job it must follow or a writer that follows it (`DepsStep`); when its
dependencies are done, `StartedInv` says those they had to follow are over
too (`DependenciesSuffice`). Collecting expired events, and clearing after a wait,
keep `CoverInv` for the same reason. `CounterInv` links the counters to the
jobs, for `sync_all` and `sync_storage`; `MineInv` says what the main thread may
touch. `OneThread` cannot be dropped: `sync_all` of one main thread clears the
entries of the other.

`ResourceSystemProofs`, for any resources and acyclic dependencies (`DependenciesAcyclic`), any
number of requests, any batch size, any types without a factory and any choice of asynchronous
steps, up to where the code is defined:

* `TypeCorrect`: `TypeOK`. `HeldRecordsStay`: `HeldRecordsLive`. `RecordsAndRequestsAgree`:
  `RequestsAgree`.
* `StatusesTruthful` and `DependenciesStay`: `StatusTruthful` and `DependenciesInstalled` when
  every handle asks for installation (`InstallOnly`). The second excepts, as `HeldRecordsLive`
  does, what `LoadResource` overlooks: a dependency that was taken for installed while it was
  being unloaded need not be installed any more.
* `BuffersStay`: `BuffersLive` when no factory both reads through the I/O service and
  deserialises in a batch, and no batch is full (`BatchesHere`).

`RequestsAgree` is not inductive: an update walks over `updating` with `at` while it clears
and appends, and dependencies' handles still to be released or resolved are between two
steps. `CoreInv` adds to the types `QueuesInv`, a request is at one place of `queue` and
`updating` or among the failed ones, and at none when it is deleted; `RecordsInv`, a
request and its record name each other, and an active request is driven or has failed;
and `HeldInv`, a record that is gone or whose request unloads it has no handles unless it is
`overlooked`. `HeldInv` is the heart: `_ClearFinishedRequests` destroys a record only for a
request that `_UpdateLoad` has not redirected, and `LoadResource` redirects every one it does
not overlook. `PhaseInv` ties phase, status and object together, turn by turn. `DepsInv` is
about every resource that is installed or may come to be without another look at its
dependencies: it holds them, they are installed, and no release of them is outstanding.
`InstallOnly` cannot be dropped. With both modes a load without installation that is let go
in `REQUEST_RESOURCE` goes on as if it were wanted (`_UpdateUnload` has no case for it), and
ends as `LOADED` in a request that unloads; asked for again with installation it loads a
second time, and a cancellation in `WAITFOR_IO` then reports `UNLOADED` with the first
object still there. An installation asked for during an unloading skips the dependencies
(section 5).

`BuffersStay` needs `BufferInv`: the phase of a request tells who owns its buffer. The code
frees a buffer, after a load or when it is cancelled, and leaves the pointer; the
next load of the request is safe only if it sets the pointer before it is read. `IO` and
`DESER_RESOURCE`, the phases that take a pointer for data, are left within the
call of `Update()` that enters them (`FreshTurn`), and no redirection by `LoadResource` or
`UnloadResource` meets them: the only handles let go in between are those `FillRequest`
overwrites, of dependencies, and of theirs when a record goes, and none of these is the
request's own record, as dependencies are acyclic (`Under`). An owned buffer stays only with
a load that waits for its batch, or with one that failed. The freed buffer of a
cancelled batch belongs to a resource whose data is always read anew, for it is not
read through the I/O service; and on the updating thread nothing comes between the
deserialisation of a batch and its end. Neither half of `BatchesHere` can be dropped: TLC
finds `BuffersLive` violated without either (section 5).

`JobBatchesProofs`, for any jobs over any chunks, any batch size and any parameters: `TypeCorrect`
(`TypeOK`), `IndicesExact` (`IndicesAgree`), `BatchesExact` (`BatchesBounded`) and
`ParallelForImplemented` (`Spec => ImplementsParallelFor`). What is assumed of the views of a job
(`JobsAssumption`) is what a query guarantees: none is empty, no two overlap, those of a chunk come
one after the other, and together they have no more entities than the groups.

All four follow from one inductive invariant, `JobInv`. `IndexInv` counts what the fiber has passed:
`startIndex` is the number of entities of the views before, and of the part of this view that has a
task. `TasksInv` says that every task is a part of a view at its index, that no two share an entity,
and that together they have all the fiber has passed. `RangesInv` says the same of batches and
tasks: their ranges follow each other and leave out none. `SizesInv` adds `batchRemain` to
the batch that is being filled, which no finished state shows; `ChunksInv`, for jobs that keep
chunks together, says that what follows the end of a batch is in other chunks, which holds because
a batch is closed only where `currentChunk` changes and the views of a chunk are
consecutive. `FibersInv` ties a batch's place to the counter, so that the job ends after
its calls, and `PhaseInv` says what each phase of the fiber leaves behind. In the refinement the
fiber's steps before the batches run are stutters except for the calls it makes itself; a call of
a batch is `Begin` since its task has not been processed (`TasksApart`) and no other batch is in
its chunk.

`EntityStorageProofs` and `EntityStorageRefinement`, for any number of entities, chunks and
groups, any archetypes and any of them shared, any capacities and pool thresholds, and any
version width, up to where `add_chunk` loses a chunk (`TidySpec`):

* `StorageInvariant`: the inductive invariant `StorageInv`, and from it `TypeCorrect`,
  `EntriesStay` (`EntriesAgree`), `FreeListExact` (`FreeListAgrees`), `ListsStay`
  (`ListsAgree`), `FullChunksFirst` (`FullFirst`), `SizesExact` (`SizesAgree`).
* `EntitySetImplemented`: `TidySpec => ImplementsEntitySet`.

None of the six is inductive alone. What new entities get depends on the free list naming
exactly the entries without a chunk, and on those above `size` being free (`RegistryInv`); that
they do not overwrite others depends on `EntriesInv`; that they fit depends on the first free
chunk being no full one (`ListsInv`, with `firstFree` within the list and no chunk beyond its
capacity); that a call makes progress on `EmptyIsNext`, by which the only listed chunk without
entities is the one just claimed. During a cast an entity stands in two chunks: `EntriesInv` is
about the places that count (`PlacesNow`), which exclude what has moved, and `CastInv` says what
a running cast may rely on, that its view is still within its chunk, and that the chunks still
to be cast are of the group they came from, each once. While the chunks of a group are handed
over, `AdoptInv` says that there is one left and that the other group may have it. The lemmas
come in this order: operators on entries (`MovedAgree`, `FreedAgree`, `FreeViewAgree`,
`AppendedAgree`), the free list (`NewEntitiesFacts`, `TakenRegistry`, `ReturnedRegistry`), the
lists (`RemovesLists`, `ExchangesLists`, `ResizeLists`, `AddedLists`, `HandedLists`), the sizes
(`ResizeSizes`, `HandedSizes`), then one lemma per action. The refinement uses for every action
what its lemma says of entries and groups: an allocation's step is `Create`, a cast's is `Move`,
and so is a chunk that is handed over (`ChunkMoves`), freed views are `Die`, and the rest
changes neither homes nor versions; the end of a cast, which moves others into the gap, is such
a step.

`TidySpec` cannot be replaced by `Spec`: a step of `Crowds` loses a chunk and lists another twice,
and the next call that takes a chunk from the list works on the wrong one (`StorageTagging`). The
restriction is no more than that. `AddedLists` shows that the copy of `archetype.cpp:367` is right
when it moves one chunk or none, whether the chunk that comes is full or not.

*Assumptions.* Only the named `ASSUME`s of the modules: the functions given as constants have
their domains and ranges, the special values are distinct, the stages are those of one of the
two services, a job's parameters are entries of the storage its query was made for, a query's
views are as described above, a resource is no dependency of its own, directly or not (one that
is would wait for itself), groups of one archetype have chunks of one size, a large chunk has
room for an entity, and the group of a group's dying entities has its archetype. TLC evaluates
all of them. Hypotheses of single theorems are operators with a name: `OneThread`, `SortsAlone`,
`InstallOnly`, `BatchesHere`; and `SortMethod # "partial"`. Each holds in a run that checks the
property of its theorem.

*Only model-checked.* Liveness (`Served`, `DrainReturns`, `JobsEnd`, `SyncsReturn`,
`JobEnds`, `LoadsEnd`, `UnloadsEnd`, `CallsReturn`), which the prover cannot treat under
fairness; `RequestsHaveRecords`, which no rule of the code ensures; every violation. All other
properties of the passing runs have a theorem.

## 5. Disagreements between the code and what is said of it

With a run:

1. `ResourceCancel`: a cancelled load ends in the turn that asks the I/O service to cancel;
   its request and its buffer are deleted with the I/O in flight
   (`resource_request.cpp:454`; `:459` "continue to wait for cancel").
2. `ResourceReload`: a load is cancelled in `WAITFOR_IO`, which keeps its dependencies, and is wanted
   again. Its second turn in `REQUEST_RESOURCE` overwrites the header and so releases the handles;
   `dependenciesLoaded` is still true, nobody resolves the new ones, and it waits in
   `WAITFOR_LOAD_DEPENDENCIES` for ever (`resource_request.cpp:551`; `resource_system.h:28`
   "needed so we can resume correctly when going from load -> unload -> load"). In
   `ResourceLiveness` only a resource without dependencies is read asynchronously.
3. `StorageTagging`: `add_chunk` copies a list over itself in the wrong order and loses
   chunks, whose entities no query finds (`archetype.cpp:367`; `dual.h:407` "get all chunk
   view"). Destroying entities of a tracked group is enough: its chunks go to the group of the
   dying ones whole.

Without a run of their own; the properties named are in the modules, and TLC finds each violated in
an instance as described:

* I/O: with sleep time MAX a wakeup is lost, sent when the service has found the queue empty and
  does not wait yet, and the request is never served (`io_service_util.hpp:397`;
  `tests/fs/test/main.cpp:102` waits for it; `Served` with one client and one request).
  `drain` returns while a request is still enqueued (`:91`; `io.h:129` "block & finish up
  all requests"; `DrainFinishes`). `try_cancel` cancels and answers false (`:307`;
  `TryCancelHonest`). `destroy` hangs since the service thread overwrites `QUITING` (`:358`,
  `:212`; `DestroyReturns`). In locked mode with sleep time MAX the service sleeps holding
  `taskMutex`, and `request` blocks for ever (`:207`). In lockless mode a stale or
  uninitialised `request_cancel` cancels a new request (`:291`). `stop(true)` may be
  followed by one more request being served (`:431`). `try_cancel` answers false while
  the request is in `CREATING_RESOURCE`, a status `tests/fs/test/main.cpp:144` does not
  expect.
* Jobs: an `[atomic]` job runs together with an earlier `[inout]` job (`scheduler.cpp:272`;
  `dual.h:769`), and a job that reads and then writes an entry counts as a reader (`:591`);
  both break `NoRace`. `hasWriteChunkComponent` is overwritten by every parameter, so that a
  written component of chunks is protected only as the last one (`:373`); and where it is, a
  batch may have more entities than "max entity count processed by a task" (`dual.h:772`).
* Queries: with SSE2 the search for masked entities adds leading zeros for trailing
  ones and compares with `count - 4` unsigned (`query.cpp:804-843`).
* Resources: `LoadResource` returns early for a record whose request unloads it, and
  the record is destroyed under the new handle (`resource_system.cpp:158`; `HeldRecordsLive`
  excepts these records). With deserialisation in tasks, a cancellation frees the data
  under the worker, and may free it twice (`resource_request.cpp:477`; `BuffersLive`). Without
  tasks the same line leaves the pointer of a load cancelled before its batch, and where the
  resource is read asynchronously the next load takes it for its data (`:320`). A load
  with installation that meets an unloading skips the dependencies (`:76`;
  `DependenciesInstalled` with both modes).
  Without a factory `OnRequestFileFinished` sets `FINISHED` and `ERROR`, and `Update` sets `IO`
  over it; the next turn calls a method of the null factory (`:259`; `:166` "failed to load,
  factory of type {} not found"; `FactoriesFound`). When clients hold a dependency too, a request
  may have a turn without a record (`resource_system.cpp:307`, `resource_request.cpp:42`;
  `RequestsHaveRecords` in the instance of `ResourceSafety`): a load fails that is already let
  go, and the next update destroys its record; the header's handle is released with it, of a
  dependency that is `UNLOADED` and whose request has just been redirected to load again;
  `_UnloadResource` destroys that record, against its own assertion (`resource_system.cpp:191`), and
  the request has its turn in the same update. A handle that only wants the data
  sets `requestInstall` of the running request to false, whoever waits for the installation, and
  the resource ends as `LOADED` (`resource_system.cpp:167`; `resource_factory.h:30`; `LoadsEnd`
  with handles of both resources and both modes).
* Storage: `defragment` and `pack_entities` cannot run as they stand (`storage.cpp:392`,
  `:462`).
* Shader map: a caller that installs a shader with a request in flight is not counted
  (`shader_map.cpp:143`), and nothing in the engine calls `garbage_collect`.

## 6. Not modelled

Inside the modelled components:

* I/O: the contents of files and buffers.
* Jobs: their resources (`allResources` is never sized, so every access is out of range);
  binding a storage to another fiber.
* Resources: `WaitRequest`, `Quit`, `Shutdown` and `FlushResource`, which are loops over
  `Update` or run when nothing else does; the registry that finds files; artifacts of
  development builds, a second I/O request like the first; buffers' contents.
* Storage: prefabs, and `merge` of two storages, which fill groups as `allocate` does but from
  buffers and other storages; `defragment` and `pack_entities` (section 5); `shrink` and
  `reset` of the registry, which nothing calls while the storage is in use; serialisation;
  the query language and the SIMD search; component data, whose life follows the entities'.

Components (see also the notes in `PROJECT.json`): the VRAM service is a sequential update
over GPU objects, and what it shares with the other services is `IOService`; the module
manager is two recursive walks over a graph that never changes while they run; the
PSO and shader maps count references for a collection nothing calls. The task layer
is vendored marl; the GPU backends are calls into drivers; render graph, types,
serialisation, scripting, GUI, networking and tools keep no concurrent state.

The repository has some 12000 files, nearly all of them vendored SDKs and
third-party code; the models cover the parts where the engine's own state is hard to
get right.

## 7. Plan

Done: 1. `AsyncRequest`, `IOService` and their proofs. 2. `JobAccess`, `JobOrder`,
`JobScheduler` and their proofs. 3. `ResourceSystem` and its proofs. 4. `EntitySet`,
`EntityStorage` and their proofs. 5. `ParallelFor`, `JobBatches` and their proofs. 6. Proofs
of the order of I/O requests and of the buffers of loads.

Next:

7. `VRAMService` (submitted once, after all its tasks), `ModuleManager` (order over all small
   graphs), `ShaderMap` and `PSOMap` (counts against collection).

Runs are kept to one per question: the violation runs of a component are merged
or dropped as later components need room.
