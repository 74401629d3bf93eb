----------------------------- MODULE IOService ------------------------------
(***************************************************************************)
(* The threaded I/O services of SakuraEngine: a TaskContainer filled by    *)
(* client threads and emptied by the one service thread of an              *)
(* AsyncThreadedService (io_service_util.hpp), as the RAM service          *)
(* (ram_service.cpp) and the threaded service (threaded_service.cpp)       *)
(* assemble them.                                                          *)
(*                                                                         *)
(* Every thread has a program counter; a step is one access to memory that *)
(* another thread can see.  Loads and stores of SAtomicU32 are             *)
(* sequentially consistent steps: every store goes through an interlocked  *)
(* exchange.  create_() stores the parameter sleep_mode nowhere, so both   *)
(* services always sleep on the condition variable; sleepMutex is only     *)
(* ever held across "wait" and "wake_all", which are one step each.        *)
(***************************************************************************)
EXTENDS Integers, Sequences, SequencesExt, FiniteSets

CONSTANTS
  Clients,        \* client threads
  Requests,       \* skr_async_request_t objects
  Owner,          \* the client thread that issues a request
  Priority,       \* rank of a task's (priority, sub_priority)
  Stages,         \* statuses the service goes through, see AsyncRequest
  Lockless,       \* TaskContainer::isLockless
  SortMethod,     \* AsyncServiceBase::sortMethod
  SleepTime,      \* "forever" for SLEEP_TIME_MAX, else "finite"
  NoRequest, Service, Nobody

CONSTANTS         \* what the clients and the platform do in a run
  Calls,          \* the service functions the clients call
  Reuse,          \* is an ended request object issued again?
  ZeroInit,       \* are request objects zero-initialised?
  SpuriousWakes   \* may a condition variable wait end by itself?

AllCalls == {"request", "try_cancel", "defer_cancel", "drain", "stop", "run",
             "stop_drain", "set_sleep_time", "destroy"}

ASSUME OwnerAssumption    == Owner \in [Requests -> Clients]
ASSUME PriorityAssumption == Priority \in [Requests -> Int]
ASSUME ModesAssumption ==
  /\ Lockless \in BOOLEAN
  /\ SortMethod \in {"never", "stable", "partial"}
  /\ SleepTime \in {"forever", "finite"}
ASSUME NamesAssumption ==
  /\ NoRequest \notin Requests
  /\ Service \notin Clients
  /\ Nobody \notin Clients \cup {Service}
ASSUME UseAssumption ==
  /\ Calls \subseteq AllCalls
  /\ Reuse \in BOOLEAN /\ ZeroInit \in BOOLEAN /\ SpuriousWakes \in BOOLEAN

VARIABLES
  status,         \* skr_async_request_t::status
  cancel,         \* skr_async_request_t::request_cancel
  queue,          \* task_requests: FIFO per producing thread only
  tasks,          \* TaskContainer::tasks
  taskMutex,      \* who holds it
  serviceStatus,  \* AsyncServiceBase::_running_status
  threadStatus,   \* AsyncThreadedService::_thread_status
  sleepTime       \* AsyncServiceBase::_sleepTime

VARIABLES
  svc,            \* program counter of the service thread
  cursor,         \* position of the cancel scan in tasks
  current,        \* the task popped by peek_
  stage,          \* the stage it is about to enter
  nap,            \* sleepTimeVal of sleep_
  pc,             \* program counter of each client thread
  arg             \* the request its call is about

VARIABLES         \* history
  phase,          \* the last status callback of each request
  asked           \* has anybody cancelled the request since it was issued?

requestVars == <<status, cancel, phase, asked>>
taskVars    == <<queue, tasks, taskMutex>>
statusVars  == <<serviceStatus, threadStatus, sleepTime>>
serviceVars == <<svc, cursor, current, stage, nap>>
clientVars  == <<pc, arg>>
vars == <<requestVars, taskVars, statusVars, serviceVars, clientVars>>

-----------------------------------------------------------------------------
LC == INSTANCE AsyncRequest

ASSUME StagesAssumption == Stages \in {LC!RamStages, LC!ThreadedStages}

Status == LC!Status
Ended  == LC!Ended

ServicePCs == {"loop", "suspended", "update", "dequeue", "cancels", "pick",
               "sleep", "waiting", "woken", "peek", "notify", "store",
               "exited"}

(* The service thread holds taskMutex in update_, the sleep included.      *)
UpdatePCs == {"dequeue", "cancels", "pick", "sleep", "waiting", "woken"}

ClientPCs == {"idle", "enqueue", "push", "reset", "wake",
              "try_cancel", "cancel_true", "cancel_false",
              "drain", "stop_drain", "stop_store", "run_store",
              "destroy_drain", "quit_store", "quit_wake", "join", "gone"}

TypeOK ==
  /\ status \in [Requests -> Status]
  /\ cancel \in [Requests -> BOOLEAN]
  /\ phase \in [Requests -> Status]
  /\ asked \in [Requests -> BOOLEAN]
  /\ queue \in [Clients -> Seq(Requests)]
  /\ tasks \in Seq(Requests)
  /\ taskMutex \in Clients \cup {Service, Nobody}
  /\ serviceStatus \in {"sleeping", "running", "quiting"}
  /\ threadStatus \in {"running", "quit", "suspend"}
  /\ sleepTime \in {"forever", "finite"}
  /\ svc \in ServicePCs
  /\ cursor \in Nat \ {0}
  /\ current \in Requests \cup {NoRequest}
  /\ stage \in 1..Len(Stages)
  /\ nap \in {"forever", "finite"}
  /\ pc \in [Clients -> ClientPCs]
  /\ arg \in [Clients -> Requests \cup {NoRequest}]

(* A request object that was not zero-initialised holds any cancel flag;   *)
(* its status is overwritten before anybody reads it.                      *)
Init ==
  /\ status = [r \in Requests |-> "none"]
  /\ cancel \in [Requests -> IF ZeroInit THEN {FALSE} ELSE BOOLEAN]
  /\ phase = status
  /\ asked = [r \in Requests |-> FALSE]
  /\ queue = [c \in Clients |-> <<>>]
  /\ tasks = <<>>
  /\ taskMutex = Nobody
  /\ serviceStatus = "running"
  /\ threadStatus = "running"
  /\ sleepTime = SleepTime
  /\ svc = "loop"
  /\ cursor = 1
  /\ current = NoRequest
  /\ stage = 1
  /\ nap = SleepTime
  /\ pc = [c \in Clients |-> "idle"]
  /\ arg = [c \in Clients |-> NoRequest]

-----------------------------------------------------------------------------
(* Helpers.                                                                *)

(* setTaskStatus runs the callback of the status, then stores it.          *)
SetTaskStatus(r, s) ==
  /\ phase' = [phase EXCEPT ![r] = s]
  /\ status' = [status EXCEPT ![r] = s]

(* Mutant: the lock is not taken.                                          *)
LockNothing(t) == UNCHANGED taskMutex

(* optionalLockTasks and optionalUnlockTasks.                              *)
Lock(t)   == /\ Lockless \/ taskMutex = Nobody
             /\ taskMutex' = IF Lockless THEN taskMutex ELSE t
Unlock(t) == taskMutex' = IF Lockless THEN taskMutex ELSE Nobody

(* A critical section of one step: the lock must be free.                  *)
LockFree == Lockless \/ taskMutex = Nobody

(* wake_all reaches the service thread only while it waits.                *)
WakeService == svc' = IF svc = "waiting" THEN "woken" ELSE svc

Goto(c, l) == pc' = [pc EXCEPT ![c] = l]

(* TaskBase::operator<                                                     *)
MoreUrgent(a, b) == Priority[a] > Priority[b]

Permuted(s) ==
  {[k \in 1..Len(s) |-> s[p[k]]] : p \in Bijection(1..Len(s), 1..Len(s))}

(* The first n elements of t are its n most urgent ones, in order.         *)
SortedUpTo(t, n) ==
  \A i \in 1..n, j \in 1..Len(t) : i < j => ~ MoreUrgent(t[j], t[i])

(* Mutant: eastl::sort in place of stable_sort.                            *)
TiesInAnyOrder(t, s) == TRUE

(* Tasks of equal priority keep the order they had in s.                   *)
KeepsTies(t, s) ==
  \A i, j \in 1..Len(t) :
    (i < j /\ Priority[t[i]] = Priority[t[j]]) =>
      \E k, l \in 1..Len(s) : k < l /\ s[k] = t[i] /\ s[l] = t[j]

(* Mutant: the half is rounded down once more.                             *)
MiddleTooLow(s) == (Len(s) - 1) \div 2

(* The middle iterator update_ gives to partial_sort.                      *)
Middle(s) == Len(s) \div 2

(* What sorting the container may leave there: partial_sort orders only    *)
(* the first half, and leaves the rest in an unspecified order.            *)
SortResults(s) ==
  {t \in Permuted(s) :
     CASE SortMethod = "never"   -> t = s
       [] SortMethod = "stable"  -> SortedUpTo(t, Len(t)) /\ KeepsTies(t, s)
       [] SortMethod = "partial" -> SortedUpTo(t, Middle(t))}

-----------------------------------------------------------------------------
(* The service thread: __ioThreadTask_RAM and its _execute.                *)

OnlyServicePC ==
  UNCHANGED <<requestVars, taskVars, statusVars, cursor, current, stage, nap,
              clientVars>>

LoopTop ==
  /\ svc = "loop"
  /\ svc' = CASE threadStatus = "quit"    -> "exited"
              [] threadStatus = "suspend" -> "suspended"
              [] threadStatus = "running" -> "update"
  /\ OnlyServicePC

Resume ==
  /\ svc = "suspended"
  /\ threadStatus # "suspend"
  /\ svc' = "update"
  /\ OnlyServicePC

BeginUpdate ==
  /\ svc = "update"
  /\ Lock(Service)
  /\ svc' = IF Lockless THEN "dequeue" ELSE "cancels"
  /\ UNCHANGED <<requestVars, queue, tasks, statusVars, cursor, current,
                 stage, nap, clientVars>>

(* tasks.emplace_back                                                      *)
Pushed(s, r) == Append(s, r)

(* One successful try_dequeue: the head of any producer's sub-queue.       *)
Dequeue(c) ==
  /\ svc = "dequeue"
  /\ queue[c] # <<>>
  /\ tasks' = Pushed(tasks, Head(queue[c]))
  /\ queue' = [queue EXCEPT ![c] = Tail(@)]
  /\ UNCHANGED <<requestVars, taskMutex, statusVars, serviceVars, clientVars>>

DequeueFails ==
  /\ svc = "dequeue"
  /\ \A c \in Clients : queue[c] = <<>>
  /\ svc' = "cancels"
  /\ OnlyServicePC

(* The predicate of the remove_if of update_.                              *)
DeferCancelled(r) == cancel[r] /\ status[r] \in {"cancelled", "enqueued"}

(* Mutant: remove_if without the erase around it.                          *)
NotErased(s, i) == s

(* tasks.erase(remove_if(...)) for the task at position i.                 *)
Erased(s, i) == RemoveAt(s, i)

(* remove_if looks at one task after the other.                            *)
CancelTask ==
  /\ svc = "cancels"
  /\ cursor <= Len(tasks)
  /\ DeferCancelled(tasks[cursor])
  /\ SetTaskStatus(tasks[cursor], "cancelled")
  /\ tasks' = Erased(tasks, cursor)
  /\ UNCHANGED <<cancel, asked, queue, taskMutex, statusVars, serviceVars,
                 clientVars>>

KeepTask ==
  /\ svc = "cancels"
  /\ cursor <= Len(tasks)
  /\ ~ DeferCancelled(tasks[cursor])
  /\ cursor' = cursor + 1
  /\ UNCHANGED <<requestVars, taskVars, statusVars, svc, current, stage, nap,
                 clientVars>>

EndCancels ==
  /\ svc = "cancels"
  /\ cursor > Len(tasks)
  /\ cursor' = 1
  /\ svc' = "pick"
  /\ UNCHANGED <<requestVars, taskVars, statusVars, current, stage, nap,
                 clientVars>>

SortTasks ==
  /\ svc = "pick"
  /\ tasks # <<>>
  /\ serviceStatus' = "running"
  /\ tasks' \in SortResults(tasks)
  /\ Unlock(Service)
  /\ svc' = "peek"
  /\ UNCHANGED <<requestVars, queue, threadStatus, sleepTime, cursor, current,
                 stage, nap, clientVars>>

(* Mutant: the service falls asleep without saying so.                     *)
FallAsleepSilently ==
  /\ svc = "pick"
  /\ tasks = <<>>
  /\ nap' = sleepTime
  /\ svc' = "sleep"
  /\ UNCHANGED <<requestVars, taskVars, statusVars, cursor, current, stage,
                 clientVars>>

(* Mutant: the wait has no timeout.                                        *)
NapForever == "forever"

(* The timeout sleep_ gives to the wait.                                   *)
NapTime == sleepTime

(* sleep_ with the container empty; taskMutex stays locked.                *)
FallAsleep ==
  /\ svc = "pick"
  /\ tasks = <<>>
  /\ nap' = NapTime
  /\ serviceStatus' = "sleeping"
  /\ svc' = "sleep"
  /\ UNCHANGED <<requestVars, taskVars, threadStatus, sleepTime, cursor,
                 current, stage, clientVars>>

WaitForWake ==
  /\ svc = "sleep"
  /\ svc' = "waiting"
  /\ OnlyServicePC

Timeout ==
  /\ svc = "waiting"
  /\ nap = "finite"
  /\ svc' = "woken"
  /\ OnlyServicePC

SpuriousWake ==
  /\ SpuriousWakes
  /\ svc = "waiting"
  /\ svc' = "woken"
  /\ OnlyServicePC

(* The end of sleep_ and, with it, of update_.                             *)
WakeUp ==
  /\ svc = "woken"
  /\ threadStatus' = IF serviceStatus = "quiting" THEN "quit"
                                                  ELSE threadStatus
  /\ Unlock(Service)
  /\ svc' = "peek"
  /\ UNCHANGED <<requestVars, queue, tasks, serviceStatus, sleepTime, cursor,
                 current, stage, nap, clientVars>>

(* Mutant: peek_ returns the front and leaves it there.                    *)
NotPopped == tasks

(* tasks.pop_front                                                         *)
Popped == Tail(tasks)

Peek ==
  /\ svc = "peek"
  /\ LockFree
  /\ tasks # <<>>
  /\ current' = Head(tasks)
  /\ tasks' = Popped
  /\ svc' = "notify"
  /\ UNCHANGED <<requestVars, queue, taskMutex, statusVars, cursor, stage, nap,
                 clientVars>>

PeekNothing ==
  /\ svc = "peek"
  /\ LockFree
  /\ tasks = <<>>
  /\ svc' = "loop"
  /\ OnlyServicePC

(* setTaskStatus of the task being executed: its callback runs first ...   *)
NotifyStage ==
  /\ svc = "notify"
  /\ phase' = [phase EXCEPT ![current] = Stages[stage]]
  /\ svc' = "store"
  /\ UNCHANGED <<status, cancel, asked, taskVars, statusVars, cursor, current,
                 stage, nap, clientVars>>

(* Mutant: one stage too many.                                             *)
LastStageMissed == stage > Len(Stages)

LastStage == stage = Len(Stages)

(* ... then the status is stored.  After "ok" the task is dropped.         *)
StoreStage ==
  /\ svc = "store"
  /\ status' = [status EXCEPT ![current] = Stages[stage]]
  /\ IF LastStage
       THEN /\ svc' = "loop"
            /\ stage' = 1
            /\ current' = NoRequest
       ELSE /\ svc' = "notify"
            /\ stage' = stage + 1
            /\ UNCHANGED current
  /\ UNCHANGED <<cancel, phase, asked, taskVars, statusVars, cursor, nap,
                 clientVars>>

-----------------------------------------------------------------------------
(* The client threads.  A call that returns without touching anything is   *)
(* no step.                                                                *)

ClientKeeps == UNCHANGED <<taskVars, statusVars, serviceVars>>

Idle(c, call) == call \in Calls /\ pc[c] = "idle"

(* A try_cancel(r) is under way that has not scanned the tasks yet.        *)
Cancelling(c, r) == pc[c] = "try_cancel" /\ arg[c] = r

(* request(): the owner issues a fresh object, or one it has seen ended.   *)
Request(c, r) ==
  /\ Idle(c, "request")
  /\ Owner[r] = c
  /\ status[r] \in IF Reuse THEN Ended \cup {"none"} ELSE {"none"}
  /\ Goto(c, "enqueue")
  /\ arg' = [arg EXCEPT ![c] = r]
  /\ asked' = [asked EXCEPT ![r] = \E d \in Clients : Cancelling(d, r)]
  /\ ClientKeeps /\ UNCHANGED <<status, cancel, phase>>

EnqueueStatus(c) ==
  /\ pc[c] = "enqueue"
  /\ Lock(c)
  /\ SetTaskStatus(arg[c], "enqueued")
  /\ Goto(c, "push")
  /\ UNCHANGED <<cancel, asked, queue, tasks, statusVars, serviceVars, arg>>

Push(c) ==
  /\ pc[c] = "push"
  /\ IF Lockless
       THEN /\ queue' = [queue EXCEPT ![c] = Append(@, arg[c])]
            /\ UNCHANGED tasks
       ELSE /\ tasks' = Pushed(tasks, arg[c])
            /\ UNCHANGED queue
  /\ Goto(c, "reset")
  /\ UNCHANGED <<requestVars, taskMutex, statusVars, serviceVars, arg>>

ResetCancel(c) ==
  /\ pc[c] = "reset"
  /\ cancel' = [cancel EXCEPT ![arg[c]] = FALSE]
  /\ Unlock(c)
  /\ Goto(c, "wake")
  /\ UNCHANGED <<status, phase, asked, queue, tasks, statusVars, serviceVars,
                 arg>>

(* request_(): only a service set to sleep forever is woken.               *)
Wake(c) ==
  /\ pc[c] = "wake"
  /\ IF sleepTime = "forever" THEN WakeService ELSE UNCHANGED svc
  /\ Goto(c, "idle")
  /\ arg' = [arg EXCEPT ![c] = NoRequest]
  /\ UNCHANGED <<requestVars, taskVars, statusVars, cursor, current, stage,
                 nap>>

(* try_cancel_ looks at the status before it takes the lock.               *)
TryCancel(c, r) ==
  /\ Idle(c, "try_cancel")
  /\ status[r] # "none"
  /\ IF status[r] = "enqueued" /\ ~ Lockless
       THEN /\ Goto(c, "try_cancel")
            /\ asked' = [asked EXCEPT ![r] = TRUE]
       ELSE /\ Goto(c, "cancel_false")
            /\ UNCHANGED asked
  /\ arg' = [arg EXCEPT ![c] = r]
  /\ ClientKeeps /\ UNCHANGED <<status, cancel, phase>>

Cancellable(r) == status[r] \in {"enqueued", "cancelled"}

(* The remove_if of try_cancel_: "cancelled" is assigned for every task,   *)
(* so what it returns is what it found of the last one.                    *)
TryCancelScan(c) ==
  LET r     == arg[c]
      found == {i \in 1..Len(tasks) : tasks[i] = r /\ Cancellable(r)}
  IN  /\ pc[c] = "try_cancel"
      /\ LockFree
      /\ IF found = {}
           THEN UNCHANGED <<tasks, status, phase>>
           ELSE /\ \E i \in found : tasks' = Erased(tasks, i)
                /\ SetTaskStatus(r, "cancelled")
      /\ Goto(c, IF Len(tasks) \in found THEN "cancel_true"
                                         ELSE "cancel_false")
      /\ UNCHANGED <<cancel, asked, queue, taskMutex, statusVars, serviceVars,
                     arg>>

TryCancelReturns(c) ==
  /\ pc[c] \in {"cancel_true", "cancel_false"}
  /\ Goto(c, "idle")
  /\ arg' = [arg EXCEPT ![c] = NoRequest]
  /\ ClientKeeps /\ UNCHANGED requestVars

DeferCancel(c, r) ==
  /\ Idle(c, "defer_cancel")
  /\ status[r] # "none"
  /\ cancel' = [cancel EXCEPT ![r] = TRUE]
  /\ asked' = [asked EXCEPT ![r] = TRUE]
  /\ ClientKeeps /\ UNCHANGED <<status, phase, clientVars>>

SetSleepTime(c, ms) ==
  /\ Idle(c, "set_sleep_time")
  /\ sleepTime' = ms
  /\ UNCHANGED <<requestVars, taskVars, serviceStatus, threadStatus,
                 serviceVars, clientVars>>

(* A client thread moves on and touches nothing but its own counter.       *)
OnlyClientPC ==
  UNCHANGED <<requestVars, taskVars, statusVars, serviceVars, arg>>

Drain(c) == Idle(c, "drain") /\ Goto(c, "drain") /\ OnlyClientPC

(* drain_ of drain(), stop(true) and destroy() spins until it reads        *)
(* SLEEPING.                                                               *)
Drained(c) ==
  /\ serviceStatus = "sleeping"
  /\ \/ pc[c] = "drain"         /\ Goto(c, "idle")
     \/ pc[c] = "stop_drain"    /\ Goto(c, "stop_store")
     \/ pc[c] = "destroy_drain" /\ Goto(c, "quit_store")
  /\ OnlyClientPC

Stop(c, waitDrain) ==
  /\ Idle(c, IF waitDrain THEN "stop_drain" ELSE "stop")
  /\ threadStatus = "running"
  /\ Goto(c, IF waitDrain THEN "stop_drain" ELSE "stop_store")
  /\ OnlyClientPC

StopStore(c) ==
  /\ pc[c] = "stop_store"
  /\ threadStatus' = "suspend"
  /\ Goto(c, "idle")
  /\ UNCHANGED <<requestVars, taskVars, serviceStatus, sleepTime, serviceVars,
                 arg>>

Run(c) ==
  /\ Idle(c, "run")
  /\ threadStatus = "suspend"
  /\ Goto(c, "run_store")
  /\ OnlyClientPC

RunStore(c) ==
  /\ pc[c] = "run_store"
  /\ threadStatus' = "running"
  /\ Goto(c, "idle")
  /\ UNCHANGED <<requestVars, taskVars, serviceStatus, sleepTime, serviceVars,
                 arg>>

(* destroy() deletes the service: by then no other call may be running,    *)
(* and none may follow.                                                    *)
Destroy(c) ==
  /\ "destroy" \in Calls
  /\ \A d \in Clients : pc[d] = "idle"
  /\ pc' = [d \in Clients |-> IF d = c THEN "destroy_drain" ELSE "gone"]
  /\ OnlyClientPC

QuitStore(c) ==
  /\ pc[c] = "quit_store"
  /\ serviceStatus' = "quiting"
  /\ Goto(c, "quit_wake")
  /\ UNCHANGED <<requestVars, taskVars, threadStatus, sleepTime, serviceVars,
                 arg>>

(* One turn of the loop of destroy_ that finds the service thread waiting. *)
QuitWake(c) ==
  /\ pc[c] = "quit_wake"
  /\ threadStatus # "quit"
  /\ svc = "waiting"
  /\ WakeService
  /\ UNCHANGED <<requestVars, taskVars, statusVars, cursor, current, stage,
                 nap, clientVars>>

QuitSeen(c) ==
  /\ pc[c] = "quit_wake"
  /\ threadStatus = "quit"
  /\ Goto(c, "join")
  /\ OnlyClientPC

Join(c) ==
  /\ pc[c] = "join"
  /\ svc = "exited"
  /\ Goto(c, "gone")
  /\ OnlyClientPC

-----------------------------------------------------------------------------
ServiceStep ==
  \/ LoopTop \/ Resume \/ BeginUpdate
  \/ (\E c \in Clients : Dequeue(c)) \/ DequeueFails
  \/ CancelTask \/ KeepTask \/ EndCancels
  \/ SortTasks \/ FallAsleep \/ WaitForWake \/ Timeout \/ WakeUp
  \/ Peek \/ PeekNothing \/ NotifyStage \/ StoreStage

(* A client calls a function of the service: nothing forces it to.         *)
ClientCall(c) ==
  \/ \E r \in Requests : Request(c, r) \/ TryCancel(c, r) \/ DeferCancel(c, r)
  \/ \E ms \in {"forever", "finite"} : SetSleepTime(c, ms)
  \/ Drain(c) \/ (\E waitDrain \in BOOLEAN : Stop(c, waitDrain)) \/ Run(c)
  \/ Destroy(c)

(* A client goes on with the call it has begun.                            *)
ClientStep(c) ==
  \/ EnqueueStatus(c) \/ Push(c) \/ ResetCancel(c) \/ Wake(c)
  \/ TryCancelScan(c) \/ TryCancelReturns(c)
  \/ Drained(c) \/ StopStore(c) \/ RunStore(c)
  \/ QuitStore(c) \/ QuitWake(c) \/ QuitSeen(c) \/ Join(c)

Next ==
  \/ ServiceStep
  \/ SpuriousWake
  \/ \E c \in Clients : ClientCall(c) \/ ClientStep(c)

Spec == Init /\ [][Next]_vars

(* The operating system runs every thread that can run; nothing makes a    *)
(* client call, or a condition variable wake by itself.                    *)
Fairness == WF_vars(ServiceStep) /\ \A c \in Clients : WF_vars(ClientStep(c))

FairSpec == Spec /\ Fairness

-----------------------------------------------------------------------------
(* Safety.                                                                 *)

(* The service holds a pointer to the request in one of its containers.    *)
Held(r) == r = current \/ Contains(tasks, r) \/ Contains(queue[Owner[r]], r)

(* The service holds every request at most once: no task is executed twice *)
(* and no container is left with a second copy of a task (enqueue_,        *)
(* update_, peek_ and try_cancel_ move the tasks).                         *)
HeldOnce ==
  /\ IsInjective(tasks)
  /\ \A c \in Clients :
       /\ IsInjective(queue[c])
       /\ \A r \in Requests : Contains(queue[c], r) =>
            Owner[r] = c /\ ~ Contains(tasks, r) /\ r # current
  /\ ~ Contains(tasks, current)

Pending(r) == status[r] \notin Ended \cup {"none"}

(* A request a client can see as ended is one the service has let go of,   *)
(* so the client may free it or issue it again; and a request that has not *)
(* ended is never dropped: it is held, or its owner is about to push it.   *)
HeldUntilEnded ==
  \A r \in Requests :
    Held(r) <=> Pending(r) /\ ~ (pc[Owner[r]] = "push" /\ arg[Owner[r]] = r)

(* Only a request somebody asked to cancel ends as cancelled: the flag of  *)
(* an earlier issue, or of uninitialised memory, does not count.           *)
NoSpuriousCancel ==
  \A r \in Requests :
    status[r] = "cancelled" =>
      asked[r] \/ (pc[Owner[r]] = "enqueue" /\ arg[Owner[r]] = r)

(* The callbacks of every request follow the life cycle of AsyncRequest.   *)
Lifecycle == LC!Spec

(* a is in front of b on its way to the service thread.                    *)
Ahead(a, b) ==
  LET qa == queue[Owner[a]]
      qb == queue[Owner[b]]
  IN  \/ a = current /\ (Contains(tasks, b) \/ Contains(qb, b))
      \/ Contains(tasks, a) /\ Contains(qb, b)
      \/ \E i, j \in 1..Len(tasks) : i < j /\ tasks[i] = a /\ tasks[j] = b
      \/ qa = qb /\ \E i, j \in 1..Len(qa) : i < j /\ qa[i] = a /\ qa[j] = b

(* Requests of one client keep their order all the way through, unless     *)
(* sorting moves the more urgent one to the front.                         *)
NoOvertaking ==
  [][\A a, b \in Requests :
       (/\ Owner[a] = Owner[b] /\ Ahead(a, b)
        /\ SortMethod = "never" \/ ~ MoreUrgent(b, a)
        /\ Held(a)' /\ Held(b)') => Ahead(a, b)']_vars

(* The task the service takes up is as urgent as any it knows of.          *)
UrgentFirst ==
  [][current = NoRequest /\ current' # NoRequest =>
       \A i \in 1..Len(tasks) : ~ MoreUrgent(tasks[i], current')]_vars

-----------------------------------------------------------------------------
(* Liveness.                                                               *)

(* Every request that is enqueued ends.                                    *)
Served ==
  \A r \in Requests : status[r] = "enqueued" ~> status[r] \in Ended

(* A client that waits in drain() gets out of it.                          *)
DrainReturns == \A c \in Clients : pc[c] = "drain" ~> pc[c] = "idle"

-----------------------------------------------------------------------------
(* What the repository says of the services, and they do not do; no run of *)
(* the project checks these.                                               *)

(* drain(): "block & finish up all requests" (include/utils/io.h:129).     *)
DrainFinishes ==
  [][\A c \in Clients : pc[c] = "drain" /\ pc'[c] = "idle" =>
       \A r \in Requests : Owner[r] = c => ~ Pending(r)]_vars

(* destroy() of a service whose requests have all ended returns            *)
(* (tests/fs/test/main.cpp:102-108 waits for its request, then destroys).  *)
DestroyReturns ==
  \A c \in Clients :
    (pc[c] = "destroy_drain" /\ \A r \in Requests : ~ Pending(r))
      ~> pc[c] = "gone"

(* try_cancel() answers whether it cancelled the request: after "false"    *)
(* tests/fs/test/main.cpp:145 waits for the request to become ready.       *)
TryCancelHonest ==
  [][\A c \in Clients :
       pc[c] = "try_cancel" /\ pc'[c] = "cancel_false"
         => status[arg[c]] = status'[arg[c]]]_vars
=============================================================================
