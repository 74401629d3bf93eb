-------------------------- MODULE IOServiceProofs ---------------------------
(***************************************************************************)
(* Proofs about IOService, for every number of clients and requests, every *)
(* mode of the container and every sort method.                            *)
(***************************************************************************)
EXTENDS IOService, SequenceLemmas, TLAPS

(* The stages a task goes through lead to "ok" and nowhere else.           *)
LEMMA StagesShape ==
  /\ Len(Stages) \in Nat \ {0}
  /\ \A i \in 1..Len(Stages) :
       /\ Stages[i] \in Status \ {"none", "enqueued", "cancelled"}
       /\ Stages[i] \in Ended <=> i = Len(Stages)
<1> USE DEF Status, Ended, LC!Status, LC!Ended
<1>1. CASE Stages = <<"creating_resource", "ram_loading", "ok">>
  <2>1. Len(Stages) = 3 /\ Stages[1] = "creating_resource"
        /\ Stages[2] = "ram_loading" /\ Stages[3] = "ok"
    BY <1>1
  <2>2. \A i \in 1..3 : i = 1 \/ i = 2 \/ i = 3
    OBVIOUS
  <2>3. QED BY <2>1, <2>2
<1>2. CASE Stages = <<"ok">>
  BY <1>2
<1>3. QED
  BY <1>1, <1>2, StagesAssumption DEF LC!RamStages, LC!ThreadedStages

-----------------------------------------------------------------------------
(* Type correctness.                                                       *)

(* A client inside request() or try_cancel() has a request in hand.        *)
ArgInv ==
  \A c \in Clients :
    pc[c] \in {"enqueue", "push", "reset", "wake", "try_cancel",
               "cancel_true", "cancel_false"} => arg[c] \in Requests

(* Sorting leaves a sequence of requests.                                  *)
LEMMA SortType ==
  ASSUME TypeOK, NEW t \in SortResults(tasks)
  PROVE  t \in Seq(Requests)
<1>1. PICK p \in Bijection(1..Len(tasks), 1..Len(tasks)) :
        t = [k \in 1..Len(tasks) |-> tasks[p[k]]]
  BY DEF SortResults, Permuted
<1>2. QED BY <1>1, PermutedElements DEF TypeOK

(* The service thread keeps the types.                                     *)
LEMMA ServiceType ==
  ASSUME TypeOK, ArgInv, ServiceStep \/ SpuriousWake
  PROVE  TypeOK' /\ ArgInv'
<1> USE DEF TypeOK, ArgInv, OnlyServicePC, requestVars, taskVars, statusVars,
            serviceVars, clientVars, ServicePCs
<1>1. CASE LoopTop
  BY <1>1 DEF LoopTop
<1>2. CASE Resume
  BY <1>2 DEF Resume
<1>3. CASE BeginUpdate
  BY <1>3 DEF BeginUpdate, Lock
<1>4. ASSUME NEW c \in Clients, Dequeue(c)
      PROVE  TypeOK' /\ ArgInv'
  <2>1. queue[c] \in Seq(Requests) /\ queue[c] # <<>>
    BY <1>4 DEF Dequeue
  <2>2. Head(queue[c]) \in Requests /\ Tail(queue[c]) \in Seq(Requests)
    BY <2>1
  <2>3. tasks' \in Seq(Requests) /\ queue' \in [Clients -> Seq(Requests)]
    BY <1>4, <2>2 DEF Dequeue, Pushed
  <2>4. QED BY <1>4, <2>3 DEF Dequeue
<1>5. CASE DequeueFails
  BY <1>5 DEF DequeueFails
<1>6. CASE CancelTask
  <2>1. cursor \in 1..Len(tasks)
    BY <1>6 DEF CancelTask
  <2>2. tasks' \in Seq(Requests)
    BY <1>6, <2>1, RemoveAtElements DEF CancelTask, Erased
  <2>3. status' \in [Requests -> Status] /\ phase' \in [Requests -> Status]
    BY <1>6 DEF CancelTask, SetTaskStatus, Status, LC!Status
  <2>4. QED BY <1>6, <2>2, <2>3 DEF CancelTask
<1>7. CASE KeepTask
  BY <1>7 DEF KeepTask
<1>8. CASE EndCancels
  BY <1>8 DEF EndCancels
<1>9. CASE SortTasks
  <2>1. tasks' \in Seq(Requests)
    BY <1>9, SortType DEF SortTasks
  <2>2. QED BY <1>9, <2>1 DEF SortTasks, Unlock
<1>10. CASE FallAsleep
  BY <1>10 DEF FallAsleep, NapTime
<1>11. CASE WaitForWake
  BY <1>11 DEF WaitForWake
<1>12. CASE Timeout
  BY <1>12 DEF Timeout
<1>13. CASE SpuriousWake
  BY <1>13 DEF SpuriousWake
<1>14. CASE WakeUp
  BY <1>14 DEF WakeUp, Unlock
<1>15. CASE Peek
  <2>1. Head(tasks) \in Requests /\ Tail(tasks) \in Seq(Requests)
    BY <1>15 DEF Peek
  <2>2. QED BY <1>15, <2>1 DEF Peek, Popped
<1>16. CASE PeekNothing
  BY <1>16 DEF PeekNothing
<1>17. CASE NotifyStage
  <2>1. phase' \in [Requests -> Status]
    BY <1>17, StagesShape DEF NotifyStage
  <2>2. QED BY <1>17, <2>1 DEF NotifyStage
<1>18. CASE StoreStage
  <2>1. status' \in [Requests -> Status]
    BY <1>18, StagesShape DEF StoreStage
  <2>2. stage' \in 1..Len(Stages)
    BY <1>18, StagesShape DEF StoreStage, LastStage
  <2>3. current' \in Requests \cup {NoRequest} /\ svc' \in ServicePCs
    BY <1>18 DEF StoreStage
  <2>4. QED BY <1>18, <2>1, <2>2, <2>3 DEF StoreStage
<1>19. QED
  BY <1>1, <1>2, <1>3, <1>4, <1>5, <1>6, <1>7, <1>8, <1>9, <1>10, <1>11,
     <1>12, <1>13, <1>14, <1>15, <1>16, <1>17, <1>18 DEF ServiceStep

(* The program counters at which a client has a request in hand.           *)
RequestPCs == {"enqueue", "push", "reset", "wake"}
CancelPCs  == {"try_cancel", "cancel_true", "cancel_false"}

(* A client that goes where it needs no request keeps the types.           *)
LEMMA GotoType ==
  ASSUME TypeOK, ArgInv, NEW c \in Clients,
         NEW l \in ClientPCs \ (RequestPCs \cup CancelPCs),
         Goto(c, l), UNCHANGED arg
  PROVE  pc' \in [Clients -> ClientPCs] /\ ArgInv'
BY DEF TypeOK, ArgInv, Goto, RequestPCs, CancelPCs

(* The client threads keep the types.                                      *)
LEMMA ClientType ==
  ASSUME TypeOK, ArgInv, NEW c \in Clients, ClientCall(c) \/ ClientStep(c)
  PROVE  TypeOK' /\ ArgInv'
<1> USE DEF TypeOK, ArgInv, OnlyClientPC, ClientKeeps, Idle, Goto,
            requestVars, taskVars, statusVars, serviceVars, clientVars,
            ServicePCs, ClientPCs
<1>1. ASSUME NEW r \in Requests, Request(c, r)
      PROVE  TypeOK' /\ ArgInv'
  BY <1>1 DEF Request
<1>2. ASSUME NEW r \in Requests, TryCancel(c, r)
      PROVE  TypeOK' /\ ArgInv'
  <2>1. PICK l \in CancelPCs : Goto(c, l)
    BY <1>2 DEF TryCancel, CancelPCs
  <2>2. pc' \in [Clients -> ClientPCs] /\ ArgInv'
    BY <1>2, <2>1 DEF TryCancel, CancelPCs
  <2>3. asked' \in [Requests -> BOOLEAN] /\ arg' \in [Clients -> Requests \cup {NoRequest}]
    BY <1>2 DEF TryCancel
  <2>4. QED BY <1>2, <2>2, <2>3 DEF TryCancel
<1>3. ASSUME NEW r \in Requests, DeferCancel(c, r)
      PROVE  TypeOK' /\ ArgInv'
  BY <1>3 DEF DeferCancel
<1>4. ASSUME NEW ms \in {"forever", "finite"}, SetSleepTime(c, ms)
      PROVE  TypeOK' /\ ArgInv'
  BY <1>4 DEF SetSleepTime
<1>5. CASE Drain(c)
  BY <1>5 DEF Drain
<1>6. ASSUME NEW waitDrain \in BOOLEAN, Stop(c, waitDrain)
      PROVE  TypeOK' /\ ArgInv'
  BY <1>6 DEF Stop
<1>7. CASE Run(c)
  BY <1>7 DEF Run
<1>8. CASE Destroy(c)
  BY <1>8 DEF Destroy
<1>9. CASE EnqueueStatus(c)
  BY <1>9 DEF EnqueueStatus, Lock, SetTaskStatus, Status, LC!Status
<1>10. CASE Push(c)
  <2>1. arg[c] \in Requests /\ Append(tasks, arg[c]) \in Seq(Requests)
        /\ Append(queue[c], arg[c]) \in Seq(Requests)
    BY <1>10 DEF Push
  <2>2. tasks' \in Seq(Requests) /\ queue' \in [Clients -> Seq(Requests)]
    BY <1>10, <2>1 DEF Push, Pushed
  <2>3. pc' \in [Clients -> ClientPCs] /\ ArgInv'
    BY <1>10 DEF Push
  <2>4. QED BY <1>10, <2>2, <2>3 DEF Push
<1>11. CASE ResetCancel(c)
  BY <1>11 DEF ResetCancel, Unlock
<1>12. CASE Wake(c)
  BY <1>12 DEF Wake, WakeService
<1>13. CASE TryCancelScan(c)
  <2> DEFINE found == {i \in 1..Len(tasks) :
                         tasks[i] = arg[c] /\ Cancellable(arg[c])}
  <2>1. CASE found = {}
    BY <1>13, <2>1 DEF TryCancelScan
  <2>2. CASE found # {}
    <3>1. PICK i \in 1..Len(tasks) : tasks' = RemoveAt(tasks, i)
      BY <1>13, <2>2 DEF TryCancelScan, Erased
    <3>2. tasks' \in Seq(Requests)
      BY <3>1, RemoveAtElements
    <3>3. status' \in [Requests -> Status] /\ phase' \in [Requests -> Status]
      BY <1>13, <2>2 DEF TryCancelScan, SetTaskStatus, Status, LC!Status
    <3>4. QED BY <1>13, <3>2, <3>3 DEF TryCancelScan
  <2>3. QED BY <2>1, <2>2
<1>14. CASE TryCancelReturns(c)
  BY <1>14 DEF TryCancelReturns
<1>15. CASE Drained(c) \/ StopStore(c) \/ RunStore(c)
            \/ QuitStore(c) \/ QuitSeen(c) \/ Join(c)
  <2>1. PICK l \in {"idle", "stop_store", "quit_store", "quit_wake", "join",
                    "gone"} : Goto(c, l)
    BY <1>15 DEF Drained, StopStore, RunStore, QuitStore, QuitSeen, Join
  <2>2. l \in ClientPCs \ (RequestPCs \cup CancelPCs) /\ UNCHANGED arg
    BY <1>15 DEF Drained, StopStore, RunStore, QuitStore, QuitSeen, Join,
                 RequestPCs, CancelPCs
  <2>3. pc' \in [Clients -> ClientPCs] /\ ArgInv'
    BY <2>1, <2>2, GotoType
  <2>4. serviceStatus' \in {"sleeping", "running", "quiting"}
        /\ threadStatus' \in {"running", "quit", "suspend"}
    BY <1>15 DEF Drained, StopStore, RunStore, QuitStore, QuitSeen, Join
  <2>5. UNCHANGED <<requestVars, queue, tasks, taskMutex, sleepTime, svc,
                    cursor, current, stage, nap, arg>>
    BY <1>15 DEF Drained, StopStore, RunStore, QuitStore, QuitSeen, Join
  <2>6. QED BY <2>3, <2>4, <2>5
<1>16. CASE QuitWake(c)
  BY <1>16 DEF QuitWake, WakeService
<1>17. QED
  BY <1>1, <1>2, <1>3, <1>4, <1>5, <1>6, <1>7, <1>8, <1>9, <1>10, <1>11,
     <1>12, <1>13, <1>14, <1>15, <1>16
     DEF ClientCall, ClientStep

(* Every variable keeps its type in every reachable state.                 *)
THEOREM TypeCorrect == Spec => [](TypeOK /\ ArgInv)
<1>1. ASSUME Init
      PROVE  TypeOK /\ ArgInv
  <2>1. /\ stage \in 1..Len(Stages)
        /\ cursor \in Nat \ {0}
    BY <1>1, StagesShape DEF Init
  <2>2. /\ queue \in [Clients -> Seq(Requests)]
        /\ tasks \in Seq(Requests)
    BY <1>1 DEF Init
  <2>3. /\ status \in [Requests -> Status] /\ phase \in [Requests -> Status]
        /\ cancel \in [Requests -> BOOLEAN] /\ asked \in [Requests -> BOOLEAN]
    BY <1>1 DEF Init, Status, LC!Status
  <2>4. QED
    BY <1>1, <2>1, <2>2, <2>3, ModesAssumption
       DEF Init, TypeOK, ArgInv, ServicePCs, ClientPCs
<1>2. TypeOK /\ ArgInv /\ [Next]_vars => TypeOK' /\ ArgInv'
  <2>1. CASE UNCHANGED vars
    BY <2>1 DEF vars, TypeOK, ArgInv, requestVars, taskVars, statusVars,
                serviceVars, clientVars
  <2>2. QED BY <2>1, ServiceType, ClientType DEF Next
<1>3. QED BY <1>1, <1>2, PTL DEF Spec

-----------------------------------------------------------------------------
(* Where the requests are.                                                 *)

(* What a client is about to do with the request in its hands.             *)
CallInv ==
  \A c \in Clients :
    /\ pc[c] \in RequestPCs => Owner[arg[c]] = c
    /\ pc[c] = "enqueue" => status[arg[c]] \in Ended \cup {"none"}
    /\ pc[c] = "push" => status[arg[c]] = "enqueued"

(* The service thread is in the middle of a task exactly when it has one.  *)
StageInv ==
  /\ svc \in {"notify", "store"} <=> current # NoRequest
  /\ current = NoRequest => stage = 1
  /\ current # NoRequest =>
       status[current] = IF stage = 1 THEN "enqueued" ELSE Stages[stage-1]

(* A request in a container waits for the service.                         *)
WaitInv ==
  \A r \in Requests :
    Contains(tasks, r) \/ Contains(queue[Owner[r]], r) =>
      status[r] = "enqueued"

(* A callback is ahead of the status only while it runs.                   *)
PhaseInv ==
  \A r \in Requests :
    phase[r] = IF svc = "store" /\ r = current THEN Stages[stage] ELSE status[r]

Typed == TypeOK /\ ArgInv

Ownership ==
  /\ CallInv /\ StageInv /\ WaitInv /\ PhaseInv
  /\ HeldOnce /\ HeldUntilEnded

(* The stages as the status of the request that goes through them.         *)
LEMMA PendingStages ==
  ASSUME Typed
  PROVE  /\ stage \in 1..Len(Stages) /\ Len(Stages) \in Nat
         /\ \A i \in 1..Len(Stages) :
              /\ Stages[i] \notin {"none", "enqueued", "cancelled"}
              /\ Stages[i] \in Ended <=> i = Len(Stages)
         /\ "enqueued" \notin Ended /\ "none" \notin Ended
         /\ "cancelled" \in Ended /\ "ok" \in Ended
BY StagesShape DEF Typed, TypeOK, Ended, LC!Ended

(* A step that moves no request, changes no status and only lets threads   *)
(* go on with what does not concern a request.                             *)
Quiet ==
  /\ UNCHANGED <<status, phase, queue, tasks, current, stage>>
  /\ svc \in {"notify", "store"} \/ svc' \in {"notify", "store"} => svc' = svc
  /\ \A c \in Clients :
       /\ pc'[c] \in RequestPCs => pc[c] \in RequestPCs /\ arg'[c] = arg[c]
       /\ pc'[c] = "enqueue" <=> pc[c] = "enqueue"
       /\ pc'[c] = "push" <=> pc[c] = "push"

\* A step that is quiet about requests keeps Ownership.
LEMMA QuietOwnership ==
  ASSUME Typed, Typed', Ownership, Quiet
  PROVE  Ownership'
<1>1. CallInv'
  BY DEF Ownership, CallInv, Quiet, RequestPCs
<1>2. StageInv'
  BY DEF Ownership, StageInv, Quiet
<1>3. WaitInv' /\ HeldOnce'
  BY DEF Ownership, WaitInv, HeldOnce, Quiet
<1>4. PhaseInv'
  BY DEF Ownership, PhaseInv, Quiet
<1>5. HeldUntilEnded'
  <2>1. ASSUME NEW r \in Requests
        PROVE  /\ Held(r)' <=> Held(r)
               /\ Pending(r)' <=> Pending(r)
               /\ (pc[Owner[r]] = "push" /\ arg[Owner[r]] = r)' <=>
                    pc[Owner[r]] = "push" /\ arg[Owner[r]] = r
    BY OwnerAssumption DEF Quiet, Held, Pending, RequestPCs
  <2>2. QED BY <2>1 DEF Ownership, HeldUntilEnded
<1>6. QED BY <1>1, <1>2, <1>3, <1>4, <1>5 DEF Ownership

(* The service steps that are quiet.                                       *)
LEMMA ServiceQuiet ==
  ASSUME Typed,
         \/ LoopTop \/ Resume \/ BeginUpdate \/ DequeueFails \/ KeepTask
         \/ EndCancels \/ FallAsleep \/ WaitForWake \/ Timeout
         \/ SpuriousWake \/ WakeUp \/ PeekNothing
  PROVE  Quiet
<1>1. UNCHANGED <<status, phase, queue, tasks, current, stage, pc, arg>>
  BY DEF OnlyServicePC, requestVars, taskVars, statusVars, serviceVars,
         clientVars, LoopTop, Resume, BeginUpdate, DequeueFails, KeepTask,
         EndCancels, FallAsleep, WaitForWake, Timeout, SpuriousWake, WakeUp,
         PeekNothing
<1>2. /\ svc \notin {"notify", "store"}
      /\ svc' \notin {"notify", "store"}
  <2>1. CASE LoopTop
    BY <2>1 DEF LoopTop, Typed, TypeOK
  <2>2. CASE Resume \/ BeginUpdate
    BY <2>2 DEF Resume, BeginUpdate
  <2>3. CASE DequeueFails \/ KeepTask \/ EndCancels \/ FallAsleep
    BY <2>3 DEF DequeueFails, KeepTask, EndCancels, FallAsleep
  <2>4. CASE WaitForWake \/ Timeout \/ SpuriousWake \/ WakeUp \/ PeekNothing
    BY <2>4 DEF WaitForWake, Timeout, SpuriousWake, WakeUp, PeekNothing
  <2>5. QED BY <2>1, <2>2, <2>3, <2>4
<1>3. QED BY <1>1, <1>2 DEF Quiet

(* A task moves from a producer's sub-queue to the end of the container.   *)
LEMMA DequeueOwnership ==
  ASSUME Typed, Ownership, NEW c \in Clients, Dequeue(c)
  PROVE  Ownership'
<1> DEFINE q == queue[c]
           r == Head(q)
<1>1. /\ q \in Seq(Requests) /\ q # <<>> /\ tasks \in Seq(Requests)
      /\ queue \in [Clients -> Seq(Requests)]
      /\ tasks' = Append(tasks, r) /\ queue' = [queue EXCEPT ![c] = Tail(q)]
      /\ UNCHANGED <<status, phase, current, stage, svc, pc, arg>>
  BY DEF Dequeue, Pushed, Typed, TypeOK, requestVars, serviceVars, clientVars
<1>2. /\ r \in Requests /\ Contains(q, r)
      /\ \A x : Contains(q, x) <=> Contains(Tail(q), x) \/ x = r
      /\ IsInjective(Tail(q)) /\ ~ Contains(Tail(q), r)
  BY <1>1, TailElements DEF Ownership, HeldOnce
<1>3. Owner[r] = c /\ ~ Contains(tasks, r) /\ r # current
  BY <1>2 DEF Ownership, HeldOnce
<1>4. /\ \A x : Contains(tasks', x) <=> Contains(tasks, x) \/ x = r
      /\ IsInjective(tasks')
  BY <1>1, <1>2, <1>3, AppendElements DEF Ownership, HeldOnce
<1>5. /\ queue'[c] = Tail(q)
      /\ \A d \in Clients : d # c => queue'[d] = queue[d]
  BY <1>1
<1> HIDE DEF q, r
<1>6. \A x \in Requests :
        Contains(queue'[Owner[x]], x) <=> Contains(queue[Owner[x]], x) /\ x # r
  BY <1>2, <1>3, <1>5, OwnerAssumption DEF q
<1>7. HeldOnce'
  BY <1>1, <1>2, <1>3, <1>4, <1>5 DEF Ownership, HeldOnce, q
<1>8. WaitInv'
  BY <1>1, <1>2, <1>3, <1>4, <1>6 DEF Ownership, WaitInv, q
<1>9. HeldUntilEnded'
  <2>1. \A x \in Requests : Held(x)' <=> Held(x)
    BY <1>1, <1>2, <1>3, <1>4, <1>6 DEF Held, q
  <2>2. QED BY <1>1, <2>1 DEF Ownership, HeldUntilEnded, Pending
<1>10. CallInv' /\ StageInv' /\ PhaseInv'
  BY <1>1 DEF Ownership, CallInv, StageInv, PhaseInv
<1>11. QED BY <1>7, <1>8, <1>9, <1>10 DEF Ownership

(* A task at position i of the container is cancelled and erased.          *)
LEMMA CancelOwnership ==
  ASSUME Typed, Ownership, NEW i \in 1..Len(tasks),
         SetTaskStatus(tasks[i], "cancelled"), tasks' = RemoveAt(tasks, i),
         UNCHANGED <<queue, current, stage, svc, arg>>,
         \A c \in Clients : pc'[c] = pc[c] \/ {pc[c], pc'[c]} \subseteq CancelPCs
  PROVE  Ownership'
<1> DEFINE r == tasks[i]
<1>1. /\ tasks \in Seq(Requests) /\ r \in Requests /\ Contains(tasks, r)
      /\ status \in [Requests -> Status] /\ phase \in [Requests -> Status]
  BY DEF Typed, TypeOK, Contains
<1>2. /\ \A x : Contains(tasks', x) <=> Contains(tasks, x) /\ x # r
      /\ IsInjective(tasks')
  BY <1>1, RemoveAtElements DEF Ownership, HeldOnce
<1>3. /\ status[r] = "enqueued" /\ r # current
      /\ ~ Contains(queue[Owner[r]], r)
      /\ \A c \in Clients : ~ Contains(queue[c], r)
  BY <1>1, OwnerAssumption DEF Ownership, HeldOnce, WaitInv
<1>4. /\ status'[r] = "cancelled" /\ phase'[r] = "cancelled"
      /\ \A x \in Requests : x # r => status'[x] = status[x] /\ phase'[x] = phase[x]
  BY <1>1 DEF SetTaskStatus
<1> HIDE DEF r
<1>5. HeldOnce' /\ WaitInv'
  BY <1>2, <1>3, <1>4 DEF Ownership, HeldOnce, WaitInv
<1>6. StageInv' /\ PhaseInv'
  <2>1. StageInv'
    <3>1. current # NoRequest => current \in Requests /\ current # r
      BY <1>3 DEF Typed, TypeOK
    <3>2. QED BY <1>4, <3>1 DEF Ownership, StageInv
  <2>2. ASSUME NEW x \in Requests
        PROVE  (phase[x] = IF svc = "store" /\ x = current THEN Stages[stage]
                                                         ELSE status[x])'
    <3>1. CASE x = r
      BY <1>3, <1>4, <3>1
    <3>2. CASE x # r
      BY <1>4, <3>2 DEF Ownership, PhaseInv
    <3>3. QED BY <3>1, <3>2
  <2>3. QED BY <2>1, <2>2 DEF PhaseInv
<1>7. ~ (pc[Owner[r]] \in {"enqueue", "push"} /\ arg[Owner[r]] = r)
  BY <1>1, <1>3, PendingStages, OwnerAssumption
     DEF Ownership, CallInv, HeldUntilEnded, Held, Pending
<1>8. CallInv'
  <2>1. ASSUME NEW c \in Clients, pc'[c] \in RequestPCs
        PROVE  pc[c] = pc'[c] /\ arg'[c] = arg[c] /\ arg[c] \in Requests
               /\ Owner[arg[c]] = c
    BY <2>1 DEF RequestPCs, CancelPCs, Typed, ArgInv, Ownership, CallInv
  <2>2. QED BY <1>4, <1>7, <2>1 DEF Ownership, CallInv, RequestPCs
<1>9. HeldUntilEnded'
  <2>1. \A x \in Requests : Held(x)' <=> Held(x) /\ x # r
    BY <1>2, <1>3 DEF Held
  <2>2. \A x \in Requests : Pending(x)' <=> Pending(x) /\ x # r
    BY <1>4, PendingStages DEF Pending
  <2>3. \A c \in Clients : pc'[c] = "push" <=> pc[c] = "push"
    BY DEF CancelPCs
  <2>4. QED BY <1>1, <1>7, <2>1, <2>2, <2>3, OwnerAssumption
            DEF Ownership, HeldUntilEnded
<1>10. QED BY <1>5, <1>6, <1>8, <1>9 DEF Ownership

(* The service cancels the task its scan is at.                            *)
LEMMA CancelStepOwnership ==
  ASSUME Typed, Ownership, CancelTask
  PROVE  Ownership'
<1>1. cursor \in 1..Len(tasks)
  BY DEF CancelTask, Typed, TypeOK
<1>2. QED
  BY <1>1, CancelOwnership
     DEF CancelTask, Erased, serviceVars, clientVars

(* Sorting moves no request out of the container.                          *)
LEMMA SortOwnership ==
  ASSUME Typed, Ownership, SortTasks
  PROVE  Ownership'
<1>1. /\ tasks \in Seq(Requests) /\ tasks' \in SortResults(tasks)
      /\ UNCHANGED <<status, phase, queue, current, stage, pc, arg>>
      /\ svc = "pick" /\ svc' = "peek"
  BY DEF SortTasks, Typed, TypeOK, requestVars, clientVars
<1>2. PICK p \in Bijection(1..Len(tasks), 1..Len(tasks)) :
        tasks' = [k \in 1..Len(tasks) |-> tasks[p[k]]]
  BY <1>1 DEF SortResults, Permuted
<1>3. /\ \A x : Contains(tasks', x) <=> Contains(tasks, x)
      /\ IsInjective(tasks) => IsInjective(tasks')
  BY <1>1, <1>2, PermutedElements
<1>4. HeldOnce' /\ WaitInv'
  BY <1>1, <1>3 DEF Ownership, HeldOnce, WaitInv
<1>5. HeldUntilEnded'
  BY <1>1, <1>3 DEF Ownership, HeldUntilEnded, Held, Pending
<1>6. CallInv' /\ StageInv' /\ PhaseInv'
  BY <1>1 DEF Ownership, CallInv, StageInv, PhaseInv
<1>7. QED BY <1>4, <1>5, <1>6 DEF Ownership

(* The front task becomes the current one.                                 *)
LEMMA PeekOwnership ==
  ASSUME Typed, Ownership, Peek
  PROVE  Ownership'
<1> DEFINE r == Head(tasks)
<1>1. /\ tasks \in Seq(Requests) /\ tasks # <<>> /\ tasks' = Tail(tasks)
      /\ current' = r /\ svc = "peek" /\ svc' = "notify"
      /\ UNCHANGED <<status, phase, queue, stage, pc, arg>>
  BY DEF Peek, Popped, Typed, TypeOK, requestVars, clientVars
<1>2. /\ r \in Requests /\ Contains(tasks, r)
      /\ \A x : Contains(tasks, x) <=> Contains(tasks', x) \/ x = r
      /\ IsInjective(tasks') /\ ~ Contains(tasks', r)
  BY <1>1, TailElements DEF Ownership, HeldOnce
<1>3. current = NoRequest /\ stage = 1 /\ r # NoRequest
  BY <1>1, <1>2, NamesAssumption DEF Ownership, StageInv
<1>4. /\ status[r] = "enqueued"
      /\ \A c \in Clients : ~ Contains(queue[c], r)
  BY <1>2 DEF Ownership, HeldOnce, WaitInv
<1> HIDE DEF r
<1>5. HeldOnce' /\ WaitInv'
  BY <1>1, <1>2, <1>4 DEF Ownership, HeldOnce, WaitInv
<1>6. HeldUntilEnded'
  <2>1. \A x \in Requests : Held(x)' <=> Held(x)
    BY <1>1, <1>2, <1>3, NamesAssumption DEF Held
  <2>2. QED BY <1>1, <2>1 DEF Ownership, HeldUntilEnded, Pending
<1>7. StageInv'
  BY <1>1, <1>3, <1>4 DEF StageInv
<1>8. CallInv' /\ PhaseInv'
  BY <1>1 DEF Ownership, CallInv, PhaseInv
<1>9. QED BY <1>5, <1>6, <1>7, <1>8 DEF Ownership

(* The callback of the next stage runs.                                    *)
LEMMA NotifyOwnership ==
  ASSUME Typed, Ownership, NotifyStage
  PROVE  Ownership'
<1>1. /\ current \in Requests /\ phase \in [Requests -> Status]
      /\ phase' = [phase EXCEPT ![current] = Stages[stage]]
      /\ svc = "notify" /\ svc' = "store"
      /\ UNCHANGED <<status, queue, tasks, current, stage, pc, arg>>
  BY DEF NotifyStage, Ownership, StageInv, Typed, TypeOK, taskVars, clientVars
<1>2. PhaseInv'
  BY <1>1 DEF Ownership, PhaseInv
<1>3. StageInv'
  BY <1>1 DEF Ownership, StageInv
<1>4. CallInv' /\ WaitInv' /\ HeldOnce'
  BY <1>1 DEF Ownership, CallInv, WaitInv, HeldOnce
<1>5. HeldUntilEnded'
  BY <1>1 DEF Ownership, HeldUntilEnded, Held, Pending
<1>6. QED BY <1>2, <1>3, <1>4, <1>5 DEF Ownership

(* The status of the current task is stored, and after "ok" it is dropped. *)
LEMMA StoreOwnership ==
  ASSUME Typed, Ownership, StoreStage
  PROVE  Ownership'
<1>1. PICK r \in Requests : r = current
  BY DEF StoreStage, Ownership, StageInv, Typed, TypeOK
<1>2. /\ r = current /\ r # NoRequest /\ svc = "store"
      /\ status \in [Requests -> Status] /\ stage \in 1..Len(Stages)
      /\ status' = [status EXCEPT ![r] = Stages[stage]]
      /\ UNCHANGED <<phase, queue, tasks, pc, arg>>
  BY <1>1, NamesAssumption
     DEF StoreStage, Typed, TypeOK, taskVars, clientVars
<1>3. /\ status'[r] = Stages[stage]
      /\ \A x \in Requests : x # r => status'[x] = status[x]
  BY <1>2
<1>4. /\ ~ Contains(tasks, r)
      /\ \A c \in Clients : ~ Contains(queue[c], r)
  BY <1>2 DEF Ownership, HeldOnce
<1>5. Pending(r) /\ Held(r)
  BY <1>2, PendingStages DEF Ownership, HeldUntilEnded, Held
<1>6. ~ (pc[Owner[r]] \in {"enqueue", "push"} /\ arg[Owner[r]] = r)
  BY <1>2, <1>5, OwnerAssumption
     DEF Ownership, HeldUntilEnded, CallInv, Pending
<1>7. \/ /\ stage = Len(Stages) /\ svc' = "loop" /\ stage' = 1
         /\ current' = NoRequest
      \/ /\ stage # Len(Stages) /\ svc' = "notify" /\ stage' = stage + 1
         /\ current' = r
  BY <1>1 DEF StoreStage, LastStage
<1>8. CallInv'
  <2>1. \A c \in Clients : pc[c] \in RequestPCs =>
          arg[c] \in Requests /\ Owner[arg[c]] = c
    BY DEF Typed, ArgInv, Ownership, CallInv, RequestPCs
  <2>2. QED BY <1>2, <1>3, <1>6, <2>1 DEF Ownership, CallInv, RequestPCs
<1>9. StageInv'
  BY <1>2, <1>3, <1>7, PendingStages, NamesAssumption DEF StageInv
<1>10. WaitInv'
  BY <1>2, <1>3, <1>4, OwnerAssumption DEF Ownership, WaitInv
<1>11. PhaseInv'
  <2>1. phase[r] = Stages[stage]
    BY <1>2 DEF Ownership, PhaseInv
  <2>2. svc' # "store"
    BY <1>7
  <2>3. QED BY <1>2, <1>3, <2>1, <2>2 DEF Ownership, PhaseInv
<1>12. HeldOnce'
  <2>1. \A x \in Requests, c \in Clients :
          Contains(queue[c], x) => x # current'
    BY <1>2, <1>4, <1>7, NamesAssumption
  <2>2. ~ Contains(tasks, NoRequest)
    BY NamesAssumption DEF Contains, Typed, TypeOK
  <2>3. ~ Contains(tasks, current')
    BY <1>4, <1>7, <2>2
  <2>4. QED BY <1>2, <2>1, <2>3 DEF Ownership, HeldOnce
<1>13. HeldUntilEnded'
  <2>1. \A x \in Requests :
          x # r => (Held(x)' <=> Held(x)) /\ (Pending(x)' <=> Pending(x))
    BY <1>2, <1>3, <1>7, NamesAssumption DEF Held, Pending
  <2>2. Held(r)' <=> Pending(r)'
    BY <1>2, <1>3, <1>4, <1>7, PendingStages, OwnerAssumption, NamesAssumption
       DEF Held, Pending
  <2>3. QED BY <1>2, <1>6, <2>1, <2>2 DEF Ownership, HeldUntilEnded
<1>14. QED BY <1>8, <1>9, <1>10, <1>11, <1>12, <1>13 DEF Ownership

(* The client steps that are quiet.                                        *)
LEMMA ClientQuiet ==
  ASSUME Typed, NEW c \in Clients,
         \/ \E r \in Requests : TryCancel(c, r) \/ DeferCancel(c, r)
         \/ \E ms \in {"forever", "finite"} : SetSleepTime(c, ms)
         \/ Drain(c) \/ (\E waitDrain \in BOOLEAN : Stop(c, waitDrain))
         \/ Run(c) \/ Destroy(c) \/ ResetCancel(c) \/ Wake(c)
         \/ TryCancelReturns(c) \/ Drained(c) \/ StopStore(c) \/ RunStore(c)
         \/ QuitStore(c) \/ QuitWake(c) \/ QuitSeen(c) \/ Join(c)
  PROVE  Quiet
<1> USE DEF ClientKeeps, OnlyClientPC, Idle, Goto, requestVars, taskVars,
            statusVars, serviceVars, clientVars, RequestPCs, Quiet, Typed,
            TypeOK
<1>1. CASE \E r \in Requests : TryCancel(c, r) \/ DeferCancel(c, r)
  BY <1>1 DEF TryCancel, DeferCancel
<1>2. CASE \E ms \in {"forever", "finite"} : SetSleepTime(c, ms)
  BY <1>2 DEF SetSleepTime
<1>3. CASE Drain(c) \/ Run(c)
  BY <1>3 DEF Drain, Run
<1>4. CASE \E waitDrain \in BOOLEAN : Stop(c, waitDrain)
  BY <1>4 DEF Stop
<1>5. CASE Destroy(c)
  BY <1>5 DEF Destroy
<1>6. CASE ResetCancel(c)
  BY <1>6 DEF ResetCancel
<1>7. CASE Wake(c) \/ QuitWake(c)
  BY <1>7 DEF Wake, QuitWake, WakeService
<1>8. CASE TryCancelReturns(c)
  BY <1>8 DEF TryCancelReturns
<1>9. CASE Drained(c)
  BY <1>9 DEF Drained
<1>10. CASE StopStore(c) \/ RunStore(c) \/ QuitStore(c)
  BY <1>10 DEF StopStore, RunStore, QuitStore
<1>11. CASE QuitSeen(c) \/ Join(c)
  BY <1>11 DEF QuitSeen, Join
<1>12. QED
  BY <1>1, <1>2, <1>3, <1>4, <1>5, <1>6, <1>7, <1>8, <1>9, <1>10, <1>11

(* A request that has not begun or has ended is about to be enqueued.      *)
LEMMA RequestOwnership ==
  ASSUME Typed, Ownership, NEW c \in Clients, NEW r \in Requests, Request(c, r)
  PROVE  Ownership'
<1>1. /\ pc[c] = "idle" /\ Owner[r] = c /\ status[r] \in Ended \cup {"none"}
      /\ pc' = [pc EXCEPT ![c] = "enqueue"] /\ arg' = [arg EXCEPT ![c] = r]
      /\ UNCHANGED <<status, phase, queue, tasks, current, stage, svc>>
  BY DEF Request, Idle, Goto, ClientKeeps, taskVars, serviceVars
<1>2. /\ pc'[c] = "enqueue" /\ arg'[c] = r
      /\ \A d \in Clients : d # c => pc'[d] = pc[d] /\ arg'[d] = arg[d]
  BY <1>1 DEF Typed, TypeOK
<1>3. CallInv'
  BY <1>1, <1>2 DEF Ownership, CallInv, RequestPCs
<1>4. HeldUntilEnded'
  <2>1. \A d \in Clients : pc'[d] = "push" <=> pc[d] = "push"
    BY <1>1, <1>2
  <2>2. \A d \in Clients : pc[d] = "push" => arg'[d] = arg[d]
    BY <1>1, <1>2
  <2>3. \A x \in Requests : (Held(x)' <=> Held(x)) /\ (Pending(x)' <=> Pending(x))
    BY <1>1 DEF Held, Pending
  <2>4. QED BY <2>1, <2>2, <2>3, OwnerAssumption DEF Ownership, HeldUntilEnded
<1>5. StageInv' /\ WaitInv' /\ PhaseInv' /\ HeldOnce'
  BY <1>1 DEF Ownership, StageInv, WaitInv, PhaseInv, HeldOnce
<1>6. QED BY <1>3, <1>4, <1>5 DEF Ownership

(* The request gets its first status, and is pushed next.                  *)
LEMMA EnqueueOwnership ==
  ASSUME Typed, Ownership, NEW c \in Clients, EnqueueStatus(c)
  PROVE  Ownership'
<1>1. PICK r \in Requests : r = arg[c]
  BY DEF EnqueueStatus, Typed, ArgInv
<1>2. /\ pc[c] = "enqueue" /\ arg[c] = r /\ Owner[r] = c
      /\ status[r] \in Ended \cup {"none"}
      /\ pc' = [pc EXCEPT ![c] = "push"]
      /\ status' = [status EXCEPT ![r] = "enqueued"]
      /\ phase' = [phase EXCEPT ![r] = "enqueued"]
      /\ UNCHANGED <<queue, tasks, current, stage, svc, arg>>
  BY <1>1 DEF EnqueueStatus, SetTaskStatus, Goto, serviceVars, Ownership,
              CallInv, RequestPCs
<1>3. /\ pc'[c] = "push" /\ \A d \in Clients : d # c => pc'[d] = pc[d]
      /\ status'[r] = "enqueued" /\ phase'[r] = "enqueued"
      /\ \A x \in Requests : x # r => status'[x] = status[x] /\ phase'[x] = phase[x]
  BY <1>2 DEF Typed, TypeOK
<1>4. ~ Held(r) /\ ~ Pending(r)
  BY <1>2 DEF Ownership, HeldUntilEnded, Pending
<1>5. r # current /\ ~ Contains(tasks, r) /\ ~ Contains(queue[Owner[r]], r)
  BY <1>4 DEF Held
<1>6. CallInv'
  <2>1. \A d \in Clients : d # c /\ pc[d] \in RequestPCs => arg[d] # r
    BY <1>2 DEF Ownership, CallInv
  <2>2. \A d \in Clients : pc[d] \in RequestPCs => arg[d] \in Requests
    BY DEF Typed, ArgInv, RequestPCs
  <2>3. QED BY <1>2, <1>3, <2>1, <2>2 DEF Ownership, CallInv, RequestPCs
<1>7. StageInv'
  <2>1. current # NoRequest => current \in Requests /\ current # r
    BY <1>5 DEF Typed, TypeOK
  <2>2. QED BY <1>2, <1>3, <2>1 DEF Ownership, StageInv
<1>8. WaitInv' /\ HeldOnce'
  BY <1>2, <1>3 DEF Ownership, WaitInv, HeldOnce
<1>9. PhaseInv'
  BY <1>2, <1>3, <1>5 DEF Ownership, PhaseInv
<1>10. HeldUntilEnded'
  <2>1. \A x \in Requests : Held(x)' <=> Held(x)
    BY <1>2 DEF Held
  <2>2. \A x \in Requests : x # r => (Pending(x)' <=> Pending(x))
    BY <1>3 DEF Pending
  <2>3. ASSUME NEW x \in Requests, x # r
        PROVE  (pc[Owner[x]] = "push" /\ arg[Owner[x]] = x)' <=>
                 pc[Owner[x]] = "push" /\ arg[Owner[x]] = x
    BY <1>2, <1>3, <2>3, OwnerAssumption
  <2>4. QED BY <1>2, <1>3, <1>4, <2>1, <2>2, <2>3
            DEF Ownership, HeldUntilEnded
<1>11. QED BY <1>6, <1>7, <1>8, <1>9, <1>10 DEF Ownership

(* The request in hand goes into its container.                            *)
LEMMA PushOwnership ==
  ASSUME Typed, Ownership, NEW c \in Clients, Push(c)
  PROVE  Ownership'
<1>1. PICK r \in Requests : r = arg[c]
  BY DEF Push, Typed, ArgInv
<1>2. /\ pc[c] = "push" /\ arg[c] = r /\ Owner[r] = c
      /\ status[r] = "enqueued"
      /\ pc' = [pc EXCEPT ![c] = "reset"]
      /\ UNCHANGED <<status, phase, current, stage, svc, arg>>
  BY <1>1 DEF Push, Goto, requestVars, serviceVars, Ownership, CallInv,
              RequestPCs
<1>3. pc'[c] = "reset" /\ \A d \in Clients : d # c => pc'[d] = pc[d]
  BY <1>2 DEF Typed, TypeOK
<1>4. r # current /\ ~ Contains(tasks, r) /\ ~ Contains(queue[c], r)
      /\ \A d \in Clients : ~ Contains(queue[d], r)
  BY <1>2 DEF Ownership, HeldUntilEnded, Held, HeldOnce
<1>5. /\ \A x : (\/ Contains(tasks', x)
                 \/ Contains(queue'[c], x)) <=>
                (Contains(tasks, x) \/ Contains(queue[c], x) \/ x = r)
      /\ \A d \in Clients : d # c => queue'[d] = queue[d]
      /\ IsInjective(tasks') /\ IsInjective(queue'[c])
      /\ \/ /\ tasks' = tasks
            /\ \A x : Contains(queue'[c], x) <=> Contains(queue[c], x) \/ x = r
         \/ /\ queue' = queue
            /\ \A x : Contains(tasks', x) <=> Contains(tasks, x) \/ x = r
  <2>1. /\ queue \in [Clients -> Seq(Requests)] /\ tasks \in Seq(Requests)
        /\ IsInjective(tasks) /\ IsInjective(queue[c])
    BY DEF Typed, TypeOK, Ownership, HeldOnce
  <2>2. CASE Lockless
    <3>1. tasks' = tasks /\ queue' = [queue EXCEPT ![c] = Append(queue[c], r)]
      BY <1>2, <2>2 DEF Push
    <3>2. /\ \A x : Contains(Append(queue[c], r), x) <=> Contains(queue[c], x) \/ x = r
          /\ IsInjective(Append(queue[c], r))
      BY <1>4, <2>1, AppendElements
    <3>3. queue'[c] = Append(queue[c], r) /\ \A d \in Clients : d # c => queue'[d] = queue[d]
      BY <2>1, <3>1
    <3>4. QED BY <2>1, <3>1, <3>2, <3>3
  <2>3. CASE ~ Lockless
    <3>1. queue' = queue /\ tasks' = Append(tasks, r)
      BY <1>2, <2>3 DEF Push, Pushed
    <3>2. /\ \A x : Contains(tasks', x) <=> Contains(tasks, x) \/ x = r
          /\ IsInjective(tasks')
      BY <1>4, <2>1, <3>1, AppendElements
    <3>3. QED BY <2>1, <3>1, <3>2
  <2>4. QED BY <2>2, <2>3
<1>6. \A x \in Requests : Held(x)' <=> Held(x) \/ x = r
  <2>1. ASSUME NEW x \in Requests, Owner[x] = c
        PROVE  Held(x)' <=> Held(x) \/ x = r
    BY <1>2, <1>5, <2>1 DEF Held
  <2>2. ASSUME NEW x \in Requests, Owner[x] # c
        PROVE  Held(x)' <=> Held(x) \/ x = r
    BY <1>2, <1>5, <2>2, OwnerAssumption DEF Held
  <2>3. QED BY <2>1, <2>2
<1>7. HeldUntilEnded'
  <2>1. \A x \in Requests : Pending(x)' <=> Pending(x)
    BY <1>2 DEF Pending
  <2>2. Pending(r)
    BY <1>2, PendingStages DEF Pending
  <2>3. ASSUME NEW x \in Requests, x # r
        PROVE  (pc[Owner[x]] = "push" /\ arg[Owner[x]] = x)' <=>
                 pc[Owner[x]] = "push" /\ arg[Owner[x]] = x
    BY <1>2, <1>3, <2>3, OwnerAssumption
  <2>4. QED BY <1>2, <1>3, <1>6, <2>1, <2>2, <2>3 DEF Ownership, HeldUntilEnded
<1>8. WaitInv'
  <2>1. ASSUME NEW x \in Requests,
               Contains(tasks', x) \/ Contains(queue'[Owner[x]], x)
        PROVE  x = r \/ Contains(tasks, x) \/ Contains(queue[Owner[x]], x)
    BY <1>2, <1>5, <2>1, OwnerAssumption
  <2>2. QED BY <1>2, <2>1 DEF Ownership, WaitInv
<1>9. HeldOnce'
  <2>1. CASE tasks' = tasks
    BY <1>2, <1>4, <1>5, <2>1 DEF Ownership, HeldOnce
  <2>2. CASE queue' = queue
    BY <1>2, <1>4, <1>5, <2>2 DEF Ownership, HeldOnce
  <2>3. QED BY <1>5, <2>1, <2>2
<1>10. CallInv'
  BY <1>2, <1>3 DEF Ownership, CallInv, RequestPCs
<1>11. StageInv' /\ PhaseInv'
  BY <1>2 DEF Ownership, StageInv, PhaseInv
<1>12. QED BY <1>7, <1>8, <1>9, <1>10, <1>11 DEF Ownership

(* try_cancel either erases the request from the container or changes      *)
(* nothing but its own program counter.                                    *)
LEMMA ScanOwnership ==
  ASSUME Typed, Ownership, NEW c \in Clients, TryCancelScan(c)
  PROVE  Quiet \/ Ownership'
<1> DEFINE found == {i \in 1..Len(tasks) :
                       tasks[i] = arg[c] /\ Cancellable(arg[c])}
<1>1. PICK l \in {"cancel_true", "cancel_false"} : Goto(c, l)
  BY DEF TryCancelScan
<1>2. /\ pc[c] = "try_cancel" /\ pc'[c] = l
      /\ \A d \in Clients : d # c => pc'[d] = pc[d]
      /\ UNCHANGED <<queue, current, stage, svc, arg>>
  BY <1>1 DEF TryCancelScan, Goto, Typed, TypeOK, serviceVars
<1>3. CASE found = {}
  BY <1>2, <1>3 DEF TryCancelScan, Quiet, RequestPCs
<1>4. CASE found # {}
  <2>1. PICK i \in 1..Len(tasks) :
          tasks[i] = arg[c] /\ tasks' = RemoveAt(tasks, i)
    BY <1>4 DEF TryCancelScan, Erased
  <2>2. SetTaskStatus(tasks[i], "cancelled")
    BY <1>4, <2>1 DEF TryCancelScan
  <2>3. \A d \in Clients : pc'[d] = pc[d] \/ {pc[d], pc'[d]} \subseteq CancelPCs
    BY <1>2 DEF CancelPCs
  <2>4. QED BY <1>2, <2>1, <2>2, <2>3, CancelOwnership
<1>5. QED BY <1>3, <1>4

(* Every step keeps track of the requests.                                 *)
LEMMA OwnershipStep ==
  ASSUME Typed, Typed', Ownership, [Next]_vars
  PROVE  Ownership'
<1>1. CASE UNCHANGED vars
  BY <1>1, QuietOwnership
     DEF Quiet, vars, requestVars, taskVars, serviceVars, clientVars
<1>2. CASE ServiceStep
  BY <1>2, QuietOwnership, ServiceQuiet, DequeueOwnership, SortOwnership,
     PeekOwnership, NotifyOwnership, StoreOwnership, CancelStepOwnership
     DEF ServiceStep
<1>3. CASE SpuriousWake
  BY <1>3, QuietOwnership, ServiceQuiet
<1>4. ASSUME NEW c \in Clients, ClientCall(c)
      PROVE  Ownership'
  BY <1>4, QuietOwnership, ClientQuiet, RequestOwnership DEF ClientCall
<1>5. ASSUME NEW c \in Clients, ClientStep(c)
      PROVE  Ownership'
  BY <1>5, QuietOwnership, ClientQuiet, EnqueueOwnership, PushOwnership,
     ScanOwnership DEF ClientStep
<1>6. QED BY <1>1, <1>2, <1>3, <1>4, <1>5 DEF Next

\* Nothing is held at first.
LEMMA InitOwnership ==
  ASSUME Init
  PROVE  Ownership
<1>1. \A r \in Requests : ~ Held(r) /\ ~ Pending(r)
  BY OwnerAssumption, NamesAssumption DEF Init, Held, Pending, Contains
<1>2. HeldOnce
  BY DEF Init, HeldOnce, IsInjective, Contains
<1>3. HeldUntilEnded
  BY <1>1, OwnerAssumption DEF Init, HeldUntilEnded
<1>4. WaitInv
  BY OwnerAssumption DEF Init, WaitInv, Contains
<1>5. CallInv /\ StageInv /\ PhaseInv
  BY DEF Init, CallInv, StageInv, PhaseInv, RequestPCs
<1>6. QED BY <1>2, <1>3, <1>4, <1>5 DEF Ownership

(* In every reachable state of every instance the types are right and the  *)
(* requests are accounted for.                                             *)
THEOREM OwnershipCorrect == Spec => [](Typed /\ Ownership)
<1>1. Spec => []Typed
  BY TypeCorrect DEF Typed
<1>2. Init => Ownership
  BY InitOwnership
<1>3. Typed /\ Typed' /\ Ownership /\ [Next]_vars => Ownership'
  BY OwnershipStep
<1>4. QED BY <1>1, <1>2, <1>3, PTL DEF Spec

(* No task is held twice (enqueue_, update_, peek_, try_cancel_).          *)
THEOREM HeldOnceCorrect == Spec => []HeldOnce
<1>1. Ownership => HeldOnce
  BY DEF Ownership
<1>2. QED BY <1>1, OwnershipCorrect, PTL

(* The service lets go of a request exactly when it has ended: no client   *)
(* that saw is_ready() or is_cancelled() frees an object still in use, and *)
(* no request is lost.                                                     *)
THEOREM HeldUntilEndedCorrect == Spec => []HeldUntilEnded
<1>1. Ownership => HeldUntilEnded
  BY DEF Ownership
<1>2. QED BY <1>1, OwnershipCorrect, PTL

-----------------------------------------------------------------------------
(* The service implements AsyncRequest.                                    *)

(* A change of one entry of phase is a step of the life cycle.             *)
LEMMA PhaseStep ==
  ASSUME Typed, Typed', Ownership, [Next]_vars
  PROVE  [LC!Next]_phase
<1> USE DEF LC!Next
<1>1. ASSUME NEW i \in 1..Len(tasks), SetTaskStatus(tasks[i], "cancelled")
      PROVE  LC!Next
  <2>1. tasks[i] \in Requests /\ Contains(tasks, tasks[i])
    BY DEF Typed, TypeOK, Contains
  <2>2. phase[tasks[i]] = "enqueued"
    BY <2>1 DEF Ownership, WaitInv, HeldOnce, PhaseInv
  <2>3. LC!Cancel(tasks[i])
    BY <1>1, <2>2 DEF SetTaskStatus, LC!Cancel
  <2>4. QED BY <2>1, <2>3
<1>2. CASE CancelTask
  <2>1. cursor \in 1..Len(tasks)
    BY <1>2 DEF CancelTask, Typed, TypeOK
  <2>2. QED BY <1>1, <1>2, <2>1 DEF CancelTask
<1>3. CASE NotifyStage
  <2>1. /\ current \in Requests /\ stage \in 1..Len(Stages)
        /\ phase[current] = IF stage = 1 THEN "enqueued" ELSE Stages[stage-1]
        /\ phase' = [phase EXCEPT ![current] = Stages[stage]]
    BY <1>3 DEF NotifyStage, Typed, TypeOK, Ownership, StageInv, PhaseInv
  <2>2. CASE stage = 1
    BY <2>1, <2>2 DEF LC!TakeUp
  <2>3. CASE stage # 1
    <3>1. stage - 1 \in 1..Len(Stages)-1 /\ (stage - 1) + 1 = stage
      BY <2>1, <2>3, PendingStages
    <3>2. LC!Progress(current)
      BY <2>1, <2>3, <3>1 DEF LC!Progress
    <3>3. QED BY <2>1, <3>2
  <2>4. QED BY <2>2, <2>3
<1>4. ASSUME NEW c \in Clients, EnqueueStatus(c)
      PROVE  LC!Next
  <2>1. arg[c] \in Requests /\ status[arg[c]] \in Ended \cup {"none"}
        /\ ~ Held(arg[c])
    BY <1>4 DEF EnqueueStatus, Typed, ArgInv, Ownership, CallInv,
                HeldUntilEnded, Pending
  <2>2. phase[arg[c]] \in Ended \cup {"none"}
    BY <2>1 DEF Ownership, PhaseInv, Held
  <2>3. LC!Issue(arg[c])
    BY <1>4, <2>2 DEF EnqueueStatus, SetTaskStatus, LC!Issue, Ended
  <2>4. QED BY <2>1, <2>3
<1>5. ASSUME NEW c \in Clients, TryCancelScan(c)
      PROVE  LC!Next \/ UNCHANGED phase
  <2> DEFINE found == {i \in 1..Len(tasks) :
                         tasks[i] = arg[c] /\ Cancellable(arg[c])}
  <2>1. CASE found = {}
    BY <1>5, <2>1 DEF TryCancelScan
  <2>2. CASE found # {}
    <3>1. PICK i \in 1..Len(tasks) : tasks[i] = arg[c]
      BY <2>2
    <3>2. SetTaskStatus(tasks[i], "cancelled")
      BY <1>5, <2>2, <3>1 DEF TryCancelScan
    <3>3. QED BY <1>1, <3>2
  <2>3. QED BY <2>1, <2>2
<1>6. CASE \/ LoopTop \/ Resume \/ BeginUpdate \/ DequeueFails \/ KeepTask
           \/ EndCancels \/ FallAsleep \/ WaitForWake \/ Timeout
           \/ SpuriousWake \/ WakeUp \/ PeekNothing
  BY <1>6, ServiceQuiet DEF Quiet
<1>7. CASE SortTasks \/ Peek \/ StoreStage \/ \E c \in Clients : Dequeue(c)
  BY <1>7 DEF SortTasks, Peek, StoreStage, Dequeue, requestVars
<1>8. ASSUME NEW c \in Clients, ClientCall(c) \/ Push(c)
      PROVE  UNCHANGED phase
  BY <1>8, ClientQuiet DEF ClientCall, Quiet, Request, Push, requestVars
<1>9. ASSUME NEW c \in Clients, ClientStep(c), ~ EnqueueStatus(c),
             ~ TryCancelScan(c), ~ Push(c)
      PROVE  UNCHANGED phase
  BY <1>9, ClientQuiet DEF ClientStep, Quiet
<1>10. CASE UNCHANGED vars
  BY <1>10 DEF vars, requestVars
<1>11. QED
  BY <1>2, <1>3, <1>4, <1>5, <1>6, <1>7, <1>8, <1>9, <1>10
     DEF Next, ServiceStep

(* The status callbacks of every request follow its life cycle: enqueued,  *)
(* then cancelled, or taken up and loaded stage by stage, once per issue.  *)
THEOREM Refinement == Spec => Lifecycle
<1>1. Init => LC!Init
  BY DEF Init, LC!Init
<1>2. Typed /\ Ownership /\ Typed' /\ [Next]_vars => [LC!Next]_phase
  BY PhaseStep
<1>3. QED BY <1>1, <1>2, OwnershipCorrect, PTL DEF Spec, Lifecycle, LC!Spec

-----------------------------------------------------------------------------
(* Cancellation in locked mode.                                            *)

(* taskMutex excludes: who holds it is where the code takes it.            *)
MutexInv ==
  /\ svc \in UpdatePCs <=> taskMutex = Service
  /\ \A c \in Clients : pc[c] \in {"push", "reset"} <=> taskMutex = c
  /\ svc # "dequeue"

(* The cancel flag of a task in the container is of this issue, unless its *)
(* owner holds the mutex and is about to reset it.                         *)
FlagInv ==
  /\ \A c \in Clients : pc[c] = "try_cancel" => asked[arg[c]]
  /\ \A r \in Requests :
       Contains(tasks, r) /\ cancel[r] =>
         asked[r] \/ (pc[Owner[r]] = "reset" /\ arg[Owner[r]] = r)

(* A step of the service keeps taskMutex exclusive.                        *)
LEMMA ServiceMutex ==
  ASSUME ~ Lockless, Typed, MutexInv, ServiceStep \/ SpuriousWake
  PROVE  MutexInv'
<1> USE NamesAssumption
    DEF MutexInv, UpdatePCs, OnlyServicePC, taskVars, serviceVars, clientVars
<1>1. CASE LoopTop
  BY <1>1 DEF LoopTop, Typed, TypeOK
<1>2. CASE Resume
  BY <1>2 DEF Resume
<1>3. CASE BeginUpdate
  BY <1>3 DEF BeginUpdate, Lock
<1>4. CASE (\E c \in Clients : Dequeue(c)) \/ DequeueFails
  BY <1>4 DEF Dequeue, DequeueFails
<1>5. CASE CancelTask
  BY <1>5 DEF CancelTask
<1>6. CASE KeepTask
  BY <1>6 DEF KeepTask
<1>7. CASE EndCancels
  BY <1>7 DEF EndCancels
<1>8. CASE SortTasks
  BY <1>8 DEF SortTasks, Unlock
<1>9. CASE FallAsleep
  BY <1>9 DEF FallAsleep
<1>10. CASE WaitForWake
  BY <1>10 DEF WaitForWake
<1>11. CASE Timeout \/ SpuriousWake
  BY <1>11 DEF Timeout, SpuriousWake
<1>12. CASE WakeUp
  BY <1>12 DEF WakeUp, Unlock
<1>13. CASE Peek
  BY <1>13 DEF Peek
<1>14. CASE PeekNothing
  BY <1>14 DEF PeekNothing
<1>15. CASE NotifyStage
  BY <1>15 DEF NotifyStage
<1>16. CASE StoreStage
  BY <1>16 DEF StoreStage
<1>17. QED
  BY <1>1, <1>2, <1>3, <1>4, <1>5, <1>6, <1>7, <1>8, <1>9, <1>10, <1>11,
     <1>12, <1>13, <1>14, <1>15, <1>16 DEF ServiceStep

(* A step of a client keeps taskMutex exclusive.                           *)
LEMMA ClientMutex ==
  ASSUME ~ Lockless, Typed, MutexInv, NEW c \in Clients,
         ClientCall(c) \/ ClientStep(c)
  PROVE  MutexInv'
<1>1. ASSUME NEW l, Goto(c, l), {pc[c], l} \cap {"push", "reset"} = {},
             UNCHANGED <<taskMutex, svc>>
      PROVE  MutexInv'
  BY <1>1 DEF MutexInv, Goto, Typed, TypeOK
<1> USE NamesAssumption
    DEF UpdatePCs, OnlyClientPC, ClientKeeps, Idle, Goto, taskVars, serviceVars
<1>2. ASSUME NEW r \in Requests, Request(c, r) \/ TryCancel(c, r)
      PROVE  MutexInv'
  BY <1>1, <1>2 DEF Request, TryCancel
<1>3. ASSUME NEW r \in Requests, DeferCancel(c, r)
      PROVE  MutexInv'
  BY <1>3 DEF DeferCancel, MutexInv, clientVars
<1>4. ASSUME NEW ms \in {"forever", "finite"}, SetSleepTime(c, ms)
      PROVE  MutexInv'
  BY <1>4 DEF SetSleepTime, MutexInv, clientVars
<1>5. CASE Drain(c) \/ Run(c) \/ \E waitDrain \in BOOLEAN : Stop(c, waitDrain)
  BY <1>1, <1>5 DEF Drain, Run, Stop
<1>6. CASE Destroy(c)
  BY <1>6 DEF Destroy, MutexInv, Typed, TypeOK
<1>7. CASE EnqueueStatus(c)
  BY <1>7 DEF EnqueueStatus, Lock, MutexInv, Typed, TypeOK
<1>8. CASE Push(c)
  BY <1>8 DEF Push, MutexInv, Typed, TypeOK
<1>9. CASE ResetCancel(c)
  BY <1>9 DEF ResetCancel, Unlock, MutexInv, Typed, TypeOK
<1>10. CASE Wake(c)
  BY <1>10 DEF Wake, WakeService, MutexInv, Typed, TypeOK
<1>11. CASE QuitWake(c)
  BY <1>11 DEF QuitWake, WakeService, MutexInv, clientVars
<1>12. CASE TryCancelScan(c)
  <2>1. PICK l \in {"cancel_true", "cancel_false"} : Goto(c, l)
    BY <1>12 DEF TryCancelScan
  <2>2. QED BY <1>1, <1>12, <2>1 DEF TryCancelScan
<1>13. CASE TryCancelReturns(c)
  BY <1>1, <1>13 DEF TryCancelReturns
<1>14. CASE Drained(c)
  BY <1>1, <1>14 DEF Drained
<1>15. CASE StopStore(c) \/ RunStore(c) \/ QuitStore(c)
  BY <1>1, <1>15 DEF StopStore, RunStore, QuitStore
<1>16. CASE QuitSeen(c) \/ Join(c)
  BY <1>1, <1>16 DEF QuitSeen, Join
<1>17. QED
  BY <1>2, <1>3, <1>4, <1>5, <1>6, <1>7, <1>8, <1>9, <1>10, <1>11, <1>12,
     <1>13, <1>14, <1>15, <1>16 DEF ClientCall, ClientStep

(* A step that touches no flag, adds no task and lets every client finish  *)
(* what the flags depend on.                                               *)
FlagQuiet ==
  /\ UNCHANGED <<status, cancel, asked>>
  /\ \A r \in Requests : Contains(tasks', r) => Contains(tasks, r)
  /\ \A c \in Clients :
       /\ pc[c] \in {"enqueue", "reset"} =>
            pc'[c] = pc[c] /\ arg'[c] = arg[c]
       /\ pc'[c] = "try_cancel" => pc[c] = "try_cancel" /\ arg'[c] = arg[c]

\* A step that is quiet about cancel flags keeps what is said of them.
LEMMA QuietFlags ==
  ASSUME Typed, FlagInv, NoSpuriousCancel, FlagQuiet
  PROVE  FlagInv' /\ NoSpuriousCancel'
<1>1. FlagInv'
  <2>1. ASSUME NEW c \in Clients, pc'[c] = "try_cancel"
        PROVE  asked'[arg'[c]]
    BY <2>1 DEF FlagInv, FlagQuiet
  <2>2. ASSUME NEW r \in Requests, Contains(tasks', r), cancel'[r]
        PROVE  asked'[r] \/ (pc'[Owner[r]] = "reset" /\ arg'[Owner[r]] = r)
    BY <2>2, OwnerAssumption DEF FlagInv, FlagQuiet
  <2>3. QED BY <2>1, <2>2 DEF FlagInv
<1>2. NoSpuriousCancel'
  BY OwnerAssumption DEF NoSpuriousCancel, FlagQuiet
<1>3. QED BY <1>1, <1>2

(* A cancelled task is one somebody asked to cancel.                       *)
LEMMA CancelFlags ==
  ASSUME Typed, FlagInv, NoSpuriousCancel, NEW i \in 1..Len(tasks),
         asked[tasks[i]], SetTaskStatus(tasks[i], "cancelled"),
         tasks' = RemoveAt(tasks, i), UNCHANGED <<cancel, asked, arg>>,
         \A c \in Clients : \/ pc'[c] = pc[c]
                            \/ /\ pc[c] = "try_cancel"
                               /\ pc'[c] \in {"cancel_true", "cancel_false"}
  PROVE  FlagInv' /\ NoSpuriousCancel'
<1>1. \A r \in Requests : Contains(tasks', r) => Contains(tasks, r)
  BY RemoveAtElements DEF Typed, TypeOK
<1>2. FlagInv'
  <2>1. \A c \in Clients : pc'[c] = "try_cancel" => asked'[arg'[c]]
    BY DEF FlagInv
  <2>2. ASSUME NEW r \in Requests, Contains(tasks', r), cancel'[r]
        PROVE  asked'[r] \/ (pc'[Owner[r]] = "reset" /\ arg'[Owner[r]] = r)
    BY <1>1, <2>2, OwnerAssumption DEF FlagInv
  <2>3. QED BY <2>1, <2>2 DEF FlagInv
<1>3. NoSpuriousCancel'
  <2>1. \A r \in Requests : r # tasks[i] => status'[r] = status[r]
    BY DEF SetTaskStatus, Typed, TypeOK
  <2>2. QED BY <2>1, OwnerAssumption DEF NoSpuriousCancel
<1>4. QED BY <1>2, <1>3

(* The service cancels only requests somebody asked to cancel.             *)
LEMMA ServiceFlags ==
  ASSUME ~ Lockless, Typed, Ownership, MutexInv, FlagInv, NoSpuriousCancel,
         ServiceStep \/ SpuriousWake
  PROVE  FlagInv' /\ NoSpuriousCancel'
<1>1. CASE \/ LoopTop \/ Resume \/ BeginUpdate \/ DequeueFails \/ KeepTask
           \/ EndCancels \/ FallAsleep \/ WaitForWake \/ Timeout
           \/ SpuriousWake \/ WakeUp \/ PeekNothing
  <2>1. UNCHANGED <<status, cancel, asked, tasks, pc, arg>>
    BY <1>1
       DEF OnlyServicePC, requestVars, taskVars, statusVars, serviceVars,
           clientVars, LoopTop, Resume, BeginUpdate, DequeueFails, KeepTask,
           EndCancels, FallAsleep, WaitForWake, Timeout, SpuriousWake, WakeUp,
           PeekNothing
  <2>2. QED BY <2>1, QuietFlags DEF FlagQuiet
<1>2. CASE \E c \in Clients : Dequeue(c)
  BY <1>2 DEF Dequeue, MutexInv
<1>3. CASE CancelTask
  <2>1. /\ cursor \in 1..Len(tasks) /\ tasks[cursor] \in Requests
        /\ Contains(tasks, tasks[cursor]) /\ cancel[tasks[cursor]]
    BY <1>3 DEF CancelTask, DeferCancelled, Typed, TypeOK, Contains
  <2>2. \A c \in Clients : pc[c] # "reset"
    BY <1>3, NamesAssumption DEF CancelTask, MutexInv, UpdatePCs
  <2>3. asked[tasks[cursor]]
    BY <2>1, <2>2, OwnerAssumption DEF FlagInv
  <2>4. QED
    BY <1>3, <2>1, <2>3, CancelFlags DEF CancelTask, Erased, clientVars
<1>4. CASE SortTasks
  <2>1. PICK p \in Bijection(1..Len(tasks), 1..Len(tasks)) :
          tasks' = [k \in 1..Len(tasks) |-> tasks[p[k]]]
    BY <1>4 DEF SortTasks, SortResults, Permuted
  <2>2. \A x : Contains(tasks', x) <=> Contains(tasks, x)
    BY <2>1, PermutedElements DEF Typed, TypeOK
  <2>3. QED
    BY <1>4, <2>2, QuietFlags DEF SortTasks, FlagQuiet, requestVars, clientVars
<1>5. CASE Peek
  <2>1. \A x : Contains(tasks', x) => Contains(tasks, x)
    BY <1>5, TailElements DEF Peek, Popped, Typed, TypeOK
  <2>2. QED
    BY <1>5, <2>1, QuietFlags DEF Peek, FlagQuiet, requestVars, clientVars
<1>6. CASE NotifyStage
  BY <1>6, QuietFlags DEF NotifyStage, FlagQuiet, taskVars, clientVars
<1>7. CASE StoreStage
  <2>1. /\ current \in Requests /\ Stages[stage] # "cancelled"
        /\ status' = [status EXCEPT ![current] = Stages[stage]]
        /\ UNCHANGED <<cancel, asked, tasks, pc, arg>>
    BY <1>7, PendingStages
       DEF StoreStage, Typed, TypeOK, Ownership, StageInv, taskVars, clientVars
  <2>2. FlagInv'
    BY <2>1 DEF FlagInv
  <2>3. NoSpuriousCancel'
    BY <2>1 DEF NoSpuriousCancel, Typed, TypeOK
  <2>4. QED BY <2>2, <2>3
<1>8. QED
  BY <1>1, <1>2, <1>3, <1>4, <1>5, <1>6, <1>7 DEF ServiceStep

(* A client that issues a request forgets who cancelled the issue before.  *)
LEMMA RequestFlags ==
  ASSUME Typed, Ownership, FlagInv, NoSpuriousCancel,
         NEW c \in Clients, NEW r \in Requests, Request(c, r)
  PROVE  FlagInv' /\ NoSpuriousCancel'
<1>1. /\ pc[c] = "idle" /\ Owner[r] = c /\ status[r] \in Ended \cup {"none"}
      /\ pc'[c] = "enqueue" /\ arg'[c] = r
      /\ \A d \in Clients : d # c => pc'[d] = pc[d] /\ arg'[d] = arg[d]
      /\ UNCHANGED <<status, cancel, tasks>>
  BY DEF Request, Idle, Goto, ClientKeeps, taskVars, Typed, TypeOK
<1>2. \A x \in Requests : x # r => asked'[x] = asked[x]
  BY DEF Request, Typed, TypeOK
<1>3. ASSUME NEW d \in Clients, pc'[d] = "try_cancel"
      PROVE  asked'[arg'[d]]
  <2>1. d # c /\ pc[d] = "try_cancel" /\ arg[d] \in Requests /\ arg'[d] = arg[d]
    BY <1>1, <1>3 DEF Typed, ArgInv
  <2>2. CASE arg[d] = r
    <3>1. \E e \in Clients : Cancelling(e, r)
      BY <2>1, <2>2 DEF Cancelling
    <3>2. asked' = [asked EXCEPT ![r] = TRUE]
      BY <3>1 DEF Request
    <3>3. QED BY <2>1, <2>2, <3>2 DEF Typed, TypeOK
  <2>3. CASE arg[d] # r
    BY <1>2, <2>1, <2>3 DEF FlagInv
  <2>4. QED BY <2>2, <2>3
<1>4. ASSUME NEW x \in Requests, Contains(tasks', x), cancel'[x]
      PROVE  asked'[x] \/ (pc'[Owner[x]] = "reset" /\ arg'[Owner[x]] = x)
  <2>1. x # r
    BY <1>1, <1>4, PendingStages DEF Ownership, WaitInv
  <2>2. QED BY <1>1, <1>2, <1>4, <2>1, OwnerAssumption DEF FlagInv
<1>5. NoSpuriousCancel'
  BY <1>1, <1>2, OwnerAssumption DEF NoSpuriousCancel
<1>6. QED BY <1>3, <1>4, <1>5 DEF FlagInv

(* The clients cancel only requests they asked to cancel.                  *)
LEMMA ClientFlags ==
  ASSUME ~ Lockless, Typed, Ownership, MutexInv, FlagInv, NoSpuriousCancel,
         NEW c \in Clients, ClientCall(c) \/ ClientStep(c)
  PROVE  FlagInv' /\ NoSpuriousCancel'
<1> USE DEF OnlyClientPC, ClientKeeps, Idle, Goto, requestVars, taskVars,
            clientVars
<1>1. ASSUME NEW r \in Requests, TryCancel(c, r)
      PROVE  FlagInv' /\ NoSpuriousCancel'
  <2>1. /\ pc[c] = "idle" /\ arg'[c] = r
        /\ \A d \in Clients : d # c => pc'[d] = pc[d] /\ arg'[d] = arg[d]
        /\ UNCHANGED <<status, cancel, tasks>>
        /\ \A x \in Requests : asked[x] => asked'[x]
        /\ \/ pc'[c] = "try_cancel" /\ asked'[r]
           \/ pc'[c] = "cancel_false"
    BY <1>1 DEF TryCancel, Typed, TypeOK
  <2>2. \A d \in Clients : pc'[d] = "try_cancel" => asked'[arg'[d]]
    BY <2>1 DEF FlagInv, Typed, ArgInv
  <2>3. ASSUME NEW x \in Requests, Contains(tasks', x), cancel'[x]
        PROVE  asked'[x] \/ (pc'[Owner[x]] = "reset" /\ arg'[Owner[x]] = x)
    BY <2>1, <2>3, OwnerAssumption DEF FlagInv
  <2>4. NoSpuriousCancel'
    BY <2>1, OwnerAssumption DEF NoSpuriousCancel
  <2>5. QED BY <2>2, <2>3, <2>4 DEF FlagInv
<1>2. ASSUME NEW r \in Requests, DeferCancel(c, r)
      PROVE  FlagInv' /\ NoSpuriousCancel'
  <2>1. /\ asked'[r] /\ \A x \in Requests : asked[x] => asked'[x]
        /\ \A x \in Requests : x # r => cancel'[x] = cancel[x]
        /\ UNCHANGED <<status, tasks, pc, arg>>
    BY <1>2 DEF DeferCancel, Typed, TypeOK
  <2>2. \A d \in Clients : pc'[d] = "try_cancel" => asked'[arg'[d]]
    BY <2>1 DEF FlagInv, Typed, ArgInv
  <2>3. ASSUME NEW x \in Requests, Contains(tasks', x), cancel'[x]
        PROVE  asked'[x] \/ (pc'[Owner[x]] = "reset" /\ arg'[Owner[x]] = x)
    BY <2>1, <2>3, OwnerAssumption DEF FlagInv
  <2>4. NoSpuriousCancel'
    BY <2>1 DEF NoSpuriousCancel
  <2>5. QED BY <2>2, <2>3, <2>4 DEF FlagInv
<1>3. CASE EnqueueStatus(c)
  <2>1. /\ pc[c] = "enqueue" /\ pc'[c] = "push" /\ arg[c] \in Requests
        /\ status' = [status EXCEPT ![arg[c]] = "enqueued"]
        /\ \A d \in Clients : d # c => pc'[d] = pc[d]
        /\ UNCHANGED <<cancel, asked, tasks, arg>>
    BY <1>3 DEF EnqueueStatus, SetTaskStatus, Typed, TypeOK, ArgInv
  <2>2. /\ status'[arg[c]] = "enqueued"
        /\ \A x \in Requests : x # arg[c] => status'[x] = status[x]
    BY <2>1 DEF Typed, TypeOK
  <2>3. \A d \in Clients : pc'[d] = "try_cancel" => asked'[arg'[d]]
    BY <2>1 DEF FlagInv
  <2>4. ASSUME NEW x \in Requests, Contains(tasks', x), cancel'[x]
        PROVE  asked'[x] \/ (pc'[Owner[x]] = "reset" /\ arg'[Owner[x]] = x)
    BY <2>1, <2>4, OwnerAssumption DEF FlagInv
  <2>5. NoSpuriousCancel'
    BY <2>1, <2>2, OwnerAssumption DEF NoSpuriousCancel
  <2>6. QED BY <2>3, <2>4, <2>5 DEF FlagInv
<1>4. CASE Push(c)
  <2>1. /\ pc[c] = "push" /\ pc'[c] = "reset" /\ arg[c] \in Requests
        /\ Owner[arg[c]] = c /\ tasks' = Append(tasks, arg[c])
        /\ \A d \in Clients : d # c => pc'[d] = pc[d]
        /\ UNCHANGED <<status, cancel, asked, arg>>
    BY <1>4 DEF Push, Pushed, Typed, TypeOK, ArgInv, Ownership, CallInv,
                RequestPCs
  <2>2. \A x : Contains(tasks', x) => Contains(tasks, x) \/ x = arg[c]
    <3>1. tasks \in Seq(Requests) /\ arg[c] \in Requests
      BY <2>1 DEF Typed, TypeOK
    <3>2. \A x : Contains(Append(tasks, arg[c]), x) <=> Contains(tasks, x) \/ x = arg[c]
      BY <3>1, AppendElements
    <3>3. QED BY <2>1, <3>2
  <2>3. \A d \in Clients : pc'[d] = "try_cancel" => asked'[arg'[d]]
    BY <2>1 DEF FlagInv
  <2>4. ASSUME NEW x \in Requests, Contains(tasks', x), cancel'[x]
        PROVE  asked'[x] \/ (pc'[Owner[x]] = "reset" /\ arg'[Owner[x]] = x)
    BY <2>1, <2>2, <2>4, OwnerAssumption DEF FlagInv
  <2>5. NoSpuriousCancel'
    BY <2>1, OwnerAssumption DEF NoSpuriousCancel
  <2>6. QED BY <2>3, <2>4, <2>5 DEF FlagInv
<1>5. CASE ResetCancel(c)
  <2>1. /\ pc[c] = "reset" /\ pc'[c] = "wake" /\ arg[c] \in Requests
        /\ cancel' = [cancel EXCEPT ![arg[c]] = FALSE]
        /\ \A d \in Clients : d # c => pc'[d] = pc[d]
        /\ UNCHANGED <<status, asked, tasks, arg>>
    BY <1>5 DEF ResetCancel, Typed, TypeOK, ArgInv
  <2>2. /\ ~ cancel'[arg[c]]
        /\ \A x \in Requests : x # arg[c] => cancel'[x] = cancel[x]
    BY <2>1 DEF Typed, TypeOK
  <2>3. \A d \in Clients : pc'[d] = "try_cancel" => asked'[arg'[d]]
    BY <2>1 DEF FlagInv
  <2>4. ASSUME NEW x \in Requests, Contains(tasks', x), cancel'[x]
        PROVE  asked'[x] \/ (pc'[Owner[x]] = "reset" /\ arg'[Owner[x]] = x)
    BY <2>1, <2>2, <2>4, OwnerAssumption DEF FlagInv
  <2>5. NoSpuriousCancel'
    BY <2>1, OwnerAssumption DEF NoSpuriousCancel
  <2>6. QED BY <2>3, <2>4, <2>5 DEF FlagInv
<1>6. CASE TryCancelScan(c)
  <2> DEFINE found == {i \in 1..Len(tasks) :
                         tasks[i] = arg[c] /\ Cancellable(arg[c])}
  <2>1. PICK l \in {"cancel_true", "cancel_false"} : Goto(c, l)
    BY <1>6 DEF TryCancelScan
  <2>2. /\ pc[c] = "try_cancel" /\ pc'[c] = l
        /\ \A d \in Clients : d # c => pc'[d] = pc[d]
        /\ UNCHANGED <<cancel, asked, arg>>
    BY <1>6, <2>1 DEF TryCancelScan, Typed, TypeOK
  <2>3. CASE found = {}
    <3>1. UNCHANGED <<tasks, status>>
      BY <1>6, <2>3 DEF TryCancelScan
    <3>2. QED BY <2>2, <3>1, QuietFlags DEF FlagQuiet
  <2>4. CASE found # {}
    <3>1. PICK i \in 1..Len(tasks) :
            tasks[i] = arg[c] /\ tasks' = RemoveAt(tasks, i)
      BY <1>6, <2>4 DEF TryCancelScan, Erased
    <3>2. SetTaskStatus(tasks[i], "cancelled")
      BY <1>6, <2>4, <3>1 DEF TryCancelScan
    <3>3. asked[tasks[i]]
      BY <2>2, <3>1 DEF FlagInv
    <3>4. \A d \in Clients : \/ pc'[d] = pc[d]
                             \/ /\ pc[d] = "try_cancel"
                                /\ pc'[d] \in {"cancel_true", "cancel_false"}
      BY <2>2
    <3>5. QED BY <2>2, <3>1, <3>2, <3>3, <3>4, CancelFlags
  <2>5. QED BY <2>3, <2>4
<1>7. ASSUME NEW ms \in {"forever", "finite"}, SetSleepTime(c, ms)
      PROVE  FlagInv' /\ NoSpuriousCancel'
  BY <1>7, QuietFlags DEF SetSleepTime, FlagQuiet
<1>8. ASSUME NEW l, Goto(c, l), l # "try_cancel", pc[c] \notin {"enqueue", "reset"},
             UNCHANGED <<status, cancel, asked, tasks>>,
             \A d \in Clients : d # c => arg'[d] = arg[d]
      PROVE  FlagInv' /\ NoSpuriousCancel'
  <2>1. pc'[c] = l /\ \A d \in Clients : d # c => pc'[d] = pc[d]
    BY <1>8 DEF Typed, TypeOK
  <2>2. QED BY <1>8, <2>1, QuietFlags DEF FlagQuiet
<1>9. CASE Wake(c) \/ TryCancelReturns(c)
  <2>1. \A d \in Clients : d # c => arg'[d] = arg[d]
    BY <1>9 DEF Wake, TryCancelReturns, Typed, TypeOK
  <2>2. QED BY <1>8, <1>9, <2>1 DEF Wake, TryCancelReturns
<1>10. CASE Drain(c) \/ Run(c) \/ \E waitDrain \in BOOLEAN : Stop(c, waitDrain)
  BY <1>8, <1>10 DEF Drain, Run, Stop
<1>11. CASE Drained(c) \/ StopStore(c) \/ RunStore(c)
  BY <1>8, <1>11 DEF Drained, StopStore, RunStore
<1>12. CASE QuitStore(c) \/ QuitSeen(c) \/ Join(c)
  BY <1>8, <1>12 DEF QuitStore, QuitSeen, Join
<1>13. CASE QuitWake(c)
  BY <1>13, QuietFlags DEF QuitWake, FlagQuiet
<1>14. CASE Destroy(c)
  BY <1>14, QuietFlags DEF Destroy, FlagQuiet, Typed, TypeOK
<1>15. QED
  BY <1>1, <1>2, <1>3, <1>4, <1>5, <1>6, <1>7, <1>9, <1>10, <1>11, <1>12,
     <1>13, <1>14, RequestFlags DEF ClientCall, ClientStep

(* With the lock, only a request somebody asked to cancel since it was     *)
(* issued ends as cancelled: enqueue_ resets request_cancel, and update_   *)
(* and try_cancel_ look at it, under taskMutex.                            *)
THEOREM NoSpuriousCancelCorrect ==
  ASSUME ~ Lockless
  PROVE  Spec => []NoSpuriousCancel
<1> DEFINE LockedInv == MutexInv /\ FlagInv /\ NoSpuriousCancel
<1>1. Init => LockedInv
  BY NamesAssumption
     DEF Init, MutexInv, FlagInv, NoSpuriousCancel, UpdatePCs, Contains
<1>2. Typed /\ Ownership /\ LockedInv /\ [Next]_vars => LockedInv'
  <2> SUFFICES ASSUME Typed, Ownership, LockedInv, [Next]_vars
               PROVE  LockedInv'
    OBVIOUS
  <2>1. CASE UNCHANGED vars
    BY <2>1 DEF vars, requestVars, taskVars, serviceVars, clientVars,
                MutexInv, FlagInv, NoSpuriousCancel
  <2>2. CASE ServiceStep \/ SpuriousWake
    BY <2>2, ServiceMutex, ServiceFlags
  <2>3. ASSUME NEW c \in Clients, ClientCall(c) \/ ClientStep(c)
        PROVE  LockedInv'
    BY <2>3, ClientMutex, ClientFlags
  <2>4. QED BY <2>1, <2>2, <2>3 DEF Next
<1>3. LockedInv => NoSpuriousCancel
  OBVIOUS
<1>4. QED BY <1>1, <1>2, <1>3, OwnershipCorrect, PTL DEF Spec

-----------------------------------------------------------------------------
(* The order of the tasks.                                                 *)

(* Where a can be when it is in front of b, a request of the same client.  *)
LEMMA AheadShape ==
  ASSUME NEW a \in Requests, NEW b \in Requests, Owner[a] = Owner[b]
  PROVE  Ahead(a, b) <=>
           \/ a = current /\ (Contains(tasks, b) \/ Contains(queue[Owner[a]], b))
           \/ Contains(tasks, a) /\ Contains(queue[Owner[a]], b)
           \/ InOrder(tasks, a, b)
           \/ InOrder(queue[Owner[a]], a, b)
BY DEF Ahead, InOrder

(* The containers and the current task are all that order depends on.      *)
LEMMA OrderUnchanged ==
  ASSUME NEW a \in Requests, NEW b \in Requests, Ahead(a, b),
         UNCHANGED <<queue, tasks, current>>
  PROVE  Ahead(a, b)'
BY DEF Ahead

(* A task that moves to the end of the container stays in order.           *)
LEMMA DequeueOrder ==
  ASSUME Typed, NEW c \in Clients, Dequeue(c),
         NEW a \in Requests, NEW b \in Requests, Owner[a] = Owner[b], Ahead(a, b)
  PROVE  Ahead(a, b)'
<1> DEFINE r == Head(queue[c])
           q == queue[Owner[a]]
<1>1. /\ queue \in [Clients -> Seq(Requests)] /\ tasks \in Seq(Requests)
      /\ queue[c] \in Seq(Requests) /\ queue[c] # <<>> /\ r \in Requests
      /\ tasks' = Append(tasks, r) /\ queue' = [queue EXCEPT ![c] = Tail(queue[c])]
      /\ current' = current /\ Owner[a] \in Clients
  BY OwnerAssumption DEF Dequeue, Pushed, Typed, TypeOK, serviceVars
<1>2. /\ \A x : Contains(tasks', x) <=> Contains(tasks, x) \/ x = r
      /\ InOrder(tasks, a, b) => InOrder(tasks', a, b)
      /\ Contains(tasks, a) => InOrder(tasks', a, r)
  BY <1>1, AppendElements, AppendOrder
<1>3. /\ Contains(q, b) => Contains(queue'[Owner[a]], b) \/ b = r
      /\ InOrder(q, a, b) => \/ InOrder(queue'[Owner[a]], a, b)
                             \/ a = r /\ Contains(queue'[Owner[a]], b)
  <2>1. CASE Owner[a] # c
    BY <1>1, <2>1
  <2>2. CASE Owner[a] = c
    <3>1. queue'[Owner[a]] = Tail(queue[c])
      BY <1>1, <2>2
    <3>2. \A x : Contains(queue[c], x) <=> Contains(Tail(queue[c]), x) \/ x = r
      BY <1>1, TailElements
    <3>3. InOrder(queue[c], a, b) =>
            InOrder(Tail(queue[c]), a, b) \/ (a = r /\ Contains(Tail(queue[c]), b))
      BY <1>1, TailOrder
    <3>4. QED BY <2>2, <3>1, <3>2, <3>3
  <2>3. QED BY <2>1, <2>2
<1> HIDE DEF r, q
<1>4. (\/ a = current /\ (Contains(tasks, b) \/ Contains(queue[Owner[a]], b))
       \/ Contains(tasks, a) /\ Contains(queue[Owner[a]], b)
       \/ InOrder(tasks, a, b)
       \/ InOrder(queue[Owner[a]], a, b))'
  BY <1>1, <1>2, <1>3, AheadShape DEF q
<1>5. QED BY ONLY <1>4, Owner[a] = Owner[b] DEF Ahead, InOrder

(* Erasing a task keeps the others in order.                               *)
LEMMA EraseOrder ==
  ASSUME Typed, Ownership, NEW i \in 1..Len(tasks), tasks' = RemoveAt(tasks, i),
         UNCHANGED <<queue, current>>,
         NEW a \in Requests, NEW b \in Requests, Owner[a] = Owner[b],
         Ahead(a, b), Held(a)', Held(b)'
  PROVE  Ahead(a, b)'
<1>1. PICK r \in Requests : r = tasks[i]
  BY DEF Typed, TypeOK
<1>2. /\ tasks \in Seq(Requests) /\ Contains(tasks, r) /\ ~ Contains(tasks', r)
      /\ \A x : Contains(tasks, x) => Contains(tasks', x) \/ x = r
  <2>1. tasks \in Seq(Requests)
    BY DEF Typed, TypeOK
  <2>2. Contains(tasks, r)
    BY <1>1, <2>1 DEF Contains
  <2>3. IsInjective(tasks)
    BY DEF Ownership, HeldOnce
  <2>4. QED BY <1>1, <2>1, <2>2, <2>3, RemoveAtElements
<1>3. ~ Held(r)'
  <2>1. r # current /\ ~ Contains(queue[Owner[r]], r)
    BY <1>2, OwnerAssumption DEF Ownership, HeldOnce
  <2>2. QED BY <1>2, <2>1 DEF Held
<1>4. a # r /\ b # r
  BY <1>3
<1>5. InOrder(tasks, a, b) => InOrder(tasks', a, b)
  BY <1>1, <1>2, <1>4, RemoveAtOrder
<1>6. (\/ a = current /\ (Contains(tasks, b) \/ Contains(queue[Owner[a]], b))
       \/ Contains(tasks, a) /\ Contains(queue[Owner[a]], b)
       \/ InOrder(tasks, a, b)
       \/ InOrder(queue[Owner[a]], a, b))'
  BY <1>2, <1>4, <1>5, AheadShape
<1>7. QED BY ONLY <1>6, Owner[a] = Owner[b] DEF Ahead, InOrder

(* A stable sort moves only the more urgent of two tasks to the front.     *)
LEMMA StableOrder ==
  ASSUME NEW s \in Seq(Requests), IsInjective(s), SortMethod # "partial",
         NEW t \in SortResults(s),
         NEW a, NEW b, InOrder(s, a, b), SortMethod = "never" \/ ~ MoreUrgent(b, a)
  PROVE  InOrder(t, a, b)
<1>1. CASE SortMethod = "never"
  BY <1>1 DEF SortResults
<1>2. CASE SortMethod = "stable"
  <2>1. SortedUpTo(t, Len(t)) /\ KeepsTies(t, s) /\ ~ MoreUrgent(b, a)
    BY <1>2 DEF SortResults
  <2>2. PICK p \in Bijection(1..Len(s), 1..Len(s)) :
          t = [k \in 1..Len(s) |-> s[p[k]]]
    BY DEF SortResults, Permuted
  <2>3. /\ t \in Seq(Requests) /\ Len(t) \in Nat
        /\ \A x : Contains(t, x) <=> Contains(s, x)
    BY <2>2, PermutedElements
  <2>4. PICK k \in 1..Len(s), l \in 1..Len(s) : k < l /\ s[k] = a /\ s[l] = b
    BY DEF InOrder
  <2>5. \A m, n \in 1..Len(s) : s[m] = s[n] => m = n
    BY DEF IsInjective
  <2>6. a \in Requests /\ b \in Requests /\ Contains(s, a) /\ Contains(s, b) /\ a # b
    BY <2>4, <2>5 DEF Contains
  <2>7. PICK i \in 1..Len(t), j \in 1..Len(t) : t[i] = a /\ t[j] = b
    BY <2>3, <2>6 DEF Contains
  <2>8. ~ (j < i)
    <3>1. SUFFICES ASSUME j < i
                   PROVE  FALSE
      OBVIOUS
    <3>2. ~ MoreUrgent(a, b)
      BY <2>1, <2>7, <3>1 DEF SortedUpTo
    <3>3. Priority[a] \in Int /\ Priority[b] \in Int
      BY <2>6, PriorityAssumption
    <3>4. Priority[b] = Priority[a]
      <4>1. ~ (Priority[a] > Priority[b]) /\ ~ (Priority[b] > Priority[a])
        BY ONLY <2>1, <3>2 DEF MoreUrgent
      <4>2. QED BY ONLY <3>3, <4>1
    <3>5. PICK m \in 1..Len(s), n \in 1..Len(s) : m < n /\ s[m] = b /\ s[n] = a
      BY <2>1, <2>7, <3>1, <3>4 DEF KeepsTies
    <3>6. m = l /\ n = k
      BY <2>4, <2>5, <3>5
    <3>7. QED BY <2>4, <3>5, <3>6
  <2>9. i < j
    BY <2>3, <2>6, <2>7, <2>8
  <2>10. QED BY <2>7, <2>9 DEF InOrder
<1>3. QED BY <1>1, <1>2, ModesAssumption

(* Sorting overtakes nothing but the less urgent.                          *)
LEMMA SortOrder ==
  ASSUME Typed, Ownership, SortMethod # "partial", SortTasks,
         NEW a \in Requests, NEW b \in Requests, Owner[a] = Owner[b],
         Ahead(a, b), SortMethod = "never" \/ ~ MoreUrgent(b, a)
  PROVE  Ahead(a, b)'
<1>1. /\ tasks \in Seq(Requests) /\ IsInjective(tasks)
      /\ tasks' \in SortResults(tasks) /\ UNCHANGED <<queue, current>>
  BY DEF SortTasks, Typed, TypeOK, Ownership, HeldOnce
<1>2. PICK p \in Bijection(1..Len(tasks), 1..Len(tasks)) :
        tasks' = [k \in 1..Len(tasks) |-> tasks[p[k]]]
  BY <1>1 DEF SortResults, Permuted
<1>3. \A x : Contains(tasks', x) <=> Contains(tasks, x)
  BY <1>1, <1>2, PermutedElements
<1>4. InOrder(tasks, a, b) => InOrder(tasks', a, b)
  BY <1>1, StableOrder
<1>5. (\/ a = current /\ (Contains(tasks, b) \/ Contains(queue[Owner[a]], b))
       \/ Contains(tasks, a) /\ Contains(queue[Owner[a]], b)
       \/ InOrder(tasks, a, b)
       \/ InOrder(queue[Owner[a]], a, b))'
  BY <1>1, <1>3, <1>4, AheadShape
<1>6. QED BY ONLY <1>5, Owner[a] = Owner[b] DEF Ahead, InOrder

(* The task the service takes up was in front of all others.               *)
LEMMA PeekOrder ==
  ASSUME Typed, Ownership, Peek,
         NEW a \in Requests, NEW b \in Requests, Owner[a] = Owner[b], Ahead(a, b)
  PROVE  Ahead(a, b)'
<1>1. /\ tasks \in Seq(Requests) /\ tasks # <<>> /\ tasks' = Tail(tasks)
      /\ current' = Head(tasks) /\ queue' = queue /\ svc = "peek"
  BY DEF Peek, Popped, Typed, TypeOK
<1>2. a # current
  BY <1>1, NamesAssumption DEF Ownership, StageInv
<1>3. /\ \A x : Contains(tasks, x) <=> Contains(tasks', x) \/ x = Head(tasks)
      /\ InOrder(tasks, a, b) =>
           InOrder(tasks', a, b) \/ (a = Head(tasks) /\ Contains(tasks', b))
  BY <1>1, TailElements, TailOrder
<1>4. (\/ a = current /\ (Contains(tasks, b) \/ Contains(queue[Owner[a]], b))
       \/ Contains(tasks, a) /\ Contains(queue[Owner[a]], b)
       \/ InOrder(tasks, a, b)
       \/ InOrder(queue[Owner[a]], a, b))'
  BY <1>1, <1>2, <1>3, AheadShape
<1>5. QED BY ONLY <1>4, Owner[a] = Owner[b] DEF Ahead, InOrder

(* A task that is dropped is held no more.                                 *)
LEMMA StoreOrder ==
  ASSUME Ownership, StoreStage,
         NEW a \in Requests, NEW b \in Requests, Ahead(a, b), Held(a)'
  PROVE  Ahead(a, b)'
<1>1. UNCHANGED <<tasks, queue>> /\ (current' = current \/ current' = NoRequest)
  BY DEF StoreStage, taskVars
<1>2. CASE current' = current
  BY <1>1, <1>2, OrderUnchanged
<1>3. CASE current' = NoRequest
  <2>1. a # current
    BY <1>1, <1>3, OwnerAssumption, NamesAssumption DEF Held, Ownership, HeldOnce
  <2>2. QED BY <1>1, <2>1 DEF Ahead
<1>4. QED BY <1>1, <1>2, <1>3

(* A request that is pushed is behind those of its client already there.   *)
LEMMA PushOrder ==
  ASSUME Typed, NEW c \in Clients, Push(c),
         NEW a \in Requests, NEW b \in Requests, Owner[a] = Owner[b], Ahead(a, b)
  PROVE  Ahead(a, b)'
<1>1. /\ arg[c] \in Requests /\ current' = current /\ Owner[a] \in Clients
      /\ tasks \in Seq(Requests) /\ queue \in [Clients -> Seq(Requests)]
  BY OwnerAssumption DEF Push, Typed, TypeOK, ArgInv, serviceVars
<1>2. \/ tasks' = tasks /\ queue' = [queue EXCEPT ![c] = Append(queue[c], arg[c])]
      \/ tasks' = Append(tasks, arg[c]) /\ queue' = queue
  BY DEF Push, Pushed
<1>3. /\ \A x : Contains(tasks, x) => Contains(tasks', x)
      /\ InOrder(tasks, a, b) => InOrder(tasks', a, b)
  <2>1. CASE tasks' = tasks
    BY <2>1
  <2>2. CASE tasks' = Append(tasks, arg[c])
    BY <1>1, <2>2, AppendElements, AppendOrder
  <2>3. QED BY <1>2, <2>1, <2>2
<1>4. /\ \A x : Contains(queue[Owner[a]], x) => Contains(queue'[Owner[a]], x)
      /\ InOrder(queue[Owner[a]], a, b) => InOrder(queue'[Owner[a]], a, b)
  <2>1. CASE queue'[Owner[a]] = queue[Owner[a]]
    BY <2>1
  <2>2. CASE queue'[Owner[a]] = Append(queue[Owner[a]], arg[c])
    BY <1>1, <2>2, AppendElements, AppendOrder
  <2>3. QED BY <1>1, <1>2, <2>1, <2>2
<1>5. (\/ a = current /\ (Contains(tasks, b) \/ Contains(queue[Owner[a]], b))
       \/ Contains(tasks, a) /\ Contains(queue[Owner[a]], b)
       \/ InOrder(tasks, a, b)
       \/ InOrder(queue[Owner[a]], a, b))'
  BY <1>1, <1>3, <1>4, AheadShape
<1>6. QED BY ONLY <1>5, Owner[a] = Owner[b] DEF Ahead, InOrder

(* The steps that can be seen in the containers; every other step leaves   *)
(* them and the current task alone.                                        *)
LEMMA OrderSteps ==
  ASSUME [Next]_vars, UNCHANGED <<queue, tasks, current>> => FALSE
  PROVE  \/ (\E c \in Clients : Dequeue(c) \/ Push(c))
         \/ CancelTask \/ SortTasks \/ Peek \/ StoreStage
         \/ \E c \in Clients :
              /\ TryCancelScan(c) /\ UNCHANGED <<queue, current>>
              /\ \E i \in 1..Len(tasks) : tasks' = RemoveAt(tasks, i)
<1> USE DEF taskVars, serviceVars, OnlyServicePC, OnlyClientPC, ClientKeeps
<1>1. CASE UNCHANGED vars
  BY <1>1 DEF vars
<1>2. CASE SpuriousWake
  BY <1>2 DEF SpuriousWake
<1>3. CASE ServiceStep
  BY <1>3 DEF ServiceStep, LoopTop, Resume, BeginUpdate, DequeueFails, KeepTask,
              EndCancels, FallAsleep, WaitForWake, Timeout, WakeUp, PeekNothing,
              NotifyStage
<1>4. ASSUME NEW c \in Clients, ClientCall(c)
      PROVE  FALSE
  BY <1>4 DEF ClientCall, Request, TryCancel, DeferCancel, SetSleepTime, Drain,
              Stop, Run, Destroy
<1>5. ASSUME NEW c \in Clients, ClientStep(c), ~ Push(c), ~ TryCancelScan(c)
      PROVE  FALSE
  BY <1>5 DEF ClientStep, EnqueueStatus, ResetCancel, Wake, TryCancelReturns,
              Drained, StopStore, RunStore, QuitStore, QuitWake, QuitSeen, Join
<1>6. ASSUME NEW c \in Clients, TryCancelScan(c)
      PROVE  /\ UNCHANGED <<queue, current>>
             /\ \E i \in 1..Len(tasks) : tasks' = RemoveAt(tasks, i)
  BY <1>6 DEF TryCancelScan, Erased
<1>7. QED BY <1>1, <1>2, <1>3, <1>4, <1>5, <1>6 DEF Next

(* Requests of one client keep their order all the way through, unless a   *)
(* sort moves the more urgent one to the front: enqueue_, update_, peek_   *)
(* and try_cancel_ together are a queue per client.  partial_sort is left  *)
(* out, it does not keep the order of tasks that are equally urgent.       *)
THEOREM NoOvertakingCorrect ==
  ASSUME SortMethod # "partial"
  PROVE  Spec => NoOvertaking
<1>1. ASSUME Typed, Ownership, [Next]_vars,
             NEW a \in Requests, NEW b \in Requests, Owner[a] = Owner[b], Ahead(a, b),
             SortMethod = "never" \/ ~ MoreUrgent(b, a), Held(a)', Held(b)'
      PROVE  Ahead(a, b)'
  <2>1. CASE UNCHANGED <<queue, tasks, current>>
    BY <1>1, <2>1, OrderUnchanged
  <2>2. ASSUME NEW c \in Clients, Dequeue(c)
        PROVE  Ahead(a, b)'
    BY <1>1, <2>2, DequeueOrder
  <2>3. ASSUME NEW c \in Clients, Push(c)
        PROVE  Ahead(a, b)'
    BY <1>1, <2>3, PushOrder
  <2>4. CASE CancelTask
    <3>1. cursor \in 1..Len(tasks) /\ tasks' = RemoveAt(tasks, cursor)
          /\ UNCHANGED <<queue, current>>
      BY <1>1, <2>4 DEF CancelTask, Erased, Typed, TypeOK, serviceVars
    <3>2. QED BY <1>1, <3>1, EraseOrder
  <2>5. ASSUME NEW i \in 1..Len(tasks), tasks' = RemoveAt(tasks, i),
               UNCHANGED <<queue, current>>
        PROVE  Ahead(a, b)'
    BY <1>1, <2>5, EraseOrder
  <2>6. CASE SortTasks
    BY <1>1, <2>6, SortOrder
  <2>7. CASE Peek
    BY <1>1, <2>7, PeekOrder
  <2>8. CASE StoreStage
    BY <1>1, <2>8, StoreOrder
  <2>9. QED BY <1>1, <2>1, <2>2, <2>3, <2>4, <2>5, <2>6, <2>7, <2>8, OrderSteps
<1>2. Typed /\ Ownership /\ [Next]_vars =>
        [\A a, b \in Requests :
           (/\ Owner[a] = Owner[b] /\ Ahead(a, b)
            /\ SortMethod = "never" \/ ~ MoreUrgent(b, a)
            /\ Held(a)' /\ Held(b)') => Ahead(a, b)']_vars
  BY <1>1
<1>3. QED BY <1>2, OwnershipCorrect, PTL DEF Spec, NoOvertaking

-----------------------------------------------------------------------------
(* Urgency, without the lock.                                              *)

(* Clients hand their requests over through the queue alone, and the       *)
(* service sorts what it has taken from there.                             *)
SortsAlone == Lockless /\ SortMethod # "never"

(* Between the sort and peek_ the front of the container is its most       *)
(* urgent task, and the service sleeps only when the container is empty.   *)
FrontInv ==
  /\ svc = "peek" => \A i \in 1..Len(tasks) : ~ MoreUrgent(tasks[i], Head(tasks))
  /\ svc \in {"sleep", "waiting", "woken"} => tasks = <<>>
  /\ \A c \in Clients : pc[c] # "try_cancel"

(* Every way of sorting, by halves too, brings the most urgent task to the *)
(* front.                                                                  *)
LEMMA SortedFront ==
  ASSUME TypeOK, SortMethod # "never", tasks # <<>>, NEW t \in SortResults(tasks)
  PROVE  \A i \in 1..Len(t) : ~ MoreUrgent(t[i], Head(t))
<1>1. PICK p \in Bijection(1..Len(tasks), 1..Len(tasks)) :
        t = [k \in 1..Len(tasks) |-> tasks[p[k]]]
  BY DEF SortResults, Permuted
<1>2. t \in Seq(Requests) /\ Len(t) = Len(tasks) /\ Len(t) \in Nat /\ t # <<>>
  <2>1. tasks \in Seq(Requests) /\ Len(tasks) # 0
    BY DEF TypeOK
  <2>2. t \in Seq(Requests) /\ Len(t) = Len(tasks)
    BY <1>1, <2>1, PermutedElements
  <2>3. QED BY <2>1, <2>2
<1>3. Head(t) = t[1] /\ t[1] \in Requests /\ Len(t) >= 1
  BY <1>2
<1>4. ~ MoreUrgent(t[1], t[1])
  BY <1>3, PriorityAssumption DEF MoreUrgent
<1>5. ASSUME NEW i \in 1..Len(t), i # 1
      PROVE  ~ MoreUrgent(t[i], t[1])
  <2>1. 1 < i /\ Len(t) >= 2 /\ Len(t) \div 2 >= 1
    BY <1>2, <1>5
  <2>2. SortedUpTo(t, Len(t)) \/ SortedUpTo(t, Len(t) \div 2)
    BY ModesAssumption DEF SortResults, Middle
  <2>3. 1 \in 1..Len(t) /\ 1 \in 1..(Len(t) \div 2)
    BY <1>2, <2>1
  <2>4. QED BY <2>1, <2>2, <2>3 DEF SortedUpTo
<1>6. QED BY <1>3, <1>4, <1>5

(* The service thread sorts before it peeks.                               *)
LEMMA ServiceFront ==
  ASSUME SortsAlone, Typed, FrontInv, ServiceStep \/ SpuriousWake
  PROVE  FrontInv'
<1> USE DEF OnlyServicePC, taskVars, clientVars, FrontInv
<1>1. CASE SortTasks
  <2>1. /\ tasks # <<>> /\ tasks' \in SortResults(tasks) /\ svc' = "peek" /\ pc' = pc
    BY <1>1 DEF SortTasks
  <2>2. QED BY <2>1, SortedFront DEF SortsAlone, Typed
<1>2. CASE LoopTop \/ Resume \/ BeginUpdate \/ DequeueFails \/ KeepTask \/ EndCancels
  BY <1>2 DEF LoopTop, Resume, BeginUpdate, DequeueFails, KeepTask, EndCancels,
              Typed, TypeOK
<1>3. CASE CancelTask \/ \E c \in Clients : Dequeue(c)
  BY <1>3 DEF CancelTask, Dequeue, serviceVars
<1>4. CASE FallAsleep \/ WaitForWake \/ Timeout \/ SpuriousWake
  BY <1>4 DEF FallAsleep, WaitForWake, Timeout, SpuriousWake
<1>5. CASE WakeUp
  <2>1. svc = "woken" /\ tasks = <<>> /\ UNCHANGED <<tasks, pc>> /\ svc' = "peek"
    BY <1>5 DEF WakeUp
  <2>2. QED BY <2>1
<1>6. CASE Peek \/ PeekNothing \/ NotifyStage \/ StoreStage
  BY <1>6 DEF Peek, PeekNothing, NotifyStage, StoreStage
<1>7. QED BY <1>1, <1>2, <1>3, <1>4, <1>5, <1>6 DEF ServiceStep

(* The clients leave the container alone.                                  *)
LEMMA ClientFront ==
  ASSUME SortsAlone, Typed, FrontInv, NEW c \in Clients, ClientCall(c) \/ ClientStep(c)
  PROVE  FrontInv'
<1> USE DEF OnlyClientPC, ClientKeeps, Goto, taskVars, statusVars, serviceVars,
            clientVars
<1>1. tasks' = tasks
  BY DEF SortsAlone, FrontInv, ClientCall, Request, TryCancel, DeferCancel,
         SetSleepTime, Drain, Stop, Run, Destroy, ClientStep, EnqueueStatus, Push,
         ResetCancel, Wake, TryCancelScan, TryCancelReturns, Drained, StopStore,
         RunStore, QuitStore, QuitWake, QuitSeen, Join
<1>2. svc' = svc \/ (svc = "waiting" /\ svc' = "woken")
  BY DEF WakeService, ClientCall, Request, TryCancel, DeferCancel,
         SetSleepTime, Drain, Stop, Run, Destroy, ClientStep, EnqueueStatus, Push,
         ResetCancel, Wake, TryCancelScan, TryCancelReturns, Drained, StopStore,
         RunStore, QuitStore, QuitWake, QuitSeen, Join
<1>3. \A d \in Clients : pc'[d] # "try_cancel"
  <2>1. CASE ClientCall(c)
    BY <2>1 DEF SortsAlone, FrontInv, Typed, TypeOK, ClientCall, Request, TryCancel,
                DeferCancel, SetSleepTime, Drain, Stop, Run, Destroy
  <2>2. CASE ClientStep(c)
    BY <2>2 DEF FrontInv, Typed, TypeOK, ClientStep, EnqueueStatus, Push,
                ResetCancel, Wake, TryCancelScan, TryCancelReturns, Drained,
                StopStore, RunStore, QuitStore, QuitWake, QuitSeen, Join
  <2>3. QED BY <2>1, <2>2
<1>4. QED BY <1>1, <1>2, <1>3 DEF FrontInv

(* A task the service takes up without the lock is as urgent as any it     *)
(* knows of: what update_ sorts is what peek_ finds.                       *)
THEOREM UrgentFirstCorrect ==
  ASSUME SortsAlone
  PROVE  Spec => UrgentFirst
<1>1. Init => FrontInv
  BY DEF Init, FrontInv
<1>2. Typed /\ FrontInv /\ [Next]_vars => FrontInv'
  <2> SUFFICES ASSUME Typed, FrontInv, [Next]_vars
               PROVE  FrontInv'
    OBVIOUS
  <2>1. CASE UNCHANGED vars
    BY <2>1 DEF vars, taskVars, serviceVars, clientVars, FrontInv
  <2>2. QED BY <2>1, ServiceFront, ClientFront DEF Next
<1>3. ASSUME Typed, FrontInv, [Next]_vars, current = NoRequest, current' # NoRequest
      PROVE  \A i \in 1..Len(tasks) : ~ MoreUrgent(tasks[i], current')
  <2>1. Peek
    <3>1. current' # current
      BY <1>3
    <3>2. ~ StoreStage
      BY <1>3 DEF StoreStage
    <3>3. QED
      BY <1>3, <3>1, <3>2, OrderSteps
         DEF Dequeue, Push, CancelTask, SortTasks, serviceVars
  <2>2. QED BY <1>3, <2>1 DEF Peek, FrontInv
<1>4. Typed /\ FrontInv /\ [Next]_vars =>
        [current = NoRequest /\ current' # NoRequest =>
           \A i \in 1..Len(tasks) : ~ MoreUrgent(tasks[i], current')]_vars
  BY <1>3
<1>5. QED BY <1>1, <1>2, <1>4, OwnershipCorrect, PTL DEF Spec, UrgentFirst
=============================================================================
