------------------------ MODULE ResourceSystemProofs ------------------------
(***************************************************************************)
(* Proofs about ResourceSystem for any resources and dependencies, any     *)
(* clients, any number of requests, any failures and any factories.        *)
(*                                                                         *)
(* The argument: a request is in one place at most (QueuesInv), and it and *)
(* its record name each other (RecordsInv), so that what a turn of one     *)
(* request does concerns one record only.  A record that is being unloaded *)
(* has no handles unless LoadResource overlooked it (HeldInv).  When every *)
(* load asks for an installation (InstallOnly), the phase of a request     *)
(* tells what its factory has made and which status it shows (PhaseInv);   *)
(* the dependencies of a resource are held from the moment they are found  *)
(* installed until the resource is unloaded (DepsInv).  When no batch is a *)
(* task (BatchesHere), the phase of a request tells who owns its buffer:   *)
(* IO and DESER_RESOURCE, whose redirection frees it, are left before the  *)
(* record of the request can be let go, as dependencies are acyclic        *)
(* (BufferInv).                                                            *)
(***************************************************************************)
EXTENDS ResourceSystem, SequenceLemmas

\* Every client asks for an installation.  Without it an unload that overtakes
\* a load can leave a loaded object under a record that says UNLOADED.
InstallOnly == Modes = {TRUE}

Driven(q) == Contains(queue, q) \/ Contains(updating, q)

(* A request is in one place at most; one that is deleted is in none.      *)
QueuesInv ==
  /\ IsInjective(queue) /\ IsInjective(updating)
  /\ \A q \in Requests : ~ (Contains(queue, q) /\ Contains(updating, q))
  /\ \A q \in failed : ~ Driven(q)
  /\ \A q \in Requests : req[q].phase = "NONE" =>
       ~ Driven(q) /\ q \notin failed /\ req[q].rec = NoRecord

(* A request and its record name each other.                               *)
RecordsInv ==
  /\ \A q \in Requests : req[q].rec # NoRecord => active[req[q].rec] = q
  /\ \A r \in Resources, q \in Requests : active[r] = q =>
       req[q].rec = r /\ (Driven(q) \/ q \in failed) /\ status[r] # "ABSENT"

(* What goes, or is gone, has no handles unless it was overlooked.         *)
HeldInv ==
  \A r \in Resources :
    refs[r] # {} /\ (BeingUnloaded(r) \/ status[r] = "ABSENT") => r \in overlooked

CoreInv == TypeOK /\ QueuesInv /\ RecordsInv /\ HeldInv

-----------------------------------------------------------------------------
\* The phases in which a request has made nothing yet.
Early == {"REQUEST_RESOURCE", "IO", "WAITFOR_IO", "DESER_RESOURCE"}

\* The phases a redirected request has only during its turn.
Cancels == {"CANCLE_WAITFOR_IO", "CANCEL_WAITFOR_LOAD_RESOURCE",
            "CANCEL_WAITFOR_INSTALL_RESOURCE", "CANCEL_WAITFOR_LOAD_DEPENDENCIES"}

(* The phase of a request x, the status st of its record and what its      *)
(* factory has made of the object o.                                       *)
PhaseAgrees(x, st, o) ==
  /\ x.phase \notin Cancels
  /\ x.isLoading \/ x.requireLoading \/ x.phase \in Early \cup {"WAITFOR_LOAD_RESOURCE"}
       => x.requestInstall
  /\ x.phase \in Early => o = "none"
  /\ x.phase = "WAITFOR_LOAD_RESOURCE" /\ x.serde # "done" => o = "none"
  /\ x.phase = "WAITFOR_INSTALL_RESOURCE" => o = "installed"
  /\ x.phase \in {"UNINSTALL_RESOURCE", "UNLOAD_RESOURCE"} => ~ x.isLoading
  /\ x.phase = "FINISHED" /\ x.isLoading => 
       st = "INSTALLED" \/ (st = "ERROR" /\ x.requireLoading)
  /\ x.phase = "FINISHED" /\ ~ x.isLoading =>
       st = "UNLOADED" \/ (st \in {"INSTALLED", "ERROR"} /\ ~ x.requireLoading)
  /\ x.phase # "FINISHED" => st \notin {"INSTALLED", "UNLOADED"}
  /\ x.serde \in {"here", "task"} /\ x.data = "owned" => x.phase = "WAITFOR_LOAD_RESOURCE"

\* A status tells what the factory has made.
Truthful(st, o) ==
  /\ st = "INSTALLED" => o = "installed"
  /\ st \in {"UNLOADED", "ABSENT"} => o = "none"

PhaseInv ==
  /\ \A q \in Requests : req[q].rec # NoRecord =>
       PhaseAgrees(req[q], status[req[q].rec], object[req[q].rec])
  /\ \A r \in Resources : active[r] = NoRequest =>
       status[r] \in {"ABSENT", "INSTALLED", "ERROR"}
  /\ StatusTruthful

-----------------------------------------------------------------------------
\* The phases from which an installation may come without another look at
\* the dependencies.
Installing == {"INSTALL_RESOURCE", "WAITFOR_INSTALL_RESOURCE",
               "UNINSTALL_RESOURCE", "UNLOAD_RESOURCE"}

(* A resource that is installed, or may come to be without another look.   *)
NeedsDeps(r) ==
  \/ status[r] = "INSTALLED"
  \/ active[r] # NoRequest /\ req[active[r]].phase \in Installing

DepsInv ==
  /\ \A r \in Resources : NeedsDeps(r) =>
       \A d \in Deps[r] : r \in refs[d] /\ (status[d] = "INSTALLED" \/ d \in overlooked)
  /\ \A call \in calls : call[1] = "unload" => ~ NeedsDeps(call[2])

-----------------------------------------------------------------------------
(* Lemmas about the parts of steps.                                        *)

Calls == {"resolve", "unload"} \X Resources \X Resources

\* The calls that resolve the handles in a record's header.
Asked(r) == {<<"resolve", r, d>> : d \in Deps[r]}

(* The calls for dependencies are calls on resources.                      *)
LEMMA CallsTyped ==
  ASSUME NEW r \in Resources
  PROVE  Released(r) \subseteq Calls /\ Asked(r) \subseteq Calls /\ Resolved(r) \subseteq Asked(r)
<1>1. Deps[r] \subseteq Resources
  BY DependenciesAcyclic
<1>2. QED BY <1>1 DEF Released, Resolved, Asked, Calls

(* A new request is a request object.                                      *)
LEMMA NewRequestTyped ==
  ASSUME NEW r \in Resources \cup {NoRecord}, NEW phase \in Phases,
         NEW load \in BOOLEAN, NEW install \in BOOLEAN
  PROVE  NewRequest(r, phase, load, install) \in RequestType
BY DEF NewRequest, RequestType

(* A deleted request is a request object in no phase.                      *)
LEMMA DeletedTyped ==
  ASSUME NEW x
  PROVE  /\ Deleted(x) \in RequestType
         /\ Deleted(x).rec = NoRecord /\ Deleted(x).phase = "NONE"
<1> DEFINE n == NewRequest(NoRecord, "NONE", FALSE, FALSE)
           i == IF x.io = "pending" THEN "pending" ELSE "none"
           s == IF x.serde = "task" THEN "task" ELSE "no"
<1>1. n \in RequestType /\ n.rec = NoRecord /\ n.phase = "NONE"
  BY NewRequestTyped DEF NewRequest, Phases
<1>2. i \in {"none", "pending", "ready"} /\ s \in {"no", "here", "task", "done"}
  OBVIOUS
<1>3. Deleted(x) = [n EXCEPT !.io = i, !.serde = s]
  BY DEF Deleted
<1> HIDE DEF n, i, s
<1>4. [n EXCEPT !.io = i, !.serde = s] \in RequestType
  BY <1>1, <1>2 DEF RequestType
<1>5. QED BY <1>1, <1>3, <1>4 DEF RequestType

(* The fields of a request object.                                         *)
LEMMA RequestFields ==
  ASSUME NEW x \in RequestType
  PROVE  /\ x.rec \in Resources \cup {NoRecord} /\ x.phase \in Phases
         /\ x.isLoading \in BOOLEAN /\ x.requireLoading \in BOOLEAN
         /\ x.requestInstall \in BOOLEAN /\ x.dependenciesLoaded \in BOOLEAN
         /\ x.serdeResult \in BOOLEAN
         /\ x.data \in {"null", "owned", "freed", "freedTwice"}
         /\ x.io \in {"none", "pending", "ready"}
         /\ x.serde \in {"no", "here", "task", "done"}
         /\ x.built \in {"none", "pending", "succeed", "failed"}
BY DEF RequestType

(* Enqueueing a request takes a request object that is not in use.         *)
LEMMA EnqueueCore ==
  ASSUME CoreInv,
         NEW r \in Resources, active[r] = NoRequest,
         NEW x \in RequestType, x.rec = r, x.phase # "NONE", Enqueue(x),
         NEW st \in Statuses \ {"ABSENT"}, status' = [status EXCEPT ![r] = st],
         UNCHANGED <<updating, failed>>
  PROVE  /\ req' \in [Requests -> RequestType]
         /\ active' \in [Resources -> Requests \cup {NoRequest}]
         /\ queue' \in Seq(Requests)
         /\ status' \in [Resources -> Statuses]
         /\ QueuesInv' /\ RecordsInv'
<1>1. x.rec = r /\ x.phase # "NONE" /\ x \in RequestType
  OBVIOUS
<1>2. PICK q \in Requests : /\ req[q].phase = "NONE"
                            /\ req' = [req EXCEPT ![q] = x]
                            /\ active' = [active EXCEPT ![r] = q]
                            /\ queue' = Append(queue, q)
  BY <1>1 DEF Enqueue
<1>3. /\ ~ Driven(q) /\ q \notin failed /\ req[q].rec = NoRecord
      /\ ~ Contains(queue, q) /\ ~ Contains(updating, q)
  BY <1>2 DEF CoreInv, QueuesInv, Driven
<1>4. /\ queue \in Seq(Requests) /\ failed \subseteq Requests
      /\ req \in [Requests -> RequestType]
      /\ active \in [Resources -> Requests \cup {NoRequest}]
      /\ status \in [Resources -> Statuses]
  BY DEF CoreInv, TypeOK
<1>5. /\ queue' \in Seq(Requests)
      /\ \A p : Contains(queue', p) <=> Contains(queue, p) \/ p = q
      /\ IsInjective(queue')
  <2>1. IsInjective(queue)
    BY DEF CoreInv, QueuesInv
  <2>2. QED BY <1>2, <1>3, <1>4, <2>1, AppendElements
<1>6. \A p : Driven(p)' <=> Driven(p) \/ p = q
  BY <1>5 DEF Driven
<1>7. \A p \in Requests : req'[p] = IF p = q THEN x ELSE req[p]
  BY <1>2, <1>4
<1>8. \A s \in Resources : /\ active'[s] = IF s = r THEN q ELSE active[s]
                           /\ status'[s] = IF s = r THEN st ELSE status[s]
  BY <1>2, <1>4
<1>9. QueuesInv'
  <2>1. \A p \in Requests : ~ (Contains(queue', p) /\ Contains(updating', p))
    BY <1>3, <1>5 DEF CoreInv, QueuesInv
  <2>2. \A p \in failed' : ~ Driven(p)'
    BY <1>3, <1>6 DEF CoreInv, QueuesInv
  <2>3. ASSUME NEW p \in Requests, req'[p].phase = "NONE"
        PROVE  ~ Driven(p)' /\ p \notin failed' /\ req'[p].rec = NoRecord
    <3>1. p # q
      BY <1>1, <1>7, <2>3
    <3>2. QED BY <1>6, <1>7, <2>3, <3>1 DEF CoreInv, QueuesInv
  <2>4. IsInjective(updating')
    BY DEF CoreInv, QueuesInv
  <2>5. QED BY <1>5, <2>1, <2>2, <2>3, <2>4 DEF QueuesInv
<1>10. RecordsInv'
  <2>1. ASSUME NEW p \in Requests, req'[p].rec # NoRecord
        PROVE  active'[req'[p].rec] = p
    <3>1. CASE p = q
      BY <1>1, <1>7, <1>8, <3>1
    <3>2. CASE p # q
      <4>1. req'[p] = req[p] /\ active[req[p].rec] = p /\ req[p].rec \in Resources
        <5>1. req'[p] = req[p] /\ req[p] \in RequestType
          BY <1>4, <1>7, <3>2
        <5>2. req[p].rec # NoRecord /\ req[p].rec \in Resources
          BY <2>1, <5>1, RequestFields
        <5>3. QED BY <5>1, <5>2 DEF CoreInv, RecordsInv
      <4>2. req[p].rec # r
        BY <4>1, ConstantsTyped
      <4>3. QED BY <1>8, <4>1, <4>2
    <3>3. QED BY <3>1, <3>2
  <2>2. ASSUME NEW s \in Resources, NEW p \in Requests, active'[s] = p
        PROVE  /\ req'[p].rec = s
               /\ Driven(p)' \/ p \in failed'
               /\ status'[s] # "ABSENT"
    <3>1. CASE s = r
      BY <1>1, <1>6, <1>7, <1>8, <2>2, <3>1
    <3>2. CASE s # r
      <4>1. /\ active[s] = p /\ req[p].rec = s
            /\ Driven(p) \/ p \in failed
            /\ status[s] # "ABSENT"
        BY <1>8, <2>2, <3>2 DEF CoreInv, RecordsInv
      <4>2. p # q
        BY <1>3, <4>1, ConstantsTyped
      <4>3. QED BY <1>6, <1>7, <1>8, <3>2, <4>1, <4>2
    <3>3. QED BY <3>1, <3>2
  <2>3. QED BY <2>1, <2>2 DEF RecordsInv
<1>11. QED
  BY <1>1, <1>2, <1>4, <1>5, <1>9, <1>10

(* What happens inside requests, and to the status of records that stay,   *)
(* leaves the places and the names as they are.                            *)
LEMMA SamePlaces ==
  ASSUME CoreInv, UNCHANGED <<active, queue, updating, failed>>,
         \A r \in Resources : status'[r] = "ABSENT" => status[r] = "ABSENT",
         \A q \in Requests : /\ req'[q].rec = req[q].rec
                             /\ req'[q].phase = "NONE" => req[q].phase = "NONE"
  PROVE  QueuesInv' /\ RecordsInv'
<1>1. \A q : Driven(q)' <=> Driven(q)
  BY DEF Driven
<1>2. QueuesInv'
  BY <1>1 DEF CoreInv, QueuesInv
<1>3. RecordsInv'
  BY <1>1 DEF CoreInv, RecordsInv
<1>4. QED BY <1>2, <1>3

(* A resource is loaded, by a client or as a dependency.                   *)
LEMMA LoadCore ==
  ASSUME CoreInv, NEW h \in Clients \cup Resources, NEW r \in Resources,
         NEW install \in BOOLEAN, LoadResource(h, r, install),
         UNCHANGED <<updating, failed, pc, at, spin>>, calls' \subseteq calls
  PROVE  CoreInv'
<1>1. /\ status \in [Resources -> Statuses] /\ req \in [Requests -> RequestType]
      /\ active \in [Resources -> Requests \cup {NoRequest}]
      /\ refs \in [Resources -> SUBSET (Clients \cup Resources)]
      /\ overlooked \subseteq Resources /\ calls \subseteq Calls
  BY DEF CoreInv, TypeOK, Calls
<1>2. refs' = [refs EXCEPT ![r] = @ \cup {h}] /\ object' = object
  BY DEF LoadResource
<1>3. \A s \in Resources : s # r => refs'[s] = refs[s]
  BY <1>1, <1>2
<1>4. /\ req' \in [Requests -> RequestType] /\ status' \in [Resources -> Statuses]
      /\ active' \in [Resources -> Requests \cup {NoRequest}]
      /\ queue' \in Seq(Requests) /\ overlooked' \subseteq Resources
      /\ QueuesInv' /\ RecordsInv' /\ HeldInv'
  <2>1. CASE /\ Satisfied(r, install)
             /\ overlooked' = IF BeingUnloaded(r) THEN overlooked \cup {r} ELSE overlooked
             /\ UNCHANGED <<status, active, req, queue>>
    <3>1. QueuesInv' /\ RecordsInv'
      BY <2>1, SamePlaces
    <3>2. status[r] # "ABSENT"
      BY <2>1 DEF Satisfied
    <3>3. HeldInv'
      BY <1>1, <1>3, <2>1, <3>2 DEF CoreInv, HeldInv, BeingUnloaded
    <3>4. QED BY <1>1, <2>1, <3>1, <3>3 DEF CoreInv, TypeOK
  <2>2. CASE /\ ~ Satisfied(r, install) /\ active[r] # NoRequest
             /\ req' = [req EXCEPT ![active[r]].requireLoading = TRUE,
                                   ![active[r]].requestInstall = install]
             /\ UNCHANGED <<status, active, queue, overlooked>>
    <3> DEFINE q == active[r]
    <3>1. q \in Requests
      BY <1>1, <2>2
    <3>2. /\ req' = [req EXCEPT ![q] = [req[q] EXCEPT !.requireLoading = TRUE,
                                                     !.requestInstall = install]]
          /\ req[q] \in RequestType
      BY <1>1, <2>2, <3>1
    <3> HIDE DEF q
    <3>3. [req[q] EXCEPT !.requireLoading = TRUE, !.requestInstall = install] \in RequestType
      BY <3>2 DEF RequestType
    <3>4. /\ req' \in [Requests -> RequestType]
          /\ \A p \in Requests : req'[p].rec = req[p].rec /\ req'[p].phase = req[p].phase
          /\ \A p \in Requests : ~ req'[p].requireLoading => ~ req[p].requireLoading
          /\ req'[q].requireLoading
      BY <1>1, <3>1, <3>2, <3>3 DEF RequestType
    <3>5. QueuesInv' /\ RecordsInv'
      BY <2>2, <3>4, SamePlaces
    <3>6. status[r] # "ABSENT"
      BY <3>1 DEF q, CoreInv, RecordsInv
    <3>7. HeldInv'
      BY <1>1, <1>3, <2>2, <3>4, <3>6 DEF q, CoreInv, HeldInv, BeingUnloaded
    <3>8. QED BY <1>1, <2>2, <3>4, <3>5, <3>7 DEF CoreInv, TypeOK
  <2>3. CASE /\ ~ Satisfied(r, install) /\ active[r] = NoRequest
             /\ Enqueue(NewRequest(r, "REQUEST_RESOURCE", TRUE, install))
             /\ status' = [status EXCEPT ![r] = "LOADING"]
             /\ overlooked' = overlooked \ {r}
    <3> DEFINE x == NewRequest(r, "REQUEST_RESOURCE", TRUE, install)
    <3>1. x \in RequestType /\ x.rec = r /\ x.phase # "NONE" /\ x.requireLoading
      BY DEF NewRequest, RequestType, Phases
    <3>2. "LOADING" \in Statuses \ {"ABSENT"} /\ Enqueue(x)
      BY <2>3 DEF Statuses
    <3> HIDE DEF x
    <3>3. /\ req' \in [Requests -> RequestType] /\ status' \in [Resources -> Statuses]
          /\ active' \in [Resources -> Requests \cup {NoRequest}]
          /\ queue' \in Seq(Requests)
          /\ QueuesInv' /\ RecordsInv'
      BY <2>3, <3>1, <3>2, EnqueueCore
    <3>4. PICK q \in Requests :
            /\ req[q].phase = "NONE"
            /\ req' = [req EXCEPT ![q] = x]
            /\ active' = [active EXCEPT ![r] = q]
      BY <3>1, <3>2 DEF Enqueue
    <3>5. req'[q].requireLoading /\ active'[r] = q /\ status'[r] = "LOADING"
      BY <1>1, <2>3, <3>1, <3>4
    <3>6. ASSUME NEW s \in Resources, s # r, BeingUnloaded(s)'
          PROVE  BeingUnloaded(s)
      <4>1. active[s] = active'[s] /\ active[s] # NoRequest /\ ~ req'[active[s]].requireLoading
        BY <1>1, <3>4, <3>6 DEF BeingUnloaded
      <4>2. active[s] \in Requests /\ active[s] # q
        BY <1>1, <3>5, <4>1
      <4>3. QED BY <1>1, <3>4, <4>1, <4>2 DEF BeingUnloaded
    <3>7. HeldInv'
      BY <1>1, <1>3, <2>3, <3>5, <3>6 DEF CoreInv, HeldInv, BeingUnloaded
    <3>8. QED BY <1>1, <2>3, <3>3, <3>7
  <2>4. QED BY <2>1, <2>2, <2>3 DEF LoadResource
<1>5. refs' \in [Resources -> SUBSET (Clients \cup Resources)]
  BY <1>1, <1>2
<1>6. TypeOK'
  BY <1>1, <1>2, <1>4, <1>5 DEF CoreInv, TypeOK, Calls
<1>7. QED BY <1>4, <1>6 DEF CoreInv

(* A record is destroyed, and its request forgets it.                      *)
LEMMA RecordGoes ==
  ASSUME CoreInv, NEW r \in Resources, DestroyRecord(r),
         \A q \in Requests : IF q = active[r] THEN req'[q].rec = NoRecord ELSE req'[q] = req[q],
         \A q \in Requests : q # active[r] /\ Driven(q) => Driven(q)',
         UNCHANGED failed
  PROVE  /\ status' \in [Resources -> Statuses]
         /\ active' \in [Resources -> Requests \cup {NoRequest}]
         /\ object' \in [Resources -> {"none", "loaded", "installed"}]
         /\ RecordsInv'
         /\ \A s \in Resources : s # r /\ BeingUnloaded(s)' => BeingUnloaded(s)
<1>1. /\ status \in [Resources -> Statuses]
      /\ active \in [Resources -> Requests \cup {NoRequest}]
      /\ object \in [Resources -> {"none", "loaded", "installed"}]
      /\ "ABSENT" \in Statuses
      /\ \A q \in Requests : req[q].rec \in Resources \cup {NoRecord}
  BY RequestFields DEF CoreInv, TypeOK, Statuses
<1>2. \A s \in Resources :
        /\ active'[s] = IF s = r THEN NoRequest ELSE active[s]
        /\ s # r => status'[s] = status[s]
  BY <1>1 DEF DestroyRecord
<1>3. \A s \in Resources : s # r /\ active[s] \in Requests => active[s] # active[r]
  BY ConstantsTyped DEF CoreInv, RecordsInv
<1>4. ASSUME NEW q \in Requests, req'[q].rec # NoRecord
      PROVE  active'[req'[q].rec] = q
  <2>1. /\ q # active[r] /\ req'[q] = req[q]
        /\ req[q].rec \in Resources /\ active[req[q].rec] = q
    BY <1>1, <1>4 DEF CoreInv, RecordsInv
  <2>2. req[q].rec # r
    BY <2>1
  <2>3. QED BY <1>2, <2>1, <2>2
<1>5. ASSUME NEW s \in Resources, NEW q \in Requests, active'[s] = q
      PROVE  req'[q].rec = s /\ (Driven(q)' \/ q \in failed') /\ status'[s] # "ABSENT"
  <2>1. s # r /\ active[s] = q /\ status'[s] = status[s]
    BY <1>2, <1>5, ConstantsTyped
  <2>2. q # active[r] /\ req'[q] = req[q]
    BY <1>3, <2>1
  <2>3. QED BY <2>1, <2>2 DEF CoreInv, RecordsInv
<1>6. ASSUME NEW s \in Resources, s # r, BeingUnloaded(s)'
      PROVE  BeingUnloaded(s)
  <2>1. active[s] = active'[s] /\ active[s] # NoRequest /\ ~ req'[active[s]].requireLoading
    BY <1>2, <1>6 DEF BeingUnloaded
  <2>2. req'[active[s]] = req[active[s]]
    BY <1>1, <1>3, <1>6, <2>1
  <2>3. QED BY <2>1, <2>2 DEF BeingUnloaded
<1>7. QED BY <1>1, <1>4, <1>5, <1>6 DEF DestroyRecord, RecordsInv

(* A resource is unloaded, by a client or as a dependency.                 *)
LEMMA UnloadCore ==
  ASSUME CoreInv, NEW h \in Clients \cup Resources, NEW r \in Resources,
         NEW more \in SUBSET Calls, UnloadResource(h, r, more),
         UNCHANGED <<updating, failed, pc, at, spin, overlooked>>
  PROVE  CoreInv'
<1>1. /\ status \in [Resources -> Statuses] /\ req \in [Requests -> RequestType]
      /\ active \in [Resources -> Requests \cup {NoRequest}]
      /\ object \in [Resources -> {"none", "loaded", "installed"}]
      /\ refs \in [Resources -> SUBSET (Clients \cup Resources)]
  BY DEF CoreInv, TypeOK
<1>2. refs' = [refs EXCEPT ![r] = @ \ {h}]
  BY DEF UnloadResource
<1>3. /\ \A s \in Resources : s # r => refs'[s] = refs[s]
      /\ refs[r] = {h} => refs'[r] = {}
      /\ refs'[r] # {} => refs[r] # {}
      /\ refs' \in [Resources -> SUBSET (Clients \cup Resources)]
  BY <1>1, <1>2
<1>4. /\ req' \in [Requests -> RequestType] /\ status' \in [Resources -> Statuses]
      /\ active' \in [Resources -> Requests \cup {NoRequest}]
      /\ object' \in [Resources -> {"none", "loaded", "installed"}]
      /\ queue' \in Seq(Requests) /\ calls' \subseteq Calls
      /\ QueuesInv' /\ RecordsInv' /\ HeldInv'
  <2>1. CASE /\ refs[r] # {h} /\ calls' = more
             /\ UNCHANGED <<status, active, object, req, queue>>
    <3>1. QueuesInv' /\ RecordsInv'
      BY <2>1, SamePlaces
    <3>2. HeldInv'
      BY <1>3, <2>1 DEF CoreInv, HeldInv, BeingUnloaded
    <3>3. QED BY <1>1, <2>1, <3>1, <3>2 DEF CoreInv, TypeOK
  <2>2. CASE /\ refs[r] = {h} /\ status[r] \in {"ERROR", "UNLOADED"}
             /\ DestroyRecord(r)
             /\ req' = [q \in Requests |-> IF q = active[r]
                          THEN [req[q] EXCEPT !.rec = NoRecord] ELSE req[q]]
             /\ calls' = more \cup Released(r)
             /\ UNCHANGED queue
    <3>1. ASSUME NEW x \in RequestType
          PROVE  /\ [x EXCEPT !.rec = NoRecord] \in RequestType
                 /\ [x EXCEPT !.rec = NoRecord].rec = NoRecord
                 /\ [x EXCEPT !.rec = NoRecord].phase = x.phase
      BY DEF RequestType
    <3>2. \A q \in Requests :
            /\ req'[q] = IF q = active[r] THEN [req[q] EXCEPT !.rec = NoRecord] ELSE req[q]
            /\ req[q] \in RequestType
      BY <1>1, <2>2
    <3>3. \A q \in Requests :
            /\ IF q = active[r] THEN req'[q].rec = NoRecord ELSE req'[q] = req[q]
            /\ req'[q].phase = req[q].phase
      BY <3>1, <3>2
    <3>4. /\ status' \in [Resources -> Statuses]
          /\ active' \in [Resources -> Requests \cup {NoRequest}]
          /\ object' \in [Resources -> {"none", "loaded", "installed"}]
          /\ RecordsInv'
          /\ \A s \in Resources : s # r /\ BeingUnloaded(s)' => BeingUnloaded(s)
      <4>1. \A q \in Requests : q # active[r] /\ Driven(q) => Driven(q)'
        BY <2>2 DEF Driven
      <4>2. QED BY <2>2, <3>3, <4>1, RecordGoes
    <3>5. QueuesInv'
      <4>1. \A q : Driven(q)' <=> Driven(q)
        BY <2>2 DEF Driven
      <4>2. \A q \in Requests : req[q].rec = NoRecord => req'[q].rec = NoRecord
        BY <3>3
      <4>3. QED BY <2>2, <3>3, <4>1, <4>2 DEF CoreInv, QueuesInv
    <3>6. \A s \in Resources : s # r => status'[s] = status[s]
      BY <1>1, <2>2 DEF DestroyRecord
    <3>7. HeldInv'
      BY <1>3, <2>2, <3>4, <3>6 DEF CoreInv, HeldInv
    <3>8. QED
      <4>1. req' \in [Requests -> RequestType]
        BY <1>1, <2>2, <3>1
      <4>2. calls' \subseteq Calls
        BY <2>2, CallsTyped
      <4>3. QED BY <2>2, <3>4, <3>5, <3>7, <4>1, <4>2 DEF CoreInv, TypeOK
  <2>3. CASE /\ refs[r] = {h} /\ active[r] # NoRequest
             /\ req' = [req EXCEPT ![active[r]].requireLoading = FALSE]
             /\ calls' = more
             /\ UNCHANGED <<status, active, object, queue>>
    <3> DEFINE q == active[r]
    <3>1. q \in Requests
      BY <1>1, <2>3
    <3>2. /\ req' = [req EXCEPT ![q] = [req[q] EXCEPT !.requireLoading = FALSE]]
          /\ req[q] \in RequestType
      BY <1>1, <2>3, <3>1
    <3> HIDE DEF q
    <3>3. [req[q] EXCEPT !.requireLoading = FALSE] \in RequestType
      BY <3>2 DEF RequestType
    <3>4. /\ req' \in [Requests -> RequestType]
          /\ \A p \in Requests : req'[p].rec = req[p].rec /\ req'[p].phase = req[p].phase
          /\ \A p \in Requests : p # q => req'[p] = req[p]
      BY <1>1, <3>1, <3>2, <3>3 DEF RequestType
    <3>5. QueuesInv' /\ RecordsInv'
      BY <2>3, <3>4, SamePlaces
    <3>6. ASSUME NEW s \in Resources, s # r, BeingUnloaded(s)'
          PROVE  BeingUnloaded(s)
      <4>1. active[s] # NoRequest /\ ~ req'[active[s]].requireLoading
        BY <2>3, <3>6 DEF BeingUnloaded
      <4>2. active[s] \in Requests /\ active[s] # q
        BY <1>1, <3>1, <3>6, <4>1 DEF CoreInv, RecordsInv, q
      <4>3. QED BY <3>4, <4>1, <4>2 DEF BeingUnloaded
    <3>7. HeldInv'
      BY <1>3, <2>3, <3>6 DEF CoreInv, HeldInv
    <3>8. QED BY <1>1, <2>3, <3>4, <3>5, <3>7 DEF CoreInv, TypeOK
  <2>4. CASE /\ refs[r] = {h} /\ active[r] = NoRequest
             /\ Enqueue(NewRequest(r, IF status[r] = "INSTALLED" THEN "UNINSTALL_RESOURCE"
                                                                 ELSE "UNLOAD_RESOURCE", FALSE, FALSE))
             /\ status' = [status EXCEPT ![r] = IF @ = "INSTALLED" THEN "UNINSTALLING"
                                                                   ELSE "UNLOADING"]
             /\ calls' = more
             /\ UNCHANGED object
    <3> DEFINE x == NewRequest(r, IF status[r] = "INSTALLED" THEN "UNINSTALL_RESOURCE"
                                                            ELSE "UNLOAD_RESOURCE", FALSE, FALSE)
               st == IF status[r] = "INSTALLED" THEN "UNINSTALLING" ELSE "UNLOADING"
    <3>1. x \in RequestType /\ x.rec = r /\ x.phase # "NONE"
      BY DEF NewRequest, RequestType, Phases
    <3>2. st \in Statuses \ {"ABSENT"} /\ Enqueue(x) /\ status' = [status EXCEPT ![r] = st]
      BY <1>1, <2>4 DEF Statuses
    <3> HIDE DEF x, st
    <3>3. /\ req' \in [Requests -> RequestType] /\ status' \in [Resources -> Statuses]
          /\ active' \in [Resources -> Requests \cup {NoRequest}]
          /\ queue' \in Seq(Requests)
          /\ QueuesInv' /\ RecordsInv'
      BY <2>4, <3>1, <3>2, EnqueueCore
    <3>4. PICK q \in Requests :
            /\ req[q].phase = "NONE"
            /\ req' = [req EXCEPT ![q] = x]
            /\ active' = [active EXCEPT ![r] = q]
      BY <3>1, <3>2 DEF Enqueue
    <3>5. ASSUME NEW s \in Resources, s # r, BeingUnloaded(s)'
          PROVE  BeingUnloaded(s)
      <4>1. active[s] = active'[s] /\ active[s] # NoRequest /\ ~ req'[active[s]].requireLoading
        BY <1>1, <3>4, <3>5 DEF BeingUnloaded
      <4>2. active'[r] = q /\ active[s] \in Requests
        BY <1>1, <3>4, <4>1
      <4>3. active[s] # q
        BY <3>3, <3>5, <4>1, <4>2 DEF RecordsInv
      <4>4. QED BY <1>1, <3>4, <4>1, <4>2, <4>3 DEF BeingUnloaded
    <3>6. \A s \in Resources : s # r => status'[s] = status[s]
      BY <1>1, <3>2
    <3>7. HeldInv'
      BY <1>3, <2>4, <3>5, <3>6 DEF CoreInv, HeldInv
    <3>8. QED BY <1>1, <2>4, <3>3, <3>7
  <2>5. QED BY <2>1, <2>2, <2>3, <2>4 DEF UnloadResource
<1>5. TypeOK'
  BY <1>3, <1>4 DEF CoreInv, TypeOK, Calls
<1>6. QED BY <1>4, <1>5 DEF CoreInv

-----------------------------------------------------------------------------
(* A turn of a request.                                                    *)

\* What no handler changes in a request.
Keeps(x, y) ==
  /\ y.rec = x.rec /\ y.requestInstall = x.requestInstall
  /\ y.requireLoading = x.requireLoading

(* A redirected request.                                                   *)
LEMMA RedirectedTyped ==
  ASSUME NEW x \in RequestType, x.phase # "NONE",
         status[x.rec] \in Statuses \ {"ABSENT"}
  PROVE  /\ Redirected(x) \in RequestType /\ Keeps(x, Redirected(x))
         /\ Redirected(x).isLoading = x.requireLoading
         /\ Redirected(x).phase # "NONE"
         /\ RedirectedStatus(x) \in Statuses \ {"ABSENT"}
<1>1. /\ UpdateLoad(x)[1] \in Phases \ {"NONE"} /\ UpdateLoad(x)[2] \in Statuses \ {"ABSENT"}
      /\ UpdateUnload(x)[1] \in Phases \ {"NONE"} /\ UpdateUnload(x)[2] \in Statuses \ {"ABSENT"}
  <2>1. x.phase \in Phases \ {"NONE"}
    BY RequestFields
  <2>2. UpdateLoad(x)[1] \in Phases \ {"NONE"} /\ UpdateLoad(x)[2] \in Statuses \ {"ABSENT"}
    BY <2>1 DEF UpdateLoad, Phases, Statuses
  <2>3. UpdateUnload(x)[1] \in Phases \ {"NONE"} /\ UpdateUnload(x)[2] \in Statuses \ {"ABSENT"}
    BY <2>1 DEF UpdateUnload, Phases, Statuses
  <2>4. QED BY <2>2, <2>3
<1>2. Freed(x.data) \in {"null", "owned", "freed", "freedTwice"}
  BY DEF Freed
<1>3. RedirectedStatus(x) \in Statuses \ {"ABSENT"}
  BY <1>1 DEF RedirectedStatus
<1>4. CASE x.isLoading = x.requireLoading
  BY <1>3, <1>4 DEF Redirected, Keeps
<1>5. CASE x.isLoading # x.requireLoading
  <2> DEFINE p == IF x.requireLoading THEN UpdateLoad(x)[1] ELSE UpdateUnload(x)[1]
             d == IF ~ x.requireLoading /\ x.phase \in {"IO", "DESER_RESOURCE"}
                  THEN Freed(x.data) ELSE x.data
  <2>1. Redirected(x) = [x EXCEPT !.isLoading = x.requireLoading, !.phase = p, !.data = d]
    BY <1>5 DEF Redirected
  <2>2. p \in Phases \ {"NONE"} /\ d \in {"null", "owned", "freed", "freedTwice"}
    BY <1>1, <1>2, RequestFields
  <2> HIDE DEF p, d
  <2>3. QED BY <1>3, <2>1, <2>2 DEF RequestType, Keeps
<1>6. QED BY <1>4, <1>5

\* What a turn of the request q leaves: the request, its record's status and object.
TurnLeaves(q, y, st, o) ==
  /\ y.phase # "NONE" /\ y.isLoading = y.requireLoading /\ Keeps(req[q], y)
  /\ req' = [req EXCEPT ![q] = y]
  /\ status' = [status EXCEPT ![req[q].rec] = st]
  /\ object' = [object EXCEPT ![req[q].rec] = o]
  /\ calls' \subseteq Released(req[q].rec) \cup Asked(req[q].rec)
  /\ spin' \in {0, spin + 1}

Objects == {"none", "loaded", "installed"}
Turns(q) == \E y \in RequestType, st \in Statuses \ {"ABSENT"}, o \in Objects : TurnLeaves(q, y, st, o)

\* The request a turn is of.
TurnFacts(q) ==
  /\ q = updating[at] /\ q \in Requests /\ Contains(updating, q)
  /\ req[q] \in RequestType /\ req[q].rec \in Resources /\ active[req[q].rec] = q
  /\ req[q].phase # "NONE" /\ status[req[q].rec] \in Statuses \ {"ABSENT"}
  /\ ~ Okay(req[q]) /\ spin # Spins

(* The request a turn is of is the active one of its record.               *)
LEMMA TurnOfActive ==
  ASSUME CoreInv, UpdateRequest
  PROVE  TurnFacts(updating[at])
<1> DEFINE q == updating[at]
<1>1. /\ updating \in Seq(Requests) /\ at \in 1..(Len(updating) + 1)
      /\ req \in [Requests -> RequestType] /\ status \in [Resources -> Statuses]
  BY DEF CoreInv, TypeOK
<1>2. at \in 1..Len(updating) /\ ~ Leaves(req[q]) /\ pc = "update" /\ Defined
  BY <1>1 DEF UpdateRequest, Thread
<1>3. q \in Requests /\ at \in DOMAIN updating
  BY <1>1, <1>2
<1>4. ~ Okay(req[q]) /\ spin # Spins
  BY <1>2 DEF Leaves
<1>5. req[q].rec # NoRecord
  BY <1>2, <1>3, <1>4 DEF Defined, RequestsHaveRecords
<1>6. req[q] \in RequestType /\ req[q].rec \in Resources
  BY <1>1, <1>3, <1>5, RequestFields
<1>7. Contains(updating, q)
  BY <1>1, <1>2 DEF Contains
<1>8. active[req[q].rec] = q /\ req[q].phase # "NONE" /\ status[req[q].rec] # "ABSENT"
  BY <1>3, <1>5, <1>6, <1>7 DEF CoreInv, RecordsInv, QueuesInv, Driven
<1>9. QED BY <1>1, <1>3, <1>4, <1>6, <1>7, <1>8 DEF TurnFacts

(* The requests the end of a load may leave: those of another phase.       *)
Moved(x, y, phase) ==
  /\ y \in RequestType /\ y.phase = phase /\ Keeps(x, y)
  /\ y.isLoading = x.isLoading /\ y.serde = x.serde

\* Changing the phase, and freeing the data, leaves such a request.
LEMMA MovedTyped ==
  ASSUME NEW x \in RequestType, NEW p \in Phases
  PROVE  /\ Moved(x, [x EXCEPT !.phase = p], p)
         /\ Moved(x, [x EXCEPT !.phase = p, !.data = "null"], p)
         /\ \A b \in BOOLEAN :
              Moved(x, [x EXCEPT !.phase = p, !.data = "null", !.dependenciesLoaded = b], p)
<1>1. Moved(x, [x EXCEPT !.phase = p], p)
  BY DEF Moved, Keeps, RequestType
<1>2. Moved(x, [x EXCEPT !.phase = p, !.data = "null"], p)
  BY DEF Moved, Keeps, RequestType
<1>3. \A b \in BOOLEAN :
        Moved(x, [x EXCEPT !.phase = p, !.data = "null", !.dependenciesLoaded = b], p)
  BY DEF Moved, Keeps, RequestType
<1>4. QED BY <1>1, <1>2, <1>3

\* The phases at the end of a load.
LEMMA EndPhases ==
  /\ {"FINISHED", "WAITFOR_LOAD_DEPENDENCIES", "INSTALL_RESOURCE"} \subseteq Phases
  /\ "NONE" \notin {"FINISHED", "WAITFOR_LOAD_DEPENDENCIES", "INSTALL_RESOURCE"}
BY DEF Phases

(* What the end of a load leaves.                                          *)
LEMMA LoadFinishedLeaves ==
  ASSUME NEW q \in Requests, NEW x \in RequestType, x.phase # "NONE",
         x.isLoading = x.requireLoading, Keeps(req[q], x), x.rec \in Resources,
         NEW ok \in BOOLEAN, LoadFinished(q, x, ok),
         NEW o \in Objects, object' = [object EXCEPT ![x.rec] = o]
  PROVE  Turns(q)
<1>1. ASSUME NEW y, NEW p, NEW st \in Statuses \ {"ABSENT"}, Becomes(q, y, st),
             Moved(x, y, p), p # "NONE",
             calls' \subseteq Released(x.rec) \cup Asked(x.rec)
      PROVE  Turns(q)
  <2>1. TurnLeaves(q, y, st, o)
    BY <1>1 DEF TurnLeaves, Becomes, Keeps, Moved
  <2>2. y \in RequestType /\ st \in Statuses \ {"ABSENT"}
    BY ONLY <1>1, st \in Statuses \ {"ABSENT"} DEF Moved
  <2>3. QED BY ONLY <2>1, <2>2, o \in Objects DEF Turns
<1>2. /\ "ERROR" \in Statuses \ {"ABSENT"} /\ "LOADED" \in Statuses \ {"ABSENT"}
      /\ LoadDependencies(x) \subseteq Released(x.rec) \cup Asked(x.rec)
  BY CallsTyped DEF Statuses, LoadDependencies
<1>3. CASE /\ ~ ok /\ calls' = {}
           /\ Becomes(q, [x EXCEPT !.phase = "FINISHED"], "ERROR")
  <2> DEFINE y == [x EXCEPT !.phase = "FINISHED"]
  <2>1. Moved(x, y, "FINISHED")
    BY ONLY x \in RequestType, MovedTyped, EndPhases
  <2>2. Becomes(q, y, "ERROR")
    BY ONLY <1>3
  <2>3. calls' \subseteq Released(x.rec) \cup Asked(x.rec)
    BY ONLY <1>2, <1>3
  <2> HIDE DEF y
  <2>4. QED BY ONLY <1>1, <1>2, <2>1, <2>2, <2>3, EndPhases
<1>4. CASE /\ ok
           /\ Becomes(q, [x EXCEPT !.phase = "FINISHED", !.data = "null",
                                   !.dependenciesLoaded = FALSE], "LOADED")
           /\ calls' = IF x.dependenciesLoaded THEN Released(x.rec) ELSE {}
  <2> DEFINE y == [x EXCEPT !.phase = "FINISHED", !.data = "null", !.dependenciesLoaded = FALSE]
  <2>1. Moved(x, y, "FINISHED")
    BY ONLY x \in RequestType, MovedTyped, EndPhases
  <2>2. Becomes(q, y, "LOADED")
    BY ONLY <1>4
  <2>3. calls' \subseteq Released(x.rec) \cup Asked(x.rec)
    BY ONLY <1>2, <1>4
  <2> HIDE DEF y
  <2>4. QED BY ONLY <1>1, <1>2, <2>1, <2>2, <2>3, EndPhases
<1>5. CASE /\ ok
           /\ Becomes(q, [x EXCEPT !.phase = "WAITFOR_LOAD_DEPENDENCIES", !.data = "null",
                                   !.dependenciesLoaded = TRUE], "LOADED")
           /\ calls' = LoadDependencies(x)
  <2> DEFINE y == [x EXCEPT !.phase = "WAITFOR_LOAD_DEPENDENCIES", !.data = "null",
                            !.dependenciesLoaded = TRUE]
  <2>1. Moved(x, y, "WAITFOR_LOAD_DEPENDENCIES")
    BY ONLY x \in RequestType, MovedTyped, EndPhases
  <2>2. Becomes(q, y, "LOADED")
    BY ONLY <1>5
  <2>3. calls' \subseteq Released(x.rec) \cup Asked(x.rec)
    BY ONLY <1>2, <1>5
  <2> HIDE DEF y
  <2>4. QED BY ONLY <1>1, <1>2, <2>1, <2>2, <2>3, EndPhases
<1>6. CASE /\ ok /\ calls' = {}
           /\ Becomes(q, [x EXCEPT !.phase = "INSTALL_RESOURCE", !.data = "null"], "LOADED")
  <2> DEFINE y == [x EXCEPT !.phase = "INSTALL_RESOURCE", !.data = "null"]
  <2>1. Moved(x, y, "INSTALL_RESOURCE")
    BY ONLY x \in RequestType, MovedTyped, EndPhases
  <2>2. Becomes(q, y, "LOADED")
    BY ONLY <1>6
  <2>3. calls' \subseteq Released(x.rec) \cup Asked(x.rec)
    BY ONLY <1>2, <1>6
  <2> HIDE DEF y
  <2>4. QED BY ONLY <1>1, <1>2, <2>1, <2>2, <2>3, EndPhases
<1>7. QED BY <1>3, <1>4, <1>5, <1>6 DEF LoadFinished

(* Every turn leaves a request of the same record.                         *)
LEMMA TurnShape ==
  ASSUME CoreInv, UpdateRequest
  PROVE  Turns(updating[at])
<1> DEFINE q == updating[at]
           x == Redirected(req[q])
           st == RedirectedStatus(req[q])
<1>1. TurnFacts(q)
  BY TurnOfActive
<1>2. /\ q \in Requests /\ x \in RequestType /\ Keeps(req[q], x) /\ x.isLoading = x.requireLoading
      /\ x.phase # "NONE" /\ x.rec \in Resources
      /\ st \in Statuses \ {"ABSENT"}
  BY <1>1, RedirectedTyped DEF TurnFacts, Keeps
<1>3. x \in RequestType
  BY <1>2
<1>4. /\ {"IO", "WAITFOR_IO", "DESER_RESOURCE", "WAITFOR_LOAD_RESOURCE", "INSTALL_RESOURCE",
         "WAITFOR_INSTALL_RESOURCE", "FINISHED", "UNLOAD_RESOURCE"} \subseteq Phases
       /\ Freed(x.data) \in {"null", "owned", "freed", "freedTwice"}
  BY DEF Phases, Freed
<1>5. x.phase # "NONE"
  BY <1>2
<1>6. /\ object[x.rec] \in Objects
      /\ object = [object EXCEPT ![x.rec] = object[x.rec]]
  BY <1>2 DEF CoreInv, TypeOK, Objects
<1>7. calls = {}
  BY DEF UpdateRequest, Thread
<1>8. \/ RequestResource(q, x) \/ IO(q, x) \/ WaitForIO(q, x) \/ DeserResource(q, x)
      \/ WaitForLoad(q, x) \/ WaitForDependencies(q, x) \/ InstallResource(q, x)
      \/ WaitForInstall(q, x) \/ Finished(q, x) \/ CancelIO(q, x)
      \/ Uninstall(q, x) \/ UnloadObject(q, x)
  BY DEF UpdateRequest
<1>9. st = RedirectedStatus(req[q])
  OBVIOUS
<1> SUFFICES Turns(q)
  OBVIOUS
<1> HIDE DEF x, q, st
<1>10. ASSUME NEW y \in RequestType, NEW s \in Statuses \ {"ABSENT"}, NEW o \in Objects,
             Becomes(q, y, s), Keeps(x, y), y.phase # "NONE", y.isLoading = x.isLoading,
             object' = [object EXCEPT ![x.rec] = o],
             calls' \subseteq Released(x.rec) \cup Asked(x.rec)
      PROVE  Turns(q)
  <2>1. TurnLeaves(q, y, s, o)
    BY <1>2, <1>10 DEF TurnLeaves, Becomes, Keeps
  <2>2. QED BY <2>1 DEF Turns
<1>11. {"ERROR", "LOADING", "LOADED", "INSTALLED", "INSTALLING", "UNLOADED"} \subseteq Statuses \ {"ABSENT"}
  BY DEF Statuses
<1>12. /\ LoadDependencies(x) \subseteq Released(x.rec) \cup Asked(x.rec)
      /\ calls \subseteq Released(x.rec) \cup Asked(x.rec)
  BY <1>2, <1>7, CallsTyped DEF LoadDependencies
<1>13. ASSUME NEW ok \in BOOLEAN
       PROVE  [x EXCEPT !.serde = "no", !.serdeResult = FALSE] \in RequestType
  BY <1>2 DEF RequestType
<1>14. Results("serde") \subseteq BOOLEAN
  BY DEF Results
<1>15. CASE RequestResource(q, x)
  <2> DEFINE load == x.rec \in Factories /\ x.requestInstall
             y == [x EXCEPT !.phase = "IO", !.dependenciesLoaded = @ \/ load]
             z == [x EXCEPT !.phase = "FINISHED"]
  <2>1. y \in RequestType /\ z \in RequestType
    <3>1. y \in RequestType BY <1>3, <1>4 DEF RequestType
    <3>2. z \in RequestType BY <1>3, <1>4 DEF RequestType
    <3>3. QED BY <3>1, <3>2
  <2>2. /\ Keeps(x, y) /\ y.phase # "NONE" /\ y.isLoading = x.isLoading
        /\ Keeps(x, z) /\ z.phase # "NONE" /\ z.isLoading = x.isLoading
    BY <1>3, <1>5 DEF RequestType, Keeps
  <2>3. /\ Becomes(q, y, st) \/ Becomes(q, y, "ERROR") \/ Becomes(q, z, "ERROR")
        /\ calls' \subseteq Released(x.rec) \cup Asked(x.rec)
        /\ object' = object
    BY <1>9, <1>15 DEF RequestResource, FillRequest, Asked
  <2> HIDE DEF y, z
  <2>4. QED BY <1>2, <1>6, <1>10, <1>11, <2>1, <2>2, <2>3
<1>16. CASE IO(q, x)
  <2> DEFINE y == [x EXCEPT !.phase = "WAITFOR_IO", !.io = "pending"]
             z == [x EXCEPT !.phase = "DESER_RESOURCE", !.data = "owned"]
  <2>1. y \in RequestType /\ z \in RequestType
    <3>1. y \in RequestType BY <1>3, <1>4 DEF RequestType
    <3>2. z \in RequestType BY <1>3, <1>4 DEF RequestType
    <3>3. QED BY <3>1, <3>2
  <2>2. /\ Keeps(x, y) /\ y.phase # "NONE" /\ y.isLoading = x.isLoading
        /\ Keeps(x, z) /\ z.phase # "NONE" /\ z.isLoading = x.isLoading
    BY <1>3, <1>5 DEF RequestType, Keeps
  <2>3. (Becomes(q, y, "LOADING") \/ Becomes(q, z, "LOADING")) /\ object' = object /\ calls' = calls
    BY <1>16 DEF IO
  <2> HIDE DEF y, z
  <2>4. QED BY <1>2, <1>6, <1>10, <1>11, <1>12, <2>1, <2>2, <2>3
<1>17. CASE WaitForIO(q, x)
  <2> DEFINE data == IF x.io = "ready" THEN "owned" ELSE x.data
             y == [x EXCEPT !.data = data, !.io = IF @ = "ready" THEN "none" ELSE @,
                            !.phase = IF data = "null" THEN @ ELSE "DESER_RESOURCE"]
  <2>1. y \in RequestType
    BY <1>3, <1>4 DEF RequestType
  <2>2. Keeps(x, y) /\ y.phase # "NONE" /\ y.isLoading = x.isLoading
    BY <1>3, <1>5 DEF RequestType, Keeps
  <2>3. Becomes(q, y, st) /\ object' = object /\ calls' = calls
    BY <1>9, <1>17 DEF WaitForIO
  <2> HIDE DEF y
  <2>4. QED BY <1>2, <1>6, <1>10, <1>12, <2>1, <2>2, <2>3
<1>18. CASE DeserResource(q, x)
  <2> DEFINE y == [x EXCEPT !.phase = "WAITFOR_LOAD_RESOURCE", !.serde = "no"]
  <2>1. y \in RequestType
    BY <1>3, <1>4 DEF RequestType
  <2>2. Keeps(x, y) /\ y.phase # "NONE" /\ y.isLoading = x.isLoading
    BY <1>3, <1>5 DEF RequestType, Keeps
  <2>3. CASE Becomes(q, y, st) /\ object' = object /\ calls' = calls
    <3> HIDE DEF y
    <3>1. QED BY <1>2, <1>6, <1>10, <1>12, <2>1, <2>2, <2>3
  <2>4. CASE \E ok \in Results("serde") : Deserialized(x, ok) /\ LoadFinished(q, x, ok)
    <3>1. PICK ok \in BOOLEAN : Deserialized(x, ok) /\ LoadFinished(q, x, ok)
      BY <1>14, <2>4
    <3>2. \E o \in Objects : object' = [object EXCEPT ![x.rec] = o]
      BY <1>6, <3>1 DEF Deserialized, Objects
    <3>3. QED BY <1>2, <3>1, <3>2, LoadFinishedLeaves
  <2>5. QED BY <1>9, <1>18, <2>3, <2>4 DEF DeserResource
<1>19. CASE WaitForLoad(q, x)
  <2> DEFINE y == [x EXCEPT !.serde = "no", !.serdeResult = FALSE]
  <2>1. /\ y \in RequestType /\ Keeps(req[q], y) /\ y.phase # "NONE"
        /\ y.isLoading = y.requireLoading /\ y.rec = x.rec /\ x.serdeResult \in BOOLEAN
    BY <1>2 DEF RequestType, Keeps
  <2>2. CASE LoadFinished(q, y, x.serdeResult) /\ object' = object
    <3> HIDE DEF y
    <3>1. QED BY <1>2, <1>6, <2>1, <2>2, LoadFinishedLeaves
  <2>3. CASE Becomes(q, x, st) /\ calls' = calls /\ object' = object
    BY <1>2, <1>6, <1>10, <1>12, <2>3 DEF Keeps
  <2>4. QED BY <1>9, <1>19, <2>2, <2>3 DEF WaitForLoad
<1>20. CASE WaitForDependencies(q, x)
  <2> DEFINE ready == {DependencyStatus(x.rec, d) : d \in Deps[x.rec]} \subseteq {"INSTALLED"}
             y == [x EXCEPT !.phase = IF ready THEN "INSTALL_RESOURCE" ELSE @]
             z == [x EXCEPT !.phase = "FINISHED", !.dependenciesLoaded = FALSE]
  <2>1. \/ Becomes(q, y, st) /\ object' = object /\ calls' = calls
        \/ /\ Becomes(q, z, "ERROR") /\ object' = [object EXCEPT ![x.rec] = "none"]
           /\ calls' \subseteq Released(x.rec)
    BY <1>9, <1>20 DEF WaitForDependencies, UnloadDependencies
  <2> HIDE DEF ready
  <2>2. y \in RequestType /\ z \in RequestType
    <3>1. y \in RequestType BY <1>3, <1>4 DEF RequestType
    <3>2. z \in RequestType BY <1>3, <1>4 DEF RequestType
    <3>3. QED BY <3>1, <3>2
  <2>3. /\ Keeps(x, y) /\ y.phase # "NONE" /\ y.isLoading = x.isLoading
        /\ Keeps(x, z) /\ z.phase # "NONE" /\ z.isLoading = x.isLoading
    BY <1>3, <1>5 DEF RequestType, Keeps
  <2> HIDE DEF y, z
  <2>4. "none" \in Objects
    BY DEF Objects
  <2>5. QED BY <1>2, <1>6, <1>10, <1>11, <1>12, <2>1, <2>3, <2>2, <2>4
<1>21. CASE InstallResource(q, x)
  <2> DEFINE y == [x EXCEPT !.phase = "FINISHED"]
             z == [x EXCEPT !.phase = "WAITFOR_INSTALL_RESOURCE", !.built = "pending"]
  <2>1. y \in RequestType /\ z \in RequestType
    <3>1. y \in RequestType BY <1>3, <1>4 DEF RequestType
    <3>2. z \in RequestType BY <1>3, <1>4 DEF RequestType
    <3>3. QED BY <3>1, <3>2
  <2>2. /\ Keeps(x, y) /\ y.phase # "NONE" /\ y.isLoading = x.isLoading
        /\ Keeps(x, z) /\ z.phase # "NONE" /\ z.isLoading = x.isLoading
    BY <1>3, <1>5 DEF RequestType, Keeps
  <2>3. /\ \/ Becomes(q, y, "INSTALLED") \/ Becomes(q, z, "INSTALLING") \/ Becomes(q, y, "ERROR")
        /\ object' = [object EXCEPT ![x.rec] = "installed"] \/ object' = object
        /\ calls' = calls
    BY <1>21 DEF InstallResource
  <2> HIDE DEF y, z
  <2>4. "installed" \in Objects
    BY DEF Objects
  <2>5. QED BY <1>6, <1>10, <1>11, <1>12, <2>1, <2>2, <2>3, <2>4
<1>22. CASE WaitForInstall(q, x)
  <2> DEFINE y == [x EXCEPT !.phase = "FINISHED", !.built = "none"]
  <2>1. y \in RequestType
    BY <1>3, <1>4 DEF RequestType
  <2>2. Keeps(x, y) /\ y.phase # "NONE" /\ y.isLoading = x.isLoading
    BY <1>3, <1>5 DEF RequestType, Keeps
  <2>3. /\ Becomes(q, y, "INSTALLED") \/ Becomes(q, y, "ERROR") \/ Becomes(q, x, st)
        /\ object' = object /\ calls' = calls
    BY <1>9, <1>22 DEF WaitForInstall
  <2> HIDE DEF y
  <2>4. Keeps(x, x)
    BY DEF Keeps
  <2>5. QED BY <1>2, <1>6, <1>10, <1>11, <1>12, <2>1, <2>2, <2>3, <2>4
<1>23. CASE Finished(q, x)
  BY <1>2, <1>6, <1>23, LoadFinishedLeaves DEF Finished
<1>24. CASE CancelIO(q, x)
  <2> DEFINE y == [x EXCEPT !.phase = "FINISHED", !.io = IF @ = "ready" THEN "none" ELSE @]
  <2>1. y \in RequestType
    BY <1>3, <1>4 DEF RequestType
  <2>2. Keeps(x, y) /\ y.phase # "NONE" /\ y.isLoading = x.isLoading
    BY <1>3, <1>5 DEF RequestType, Keeps
  <2>3. Becomes(q, y, "UNLOADED") /\ object' = object /\ calls' = calls
    BY <1>24 DEF CancelIO
  <2> HIDE DEF y
  <2>4. QED BY <1>6, <1>10, <1>11, <1>12, <2>1, <2>2, <2>3
<1>25. CASE Uninstall(q, x)
  <2> DEFINE y == [x EXCEPT !.phase = "UNLOAD_RESOURCE", !.built = "none"]
  <2>1. y \in RequestType
    BY <1>3, <1>4 DEF RequestType
  <2>2. Keeps(x, y) /\ y.phase # "NONE" /\ y.isLoading = x.isLoading
    BY <1>3, <1>5 DEF RequestType, Keeps
  <2>3. /\ Becomes(q, y, "LOADED") /\ calls' = calls
        /\ object' = [object EXCEPT ![x.rec] = "loaded"]
    BY <1>25 DEF Uninstall
  <2> HIDE DEF y
  <2>4. "loaded" \in Objects
    BY DEF Objects
  <2>5. QED BY <1>10, <1>11, <1>12, <2>1, <2>2, <2>3, <2>4
<1>26. CASE UnloadObject(q, x)
  <2> DEFINE y == [x EXCEPT !.phase = "FINISHED", !.data = Freed(@),
                            !.dependenciesLoaded = FALSE, !.serdeResult = FALSE,
                            !.serde = IF @ = "done" THEN "no" ELSE @]
  <2>1. y \in RequestType
    BY ONLY <1>3, <1>4, ZenonT(30) DEF RequestType
  <2>2. Keeps(x, y) /\ y.phase # "NONE" /\ y.isLoading = x.isLoading
    BY <1>3, <1>5 DEF RequestType, Keeps
  <2>3. /\ Becomes(q, y, "UNLOADED") /\ calls' \subseteq Released(x.rec)
        /\ object' = [object EXCEPT ![x.rec] = "none"]
    BY <1>26 DEF UnloadObject, UnloadDependencies
  <2> HIDE DEF y
  <2>4. "none" \in Objects
    BY DEF Objects
  <2>5. QED BY <1>10, <1>11, <2>1, <2>2, <2>3, <2>4
<1>27. QED
  BY <1>8, <1>15, <1>16, <1>17, <1>18, <1>19, <1>20, <1>21, <1>22, <1>23, <1>24, <1>25, <1>26

-----------------------------------------------------------------------------
(* Every step keeps the places, the names and the handles in order.        *)

\* A turn of a request's loop keeps the core invariant.
LEMMA TurnCore ==
  ASSUME CoreInv, UpdateRequest
  PROVE  CoreInv'
<1> DEFINE q == updating[at]
           r == req[q].rec
<1>1. TurnFacts(q) /\ Turns(q)
  BY TurnOfActive, TurnShape
<1> HIDE DEF q
<1>2. PICK y \in RequestType, st \in Statuses \ {"ABSENT"}, o \in Objects : TurnLeaves(q, y, st, o)
  BY <1>1 DEF Turns
<1>3. UNCHANGED <<refs, active, queue, updating, failed, pc, at, overlooked>>
  BY DEF UpdateRequest
<1>4. /\ req \in [Requests -> RequestType] /\ status \in [Resources -> Statuses]
      /\ object \in [Resources -> Objects] /\ spin \in 0..Spins
      /\ active \in [Resources -> Requests \cup {NoRequest}]
  BY DEF CoreInv, TypeOK, Objects
<1>5. q \in Requests /\ r \in Resources /\ req[q].phase # "NONE" /\ spin # Spins
  BY <1>1 DEF TurnFacts
<1>6. /\ req' \in [Requests -> RequestType] /\ status' \in [Resources -> Statuses]
      /\ object' \in [Resources -> Objects] /\ spin' \in 0..Spins
      /\ calls' \subseteq Calls
  <2>1. spin' \in 0..Spins
    BY <1>2, <1>4, <1>5, ConstantsTyped DEF TurnLeaves
  <2>2. calls' \subseteq Calls
    BY <1>2, <1>5, CallsTyped DEF TurnLeaves
  <2>3. QED BY <1>2, <1>4, <1>5, <2>1, <2>2 DEF TurnLeaves
<1>7. \A p \in Requests : /\ req'[p].rec = req[p].rec
                          /\ req'[p].phase = "NONE" => req[p].phase = "NONE"
                          /\ req'[p].requireLoading = req[p].requireLoading
  BY <1>2, <1>4, <1>5 DEF TurnLeaves, Keeps
<1>8. \A s \in Resources : status'[s] = "ABSENT" => status[s] = "ABSENT"
  BY <1>2, <1>4, <1>5 DEF TurnLeaves
<1>9. QueuesInv' /\ RecordsInv'
  BY <1>3, <1>7, <1>8, SamePlaces
<1>10. HeldInv'
  BY <1>3, <1>4, <1>7, <1>8 DEF CoreInv, HeldInv, BeingUnloaded
<1>11. TypeOK'
  BY <1>3, <1>6 DEF CoreInv, TypeOK, Objects, Calls
<1>12. QED BY <1>9, <1>10, <1>11 DEF CoreInv

(* What only goes on inside the requests.                                  *)
LEMMA InsideCore ==
  ASSUME CoreInv, UNCHANGED <<status, refs, active, queue, updating, failed, calls, overlooked>>,
         req' \in [Requests -> RequestType], object' \in [Resources -> Objects],
         \A q \in Requests : /\ Keeps(req[q], req'[q])
                             /\ req'[q].phase = req[q].phase,
         pc' \in {"idle", "clear", "update", "serde"},
         at' \in 1..(Len(updating) + 1), spin' \in 0..Spins
  PROVE  CoreInv'
<1>1. QueuesInv' /\ RecordsInv'
  BY SamePlaces DEF Keeps
<1>2. HeldInv'
  BY DEF CoreInv, HeldInv, BeingUnloaded, Keeps, TypeOK
<1>3. TypeOK'
  BY DEF CoreInv, TypeOK, Objects
<1>4. QED BY <1>1, <1>2, <1>3 DEF CoreInv

(* Requests enqueued since the last update are taken over.                 *)
LEMMA BeginCore ==
  ASSUME CoreInv, BeginUpdate
  PROVE  CoreInv'
<1>1. /\ queue \in Seq(Requests) /\ updating \in Seq(Requests)
      /\ IsInjective(queue) /\ IsInjective(updating)
  BY DEF CoreInv, TypeOK, QueuesInv
<1>2. /\ updating' = updating \o queue /\ queue' = <<>> /\ pc' = "clear" /\ at' = 1
      /\ UNCHANGED <<status, refs, active, object, req, failed, spin, calls, overlooked>>
  BY DEF BeginUpdate
<1>3. \A q : ~ (Contains(updating, q) /\ Contains(queue, q))
  BY <1>1, ElementOfSeq DEF CoreInv, QueuesInv, Contains
<1>4. /\ updating' \in Seq(Requests) /\ IsInjective(updating')
      /\ \A q : Contains(updating', q) <=> Contains(updating, q) \/ Contains(queue, q)
  BY <1>1, <1>2, <1>3, ConcatElements
<1>5. queue' \in Seq(Requests) /\ IsInjective(queue') /\ \A q : ~ Contains(queue', q)
  BY <1>2 DEF IsInjective, Contains
<1>6. \A q : Driven(q)' <=> Driven(q)
  BY <1>4, <1>5 DEF Driven
<1>7. QueuesInv' /\ RecordsInv'
  BY <1>2, <1>4, <1>5, <1>6 DEF CoreInv, QueuesInv, RecordsInv
<1>8. HeldInv'
  BY <1>2 DEF CoreInv, HeldInv, BeingUnloaded
<1>9. at' \in 1..(Len(updating') + 1)
  BY <1>2, <1>4
<1>10. TypeOK'
  BY <1>2, <1>4, <1>5, <1>9 DEF CoreInv, TypeOK
<1>11. QED BY <1>7, <1>8, <1>10 DEF CoreInv

(* The request that is looked at leaves the list.                          *)
LEMMA ErasedFacts ==
  ASSUME CoreInv, at <= Len(updating), updating' = Erased
  PROVE  /\ updating[at] \in Requests /\ Contains(updating, updating[at])
         /\ updating' \in Seq(Requests) /\ IsInjective(updating')
         /\ at \in 1..(Len(updating') + 1)
         /\ \A q : Contains(updating', q) <=> Contains(updating, q) /\ q # updating[at]
<1>1. /\ updating \in Seq(Requests) /\ IsInjective(updating) /\ at \in 1..(Len(updating) + 1)
  BY DEF CoreInv, TypeOK, QueuesInv
<1>2. at \in 1..Len(updating)
  BY <1>1
<1>3. /\ updating' \in Seq(Requests) /\ IsInjective(updating')
      /\ \A q : Contains(updating', q) <=> Contains(updating, q) /\ q # updating[at]
  BY <1>1, <1>2, RemoveAtElements DEF Erased
<1>4. Len(updating') = Len(updating) - 1
  BY <1>1, <1>2, RemoveAtShape DEF Erased
<1>5. updating[at] \in Requests /\ Contains(updating, updating[at])
  BY <1>1, <1>2 DEF Contains
<1>6. QED BY <1>1, <1>2, <1>3, <1>4, <1>5

(* A request that is okay is deleted.                                      *)
LEMMA ClearOkayCore ==
  ASSUME CoreInv, at <= Len(updating), ClearOkay(updating[at], req[updating[at]]),
         UNCHANGED <<refs, queue, pc, spin, overlooked>>
  PROVE  CoreInv'
<1> DEFINE q == updating[at]
           r == req[q].rec
<1>1. /\ q \in Requests /\ Contains(updating, q)
      /\ updating' \in Seq(Requests) /\ IsInjective(updating')
      /\ at' \in 1..(Len(updating') + 1)
      /\ \A p : Contains(updating', p) <=> Contains(updating, p) /\ p # q
  BY ErasedFacts DEF ClearOkay
<1>2. /\ Okay(req[q]) /\ req' = [req EXCEPT ![q] = Deleted(req[q])]
      /\ failed' = failed
      /\ \/ /\ r # NoRecord /\ ~ req[q].isLoading
            /\ DestroyRecord(r) /\ calls' = Released(r)
         \/ /\ r # NoRecord /\ active' = [active EXCEPT ![r] = NoRequest]
            /\ UNCHANGED <<status, object, calls>>
         \/ r = NoRecord /\ UNCHANGED <<status, active, object, calls>>
  BY DEF ClearOkay
<1> HIDE DEF q
<1>3. /\ req \in [Requests -> RequestType] /\ status \in [Resources -> Statuses]
      /\ active \in [Resources -> Requests \cup {NoRequest}]
      /\ object \in [Resources -> {"none", "loaded", "installed"}]
      /\ calls \subseteq Calls /\ queue \in Seq(Requests)
  BY DEF CoreInv, TypeOK, Calls
<1>4. /\ Deleted(req[q]) \in RequestType
      /\ Deleted(req[q]).rec = NoRecord /\ Deleted(req[q]).phase = "NONE"
  BY DeletedTyped
<1>5. /\ req' \in [Requests -> RequestType]
      /\ \A p \in Requests : req'[p] = IF p = q THEN Deleted(req[q]) ELSE req[p]
  BY <1>1, <1>2, <1>3, <1>4
<1>6. q \notin failed /\ ~ Contains(queue, q)
  BY <1>1 DEF CoreInv, QueuesInv, Driven
<1>7. \A p : Driven(p)' <=> Driven(p) /\ p # q
  BY <1>1, <1>6 DEF Driven
<1>8. QueuesInv'
  <2>1. ASSUME NEW p \in Requests, req'[p].phase = "NONE"
        PROVE  ~ Driven(p)' /\ p \notin failed' /\ req'[p].rec = NoRecord
    BY <1>2, <1>4, <1>5, <1>6, <1>7, <2>1 DEF CoreInv, QueuesInv
  <2>2. QED BY <1>1, <1>2, <1>7, <2>1 DEF CoreInv, QueuesInv
<1>9. /\ status' \in [Resources -> Statuses]
      /\ active' \in [Resources -> Requests \cup {NoRequest}]
      /\ object' \in [Resources -> {"none", "loaded", "installed"}]
      /\ calls' \subseteq Calls
      /\ RecordsInv' /\ HeldInv'
  <2>1. CASE r = NoRecord /\ UNCHANGED <<status, active, object, calls>>
    <3>1. \A s \in Resources : active[s] # q
      BY <1>1, <2>1, ConstantsTyped DEF CoreInv, RecordsInv
    <3>2. RecordsInv'
      <4>1. ASSUME NEW p \in Requests, req'[p].rec # NoRecord
            PROVE  active'[req'[p].rec] = p
        BY <1>4, <1>5, <2>1, <4>1 DEF CoreInv, RecordsInv
      <4>2. ASSUME NEW s \in Resources, NEW p \in Requests, active'[s] = p
            PROVE  req'[p].rec = s /\ (Driven(p)' \/ p \in failed') /\ status'[s] # "ABSENT"
        <5>1. active[s] = p /\ p # q
          BY <2>1, <3>1, <4>2
        <5>2. QED BY <1>2, <1>5, <1>7, <2>1, <5>1 DEF CoreInv, RecordsInv
      <4>3. QED BY <4>1, <4>2 DEF RecordsInv
    <3>3. HeldInv'
      BY <1>3, <1>5, <2>1, <3>1 DEF CoreInv, HeldInv, BeingUnloaded
    <3>4. QED BY <1>3, <2>1, <3>2, <3>3
  <2>2. ASSUME r # NoRecord
        PROVE  r \in Resources /\ active[r] = q
    BY <1>1, <1>3, <2>2, RequestFields DEF CoreInv, RecordsInv
  <2>3. \A s \in Resources : active[s] = q => s = r
    BY <1>1 DEF CoreInv, RecordsInv
  <2>4. CASE /\ r # NoRecord /\ ~ req[q].isLoading
             /\ DestroyRecord(r) /\ calls' = Released(r)
    <3>1. r \in Resources /\ active[r] = q
      BY <2>2, <2>4
    <3>2. \A p \in Requests : IF p = active[r] THEN req'[p].rec = NoRecord ELSE req'[p] = req[p]
      BY <1>4, <1>5, <3>1
    <3>3. \A p \in Requests : p # active[r] /\ Driven(p) => Driven(p)'
      BY <1>7, <3>1
    <3> HIDE DEF r
    <3>4. /\ status' \in [Resources -> Statuses]
          /\ active' \in [Resources -> Requests \cup {NoRequest}]
          /\ object' \in [Resources -> {"none", "loaded", "installed"}]
          /\ RecordsInv'
          /\ \A s \in Resources : s # r /\ BeingUnloaded(s)' => BeingUnloaded(s)
      BY <1>2, <2>4, <3>1, <3>2, <3>3, RecordGoes
    <3>5. BeingUnloaded(r)
      BY <1>1, <1>2, <2>4, <3>1, ConstantsTyped DEF Okay, BeingUnloaded
    <3>6. \A s \in Resources : s # r => status'[s] = status[s]
      BY <1>3, <2>4 DEF DestroyRecord
    <3>7. HeldInv'
      BY <3>4, <3>5, <3>6 DEF CoreInv, HeldInv
    <3>8. QED BY <2>4, <3>1, <3>4, <3>7, CallsTyped
  <2>5. CASE /\ r # NoRecord /\ active' = [active EXCEPT ![r] = NoRequest]
             /\ UNCHANGED <<status, object, calls>>
    <3>1. r \in Resources /\ active[r] = q
      BY <2>2, <2>5
    <3>2. \A s \in Resources : active'[s] = IF s = r THEN NoRequest ELSE active[s]
      BY <1>3, <2>5
    <3>3. RecordsInv'
      <4>1. ASSUME NEW p \in Requests, req'[p].rec # NoRecord
            PROVE  active'[req'[p].rec] = p
        <5>1. p # q /\ req'[p] = req[p] /\ active[req[p].rec] = p /\ req[p].rec \in Resources
          <6>1. p # q /\ req'[p] = req[p] /\ req[p] \in RequestType
            BY <1>3, <1>4, <1>5, <4>1
          <6>2. req[p].rec # NoRecord /\ req[p].rec \in Resources
            BY <4>1, <6>1, RequestFields
          <6>3. QED BY <6>1, <6>2 DEF CoreInv, RecordsInv
        <5>2. req[p].rec # r
          BY <3>1, <5>1
        <5>3. QED BY <3>2, <5>1, <5>2
      <4>2. ASSUME NEW s \in Resources, NEW p \in Requests, active'[s] = p
            PROVE  req'[p].rec = s /\ (Driven(p)' \/ p \in failed') /\ status'[s] # "ABSENT"
        <5>1. s # r /\ active[s] = p /\ p # q
          BY <2>3, <3>2, <4>2, ConstantsTyped
        <5>2. QED BY <1>2, <1>5, <1>7, <2>5, <5>1 DEF CoreInv, RecordsInv
      <4>3. QED BY <4>1, <4>2 DEF RecordsInv
    <3>4. ASSUME NEW s \in Resources, BeingUnloaded(s)'
          PROVE  BeingUnloaded(s)
      <4>1. s # r /\ active'[s] = active[s] /\ active[s] # NoRequest
        BY <3>2, <3>4 DEF BeingUnloaded
      <4>2. active[s] \in Requests /\ active[s] # q
        BY <1>3, <2>3, <4>1
      <4>3. QED BY <1>5, <3>4, <4>1, <4>2 DEF BeingUnloaded
    <3>5. HeldInv'
      BY <2>5, <3>4 DEF CoreInv, HeldInv
    <3>6. QED BY <1>3, <2>5, <3>1, <3>3, <3>5
  <2>6. QED BY <1>2, <2>1, <2>4, <2>5
<1>10. TypeOK'
  BY <1>1, <1>2, <1>3, <1>5, <1>9 DEF CoreInv, TypeOK, Calls
<1>11. QED BY <1>8, <1>9, <1>10 DEF CoreInv

(* A request that failed is kept apart.                                    *)
LEMMA ClearFailedCore ==
  ASSUME CoreInv, at <= Len(updating), ClearFailed(updating[at], req[updating[at]]),
         UNCHANGED <<refs, queue, pc, spin, overlooked>>
  PROVE  CoreInv'
<1> DEFINE q == updating[at]
<1>1. /\ q \in Requests /\ Contains(updating, q)
      /\ updating' \in Seq(Requests) /\ IsInjective(updating')
      /\ at \in 1..(Len(updating') + 1)
      /\ \A p : Contains(updating', p) <=> Contains(updating, p) /\ p # q
  BY ErasedFacts DEF ClearFailed
<1>2. failed' = failed \cup {q} /\ UNCHANGED <<status, active, object, req, calls, at>>
  BY DEF ClearFailed
<1> HIDE DEF q
<1>3. ~ Contains(queue, q) /\ req[q].phase # "NONE"
  BY <1>1 DEF CoreInv, QueuesInv, Driven
<1>4. \A p : Driven(p)' <=> Driven(p) /\ p # q
  BY <1>1, <1>3 DEF Driven
<1>5. QueuesInv'
  BY <1>1, <1>2, <1>3, <1>4 DEF CoreInv, QueuesInv
<1>6. RecordsInv'
  BY <1>2, <1>4 DEF CoreInv, RecordsInv
<1>7. HeldInv'
  BY <1>2 DEF CoreInv, HeldInv, BeingUnloaded
<1>8. TypeOK'
  BY <1>1, <1>2 DEF CoreInv, TypeOK
<1>9. QED BY <1>5, <1>6, <1>7, <1>8 DEF CoreInv

(* Failed requests without a record are deleted.                           *)
LEMMA EndClearCore ==
  ASSUME CoreInv, EndClear
  PROVE  CoreInv'
<1>1. /\ req' = [q \in Requests |-> IF q \in failed /\ req[q].rec = NoRecord
                                    THEN Deleted(req[q]) ELSE req[q]]
      /\ failed' = {q \in failed : req[q].rec # NoRecord}
      /\ pc' = "update" /\ at' = 1 /\ spin' = 0
      /\ UNCHANGED <<status, refs, active, object, queue, updating, calls, overlooked>>
  BY DEF EndClear
<1>2. /\ req \in [Requests -> RequestType] /\ updating \in Seq(Requests)
      /\ active \in [Resources -> Requests \cup {NoRequest}]
  BY DEF CoreInv, TypeOK
<1>3. \A x : Deleted(x) \in RequestType /\ Deleted(x).rec = NoRecord
  BY DeletedTyped
<1>4. req' \in [Requests -> RequestType]
  BY <1>1, <1>2, <1>3
<1>5. \A q \in Requests :
        /\ req'[q].rec = req[q].rec
        /\ req[q].rec # NoRecord \/ q \notin failed => req'[q] = req[q]
  BY <1>1, <1>2, <1>3
<1>6. \A q : Driven(q)' <=> Driven(q)
  BY <1>1 DEF Driven
<1>7. QueuesInv'
  BY <1>1, <1>5, <1>6 DEF CoreInv, QueuesInv
<1>8. \A r \in Resources, q \in Requests : active[r] = q => req[q].rec # NoRecord
  BY ConstantsTyped DEF CoreInv, RecordsInv
<1>9. RecordsInv'
  BY <1>1, <1>5, <1>6, <1>8 DEF CoreInv, RecordsInv
<1>10. HeldInv'
  BY <1>1, <1>2, <1>5, <1>8 DEF CoreInv, HeldInv, BeingUnloaded
<1>11. at' \in 1..(Len(updating') + 1) /\ spin' \in 0..Spins
  BY <1>1, <1>2, ConstantsTyped
<1>12. TypeOK'
  BY <1>1, <1>4, <1>11 DEF CoreInv, TypeOK
<1>13. QED BY <1>7, <1>9, <1>10, <1>12 DEF CoreInv

(* LoadTask deserialises.                                                  *)
LEMMA LoadTaskCore ==
  ASSUME CoreInv, NEW q \in Requests, NEW where \in {"here", "task"}, LoadTask(q, where)
  PROVE  CoreInv'
<1>1. PICK ok \in BOOLEAN :
        /\ req' = [req EXCEPT ![q].serde = "done", ![q].serdeResult = ok]
        /\ Deserialized(req[q], ok)
  BY DEF LoadTask, Results
<1>2. /\ req \in [Requests -> RequestType] /\ object \in [Resources -> Objects]
      /\ pc \in {"idle", "clear", "update", "serde"}
      /\ at \in 1..(Len(updating) + 1) /\ spin \in 0..Spins
  BY DEF CoreInv, TypeOK, Objects
<1>3. req' = [req EXCEPT ![q] = [req[q] EXCEPT !.serde = "done", !.serdeResult = ok]]
  BY <1>1, <1>2
<1>4. ASSUME NEW x \in RequestType
      PROVE  [x EXCEPT !.serde = "done", !.serdeResult = ok] \in RequestType
  BY DEF RequestType
<1>5. req' \in [Requests -> RequestType]
  BY <1>2, <1>3, <1>4
<1>6. \A p \in Requests : Keeps(req[p], req'[p]) /\ req'[p].phase = req[p].phase
  BY <1>2, <1>3 DEF Keeps, RequestType
<1>7. object' \in [Resources -> Objects]
  BY <1>1, <1>2 DEF Deserialized, Objects
<1>8. UNCHANGED <<status, refs, active, queue, updating, failed, pc, at, spin, calls, overlooked>>
  BY DEF LoadTask
<1>9. QED BY <1>2, <1>5, <1>6, <1>7, <1>8, InsideCore

(* Only loads that wait are given to tasks, or left to this thread.        *)
LEMMA ScheduleEffect ==
  ASSUME ScheduleSerde
  PROVE  \E inBatch \in [Requests -> BOOLEAN], toTask \in [Requests -> BOOLEAN] :
           /\ \A q \in Requests : inBatch[q] => Waiting(req[q])
           /\ req' = [q \in Requests |->
                IF inBatch[q] THEN [req[q] EXCEPT !.serde = IF toTask[q] THEN "task" ELSE "here"]
                ELSE req[q]]
<1> DEFINE waiting == {i \in DOMAIN updating : Waiting(req[updating[i]])}
           tasks == (Cardinality(waiting) \div BatchSize) * BatchSize
           upTo(i) == Cardinality({j \in waiting : j <= i})
           ib == [q \in Requests |-> \E i \in waiting : updating[i] = q]
           tt == [q \in Requests |-> \E i \in waiting : updating[i] = q /\ upTo(i) <= tasks]
<1>1. req' = [q \in Requests |->
            IF \E i \in waiting : updating[i] = q
            THEN [req[q] EXCEPT !.serde = IF \E i \in waiting : updating[i] = q /\ upTo(i) <= tasks
                                          THEN "task" ELSE "here"]
            ELSE req[q]]
  BY DEF ScheduleSerde
<1>2. \A q \in Requests : ib[q] => Waiting(req[q])
  OBVIOUS
<1> HIDE DEF waiting, tasks, upTo
<1>3. ib \in [Requests -> BOOLEAN] /\ tt \in [Requests -> BOOLEAN]
  OBVIOUS
<1>4. req' = [q \in Requests |->
        IF ib[q] THEN [req[q] EXCEPT !.serde = IF tt[q] THEN "task" ELSE "here"]
        ELSE req[q]]
  BY <1>1
<1>5. QED BY <1>2, <1>3, <1>4

\* So does scheduling a deserialisation.
LEMMA ScheduleCore ==
  ASSUME CoreInv, ScheduleSerde
  PROVE  CoreInv'
<1>1. PICK inBatch \in [Requests -> BOOLEAN], toTask \in [Requests -> BOOLEAN] :
        req' = [q \in Requests |->
          IF inBatch[q] THEN [req[q] EXCEPT !.serde = IF toTask[q] THEN "task" ELSE "here"]
          ELSE req[q]]
  BY ScheduleEffect
<1>2. /\ req \in [Requests -> RequestType] /\ object \in [Resources -> Objects]
      /\ at \in 1..(Len(updating) + 1) /\ spin \in 0..Spins
  BY DEF CoreInv, TypeOK, Objects
<1>3. ASSUME NEW x \in RequestType, NEW w \in {"task", "here"}
      PROVE  [x EXCEPT !.serde = w] \in RequestType /\ Keeps(x, [x EXCEPT !.serde = w])
             /\ [x EXCEPT !.serde = w].phase = x.phase
  BY DEF RequestType, Keeps
<1>4. ASSUME NEW p \in Requests
      PROVE  req'[p] \in RequestType /\ Keeps(req[p], req'[p]) /\ req'[p].phase = req[p].phase
  <2>1. CASE inBatch[p]
    BY <1>1, <1>2, <1>3, <2>1
  <2>2. CASE ~ inBatch[p]
    BY <1>1, <1>2, <2>2 DEF Keeps
  <2>3. QED BY <2>1, <2>2
<1>5. req' \in [Requests -> RequestType]
  BY <1>1, <1>4
<1>6. pc' = "serde" /\ UNCHANGED <<status, refs, active, object, queue, updating, failed, at, spin, calls, overlooked>>
  BY DEF ScheduleSerde
<1>7. QED BY <1>2, <1>4, <1>5, <1>6, InsideCore

(* I/O and installations end.                                              *)
LEMMA EndsCore ==
  ASSUME CoreInv, NEW q \in Requests, IOEnds(q) \/ InstallEnds(q)
  PROVE  CoreInv'
<1>1. PICK x \in RequestType : /\ req' = [req EXCEPT ![q] = x]
                               /\ Keeps(req[q], x) /\ x.phase = req[q].phase
  <2>1. req \in [Requests -> RequestType] /\ req[q] \in RequestType
    BY DEF CoreInv, TypeOK
  <2>2. CASE IOEnds(q)
    <3>1. req' = [req EXCEPT ![q] = [req[q] EXCEPT !.io = "ready"]]
      BY <2>1, <2>2 DEF IOEnds
    <3>2. [req[q] EXCEPT !.io = "ready"] \in RequestType
      BY <2>1 DEF RequestType
    <3>3. QED BY <2>1, <3>1, <3>2 DEF Keeps, RequestType
  <2>3. CASE InstallEnds(q)
    <3>1. PICK b \in {"succeed", "failed"} : req' = [req EXCEPT ![q] = [req[q] EXCEPT !.built = b]]
      BY <2>1, <2>3 DEF InstallEnds
    <3>2. [req[q] EXCEPT !.built = b] \in RequestType
      BY <2>1 DEF RequestType
    <3>3. QED BY <2>1, <3>1, <3>2 DEF Keeps, RequestType
  <2>4. QED BY <2>2, <2>3
<1>2. /\ req \in [Requests -> RequestType] /\ object \in [Resources -> Objects]
      /\ pc \in {"idle", "clear", "update", "serde"}
      /\ at \in 1..(Len(updating) + 1) /\ spin \in 0..Spins
  BY DEF CoreInv, TypeOK, Objects
<1>3. /\ req' \in [Requests -> RequestType]
      /\ \A p \in Requests : Keeps(req[p], req'[p]) /\ req'[p].phase = req[p].phase
  BY <1>1, <1>2 DEF Keeps
<1>4. UNCHANGED <<status, refs, active, object, queue, updating, failed, pc, at, spin, calls, overlooked>>
  BY DEF IOEnds, InstallEnds
<1>5. QED BY <1>2, <1>3, <1>4, InsideCore

(* A call for a dependency.                                                *)
LEMMA DependencyCore ==
  ASSUME CoreInv, NEW call \in calls, DependencyCall(call)
  PROVE  CoreInv'
<1>1. call[2] \in Resources /\ call[3] \in Resources /\ calls \subseteq Calls
  BY DEF CoreInv, TypeOK, Calls
<1>2. UNCHANGED <<updating, failed, pc, at, spin>>
  BY DEF DependencyCall
<1>3. CASE LoadResource(call[2], call[3], TRUE) /\ calls' = calls \ {call}
  <2>1. TRUE \in BOOLEAN /\ calls' \subseteq calls
    BY <1>3
  <2>2. QED BY <1>1, <1>2, <1>3, <2>1, LoadCore
<1>4. CASE UnloadResource(call[2], call[3], calls \ {call}) /\ UNCHANGED overlooked
  <2>1. calls \ {call} \in SUBSET Calls
    BY <1>1
  <2>2. QED BY <1>1, <1>2, <1>4, <2>1, UnloadCore
<1>5. QED BY <1>3, <1>4 DEF DependencyCall

(* The invariant of the places, the names and the handles.                 *)
LEMMA CoreInit == Init => CoreInv
<1> SUFFICES ASSUME Init PROVE CoreInv
  OBVIOUS
<1>1. NewRequest(NoRecord, "NONE", FALSE, FALSE) \in RequestType
  BY NewRequestTyped DEF Phases
<1>2. /\ \A q \in Requests : req[q].rec = NoRecord
      /\ \A r \in Resources : active[r] = NoRequest /\ refs[r] = {}
      /\ queue = <<>> /\ updating = <<>> /\ failed = {} /\ at = 1 /\ spin = 0
  BY DEF Init, NewRequest
<1>3. \A q : ~ Driven(q)
  BY <1>2 DEF Driven, Contains
<1>4. TypeOK
  <2>1. at \in 1..(Len(updating) + 1) /\ spin \in 0..Spins
    BY <1>2, ConstantsTyped
  <2>2. queue \in Seq(Requests) /\ updating \in Seq(Requests)
    BY <1>2
  <2>3. QED BY <1>1, <2>1, <2>2 DEF Init, TypeOK, Statuses
<1>5. QueuesInv
  BY <1>2, <1>3 DEF QueuesInv, IsInjective, Contains
<1>6. RecordsInv
  BY <1>2, ConstantsTyped DEF RecordsInv
<1>7. HeldInv
  BY <1>2 DEF HeldInv
<1>8. QED BY <1>4, <1>5, <1>6, <1>7 DEF CoreInv

\* Every step keeps the core invariant.
LEMMA CoreStep == CoreInv /\ [Next]_vars => CoreInv'
<1> SUFFICES ASSUME CoreInv, [Next]_vars PROVE CoreInv'
  OBVIOUS
<1>1. CASE BeginUpdate
  BY <1>1, BeginCore
<1>2. CASE ClearRequest
  <2>1. /\ at <= Len(updating)
        /\ UNCHANGED <<refs, queue, pc, spin, overlooked>>
        /\ \/ ClearOkay(updating[at], req[updating[at]])
           \/ ClearFailed(updating[at], req[updating[at]])
           \/ KeepRequest(req[updating[at]])
    BY <1>2 DEF ClearRequest
  <2>2. CASE KeepRequest(req[updating[at]])
    <3>1. UNCHANGED <<status, refs, active, object, req, queue, updating, failed, pc, spin, calls, overlooked>>
      BY <2>1, <2>2 DEF KeepRequest
    <3>2. at' \in 1..(Len(updating) + 1) /\ spin' \in 0..Spins
      <4>1. /\ updating \in Seq(Requests) /\ at \in 1..(Len(updating) + 1)
            /\ at' = at + 1 /\ spin \in 0..Spins
        BY <2>2 DEF CoreInv, TypeOK, KeepRequest
      <4>2. QED BY <2>1, <3>1, <4>1
    <3>3. /\ req' \in [Requests -> RequestType] /\ object' \in [Resources -> Objects]
          /\ pc' \in {"idle", "clear", "update", "serde"}
          /\ \A q \in Requests : Keeps(req[q], req'[q]) /\ req'[q].phase = req[q].phase
      BY <3>1 DEF CoreInv, TypeOK, Objects, Keeps
    <3>4. QED BY <3>1, <3>2, <3>3, InsideCore
  <2>3. QED BY <2>1, <2>2, ClearOkayCore, ClearFailedCore
<1>3. CASE EndClear
  BY <1>3, EndClearCore
<1>4. CASE UpdateRequest
  BY <1>4, TurnCore
<1>5. CASE NextRequest \/ EndUpdate
  <2>1. /\ UNCHANGED <<status, refs, active, object, req, queue, updating, failed, calls, overlooked>>
        /\ updating \in Seq(Requests) /\ at \in 1..(Len(updating) + 1) /\ spin \in 0..Spins
        /\ pc \in {"idle", "clear", "update", "serde"}
    BY <1>5 DEF NextRequest, EndUpdate, CoreInv, TypeOK
  <2>2. at' \in 1..(Len(updating) + 1) /\ spin' \in 0..Spins
    BY <1>5, <2>1, ConstantsTyped DEF NextRequest, EndUpdate
  <2>3. pc' \in {"idle", "clear", "update", "serde"}
    BY <1>5, <2>1 DEF NextRequest, EndUpdate
  <2>4. /\ req' \in [Requests -> RequestType] /\ object' \in [Resources -> Objects]
        /\ \A q \in Requests : Keeps(req[q], req'[q]) /\ req'[q].phase = req[q].phase
    BY <2>1 DEF CoreInv, TypeOK, Objects, Keeps
  <2>5. QED BY <2>1, <2>2, <2>3, <2>4, InsideCore
<1>6. CASE ScheduleSerde
  BY <1>6, ScheduleCore
<1>7. ASSUME NEW q \in Requests, NEW where \in {"here", "task"}, LoadTask(q, where)
      PROVE  CoreInv'
  BY <1>7, LoadTaskCore
<1>8. CASE LoadTaskHere
  BY <1>7, <1>8 DEF LoadTaskHere
<1>9. ASSUME NEW call \in calls, DependencyCall(call)
      PROVE  CoreInv'
  BY <1>9, DependencyCore
<1>10. ASSUME NEW c \in Clients, NEW r \in Roots, Resolve(c, r) \/ Unload(c, r)
       PROVE  CoreInv'
  <2>1. r \in Resources /\ UNCHANGED <<updating, failed, pc, at, spin>>
    BY <1>10, ConstantsTyped DEF Resolve, Unload
  <2>2. CASE Resolve(c, r)
    <3>1. PICK install \in BOOLEAN : LoadResource(c, r, install)
      BY <2>2, ConstantsTyped DEF Resolve
    <3>2. calls' \subseteq calls
      BY <2>2 DEF Resolve
    <3>3. QED BY <2>1, <3>1, <3>2, LoadCore
  <2>3. CASE Unload(c, r)
    <3>1. UnloadResource(c, r, {}) /\ UNCHANGED overlooked /\ {} \in SUBSET Calls
      BY <2>3 DEF Unload
    <3>2. QED BY <2>1, <3>1, UnloadCore
  <2>4. QED BY <1>10, <2>2, <2>3
<1>11. CASE Outside
  BY <1>7, <1>11, EndsCore DEF Outside
<1>12. CASE UNCHANGED vars
  BY <1>12 DEF vars, CoreInv, TypeOK, QueuesInv, RecordsInv, HeldInv, Driven, BeingUnloaded
<1>13. QED
  BY <1>1, <1>2, <1>3, <1>4, <1>5, <1>6, <1>8, <1>9, <1>10, <1>11, <1>12
     DEF Next, MainThread, Client

(* The places, the names and the handles stay in order, whatever fails and *)
(* whatever the clients do up to where the code is defined.                *)
THEOREM CoreInvariant == Spec => []CoreInv
BY CoreInit, CoreStep, PTL DEF Spec

(* Every variable keeps its type: no position runs out of the list, no     *)
(* request object leaves a field undefined.                                *)
THEOREM TypeCorrect == Spec => []TypeOK
<1>1. CoreInv => TypeOK
  BY DEF CoreInv
<1>2. QED BY <1>1, CoreInvariant, PTL

(* A record is destroyed under a handle only when LoadResource overlooked  *)
(* that it was being unloaded (resource_system.cpp:158), whatever modes    *)
(* clients ask for and however the loads are spread over tasks.            *)
THEOREM HeldRecordsStay == Spec => []HeldRecordsLive
<1>1. CoreInv => HeldRecordsLive
  BY DEF CoreInv, HeldInv, HeldRecordsLive
<1>2. QED BY <1>1, CoreInvariant, PTL

(* A record and its request agree: who drives what, and that nothing is    *)
(* driven twice (resource_system.cpp:109, :303, :316).                     *)
THEOREM RecordsAndRequestsAgree == Spec => []RequestsAgree
<1>1. ASSUME CoreInv PROVE RequestsAgree
  <2> DEFINE Q == {queue[i] : i \in DOMAIN queue}
             U == {updating[i] : i \in DOMAIN updating}
             driven == Q \cup U
  <2>1. /\ queue \in Seq(Requests) /\ updating \in Seq(Requests)
        /\ IsInjective(queue) /\ IsInjective(updating)
        /\ active \in [Resources -> Requests \cup {NoRequest}]
    BY <1>1 DEF CoreInv, TypeOK, QueuesInv
  <2>2. /\ DOMAIN queue = 1..Len(queue) /\ DOMAIN updating = 1..Len(updating)
        /\ Q \subseteq Requests /\ U \subseteq Requests
    BY <2>1
  <2>3. \A q : Driven(q) <=> q \in driven
    BY <2>2 DEF Driven, Contains
  <2>4. Q \cap U = {}
    BY <1>1, <2>2 DEF CoreInv, QueuesInv, Contains
  <2>5. Len(queue) + Len(updating) = Cardinality(driven)
    <3>1. /\ IsFiniteSet(Q) /\ Cardinality(Q) = Len(queue)
          /\ IsFiniteSet(U) /\ Cardinality(U) = Len(updating)
      BY <2>1, InjectiveCardinality
    <3>2. Len(queue) \in Nat /\ Len(updating) \in Nat /\ Cardinality({}) = 0
      BY <2>1, LenProperties, FS_EmptySet
    <3> HIDE DEF Q, U
    <3>3. Cardinality(driven) = Cardinality(Q) + Cardinality(U) - Cardinality(Q \cap U)
      BY <3>1, FS_Union
    <3>4. Cardinality(Q \cap U) = 0
      BY <2>4, <3>2, Zenon
    <3>5. QED BY <3>1, <3>2, <3>3, <3>4
  <2>6. driven \subseteq Requests
    BY <2>2
  <2> HIDE DEF driven
  <2>7. /\ \A r \in Resources : active[r] # NoRequest =>
             req[active[r]].rec = r /\ active[r] \in driven \cup failed
        /\ \A q \in driven : req[q].rec # NoRecord => active[req[q].rec] = q
    BY <1>1, <2>1, <2>3, <2>6 DEF CoreInv, RecordsInv
  <2>8. QED BY <2>5, <2>7 DEF RequestsAgree, driven
<1>2. QED BY <1>1, CoreInvariant, PTL

-----------------------------------------------------------------------------
(* What a turn does to the phase, when every load asks for an installation. *)

\* A redirected request x of the request w: st is the status it shows, o the
\* object as it still is.
Redirection(w, x, st, o) ==
  /\ x.isLoading => x.requestInstall
  /\ x.phase \in Early \cup {"WAITFOR_LOAD_RESOURCE", "FINISHED"} => x.requestInstall
  /\ x.phase \in Early \cup {"CANCLE_WAITFOR_IO"} => o = "none"
  /\ x.phase = "WAITFOR_LOAD_RESOURCE" /\ x.serde # "done" => o = "none"
  /\ x.phase = "WAITFOR_INSTALL_RESOURCE" => o = "installed"
  /\ x.phase \in {"UNINSTALL_RESOURCE", "UNLOAD_RESOURCE"} \cup Cancels => ~ x.isLoading
  /\ x.phase # "FINISHED" => st \notin {"INSTALLED", "UNLOADED", "ABSENT"}
  /\ x.serde \in {"here", "task"} =>
       x.phase \in {"WAITFOR_LOAD_RESOURCE", "CANCEL_WAITFOR_LOAD_RESOURCE"}
  /\ x.phase \in Installing \cup {"CANCEL_WAITFOR_INSTALL_RESOURCE"} =>
       status[w.rec] = "INSTALLED" \/ w.phase \in Installing

(* Redirecting a request keeps what its phase says.                        *)
LEMMA RedirectedPhase ==
  ASSUME NEW w \in RequestType, w.phase # "NONE", ~ Okay(w), w.rec # NoRecord,
         NEW o, PhaseAgrees(w, status[w.rec], o), Truthful(status[w.rec], o),
         status[w.rec] \in Statuses \ {"ABSENT"},
         w.serde \in {"here", "task"} => w.data = "owned"
  PROVE  Redirection(w, Redirected(w), RedirectedStatus(w), o)
<1> DEFINE x == Redirected(w)
           st == RedirectedStatus(w)
<1>1. CASE w.isLoading = w.requireLoading
  <2>1. x = w /\ st = status[w.rec]
    BY <1>1 DEF Redirected, RedirectedStatus
  <2>2. w.phase = "FINISHED" => w.requestInstall
    BY <1>1 DEF Okay
  <2> HIDE DEF x, st
  <2>3. Redirection(w, x, st, o)
    BY <1>1, <2>1, <2>2 DEF Redirection, PhaseAgrees, Early, Installing, Cancels
  <2>4. QED BY <2>3 DEF x, st
<1>2. CASE w.isLoading # w.requireLoading /\ w.requireLoading
  <2>1. /\ st = UpdateLoad(w)[2] /\ x.phase = UpdateLoad(w)[1]
        /\ x.isLoading = w.requireLoading /\ x.requestInstall = w.requestInstall
        /\ x.serde = w.serde
    BY <1>2 DEF Redirected, RedirectedStatus, RequestType
  <2>2. w.phase \notin Cancels /\ w.requestInstall /\ ~ w.isLoading
    BY <1>2, RequestFields DEF PhaseAgrees
  <2> HIDE DEF x, st
  <2>3. CASE w.phase = "FINISHED"
    <3>1. x.phase = "REQUEST_RESOURCE" /\ st = "LOADING"
      BY <2>1, <2>3 DEF UpdateLoad
    <3>2. o = "none" /\ w.serde \notin {"here", "task"}
      BY <1>2, <2>2, <2>3 DEF PhaseAgrees, Truthful
    <3>3. QED BY <2>1, <2>2, <3>1, <3>2 DEF Redirection, Early, Installing, Cancels, x, st
  <2>4. CASE w.phase = "UNINSTALL_RESOURCE"
    <3>1. x.phase = "FINISHED" /\ st = "INSTALLED"
      BY <2>1, <2>4 DEF UpdateLoad
    <3>2. w.serde \notin {"here", "task"}
      BY <2>4 DEF PhaseAgrees
    <3>3. QED BY <2>1, <2>2, <3>1, <3>2 DEF Redirection, Early, Installing, Cancels, x, st
  <2>5. CASE w.phase = "UNLOAD_RESOURCE"
    <3>1. x.phase = "INSTALL_RESOURCE" /\ st = "LOADING"
      BY <2>1, <2>2, <2>5 DEF UpdateLoad
    <3>2. w.serde \notin {"here", "task"}
      BY <2>5 DEF PhaseAgrees
    <3>3. QED BY <2>1, <2>2, <2>5, <3>1, <3>2 DEF Redirection, Early, Installing, Cancels, x, st
  <2>6. CASE w.phase \notin {"FINISHED", "UNINSTALL_RESOURCE", "UNLOAD_RESOURCE"}
    <3>1. x.phase = w.phase /\ st = "LOADING"
      BY <2>1, <2>2, <2>6 DEF UpdateLoad, Cancels
    <3>2. QED
      BY <2>1, <2>2, <2>6, <3>1 DEF Redirection, PhaseAgrees, Early, Installing, Cancels, x, st
  <2>7. QED BY <2>3, <2>4, <2>5, <2>6
<1>3. CASE w.isLoading # w.requireLoading /\ ~ w.requireLoading
  <2>1. /\ st = UpdateUnload(w)[2] /\ x.phase = UpdateUnload(w)[1]
        /\ x.isLoading = w.requireLoading /\ x.requestInstall = w.requestInstall
        /\ x.serde = w.serde
    BY <1>3 DEF Redirected, RedirectedStatus, RequestType
  <2>2. w.phase \notin Cancels /\ w.requestInstall /\ w.isLoading /\ ~ x.isLoading
    BY <1>3, <2>1, RequestFields DEF PhaseAgrees
  <2>3. w.serde \in {"here", "task"} => w.phase = "WAITFOR_LOAD_RESOURCE"
    BY DEF PhaseAgrees
  <2> HIDE DEF x, st
  <2>4. CASE w.phase \in {"IO", "DESER_RESOURCE"}
    <3>1. x.phase = "FINISHED"
      BY <2>1, <2>4 DEF UpdateUnload
    <3>2. QED BY <2>1, <2>2, <2>3, <2>4, <3>1 DEF Redirection, Early, Installing, Cancels, x, st
  <2>5. CASE w.phase = "WAITFOR_IO"
    <3>1. x.phase = "CANCLE_WAITFOR_IO" /\ st = "UNLOADING"
      BY <2>1, <2>5 DEF UpdateUnload
    <3>2. o = "none"
      BY <2>5 DEF PhaseAgrees, Early
    <3>3. QED BY <2>1, <2>2, <2>3, <2>5, <3>1, <3>2 DEF Redirection, Early, Installing, Cancels, x, st
  <2>6. CASE w.phase = "WAITFOR_LOAD_RESOURCE"
    <3>1. x.phase = "CANCEL_WAITFOR_LOAD_RESOURCE" /\ st = "UNLOADING"
      BY <2>1, <2>6 DEF UpdateUnload
    <3>2. QED BY <2>1, <2>2, <3>1 DEF Redirection, Early, Installing, Cancels, x, st
  <2>7. CASE w.phase = "WAITFOR_LOAD_DEPENDENCIES"
    <3>1. x.phase = "CANCEL_WAITFOR_LOAD_DEPENDENCIES" /\ st = "UNLOADING"
      BY <2>1, <2>7 DEF UpdateUnload
    <3>2. QED BY <2>1, <2>2, <2>3, <2>7, <3>1 DEF Redirection, Early, Installing, Cancels, x, st
  <2>8. CASE w.phase = "INSTALL_RESOURCE"
    <3>1. x.phase = "UNLOAD_RESOURCE" /\ st = "UNLOADING"
      BY <2>1, <2>8 DEF UpdateUnload
    <3>2. QED BY <2>1, <2>2, <2>3, <2>8, <3>1 DEF Redirection, Early, Installing, Cancels, x, st
  <2>9. CASE w.phase = "FINISHED"
    <3>1. x.phase = "UNINSTALL_RESOURCE" /\ st = "UNINSTALLING"
      BY <2>1, <2>9 DEF UpdateUnload
    <3>2. status[w.rec] = "INSTALLED"
      BY <1>3, <2>2, <2>9 DEF PhaseAgrees
    <3>3. QED BY <2>1, <2>2, <2>3, <2>9, <3>1, <3>2 DEF Redirection, Early, Installing, Cancels, x, st
  <2>10. CASE w.phase = "WAITFOR_INSTALL_RESOURCE"
    <3>1. x.phase = "CANCEL_WAITFOR_INSTALL_RESOURCE" /\ st = "UNINSTALLING"
      BY <2>1, <2>10 DEF UpdateUnload
    <3>2. QED BY <2>1, <2>2, <2>3, <2>10, <3>1 DEF Redirection, Early, Installing, Cancels, x, st
  <2>11. CASE w.phase = "REQUEST_RESOURCE"
    <3>1. x.phase = "REQUEST_RESOURCE" /\ st = "UNLOADING"
      BY <2>1, <2>11 DEF UpdateUnload
    <3>2. o = "none"
      BY <2>11 DEF PhaseAgrees, Early
    <3>3. QED BY <2>1, <2>2, <2>3, <2>11, <3>1, <3>2 DEF Redirection, Early, Installing, Cancels, x, st
  <2>12. w.phase \notin {"UNINSTALL_RESOURCE", "UNLOAD_RESOURCE", "NONE"}
    BY <2>2 DEF PhaseAgrees
  <2>13. QED
    BY <2>2, <2>4, <2>5, <2>6, <2>7, <2>8, <2>9, <2>10, <2>11, <2>12, RequestFields DEF Phases, Cancels
<1>4. QED BY <1>1, <1>2, <1>3


\* What a turn makes of the request w: the request y, the status st and the
\* object o agree; an installation follows only on a look at the dependencies,
\* and the calls that release them only where none follows.
TurnSound(w, y, st, o) ==
  /\ PhaseAgrees(y, st, o) /\ Truthful(st, o)
  /\ st = "INSTALLED" \/ y.phase \in Installing =>
       /\ calls' \subseteq Resolved(w.rec)
       /\ \/ status[w.rec] = "INSTALLED" \/ w.phase \in Installing
          \/ \A d \in Deps[w.rec] : w.rec \in refs[d] /\ status[d] = "INSTALLED"

\* The request of a turn, redirected.
Turning(q, x) ==
  /\ q \in Requests /\ req \in [Requests -> RequestType]
  /\ status \in [Resources -> Statuses] /\ object \in [Resources -> Objects]
  /\ x \in RequestType /\ req[q].rec \in Resources /\ x.rec = req[q].rec
  /\ x.isLoading = x.requireLoading

(* What a turn has written.                                                *)
LEMMA TurnWrites ==
  ASSUME NEW q, NEW x, Turning(q, x), NEW y \in RequestType, NEW s, NEW o,
         Becomes(q, y, s), y.rec = x.rec, object' = [object EXCEPT ![x.rec] = o],
         TurnSound(req[q], y, s, o)
  PROVE  TurnSound(req[q], req'[q], status'[req[q].rec], object'[req[q].rec])
<1>1. /\ req'[q] = y /\ status'[req[q].rec] = s /\ object'[req[q].rec] = o
  BY DEF Turning, Becomes
<1>2. QED BY <1>1

(* The end of a load leaves a request, a status and an object that agree.  *)
LEMMA LoadFinishedSound ==
  ASSUME NEW q, NEW x, Turning(q, x), NEW ok \in BOOLEAN, LoadFinished(q, x, ok),
         NEW o, object' = [object EXCEPT ![x.rec] = o],
         x.requestInstall, x.serde \notin {"here", "task"}
  PROVE  TurnSound(req[q], req'[q], status'[req[q].rec], object'[req[q].rec])
<1> DEFINE f == [x EXCEPT !.phase = "FINISHED"]
           d == [x EXCEPT !.phase = "WAITFOR_LOAD_DEPENDENCIES", !.data = "null",
                          !.dependenciesLoaded = TRUE]
           i == [x EXCEPT !.phase = "INSTALL_RESOURCE", !.data = "null"]
<1>1. x \in RequestType /\ x.isLoading = x.requireLoading /\ x.rec = req[q].rec
  BY DEF Turning
<1>2. /\ Moved(x, f, "FINISHED") /\ Moved(x, d, "WAITFOR_LOAD_DEPENDENCIES")
      /\ Moved(x, i, "INSTALL_RESOURCE")
  BY ONLY <1>1, MovedTyped, EndPhases
<1> HIDE DEF f, d, i
<1>3. /\ \A y \in {f, d, i} : /\ y \in RequestType
                              /\ y.isLoading = x.isLoading /\ y.requireLoading = x.requireLoading
                              /\ y.requestInstall = x.requestInstall /\ y.rec = x.rec
                              /\ y.serde = x.serde
      /\ f.phase = "FINISHED" /\ d.phase = "WAITFOR_LOAD_DEPENDENCIES"
      /\ i.phase = "INSTALL_RESOURCE"
  BY ONLY <1>2 DEF Moved, Keeps
<1>4. \/ Becomes(q, f, "ERROR") \/ Becomes(q, d, "LOADED")
      \/ Becomes(q, i, "LOADED") /\ Deps[x.rec] = {} /\ calls' = {}
  BY DEF LoadFinished, f, d, i
<1>5. CASE Becomes(q, f, "ERROR")
  <2>1. TurnSound(req[q], f, "ERROR", o)
    BY <1>1, <1>3 DEF TurnSound, PhaseAgrees, Truthful, Early, Cancels, Installing
  <2>2. QED BY <1>3, <1>5, <2>1, TurnWrites
<1>6. CASE Becomes(q, d, "LOADED")
  <2>1. TurnSound(req[q], d, "LOADED", o)
    BY <1>1, <1>3 DEF TurnSound, PhaseAgrees, Truthful, Early, Cancels, Installing
  <2>2. QED BY <1>3, <1>6, <2>1, TurnWrites
<1>7. CASE Becomes(q, i, "LOADED") /\ Deps[x.rec] = {} /\ calls' = {}
  <2>1. TurnSound(req[q], i, "LOADED", o)
    BY <1>1, <1>3, <1>7 DEF TurnSound, PhaseAgrees, Truthful, Early, Cancels, Installing
  <2>2. QED BY <1>3, <1>7, <2>1, TurnWrites
<1>8. QED BY <1>4, <1>5, <1>6, <1>7

(* Every turn leaves a request, a status and an object that agree.         *)
LEMMA TurnPhase ==
  ASSUME CoreInv, PhaseInv, UpdateRequest, NEW q, q = updating[at]
  PROVE  TurnSound(req[q], req'[q], status'[req[q].rec], object'[req[q].rec])
<1> DEFINE w == req[q]
           r == w.rec
           x == Redirected(w)
           st == RedirectedStatus(w)
           o == object[r]
<1>1. TurnFacts(q)
  BY TurnOfActive
<1>2. /\ x \in RequestType /\ Keeps(w, x) /\ x.isLoading = x.requireLoading
  BY <1>1, RedirectedTyped DEF TurnFacts, Keeps
<1>3. Turning(q, x) /\ x.rec = r
  BY <1>1, <1>2 DEF Turning, TurnFacts, Keeps, CoreInv, TypeOK, Objects
<1>4. w.serde \in {"here", "task"} => w.data = "owned"
  BY <1>1 DEF TurnFacts, UpdateRequest, Thread, Defined, BuffersLive
<1>5. w.rec # NoRecord /\ PhaseAgrees(w, status[r], o) /\ Truthful(status[r], o)
  BY <1>1, ConstantsTyped DEF TurnFacts, PhaseInv, StatusTruthful, Truthful
<1>6. Redirection(w, x, st, o)
  BY <1>1, <1>4, <1>5, RedirectedPhase DEF TurnFacts
<1>7. calls = {}
  BY DEF UpdateRequest, Thread
<1>8. \/ RequestResource(q, x) \/ IO(q, x) \/ WaitForIO(q, x) \/ DeserResource(q, x)
      \/ WaitForLoad(q, x) \/ WaitForDependencies(q, x) \/ InstallResource(q, x)
      \/ WaitForInstall(q, x) \/ Finished(q, x) \/ CancelIO(q, x)
      \/ Uninstall(q, x) \/ UnloadObject(q, x)
  BY DEF UpdateRequest
<1>9. st = RedirectedStatus(req[q]) /\ object = [object EXCEPT ![x.rec] = o]
  BY <1>3 DEF Turning
<1>10. LoadDependencies(x) \subseteq Resolved(r)
  BY <1>3 DEF LoadDependencies
<1>11. x \in RequestType
  BY <1>2
<1>12. x.isLoading = x.requireLoading /\ w = req[q]
  BY <1>2
<1>13. {"IO", "WAITFOR_IO", "DESER_RESOURCE", "WAITFOR_LOAD_RESOURCE", "INSTALL_RESOURCE",
        "WAITFOR_INSTALL_RESOURCE", "UNLOAD_RESOURCE", "FINISHED"} \subseteq Phases
  BY DEF Phases
<1> DEFINE goal == TurnSound(req[q], req'[q], status'[req[q].rec], object'[req[q].rec])
<1> SUFFICES goal
  OBVIOUS
<1> HIDE DEF x, st, o, w, r
<1>14. ASSUME NEW y \in RequestType, NEW s, NEW b, Becomes(q, y, s),
              object' = [object EXCEPT ![x.rec] = b], Keeps(x, y), TurnSound(w, y, s, b)
       PROVE  goal
  <2>1. y.rec = x.rec
    BY <1>14 DEF Keeps
  <2>2. QED BY <1>3, <1>12, <1>14, <2>1, TurnWrites
<1>15. ASSUME NEW ok \in BOOLEAN, NEW b, LoadFinished(q, x, ok),
              object' = [object EXCEPT ![x.rec] = b],
              x.requestInstall, x.serde \notin {"here", "task"}
       PROVE  goal
  BY <1>3, <1>15, LoadFinishedSound
<1> HIDE DEF goal
<1>16. CASE RequestResource(q, x)
  <2> DEFINE load == x.rec \in Factories /\ x.requestInstall
             y == [x EXCEPT !.phase = "IO", !.dependenciesLoaded = @ \/ load]
             z == [x EXCEPT !.phase = "FINISHED"]
  <2>1. y \in RequestType /\ z \in RequestType
    BY <1>11, <1>13 DEF RequestType
  <2>2. /\ x.phase = "REQUEST_RESOURCE"
        /\ \/ Becomes(q, y, st) \/ Becomes(q, y, "ERROR")
           \/ Becomes(q, z, "ERROR") /\ calls' = {}
        /\ object' = object
    BY <1>9, <1>16 DEF RequestResource
  <2>3. /\ Keeps(x, y) /\ y.phase = "IO" /\ y.isLoading = x.isLoading /\ y.serde = x.serde
        /\ Keeps(x, z) /\ z.phase = "FINISHED" /\ z.isLoading = x.isLoading /\ z.serde = x.serde
    BY <1>11 DEF RequestType, Keeps
  <2> HIDE DEF y, z
  <2>4. /\ TurnSound(w, y, st, o) /\ TurnSound(w, y, "ERROR", o)
        /\ calls' = {} => TurnSound(w, z, "ERROR", o)
    BY <1>6, <1>12, <2>2, <2>3
       DEF TurnSound, PhaseAgrees, Truthful, Redirection, Early, Cancels, Installing, Keeps
  <2>5. QED BY <1>9, <1>14, <2>1, <2>2, <2>3, <2>4
<1>17. CASE IO(q, x)
  <2> DEFINE y == [x EXCEPT !.phase = "WAITFOR_IO", !.io = "pending"]
             z == [x EXCEPT !.phase = "DESER_RESOURCE", !.data = "owned"]
  <2>1. y \in RequestType /\ z \in RequestType
    BY <1>11, <1>13 DEF RequestType
  <2>2. /\ x.phase = "IO" /\ (Becomes(q, y, "LOADING") \/ Becomes(q, z, "LOADING"))
        /\ object' = object
    BY <1>17 DEF IO
  <2>3. /\ Keeps(x, y) /\ y.phase = "WAITFOR_IO" /\ y.isLoading = x.isLoading /\ y.serde = x.serde
        /\ Keeps(x, z) /\ z.phase = "DESER_RESOURCE" /\ z.isLoading = x.isLoading /\ z.serde = x.serde
    BY <1>11 DEF RequestType, Keeps
  <2> HIDE DEF y, z
  <2>4. TurnSound(w, y, "LOADING", o) /\ TurnSound(w, z, "LOADING", o)
    BY <1>6, <1>12, <2>2, <2>3
       DEF TurnSound, PhaseAgrees, Truthful, Redirection, Early, Cancels, Installing, Keeps
  <2>5. QED BY <1>9, <1>14, <2>1, <2>2, <2>3, <2>4
<1>18. CASE WaitForIO(q, x)
  <2> DEFINE data == IF x.io = "ready" THEN "owned" ELSE x.data
             y == [x EXCEPT !.data = data, !.io = IF @ = "ready" THEN "none" ELSE @,
                            !.phase = IF data = "null" THEN @ ELSE "DESER_RESOURCE"]
  <2>1. y \in RequestType
    BY <1>11, <1>13 DEF RequestType
  <2>2. x.phase = "WAITFOR_IO" /\ Becomes(q, y, st) /\ object' = object
    BY <1>9, <1>18 DEF WaitForIO
  <2>3. /\ Keeps(x, y) /\ y.isLoading = x.isLoading /\ y.serde = x.serde
        /\ y.phase \in {"WAITFOR_IO", "DESER_RESOURCE"}
    BY <1>11, <2>2 DEF RequestType, Keeps
  <2> HIDE DEF y
  <2>4. TurnSound(w, y, st, o)
    BY <1>6, <1>12, <2>2, <2>3
       DEF TurnSound, PhaseAgrees, Truthful, Redirection, Early, Cancels, Installing, Keeps
  <2>5. QED BY <1>9, <1>14, <2>1, <2>2, <2>3, <2>4
<1>19. CASE DeserResource(q, x)
  <2> DEFINE y == [x EXCEPT !.phase = "WAITFOR_LOAD_RESOURCE", !.serde = "no"]
  <2>1. y \in RequestType
    BY <1>11, <1>13 DEF RequestType
  <2>2. /\ x.phase = "DESER_RESOURCE"
        /\ \/ Becomes(q, y, st) /\ object' = object
           \/ \E ok \in Results("serde") : Deserialized(x, ok) /\ LoadFinished(q, x, ok)
    BY <1>9, <1>19 DEF DeserResource
  <2>3. Keeps(x, y) /\ y.isLoading = x.isLoading /\ y.serde = "no" /\ y.phase = "WAITFOR_LOAD_RESOURCE"
    BY <1>11 DEF RequestType, Keeps
  <2> HIDE DEF y
  <2>4. TurnSound(w, y, st, o)
    BY <1>6, <1>12, <2>2, <2>3
       DEF TurnSound, PhaseAgrees, Truthful, Redirection, Early, Cancels, Installing, Keeps
  <2>5. x.requestInstall /\ x.serde \notin {"here", "task"}
    BY <1>6, <2>2 DEF Redirection, Early
  <2>6. ASSUME NEW ok \in Results("serde"), Deserialized(x, ok), LoadFinished(q, x, ok)
        PROVE  goal
    <3>1. ok \in BOOLEAN
      BY DEF Results
    <3>2. PICK b : object' = [object EXCEPT ![x.rec] = b]
      BY <1>9, <2>6 DEF Deserialized
    <3>3. QED BY <1>15, <2>5, <2>6, <3>1, <3>2
  <2>7. QED BY <1>9, <1>14, <2>1, <2>2, <2>3, <2>4, <2>6
<1>20. CASE WaitForLoad(q, x)
  <2> DEFINE y == [x EXCEPT !.serde = "no", !.serdeResult = FALSE]
  <2>1. /\ y \in RequestType /\ x.serdeResult \in BOOLEAN /\ y.rec = x.rec
        /\ y.isLoading = x.isLoading /\ y.requireLoading = x.requireLoading
        /\ y.requestInstall = x.requestInstall /\ y.serde = "no"
    BY <1>11 DEF RequestType
  <2>2. /\ x.phase = "WAITFOR_LOAD_RESOURCE" /\ object' = object
        /\ \/ LoadFinished(q, y, x.serdeResult)
           \/ x.serde # "done" /\ Becomes(q, x, st)
    BY <1>9, <1>20 DEF WaitForLoad
  <2> HIDE DEF y
  <2>3. CASE LoadFinished(q, y, x.serdeResult)
    <3>1. Turning(q, y)
      BY <1>3, <1>12, <2>1 DEF Turning
    <3>2. y.requestInstall /\ y.serde \notin {"here", "task"}
      BY <1>6, <2>1, <2>2 DEF Redirection
    <3>3. object' = [object EXCEPT ![y.rec] = o]
      BY <1>9, <2>1, <2>2
    <3>4. QED BY <2>1, <2>3, <3>1, <3>2, <3>3, LoadFinishedSound DEF goal
  <2>4. CASE x.serde # "done" /\ Becomes(q, x, st)
    <3>1. TurnSound(w, x, st, o)
      BY <1>6, <1>12, <2>2, <2>4
         DEF TurnSound, PhaseAgrees, Truthful, Redirection, Early, Cancels, Installing
    <3>2. Keeps(x, x)
      BY DEF Keeps
    <3>3. QED BY <1>9, <1>11, <1>14, <2>2, <2>4, <3>1, <3>2
  <2>5. QED BY <2>2, <2>3, <2>4
<1>21. CASE WaitForDependencies(q, x)
  <2> DEFINE answers == {DependencyStatus(x.rec, d) : d \in Deps[x.rec]}
             y == [x EXCEPT !.phase = IF answers \subseteq {"INSTALLED"} THEN "INSTALL_RESOURCE" ELSE @]
             z == [x EXCEPT !.phase = "FINISHED", !.dependenciesLoaded = FALSE]
  <2>1. /\ x.phase = "WAITFOR_LOAD_DEPENDENCIES"
        /\ \/ Becomes(q, y, st) /\ object' = object /\ calls' = calls
           \/ Becomes(q, z, "ERROR") /\ object' = [object EXCEPT ![x.rec] = "none"]
    BY <1>9, <1>21 DEF WaitForDependencies
  <2>2. answers \subseteq {"INSTALLED"} =>
          \A d \in Deps[r] : r \in refs[d] /\ status[d] = "INSTALLED"
    BY <1>3 DEF DependencyStatus
  <2> HIDE DEF answers
  <2>3. y \in RequestType /\ z \in RequestType
    BY <1>11, <1>13 DEF RequestType
  <2>4. /\ Keeps(x, y) /\ y.isLoading = x.isLoading /\ y.serde = x.serde
        /\ y.phase = IF answers \subseteq {"INSTALLED"} THEN "INSTALL_RESOURCE"
                                                        ELSE "WAITFOR_LOAD_DEPENDENCIES"
        /\ Keeps(x, z) /\ z.phase = "FINISHED" /\ z.isLoading = x.isLoading /\ z.serde = x.serde
    BY <1>11, <2>1 DEF RequestType, Keeps
  <2> HIDE DEF y, z
  <2>5. TurnSound(w, z, "ERROR", "none")
    BY <1>6, <1>12, <2>1, <2>4
       DEF TurnSound, PhaseAgrees, Truthful, Redirection, Early, Cancels, Installing, Keeps
  <2>6. calls' = {} => TurnSound(w, y, st, o)
    <3>1. PhaseAgrees(y, st, o) /\ Truthful(st, o) /\ st # "INSTALLED"
      BY <1>6, <1>12, <2>1, <2>4
         DEF PhaseAgrees, Truthful, Redirection, Early, Cancels, Installing, Keeps
    <3>2. y.phase \in Installing => answers \subseteq {"INSTALLED"}
      BY <2>4 DEF Installing
    <3>3. QED BY <2>2, <3>1, <3>2 DEF TurnSound, r
  <2>7. QED BY <1>7, <1>9, <1>14, <2>1, <2>3, <2>4, <2>5, <2>6
<1>22. CASE InstallResource(q, x)
  <2> DEFINE y == [x EXCEPT !.phase = "FINISHED"]
             z == [x EXCEPT !.phase = "WAITFOR_INSTALL_RESOURCE", !.built = "pending"]
  <2>1. y \in RequestType /\ z \in RequestType
    BY <1>11, <1>13 DEF RequestType
  <2>2. /\ x.phase = "INSTALL_RESOURCE" /\ calls' = {}
        /\ \/ /\ Becomes(q, y, "INSTALLED") \/ Becomes(q, z, "INSTALLING")
              /\ object' = [object EXCEPT ![x.rec] = "installed"]
           \/ Becomes(q, y, "ERROR") /\ object' = object
    BY <1>7, <1>22 DEF InstallResource
  <2>3. /\ Keeps(x, y) /\ y.phase = "FINISHED" /\ y.isLoading = x.isLoading /\ y.serde = x.serde
        /\ Keeps(x, z) /\ z.phase = "WAITFOR_INSTALL_RESOURCE" /\ z.isLoading = x.isLoading
        /\ z.serde = x.serde
    BY <1>11 DEF RequestType, Keeps
  <2> HIDE DEF y, z
  <2>4. /\ TurnSound(w, y, "INSTALLED", "installed") /\ TurnSound(w, z, "INSTALLING", "installed")
        /\ TurnSound(w, y, "ERROR", o)
    BY <1>6, <1>12, <2>2, <2>3
       DEF TurnSound, PhaseAgrees, Truthful, Redirection, Early, Cancels, Installing, Keeps
  <2>5. QED BY <1>9, <1>14, <2>1, <2>2, <2>3, <2>4
<1>23. CASE WaitForInstall(q, x)
  <2> DEFINE y == [x EXCEPT !.phase = "FINISHED", !.built = "none"]
  <2>1. y \in RequestType
    BY <1>11, <1>13 DEF RequestType
  <2>2. /\ x.phase = "WAITFOR_INSTALL_RESOURCE" /\ calls' = {} /\ object' = object
        /\ (Becomes(q, y, "INSTALLED") \/ Becomes(q, y, "ERROR") \/ Becomes(q, x, st))
    BY <1>7, <1>9, <1>23 DEF WaitForInstall
  <2>3. /\ Keeps(x, y) /\ y.phase = "FINISHED" /\ y.isLoading = x.isLoading /\ y.serde = x.serde
        /\ Keeps(x, x)
    BY <1>11 DEF RequestType, Keeps
  <2> HIDE DEF y
  <2>4. /\ TurnSound(w, y, "INSTALLED", o) /\ TurnSound(w, y, "ERROR", o)
        /\ TurnSound(w, x, st, o)
    BY <1>6, <1>12, <2>2, <2>3
       DEF TurnSound, PhaseAgrees, Truthful, Redirection, Early, Cancels, Installing, Keeps
  <2>5. QED BY <1>9, <1>11, <1>14, <2>1, <2>2, <2>3, <2>4
<1>24. CASE Finished(q, x)
  <2>1. x.phase = "FINISHED" /\ LoadFinished(q, x, TRUE) /\ object' = object
    BY <1>24 DEF Finished
  <2>2. x.requestInstall /\ x.serde \notin {"here", "task"}
    BY <1>6, <2>1 DEF Redirection
  <2>3. QED BY <1>9, <1>15, <2>1, <2>2
<1>25. CASE CancelIO(q, x)
  <2> DEFINE y == [x EXCEPT !.phase = "FINISHED", !.io = IF @ = "ready" THEN "none" ELSE @]
  <2>1. y \in RequestType
    BY <1>11, <1>13 DEF RequestType
  <2>2. x.phase = "CANCLE_WAITFOR_IO" /\ Becomes(q, y, "UNLOADED") /\ object' = object
    BY <1>25 DEF CancelIO
  <2>3. Keeps(x, y) /\ y.phase = "FINISHED" /\ y.isLoading = x.isLoading /\ y.serde = x.serde
    BY <1>11 DEF RequestType, Keeps
  <2> HIDE DEF y
  <2>4. TurnSound(w, y, "UNLOADED", o)
    BY <1>6, <1>12, <2>2, <2>3
       DEF TurnSound, PhaseAgrees, Truthful, Redirection, Early, Cancels, Installing, Keeps
  <2>5. QED BY <1>9, <1>14, <2>1, <2>2, <2>3, <2>4
<1>26. CASE Uninstall(q, x)
  <2> DEFINE y == [x EXCEPT !.phase = "UNLOAD_RESOURCE", !.built = "none"]
  <2>1. y \in RequestType
    BY <1>11, <1>13 DEF RequestType
  <2>2. /\ x.phase \in {"CANCEL_WAITFOR_INSTALL_RESOURCE", "UNINSTALL_RESOURCE"}
        /\ Becomes(q, y, "LOADED") /\ object' = [object EXCEPT ![x.rec] = "loaded"]
        /\ calls' = {}
    BY <1>7, <1>26 DEF Uninstall
  <2>3. Keeps(x, y) /\ y.phase = "UNLOAD_RESOURCE" /\ y.isLoading = x.isLoading /\ y.serde = x.serde
    BY <1>11 DEF RequestType, Keeps
  <2> HIDE DEF y
  <2>4. TurnSound(w, y, "LOADED", "loaded")
    BY <1>6, <1>12, <2>2, <2>3
       DEF TurnSound, PhaseAgrees, Truthful, Redirection, Early, Cancels, Installing, Keeps
  <2>5. QED BY <1>14, <2>1, <2>2, <2>3, <2>4
<1>27. CASE UnloadObject(q, x)
  <2> DEFINE y == [x EXCEPT !.phase = "FINISHED", !.data = Freed(@),
                            !.dependenciesLoaded = FALSE, !.serdeResult = FALSE,
                            !.serde = IF @ = "done" THEN "no" ELSE @]
  <2>1. y \in RequestType
    <3>1. Freed(x.data) \in {"null", "owned", "freed", "freedTwice"}
      BY DEF Freed
    <3>2. QED BY <1>11, <1>13, <3>1 DEF RequestType
  <2>2. /\ x.phase \in {"CANCEL_WAITFOR_LOAD_RESOURCE", "CANCEL_WAITFOR_LOAD_DEPENDENCIES",
                        "UNLOAD_RESOURCE"}
        /\ Becomes(q, y, "UNLOADED") /\ object' = [object EXCEPT ![x.rec] = "none"]
    BY <1>27 DEF UnloadObject
  <2>3. /\ Keeps(x, y) /\ y.phase = "FINISHED" /\ y.isLoading = x.isLoading
        /\ y.data # "owned"
    BY <1>11 DEF RequestType, Keeps, Freed
  <2> HIDE DEF y
  <2>4. TurnSound(w, y, "UNLOADED", "none")
    BY <1>6, <1>12, <2>2, <2>3
       DEF TurnSound, PhaseAgrees, Truthful, Redirection, Early, Cancels, Installing, Keeps
  <2>5. QED BY <1>14, <2>1, <2>2, <2>3, <2>4
<1>28. QED
  BY <1>8, <1>16, <1>17, <1>18, <1>19, <1>20, <1>21, <1>22, <1>23, <1>24, <1>25, <1>26, <1>27

-----------------------------------------------------------------------------
(* Every step keeps phases, statuses and objects in agreement.             *)

(* A step that concerns one record.                                        *)
LEMMA OneRecordPhase ==
  ASSUME CoreInv, CoreInv', PhaseInv, NEW r \in Resources,
         \A q \in Requests : req'[q].rec \notin {NoRecord, r} => req'[q] = req[q],
         \A s \in Resources \ {r} : /\ status'[s] = status[s] /\ object'[s] = object[s]
                                    /\ active'[s] = active[s],
         \A q \in Requests : req'[q].rec = r => PhaseAgrees(req'[q], status'[r], object'[r]),
         active'[r] = NoRequest => status'[r] \in {"ABSENT", "INSTALLED", "ERROR"},
         Truthful(status'[r], object'[r])
  PROVE  PhaseInv'
<1>1. ASSUME NEW q \in Requests, req'[q].rec # NoRecord
      PROVE  PhaseAgrees(req'[q], status'[req'[q].rec], object'[req'[q].rec])
  <2>1. req'[q] \in RequestType
    BY DEF CoreInv, TypeOK
  <2>2. req'[q].rec \in Resources
    BY <1>1, <2>1, RequestFields
  <2>3. QED BY <1>1, <2>2 DEF PhaseInv
<1>2. \A s \in Resources : active'[s] = NoRequest => status'[s] \in {"ABSENT", "INSTALLED", "ERROR"}
  BY DEF PhaseInv
<1>3. StatusTruthful'
  BY DEF PhaseInv, StatusTruthful, Truthful
<1>4. QED BY <1>1, <1>2, <1>3 DEF PhaseInv

(* A resource is loaded, with an installation.                             *)
LEMMA LoadPhase ==
  ASSUME CoreInv, CoreInv', PhaseInv, NEW h, NEW r \in Resources, LoadResource(h, r, TRUE)
  PROVE  PhaseInv'
<1>1. /\ status \in [Resources -> Statuses] /\ req \in [Requests -> RequestType]
      /\ active \in [Resources -> Requests \cup {NoRequest}]
      /\ object' = object
  BY DEF CoreInv, TypeOK, LoadResource
<1>2. CASE UNCHANGED <<status, active, req>>
  BY <1>1, <1>2 DEF PhaseInv, StatusTruthful
<1>3. CASE /\ ~ Satisfied(r, TRUE) /\ active[r] # NoRequest
           /\ req' = [req EXCEPT ![active[r]].requireLoading = TRUE,
                                 ![active[r]].requestInstall = TRUE]
           /\ UNCHANGED <<status, active>>
  <2> DEFINE q == active[r]
             y == [req[q] EXCEPT !.requireLoading = TRUE, !.requestInstall = TRUE]
  <2>1. q \in Requests /\ req[q] \in RequestType
    BY <1>1, <1>3
  <2>2. req' = [req EXCEPT ![q] = y] /\ req[q].rec = r
    BY <1>1, <1>3, <2>1 DEF CoreInv, RecordsInv
  <2>3. /\ y.rec = r /\ y.phase = req[q].phase /\ y.isLoading = req[q].isLoading
        /\ y.requireLoading /\ y.requestInstall
        /\ y.serde = req[q].serde /\ y.data = req[q].data
    BY <2>1, <2>2 DEF RequestType
  <2> HIDE DEF q, y
  <2>4. \A p \in Requests : req'[p] = IF p = q THEN y ELSE req[p]
    BY <1>1, <2>1, <2>2
  <2>5. PhaseAgrees(req[q], status[r], object[r]) /\ r # NoRecord
    BY <2>1, <2>2, ConstantsTyped DEF PhaseInv
  <2>6. status[r] \notin {"INSTALLED", "ERROR"}
    BY <1>3 DEF Satisfied
  <2>7. PhaseAgrees(y, status[r], object[r])
    BY <2>3, <2>5, <2>6 DEF PhaseAgrees
  <2>8. \A p \in Requests : req'[p].rec = r => p = q
    BY <1>3, <2>5 DEF CoreInv, RecordsInv, q
  <2>9. Truthful(status[r], object[r]) /\ active[r] # NoRequest
    BY <1>3 DEF PhaseInv, StatusTruthful, Truthful
  <2>10. /\ \A p \in Requests : req'[p].rec # r => req'[p] = req[p]
         /\ \A p \in Requests : req'[p].rec = r => PhaseAgrees(req'[p], status[r], object[r])
    BY <2>3, <2>4, <2>7, <2>8
  <2>11. UNCHANGED <<status, active, object>>
    BY <1>1, <1>3
  <2>12. QED BY <2>9, <2>10, <2>11, OneRecordPhase
<1>4. CASE /\ ~ Satisfied(r, TRUE) /\ active[r] = NoRequest
           /\ Enqueue(NewRequest(r, "REQUEST_RESOURCE", TRUE, TRUE))
           /\ status' = [status EXCEPT ![r] = "LOADING"]
  <2> DEFINE x == NewRequest(r, "REQUEST_RESOURCE", TRUE, TRUE)
  <2>1. /\ x.rec = r /\ x.phase = "REQUEST_RESOURCE" /\ x.isLoading /\ x.requireLoading
        /\ x.requestInstall /\ x.serde = "no"
    BY DEF NewRequest
  <2>2. PICK q \in Requests : /\ req' = [req EXCEPT ![q] = x]
                              /\ active' = [active EXCEPT ![r] = q]
    BY <1>4, <2>1 DEF Enqueue
  <2> HIDE DEF x
  <2>3. status[r] = "ABSENT" /\ object[r] = "none"
    BY <1>4 DEF Satisfied, PhaseInv, StatusTruthful
  <2>4. \A p \in Requests : req'[p] = IF p = q THEN x ELSE req[p]
    BY <1>1, <2>2
  <2>5. active'[r] = q /\ status'[r] = "LOADING" /\ q # NoRequest
    BY <1>1, <1>4, <2>2, ConstantsTyped
  <2>6. PhaseAgrees(x, "LOADING", "none")
    BY <2>1 DEF PhaseAgrees, Cancels, Early
  <2>7. \A p \in Requests : req'[p].rec = r => p = q
    BY <2>5, ConstantsTyped DEF CoreInv, RecordsInv
  <2>8. \A s \in Resources \ {r} : status'[s] = status[s] /\ active'[s] = active[s]
    BY <1>1, <1>4, <2>2
  <2>9. Truthful("LOADING", "none")
    BY DEF Truthful
  <2>10. QED BY <1>1, <2>1, <2>3, <2>4, <2>5, <2>6, <2>7, <2>8, <2>9, OneRecordPhase
<1>5. QED BY <1>2, <1>3, <1>4 DEF LoadResource

(* A resource is unloaded.                                                 *)
LEMMA UnloadPhase ==
  ASSUME CoreInv, CoreInv', PhaseInv, NEW h, NEW r \in Resources, NEW more,
         UnloadResource(h, r, more)
  PROVE  PhaseInv'
<1>1. /\ status \in [Resources -> Statuses] /\ req \in [Requests -> RequestType]
      /\ active \in [Resources -> Requests \cup {NoRequest}]
      /\ object \in [Resources -> Objects]
  BY DEF CoreInv, TypeOK, Objects
<1>2. CASE UNCHANGED <<status, active, object, req>>
  BY <1>1, <1>2 DEF PhaseInv, StatusTruthful
<1>3. CASE /\ DestroyRecord(r)
           /\ req' = [q \in Requests |-> IF q = active[r] THEN [req[q] EXCEPT !.rec = NoRecord]
                                                          ELSE req[q]]
  <2>1. /\ status'[r] = "ABSENT" /\ object'[r] = "none" /\ active'[r] = NoRequest
        /\ \A s \in Resources \ {r} : /\ status'[s] = status[s] /\ object'[s] = object[s]
                                      /\ active'[s] = active[s]
    BY <1>1, <1>3 DEF DestroyRecord
  <2>2. \A q \in Requests : req'[q].rec # r
    BY <2>1, ConstantsTyped DEF CoreInv, RecordsInv
  <2>3. \A q \in Requests : req'[q].rec # NoRecord => req'[q] = req[q]
    BY <1>1, <1>3 DEF RequestType
  <2>4. Truthful("ABSENT", "none")
    BY DEF Truthful
  <2>5. QED BY <2>1, <2>2, <2>3, <2>4, OneRecordPhase
<1>4. CASE /\ status[r] \notin {"ERROR", "UNLOADED"} /\ active[r] # NoRequest
           /\ req' = [req EXCEPT ![active[r]].requireLoading = FALSE]
           /\ UNCHANGED <<status, active, object>>
  <2> DEFINE q == active[r]
             y == [req[q] EXCEPT !.requireLoading = FALSE]
  <2>1. q \in Requests /\ req[q] \in RequestType
    BY <1>1, <1>4
  <2>2. req' = [req EXCEPT ![q] = y] /\ req[q].rec = r
    BY <1>1, <1>4, <2>1 DEF CoreInv, RecordsInv
  <2>3. /\ y.rec = r /\ y.phase = req[q].phase /\ y.isLoading = req[q].isLoading
        /\ ~ y.requireLoading /\ y.requestInstall = req[q].requestInstall
        /\ y.serde = req[q].serde /\ y.data = req[q].data
    BY <2>1, <2>2 DEF RequestType
  <2> HIDE DEF q, y
  <2>4. \A p \in Requests : req'[p] = IF p = q THEN y ELSE req[p]
    BY <1>1, <2>1, <2>2
  <2>5. PhaseAgrees(req[q], status[r], object[r]) /\ r # NoRecord
    BY <2>1, <2>2, ConstantsTyped DEF PhaseInv
  <2>6. PhaseAgrees(y, status[r], object[r])
    BY <1>4, <2>3, <2>5 DEF PhaseAgrees
  <2>7. \A p \in Requests : req'[p].rec = r => p = q
    BY <1>4, <2>5 DEF CoreInv, RecordsInv, q
  <2>8. Truthful(status[r], object[r]) /\ active[r] # NoRequest
    BY <1>4 DEF PhaseInv, StatusTruthful, Truthful
  <2>9. /\ \A p \in Requests : req'[p].rec # r => req'[p] = req[p]
        /\ \A p \in Requests : req'[p].rec = r => PhaseAgrees(req'[p], status[r], object[r])
    BY <2>3, <2>4, <2>6, <2>7
  <2>10. QED BY <1>4, <2>8, <2>9, OneRecordPhase
<1>5. CASE /\ status[r] \in {"INSTALLED", "LOADED"} /\ active[r] = NoRequest
           /\ Enqueue(NewRequest(r, IF status[r] = "INSTALLED" THEN "UNINSTALL_RESOURCE"
                                                               ELSE "UNLOAD_RESOURCE", FALSE, FALSE))
           /\ status' = [status EXCEPT ![r] = IF @ = "INSTALLED" THEN "UNINSTALLING"
                                                                 ELSE "UNLOADING"]
           /\ UNCHANGED object
  <2> DEFINE x == NewRequest(r, "UNINSTALL_RESOURCE", FALSE, FALSE)
  <2>1. /\ x.rec = r /\ x.phase = "UNINSTALL_RESOURCE" /\ ~ x.isLoading /\ ~ x.requireLoading
        /\ x.serde = "no"
    BY DEF NewRequest
  <2>2. status[r] = "INSTALLED" /\ object[r] = "installed"
    BY <1>5 DEF PhaseInv, StatusTruthful
  <2>3. PICK q \in Requests : /\ req' = [req EXCEPT ![q] = x]
                              /\ active' = [active EXCEPT ![r] = q]
    BY <1>5, <2>1, <2>2 DEF Enqueue
  <2> HIDE DEF x
  <2>4. \A p \in Requests : req'[p] = IF p = q THEN x ELSE req[p]
    BY <1>1, <2>3
  <2>5. active'[r] = q /\ status'[r] = "UNINSTALLING" /\ q # NoRequest
    BY <1>1, <1>5, <2>2, <2>3, ConstantsTyped
  <2>6. PhaseAgrees(x, "UNINSTALLING", "installed")
    BY <2>1 DEF PhaseAgrees, Cancels, Early
  <2>7. \A p \in Requests : req'[p].rec = r => p = q
    BY <2>5, ConstantsTyped DEF CoreInv, RecordsInv
  <2>8. \A s \in Resources \ {r} : status'[s] = status[s] /\ active'[s] = active[s]
    BY <1>1, <1>5, <2>3
  <2>9. Truthful("UNINSTALLING", "installed")
    BY DEF Truthful
  <2>10. QED BY <1>5, <2>1, <2>2, <2>4, <2>5, <2>6, <2>7, <2>8, <2>9, OneRecordPhase
<1>6. QED BY <1>2, <1>3, <1>4, <1>5 DEF UnloadResource

(* A request that is okay is deleted.                                      *)
LEMMA ClearOkayPhase ==
  ASSUME CoreInv, CoreInv', PhaseInv, NEW q \in Requests, ClearOkay(q, req[q])
  PROVE  PhaseInv'
<1> DEFINE r == req[q].rec
<1>1. /\ status \in [Resources -> Statuses] /\ req \in [Requests -> RequestType]
      /\ active \in [Resources -> Requests \cup {NoRequest}]
      /\ object \in [Resources -> Objects]
      /\ req[q] \in RequestType /\ r \in Resources \cup {NoRecord}
  BY RequestFields DEF CoreInv, TypeOK, Objects
<1>2. \A p \in Requests : IF p = q THEN req'[p].rec = NoRecord ELSE req'[p] = req[p]
  BY <1>1, DeletedTyped DEF ClearOkay
<1>3. \/ /\ r # NoRecord /\ DestroyRecord(r)
      \/ /\ r # NoRecord /\ req[q].isLoading
         /\ active' = [active EXCEPT ![r] = NoRequest]
         /\ UNCHANGED <<status, object>>
      \/ r = NoRecord /\ UNCHANGED <<status, active, object>>
  BY DEF ClearOkay
<1>4. CASE r = NoRecord /\ UNCHANGED <<status, active, object>>
  BY <1>2, <1>4 DEF PhaseInv, StatusTruthful
<1>5. ASSUME r # NoRecord
      PROVE  /\ r \in Resources /\ active[r] = q
             /\ PhaseAgrees(req[q], status[r], object[r])
             /\ Truthful(status[r], object[r])
             /\ \A p \in Requests : req'[p].rec # r
  <2>1. r \in Resources /\ active[r] = q
    BY <1>1, <1>5 DEF CoreInv, RecordsInv
  <2>2. \A p \in Requests : p # q => req[p].rec # r
    BY <1>5, <2>1 DEF CoreInv, RecordsInv
  <2>3. QED BY <1>2, <1>5, <2>1, <2>2 DEF PhaseInv, StatusTruthful, Truthful
<1>6. CASE r # NoRecord /\ DestroyRecord(r)
  <2>1. r \in Resources
    BY <1>5, <1>6
  <2>2. /\ status'[r] = "ABSENT" /\ object'[r] = "none"
        /\ \A s \in Resources \ {r} : /\ status'[s] = status[s] /\ object'[s] = object[s]
                                      /\ active'[s] = active[s]
    BY <1>1, <1>6, <2>1 DEF DestroyRecord
  <2>3. Truthful("ABSENT", "none")
    BY DEF Truthful
  <2> HIDE DEF r
  <2>4. QED BY <1>2, <1>5, <1>6, <2>1, <2>2, <2>3, OneRecordPhase
<1>7. CASE /\ r # NoRecord /\ req[q].isLoading
           /\ active' = [active EXCEPT ![r] = NoRequest]
           /\ UNCHANGED <<status, object>>
  <2>1. r \in Resources /\ \A s \in Resources \ {r} : active'[s] = active[s]
    BY <1>1, <1>5, <1>7
  <2>2. status[r] \in {"INSTALLED", "ERROR"}
    BY <1>5, <1>7 DEF ClearOkay, Okay, PhaseAgrees
  <2> HIDE DEF r
  <2>3. QED BY <1>2, <1>5, <1>7, <2>1, <2>2, OneRecordPhase
<1>8. QED BY <1>3, <1>4, <1>6, <1>7

(* LoadTask deserialises for a request that waits for it.                  *)
LEMMA LoadTaskPhase ==
  ASSUME CoreInv, CoreInv', PhaseInv, NEW q \in Requests, NEW where \in {"here", "task"},
         LoadTask(q, where)
  PROVE  PhaseInv'
<1>1. PICK ok \in BOOLEAN :
        /\ req' = [req EXCEPT ![q].serde = "done", ![q].serdeResult = ok]
        /\ object' = [object EXCEPT ![req[q].rec] = IF ok THEN "loaded" ELSE @]
  BY DEF LoadTask, Results, Deserialized
<1>2. /\ req \in [Requests -> RequestType] /\ object \in [Resources -> Objects]
      /\ req[q] \in RequestType /\ req[q].rec \in Resources \cup {NoRecord}
      /\ UNCHANGED <<status, active>>
  BY RequestFields DEF CoreInv, TypeOK, Objects, LoadTask
<1> DEFINE y == [req[q] EXCEPT !.serde = "done", !.serdeResult = ok]
           r == req[q].rec
<1>3. \A p \in Requests : req'[p] = IF p = q THEN y ELSE req[p]
  BY <1>1, <1>2
<1>4. /\ y.rec = r /\ y.phase = req[q].phase /\ y.isLoading = req[q].isLoading
      /\ y.requireLoading = req[q].requireLoading /\ y.requestInstall = req[q].requestInstall
      /\ y.serde = "done"
  BY <1>2 DEF RequestType
<1> HIDE DEF y
<1>5. CASE r = NoRecord
  <2>1. object' = object
    BY <1>1, <1>2, <1>5, ConstantsTyped
  <2>2. QED BY <1>2, <1>3, <1>4, <1>5, <2>1 DEF PhaseInv, StatusTruthful
<1>6. CASE r # NoRecord
  <2>1. r \in Resources /\ active[r] = q
    BY <1>2, <1>6 DEF CoreInv, RecordsInv
  <2>2. PhaseAgrees(req[q], status[r], object[r]) /\ status[r] # "ABSENT"
    BY <1>6, <2>1 DEF PhaseInv, CoreInv, RecordsInv
  <2>3. req[q].phase = "WAITFOR_LOAD_RESOURCE"
    BY <2>2 DEF LoadTask, Defined, BuffersLive, PhaseAgrees
  <2>4. PhaseAgrees(y, status[r], object'[r]) /\ Truthful(status[r], object'[r])
    BY <1>4, <2>2, <2>3 DEF PhaseAgrees, Truthful, Early, Cancels
  <2>5. /\ \A s \in Resources \ {r} : object'[s] = object[s]
        /\ active[r] # NoRequest
    BY <1>1, <1>2, <2>1, ConstantsTyped
  <2>6. \A p \in Requests : req'[p].rec = r => p = q
    BY <1>3, <1>6, <2>1 DEF CoreInv, RecordsInv
  <2> HIDE DEF r
  <2>7. QED BY <1>2, <1>3, <1>4, <2>1, <2>4, <2>5, <2>6, OneRecordPhase
<1>7. QED BY <1>5, <1>6

\* Without requests all phases agree.
LEMMA PhaseInit == Init => PhaseInv
BY ConstantsTyped DEF Init, PhaseInv, StatusTruthful, NewRequest

(* The invariant of the phases, when every load asks for an installation.  *)
LEMMA PhaseStep ==
  ASSUME InstallOnly, CoreInv, PhaseInv, [Next]_vars
  PROVE  PhaseInv'
<1>1. CoreInv' /\ req \in [Requests -> RequestType] /\ updating \in Seq(Requests)
  BY CoreStep DEF CoreInv, TypeOK
<1>2. ASSUME UNCHANGED <<status, active, object>>,
             \A q \in Requests :
               \/ req'[q].rec = NoRecord
               \/ /\ req'[q].rec = req[q].rec /\ req'[q].phase = req[q].phase
                  /\ req'[q].isLoading = req[q].isLoading
                  /\ req'[q].requireLoading = req[q].requireLoading
                  /\ req'[q].requestInstall = req[q].requestInstall
                  /\ req'[q].serde = req[q].serde /\ req'[q].data = req[q].data
      PROVE  PhaseInv'
  BY <1>2 DEF PhaseInv, PhaseAgrees, StatusTruthful
<1>3. CASE UNCHANGED <<status, active, object, req>>
  BY <1>2, <1>3
<1>4. CASE ClearRequest
  <2>1. at \in DOMAIN updating
    BY <1>1, <1>4 DEF ClearRequest, CoreInv, TypeOK
  <2>2. updating[at] \in Requests
    BY <1>1, <2>1
  <2>3. ClearOkay(updating[at], req[updating[at]]) \/ UNCHANGED <<status, active, object, req>>
    BY <1>4 DEF ClearRequest, ClearFailed, KeepRequest
  <2>4. QED BY <1>1, <1>3, <2>2, <2>3, ClearOkayPhase
<1>5. CASE EndClear
  BY <1>1, <1>2, <1>5, DeletedTyped DEF EndClear
<1>6. CASE UpdateRequest
  <2> DEFINE q == updating[at]
             r == req[q].rec
  <2>1. TurnFacts(q) /\ Turns(q) /\ TurnSound(req[q], req'[q], status'[r], object'[r])
    BY <1>6, TurnOfActive, TurnShape, TurnPhase
  <2>2. active' = active
    BY <1>6 DEF UpdateRequest
  <2> HIDE DEF q
  <2>3. PICK y \in RequestType, st \in Statuses \ {"ABSENT"}, o \in Objects : TurnLeaves(q, y, st, o)
    BY <2>1 DEF Turns
  <2>4. r \in Resources /\ active[r] = q /\ q \in Requests
    BY <2>1 DEF TurnFacts
  <2>5. /\ \A p \in Requests : p # q => req'[p] = req[p]
        /\ \A s \in Resources \ {r} : status'[s] = status[s] /\ object'[s] = object[s]
    BY <1>1, <2>3, <2>4 DEF TurnLeaves, CoreInv, TypeOK
  <2>6. req'[q].rec = r
    BY <1>1, <2>3, <2>4 DEF TurnLeaves, Keeps
  <2>7. \A p \in Requests : req'[p].rec = r => p = q
    BY <1>1, <2>2, <2>4, ConstantsTyped DEF CoreInv, RecordsInv
  <2>8. active[r] # NoRequest
    BY <2>4, ConstantsTyped
  <2> HIDE DEF r
  <2>9. QED BY <1>1, <2>1, <2>2, <2>4, <2>5, <2>6, <2>7, <2>8, OneRecordPhase DEF TurnSound
<1>7. CASE ScheduleSerde
  <2>1. PICK inBatch \in [Requests -> BOOLEAN], toTask \in [Requests -> BOOLEAN] :
          /\ \A q \in Requests : inBatch[q] => Waiting(req[q])
          /\ req' = [q \in Requests |->
               IF inBatch[q] THEN [req[q] EXCEPT !.serde = IF toTask[q] THEN "task" ELSE "here"]
               ELSE req[q]]
    BY <1>7, ScheduleEffect
  <2>2. UNCHANGED <<status, active, object>>
    BY <1>7 DEF ScheduleSerde
  <2>3. ASSUME NEW q \in Requests, req'[q].rec # NoRecord
        PROVE  PhaseAgrees(req'[q], status[req'[q].rec], object[req'[q].rec])
    <3>1. CASE ~ inBatch[q]
      BY <2>1, <2>3, <3>1 DEF PhaseInv
    <3>2. CASE inBatch[q]
      <4>1. PICK w \in {"task", "here"} : req'[q] = [req[q] EXCEPT !.serde = w]
        BY <2>1, <3>2
      <4>2. /\ req'[q].rec = req[q].rec /\ req'[q].phase = req[q].phase
            /\ req'[q].isLoading = req[q].isLoading
            /\ req'[q].requireLoading = req[q].requireLoading
            /\ req'[q].requestInstall = req[q].requestInstall
        BY <1>1, <4>1 DEF RequestType
      <4>3. req[q].phase = "WAITFOR_LOAD_RESOURCE" /\ req[q].serde = "no"
        BY <2>1, <3>2 DEF Waiting
      <4>4. PhaseAgrees(req[q], status[req[q].rec], object[req[q].rec])
        BY <2>3, <4>2 DEF PhaseInv
      <4>5. QED BY <4>2, <4>3, <4>4 DEF PhaseAgrees, Early, Cancels
    <3>3. QED BY <3>1, <3>2
  <2>4. QED BY <2>2, <2>3 DEF PhaseInv, StatusTruthful
<1>8. ASSUME NEW q \in Requests, NEW where \in {"here", "task"}, LoadTask(q, where)
      PROVE  PhaseInv'
  BY <1>1, <1>8, LoadTaskPhase
<1>9. ASSUME NEW q \in Requests, IOEnds(q) \/ InstallEnds(q)
      PROVE  PhaseInv'
  <2>1. UNCHANGED <<status, active, object>>
    BY <1>9 DEF IOEnds, InstallEnds
  <2>2. PICK y : /\ req' = [req EXCEPT ![q] = y]
                 /\ (\E i : y = [req[q] EXCEPT !.io = i]) \/ (\E b : y = [req[q] EXCEPT !.built = b])
    BY <1>1, <1>9 DEF IOEnds, InstallEnds
  <2>3. req[q] \in RequestType
    BY <1>1
  <2>4. /\ y.rec = req[q].rec /\ y.phase = req[q].phase /\ y.isLoading = req[q].isLoading
        /\ y.requireLoading = req[q].requireLoading /\ y.requestInstall = req[q].requestInstall
        /\ y.serde = req[q].serde /\ y.data = req[q].data
    BY <2>2, <2>3 DEF RequestType
  <2>5. \A p \in Requests : req'[p] = IF p = q THEN y ELSE req[p]
    BY <1>1, <2>2
  <2>6. QED BY <1>2, <2>1, <2>4, <2>5
<1>10. ASSUME NEW call \in calls, DependencyCall(call)
       PROVE  PhaseInv'
  <2>1. call[3] \in Resources
    BY DEF CoreInv, TypeOK
  <2>2. QED BY <1>1, <1>10, <2>1, LoadPhase, UnloadPhase DEF DependencyCall
<1>11. ASSUME NEW c \in Clients, NEW r \in Roots, Resolve(c, r) \/ Unload(c, r)
       PROVE  PhaseInv'
  <2>1. r \in Resources
    BY ConstantsTyped
  <2>2. Resolve(c, r) => LoadResource(c, r, TRUE)
    BY DEF Resolve, InstallOnly
  <2>3. Unload(c, r) => UnloadResource(c, r, {})
    BY DEF Unload
  <2>4. QED BY <1>1, <1>11, <2>1, <2>2, <2>3, LoadPhase, UnloadPhase
<1>12. CASE BeginUpdate \/ NextRequest \/ EndUpdate \/ UNCHANGED vars
  BY <1>3, <1>12 DEF BeginUpdate, NextRequest, EndUpdate, vars
<1>13. CASE LoadTaskHere \/ Outside
  BY <1>8, <1>9, <1>13 DEF LoadTaskHere, Outside
<1>14. QED
  BY <1>4, <1>5, <1>6, <1>7, <1>10, <1>11, <1>12, <1>13 DEF Next, MainThread, Client

(* When every load asks for an installation, a status tells what the       *)
(* factory has made: an installed resource was installed and not           *)
(* uninstalled since, what is unloaded or gone has left nothing behind     *)
(* (resource_request.cpp:230, :466-484).                                   *)
THEOREM StatusesTruthful ==
  ASSUME InstallOnly
  PROVE  Spec => []StatusTruthful
<1>1. Init => CoreInv /\ PhaseInv
  BY CoreInit, PhaseInit
<1>2. CoreInv /\ PhaseInv /\ [Next]_vars => (CoreInv /\ PhaseInv)'
  BY CoreStep, PhaseStep
<1>3. CoreInv /\ PhaseInv => StatusTruthful
  BY DEF PhaseInv
<1>4. QED BY <1>1, <1>2, <1>3, PTL DEF Spec

-----------------------------------------------------------------------------
(* The dependencies of what is installed stay.                             *)

(* A step after which nothing new needs its dependencies, which keeps what *)
(* holds of the dependencies of what needs them, and calls to release only *)
(* those of what does not.                                                 *)
LEMMA DepsKept ==
  ASSUME DepsInv,
         \A r \in Resources : NeedsDeps(r)' => NeedsDeps(r),
         \A r \in Resources, d \in Resources :
           NeedsDeps(r) /\ r \in refs[d] /\ (status[d] = "INSTALLED" \/ d \in overlooked)
             => r \in refs'[d] /\ (status'[d] = "INSTALLED" \/ d \in overlooked'),
         \A call \in calls' : call[1] = "unload" =>
           call[2] \in Resources /\ (call \in calls \/ ~ NeedsDeps(call[2])')
  PROVE  DepsInv'
<1>1. ASSUME NEW r \in Resources, NeedsDeps(r)', NEW d \in Deps[r]
      PROVE  r \in refs'[d] /\ (status'[d] = "INSTALLED" \/ d \in overlooked')
  <2>1. d \in Resources
    BY DependenciesAcyclic
  <2>2. NeedsDeps(r)
    BY <1>1
  <2>3. r \in refs[d] /\ (status[d] = "INSTALLED" \/ d \in overlooked)
    BY <2>2 DEF DepsInv
  <2>4. QED BY <2>1, <2>2, <2>3
<1>2. ASSUME NEW call \in calls', call[1] = "unload"
      PROVE  ~ NeedsDeps(call[2])'
  <2>1. CASE call \in calls
    <3>1. ~ NeedsDeps(call[2]) /\ call[2] \in Resources
      BY <1>2, <2>1 DEF DepsInv
    <3>2. QED BY <3>1
  <2>2. CASE call \notin calls
    BY <1>2, <2>2
  <2>3. QED BY <2>1, <2>2
<1>3. QED BY <1>1, <1>2 DEF DepsInv

(* A resource is loaded, with an installation.                             *)
LEMMA LoadDeps ==
  ASSUME CoreInv, CoreInv', PhaseInv, DepsInv, Defined, NEW h, NEW r0 \in Resources,
         LoadResource(h, r0, TRUE), calls' \subseteq calls
  PROVE  DepsInv'
<1>1. /\ status \in [Resources -> Statuses] /\ req \in [Requests -> RequestType]
      /\ active \in [Resources -> Requests \cup {NoRequest}]
      /\ refs \in [Resources -> SUBSET (Clients \cup Resources)]
      /\ \A call \in calls : call[2] \in Resources
  BY DEF CoreInv, TypeOK
<1>2. \A d \in Resources : refs[d] \subseteq refs'[d]
  BY <1>1 DEF LoadResource
<1>3. CASE /\ UNCHANGED <<status, active>> /\ overlooked \subseteq overlooked'
           /\ \A q \in Requests : req'[q].phase = req[q].phase
  <2>1. \A r \in Resources : NeedsDeps(r)' => NeedsDeps(r)
    BY <1>1, <1>3 DEF NeedsDeps
  <2>2. QED BY <1>1, <1>2, <1>3, <2>1, DepsKept
<1>4. CASE UNCHANGED <<status, active, req>> /\ overlooked \subseteq overlooked'
  BY <1>3, <1>4
<1>5. CASE /\ active[r0] # NoRequest
           /\ req' = [req EXCEPT ![active[r0]].requireLoading = TRUE,
                                 ![active[r0]].requestInstall = TRUE]
           /\ UNCHANGED <<status, active, overlooked>>
  <2>1. ASSUME NEW x \in RequestType
        PROVE  [x EXCEPT !.requireLoading = TRUE, !.requestInstall = TRUE].phase = x.phase
    BY DEF RequestType
  <2>2. active[r0] \in Requests
    BY <1>1, <1>5
  <2>3. req' = [req EXCEPT ![active[r0]] = [req[active[r0]] EXCEPT !.requireLoading = TRUE,
                                                                  !.requestInstall = TRUE]]
    BY <1>1, <1>5, <2>2
  <2>4. \A q \in Requests : req'[q].phase = req[q].phase
    BY <1>1, <2>1, <2>2, <2>3
  <2>5. QED BY <1>3, <1>5, <2>4
<1>6. CASE /\ ~ Satisfied(r0, TRUE) /\ active[r0] = NoRequest
           /\ Enqueue(NewRequest(r0, "REQUEST_RESOURCE", TRUE, TRUE))
           /\ status' = [status EXCEPT ![r0] = "LOADING"]
           /\ overlooked' = overlooked \ {r0}
  <2> DEFINE x == NewRequest(r0, "REQUEST_RESOURCE", TRUE, TRUE)
  <2>1. x.rec = r0 /\ x.phase = "REQUEST_RESOURCE"
    BY DEF NewRequest
  <2>2. PICK q \in Requests : /\ req' = [req EXCEPT ![q] = x]
                              /\ active' = [active EXCEPT ![r0] = q]
                              /\ req[q].phase = "NONE"
    BY <1>6, <2>1 DEF Enqueue
  <2> HIDE DEF x
  <2>3. status[r0] = "ABSENT"
    BY <1>6 DEF Satisfied, PhaseInv
  <2>4. refs[r0] = {}
    BY <2>3 DEF Defined, HandlesLive
  <2>5. /\ active'[r0] = q /\ status'[r0] = "LOADING" /\ req'[q].phase = "REQUEST_RESOURCE"
        /\ \A r \in Resources \ {r0} : active'[r] = active[r] /\ status'[r] = status[r]
        /\ \A p \in Requests \ {q} : req'[p] = req[p]
    BY <1>1, <1>6, <2>1, <2>2
  <2>6. \A r \in Resources : active[r] # q
    BY <2>2 DEF CoreInv, RecordsInv, QueuesInv
  <2>7. ASSUME NEW r \in Resources, NeedsDeps(r)'
        PROVE  NeedsDeps(r)
    <3>1. CASE r = r0
      BY <2>5, <2>7, <3>1 DEF NeedsDeps, Installing
    <3>2. CASE r # r0
      BY <1>1, <2>5, <2>6, <2>7, <3>2 DEF NeedsDeps
    <3>3. QED BY <3>1, <3>2
  <2>8. \A d \in Resources \ {r0} : d \in overlooked => d \in overlooked'
    BY <1>6
  <2>9. QED BY <1>1, <1>2, <2>4, <2>5, <2>7, <2>8, DepsKept
<1>7. QED BY <1>4, <1>5, <1>6 DEF LoadResource

(* A handle is let go by what does not need it.                            *)
LEMMA UnloadDeps ==
  ASSUME CoreInv, CoreInv', PhaseInv, DepsInv, NEW h, NEW r0 \in Resources,
         h \in Resources => ~ NeedsDeps(h),
         NEW more \in SUBSET calls, UnloadResource(h, r0, more), UNCHANGED overlooked
  PROVE  DepsInv'
<1>1. /\ status \in [Resources -> Statuses] /\ req \in [Requests -> RequestType]
      /\ active \in [Resources -> Requests \cup {NoRequest}]
      /\ refs \in [Resources -> SUBSET (Clients \cup Resources)]
      /\ \A call \in calls : call[2] \in Resources
  BY DEF CoreInv, TypeOK
<1>2. /\ \A r, d : d \in Resources /\ r # h /\ r \in refs[d] => r \in refs'[d]
      /\ \A call \in more : call \in calls
  BY <1>1 DEF UnloadResource
<1>3. \A r \in Resources : NeedsDeps(r) => r # h
  OBVIOUS
<1>4. CASE /\ UNCHANGED <<status, active>> /\ calls' = more
           /\ \A q \in Requests : req'[q].phase = req[q].phase
  <2>1. \A r \in Resources : NeedsDeps(r)' => NeedsDeps(r)
    BY <1>1, <1>4 DEF NeedsDeps
  <2>2. QED BY <1>1, <1>2, <1>3, <1>4, <2>1, DepsKept
<1>5. CASE UNCHANGED <<status, active, req>> /\ calls' = more
  BY <1>4, <1>5
<1>6. CASE /\ active[r0] # NoRequest /\ calls' = more
           /\ req' = [req EXCEPT ![active[r0]].requireLoading = FALSE]
           /\ UNCHANGED <<status, active>>
  <2>1. ASSUME NEW x \in RequestType
        PROVE  [x EXCEPT !.requireLoading = FALSE].phase = x.phase
    BY DEF RequestType
  <2>2. active[r0] \in Requests
    BY <1>1, <1>6
  <2>3. req' = [req EXCEPT ![active[r0]] = [req[active[r0]] EXCEPT !.requireLoading = FALSE]]
    BY <1>1, <1>6, <2>2
  <2>4. \A q \in Requests : req'[q].phase = req[q].phase
    BY <1>1, <2>1, <2>2, <2>3
  <2>5. QED BY <1>4, <1>6, <2>4
<1>7. CASE /\ refs[r0] = {h} /\ DestroyRecord(r0)
           /\ req' = [q \in Requests |-> IF q = active[r0] THEN [req[q] EXCEPT !.rec = NoRecord]
                                                           ELSE req[q]]
           /\ calls' = more \cup Released(r0)
  <2>1. /\ status'[r0] = "ABSENT" /\ active'[r0] = NoRequest
        /\ \A r \in Resources \ {r0} : status'[r] = status[r] /\ active'[r] = active[r]
    BY <1>1, <1>7 DEF DestroyRecord
  <2>2. ASSUME NEW x \in RequestType
        PROVE  [x EXCEPT !.rec = NoRecord].phase = x.phase
    BY DEF RequestType
  <2>3. \A q \in Requests : req'[q].phase = req[q].phase
    BY <1>1, <1>7, <2>2
  <2>4. /\ ~ NeedsDeps(r0)'
        /\ \A r \in Resources : NeedsDeps(r)' => NeedsDeps(r)
    BY <1>1, <2>1, <2>3 DEF NeedsDeps
  <2>5. \A call \in Released(r0) : call[2] = r0
    BY DEF Released
  <2>6. \A call \in calls' : call[2] \in Resources /\ (call \in calls \/ ~ NeedsDeps(call[2])')
    BY <1>1, <1>2, <1>7, <2>4, <2>5
  <2>7. \A r \in Resources : NeedsDeps(r) => r \notin refs[r0]
    BY <1>3, <1>7
  <2>8. QED BY <1>2, <1>3, <2>1, <2>4, <2>6, <2>7, DepsKept
<1>8. CASE /\ refs[r0] = {h} /\ status[r0] \in {"INSTALLED", "LOADED"} /\ active[r0] = NoRequest
           /\ Enqueue(NewRequest(r0, IF status[r0] = "INSTALLED" THEN "UNINSTALL_RESOURCE"
                                                                ELSE "UNLOAD_RESOURCE", FALSE, FALSE))
           /\ status' = [status EXCEPT ![r0] = IF @ = "INSTALLED" THEN "UNINSTALLING"
                                                                 ELSE "UNLOADING"]
           /\ calls' = more
  <2> DEFINE x == NewRequest(r0, IF status[r0] = "INSTALLED" THEN "UNINSTALL_RESOURCE"
                                                            ELSE "UNLOAD_RESOURCE", FALSE, FALSE)
  <2>1. x.rec = r0
    BY DEF NewRequest
  <2>2. PICK q \in Requests : /\ req' = [req EXCEPT ![q] = x]
                              /\ active' = [active EXCEPT ![r0] = q]
                              /\ req[q].phase = "NONE"
    BY <1>8, <2>1 DEF Enqueue
  <2> HIDE DEF x
  <2>3. NeedsDeps(r0)
    BY <1>8 DEF PhaseInv, NeedsDeps
  <2>4. /\ \A r \in Resources \ {r0} : active'[r] = active[r] /\ status'[r] = status[r]
        /\ \A p \in Requests \ {q} : req'[p] = req[p]
    BY <1>1, <1>8, <2>2
  <2>5. \A r \in Resources : active[r] # q
    BY <2>2 DEF CoreInv, RecordsInv, QueuesInv
  <2>6. ASSUME NEW r \in Resources, NeedsDeps(r)'
        PROVE  NeedsDeps(r)
    <3>1. CASE r # r0
      BY <1>1, <2>4, <2>5, <2>6, <3>1 DEF NeedsDeps
    <3>2. QED BY <2>3, <3>1
  <2>7. \A r \in Resources : NeedsDeps(r) => r \notin refs[r0]
    BY <1>3, <1>8
  <2>8. QED BY <1>1, <1>2, <1>3, <1>8, <2>4, <2>6, <2>7, DepsKept
<1>9. QED BY <1>5, <1>6, <1>7, <1>8 DEF UnloadResource

(* A request that is okay is deleted.                                      *)
LEMMA ClearOkayDeps ==
  ASSUME CoreInv, CoreInv', DepsInv, NEW q \in Requests, ClearOkay(q, req[q]),
         UNCHANGED <<refs, overlooked>>
  PROVE  DepsInv'
<1>1. PICK r0 : r0 = req[q].rec
  OBVIOUS
<1>2. /\ status \in [Resources -> Statuses] /\ req \in [Requests -> RequestType]
      /\ active \in [Resources -> Requests \cup {NoRequest}]
      /\ r0 \in Resources \cup {NoRecord}
      /\ \A call \in calls : call[2] \in Resources
  BY <1>1, RequestFields DEF CoreInv, TypeOK
<1>3. \A p \in Requests : p # q => req'[p] = req[p]
  BY <1>2 DEF ClearOkay
<1>4. \A r \in Resources : active[r] = q => r = r0
  BY <1>1 DEF CoreInv, RecordsInv
<1>5. /\ Okay(req[q])
      /\ \/ /\ r0 # NoRecord /\ ~ req[q].isLoading
            /\ DestroyRecord(r0) /\ calls' = Released(r0)
         \/ /\ r0 # NoRecord /\ req[q].isLoading
            /\ active' = [active EXCEPT ![r0] = NoRequest] /\ UNCHANGED <<status, calls>>
         \/ r0 = NoRecord /\ UNCHANGED <<status, active, calls>>
  BY <1>1 DEF ClearOkay
<1>6. r0 # NoRecord => r0 \in Resources /\ active[r0] = q
  BY <1>2, <1>1 DEF CoreInv, RecordsInv
<1>7. ASSUME NEW r \in Resources, active'[r] = active[r] \/ active'[r] = NoRequest, r # r0,
             status'[r] = status[r], NeedsDeps(r)'
      PROVE  NeedsDeps(r)
  BY <1>2, <1>3, <1>4, <1>7 DEF NeedsDeps
<1>8. CASE /\ r0 # NoRecord /\ ~ req[q].isLoading
           /\ DestroyRecord(r0) /\ calls' = Released(r0)
  <2>1. /\ status'[r0] = "ABSENT" /\ active'[r0] = NoRequest
        /\ \A r \in Resources \ {r0} : status'[r] = status[r] /\ active'[r] = active[r]
    BY <1>2, <1>6, <1>8 DEF DestroyRecord
  <2>2. ~ NeedsDeps(r0)'
    BY <2>1 DEF NeedsDeps
  <2>3. BeingUnloaded(r0)
    BY <1>5, <1>6, <1>8, ConstantsTyped DEF Okay, BeingUnloaded
  <2>4. refs[r0] # {} => r0 \in overlooked
    BY <1>6, <1>8, <2>3 DEF CoreInv, HeldInv
  <2>5. \A call \in calls' : call[2] = r0
    BY <1>8 DEF Released
  <2>6. \A r \in Resources : NeedsDeps(r)' => NeedsDeps(r)
    BY <1>7, <2>1, <2>2
  <2>7. QED BY <1>6, <1>8, <2>1, <2>2, <2>4, <2>5, <2>6, DepsKept
<1>9. CASE /\ r0 # NoRecord /\ req[q].isLoading
           /\ active' = [active EXCEPT ![r0] = NoRequest] /\ UNCHANGED <<status, calls>>
  <2>1. active'[r0] = NoRequest /\ \A r \in Resources \ {r0} : active'[r] = active[r]
    BY <1>2, <1>6, <1>9
  <2>2. NeedsDeps(r0)' => NeedsDeps(r0)
    BY <1>9, <2>1 DEF NeedsDeps
  <2>3. \A r \in Resources : NeedsDeps(r)' => NeedsDeps(r)
    BY <1>7, <1>9, <2>1, <2>2
  <2>4. QED BY <1>2, <1>9, <2>3, DepsKept
<1>10. CASE r0 = NoRecord /\ UNCHANGED <<status, active, calls>>
  <2>1. \A r \in Resources : r # r0
    BY <1>10, ConstantsTyped
  <2>2. \A r \in Resources : NeedsDeps(r)' => NeedsDeps(r)
    BY <1>7, <1>10, <2>1
  <2>3. QED BY <1>2, <1>10, <2>2, DepsKept
<1>11. QED BY <1>5, <1>8, <1>9, <1>10

(* No resource depends on itself.                                          *)
LEMMA NotOfItself ==
  ASSUME NEW r \in Resources, NEW d \in Deps[r]
  PROVE  d \in Resources /\ d # r
<1>1. d \in Resources
  BY DependenciesAcyclic
<1>2. PICK rank \in [Resources -> 0..Cardinality(Resources)] :
        \A s \in Resources : \A e \in Deps[s] : rank[e] < rank[s]
  BY DependenciesAcyclic
<1>3. SUFFICES ASSUME d = r PROVE FALSE
  BY <1>1
<1>4. rank[r] < rank[r] /\ rank[r] \in Int
  BY <1>2, <1>3
<1>5. QED BY <1>4

(* A turn installs only on a look at the dependencies, and what is         *)
(* uninstalled was let go or overlooked.                                   *)
LEMMA TurnDeps ==
  ASSUME CoreInv, PhaseInv, DepsInv, UpdateRequest
  PROVE  DepsInv'
<1>1. PICK q, r0 : q = updating[at] /\ r0 = req[q].rec
  OBVIOUS
<1>2. TurnFacts(q) /\ Turns(q) /\ TurnSound(req[q], req'[q], status'[r0], object'[r0])
  BY <1>1, TurnOfActive, TurnShape, TurnPhase
<1>3. UNCHANGED <<refs, active, overlooked>>
  BY DEF UpdateRequest
<1>4. PICK y \in RequestType, st \in Statuses \ {"ABSENT"}, o \in Objects : TurnLeaves(q, y, st, o)
  BY <1>2 DEF Turns
<1>5. /\ r0 \in Resources /\ active[r0] = q /\ q \in Requests /\ ~ Okay(req[q])
      /\ req[q] \in RequestType
  BY <1>2, <1>1 DEF TurnFacts
<1>6. /\ status \in [Resources -> Statuses] /\ req \in [Requests -> RequestType]
      /\ active \in [Resources -> Requests \cup {NoRequest}]
  BY DEF CoreInv, TypeOK
<1>7. /\ \A p \in Requests \ {q} : req'[p] = req[p]
      /\ \A r \in Resources \ {r0} : status'[r] = status[r]
      /\ calls' \subseteq Released(r0) \cup Asked(r0)
  BY <1>4, <1>5, <1>6, <1>1 DEF TurnLeaves
<1>8. \A r \in Resources : active[r] = q => r = r0
  BY <1>5, <1>1 DEF CoreInv, RecordsInv
<1>9. r0 # NoRecord /\ q # NoRequest
  BY <1>5, ConstantsTyped
<1>10. status[r0] = "INSTALLED" /\ refs[r0] # {} => r0 \in overlooked
  <2>1. SUFFICES ASSUME status[r0] = "INSTALLED" PROVE BeingUnloaded(r0)
    BY <1>5 DEF CoreInv, HeldInv
  <2>2. PhaseAgrees(req[q], "INSTALLED", object[r0])
    BY <1>5, <1>9, <1>1, <2>1 DEF PhaseInv
  <2>3. req[q].isLoading \in BOOLEAN /\ req[q].requireLoading \in BOOLEAN
    BY <1>5, RequestFields
  <2>4. ~ req[q].requireLoading
    BY <1>5, <1>9, <1>1, <2>1, <2>2, <2>3 DEF PhaseAgrees, Okay
  <2>5. QED BY <1>5, <1>9, <2>4 DEF BeingUnloaded
<1>11. \A r \in Resources \ {r0} : NeedsDeps(r)' <=> NeedsDeps(r)
  BY <1>3, <1>6, <1>7, <1>8 DEF NeedsDeps
<1>12. NeedsDeps(r0)' =>
         /\ calls' \subseteq Resolved(r0)
         /\ \/ NeedsDeps(r0)
            \/ \A d \in Deps[r0] : r0 \in refs[d] /\ status[d] = "INSTALLED"
  BY <1>2, <1>3, <1>5, <1>9, <1>1 DEF NeedsDeps, TurnSound
<1>13. ASSUME NEW r \in Resources, NeedsDeps(r)', NEW d \in Deps[r]
       PROVE  r \in refs'[d] /\ (status'[d] = "INSTALLED" \/ d \in overlooked')
  <2>1. d \in Resources /\ d # r
    BY NotOfItself
  <2>2. r \in refs[d] /\ (status[d] = "INSTALLED" \/ d \in overlooked)
    <3>1. CASE r = r0
      BY <1>12, <1>13, <3>1 DEF DepsInv
    <3>2. CASE r # r0
      BY <1>11, <1>13, <3>2 DEF DepsInv
    <3>3. QED BY <3>1, <3>2
  <2>3. CASE d = r0
    BY <1>3, <1>10, <2>2, <2>3
  <2>4. CASE d # r0
    BY <1>3, <1>7, <2>1, <2>2, <2>4
  <2>5. QED BY <2>3, <2>4
<1>14. ASSUME NEW call \in calls', call[1] = "unload"
       PROVE  ~ NeedsDeps(call[2])'
  <2>1. call \in Released(r0) /\ call[2] = r0
    BY <1>7, <1>14 DEF Released, Asked
  <2>2. call \notin Resolved(r0)
    BY <1>14 DEF Resolved
  <2>3. QED BY <1>12, <2>1, <2>2
<1>15. QED BY <1>13, <1>14 DEF DepsInv

\* Nothing is installed at first.
LEMMA DepsInit == Init => DepsInv
BY DEF Init, DepsInv, NeedsDeps

(* The invariant of the dependencies, when every load asks for an          *)
(* installation.                                                           *)
LEMMA DepsStep ==
  ASSUME InstallOnly, CoreInv, PhaseInv, DepsInv, [Next]_vars
  PROVE  DepsInv'
<1>1. /\ CoreInv' /\ req \in [Requests -> RequestType] /\ updating \in Seq(Requests)
      /\ active \in [Resources -> Requests \cup {NoRequest}]
      /\ calls \subseteq Calls
  BY CoreStep DEF CoreInv, TypeOK, Calls
<1>2. ASSUME UNCHANGED <<status, refs, active, calls, overlooked>>,
             \A q \in Requests : req[q].rec # NoRecord => req'[q].phase = req[q].phase
      PROVE  DepsInv'
  <2>1. \A r \in Resources : active[r] # NoRequest => req'[active[r]].phase = req[active[r]].phase
    BY <1>1, <1>2, ConstantsTyped DEF CoreInv, RecordsInv
  <2>2. \A r \in Resources : NeedsDeps(r)' <=> NeedsDeps(r)
    BY <1>2, <2>1 DEF NeedsDeps
  <2>3. \A call \in calls : call[2] \in Resources
    BY <1>1 DEF Calls
  <2>4. QED BY <1>2, <2>2, <2>3, DepsKept
<1>3. CASE UNCHANGED <<status, refs, active, req, calls, overlooked>>
  BY <1>2, <1>3
<1>4. CASE ClearRequest
  <2>1. at \in DOMAIN updating
    BY <1>1, <1>4 DEF ClearRequest, CoreInv, TypeOK
  <2>2. updating[at] \in Requests
    BY <1>1, <2>1
  <2>3. /\ \/ ClearOkay(updating[at], req[updating[at]])
           \/ UNCHANGED <<status, active, req, calls>>
        /\ UNCHANGED <<refs, overlooked>>
    BY <1>4 DEF ClearRequest, ClearFailed, KeepRequest
  <2>4. QED BY <1>1, <1>3, <2>2, <2>3, ClearOkayDeps
<1>5. CASE EndClear
  <2>1. \A q \in Requests : req[q].rec # NoRecord => req'[q] = req[q]
    BY <1>5 DEF EndClear
  <2>2. QED BY <1>2, <1>5, <2>1 DEF EndClear
<1>6. CASE UpdateRequest
  BY <1>6, TurnDeps
<1>7. CASE ScheduleSerde
  <2>1. PICK inBatch \in [Requests -> BOOLEAN], toTask \in [Requests -> BOOLEAN] :
          req' = [q \in Requests |->
               IF inBatch[q] THEN [req[q] EXCEPT !.serde = IF toTask[q] THEN "task" ELSE "here"]
               ELSE req[q]]
    BY <1>7, ScheduleEffect
  <2>2. ASSUME NEW x \in RequestType, NEW w
        PROVE  [x EXCEPT !.serde = w].phase = x.phase
    BY DEF RequestType
  <2>3. \A q \in Requests : req'[q].phase = req[q].phase
    BY <1>1, <2>1, <2>2
  <2>4. QED BY <1>2, <1>7, <2>3 DEF ScheduleSerde
<1>8. ASSUME NEW q \in Requests, IOEnds(q) \/ InstallEnds(q) \/ \E w \in {"here", "task"} : LoadTask(q, w)
      PROVE  DepsInv'
  <2>1. UNCHANGED <<status, refs, active, calls, overlooked>>
    BY <1>8 DEF IOEnds, InstallEnds, LoadTask
  <2>2. ASSUME NEW y, req' = [req EXCEPT ![q] = y], y.phase = req[q].phase
        PROVE  DepsInv'
    BY <1>1, <1>2, <2>1, <2>2
  <2>3. req[q] \in RequestType
    BY <1>1
  <2>4. ASSUME NEW v
        PROVE  /\ [req[q] EXCEPT !.io = v].phase = req[q].phase
               /\ [req[q] EXCEPT !.built = v].phase = req[q].phase
               /\ [req[q] EXCEPT !.serde = "done", !.serdeResult = v].phase = req[q].phase
    BY <2>3 DEF RequestType
  <2>5. CASE IOEnds(q)
    <3>1. req' = [req EXCEPT ![q] = [req[q] EXCEPT !.io = "ready"]]
      BY <1>1, <2>5 DEF IOEnds
    <3>2. QED BY <2>2, <2>4, <3>1
  <2>6. CASE InstallEnds(q)
    <3>1. PICK v : req' = [req EXCEPT ![q] = [req[q] EXCEPT !.built = v]]
      BY <1>1, <2>6 DEF InstallEnds
    <3>2. QED BY <2>2, <2>4, <3>1
  <2>7. CASE \E w \in {"here", "task"} : LoadTask(q, w)
    <3>1. PICK v : req' = [req EXCEPT ![q] = [req[q] EXCEPT !.serde = "done", !.serdeResult = v]]
      BY <1>1, <2>7 DEF LoadTask
    <3>2. QED BY <2>2, <2>4, <3>1
  <2>8. QED BY <1>8, <2>5, <2>6, <2>7
<1>9. ASSUME NEW call \in calls, DependencyCall(call)
      PROVE  DepsInv'
  <2>1. call[2] \in Resources /\ call[3] \in Resources /\ Defined
    BY <1>1, <1>9 DEF Calls, DependencyCall
  <2>2. CASE LoadResource(call[2], call[3], TRUE) /\ calls' = calls \ {call}
    <3>1. calls' \subseteq calls
      BY <2>2
    <3>2. QED BY <1>1, <2>1, <2>2, <3>1, LoadDeps
  <2>3. CASE /\ call[1] = "unload" /\ UnloadResource(call[2], call[3], calls \ {call})
             /\ UNCHANGED overlooked
    <3>1. ~ NeedsDeps(call[2]) /\ calls \ {call} \in SUBSET calls
      BY <2>3 DEF DepsInv
    <3>2. QED BY <1>1, <2>1, <2>3, <3>1, UnloadDeps
  <2>4. QED BY <1>9, <2>2, <2>3 DEF DependencyCall
<1>10. ASSUME NEW c \in Clients, NEW r \in Roots, Resolve(c, r) \/ Unload(c, r)
       PROVE  DepsInv'
  <2>1. r \in Resources /\ Defined /\ c \notin Resources
    BY <1>10, ConstantsTyped DEF Resolve, Unload, Thread
  <2>2. CASE Resolve(c, r)
    <3>1. LoadResource(c, r, TRUE) /\ calls' \subseteq calls
      BY <2>2 DEF Resolve, InstallOnly
    <3>2. QED BY <1>1, <2>1, <3>1, LoadDeps
  <2>3. CASE Unload(c, r)
    <3>1. UnloadResource(c, r, {}) /\ {} \in SUBSET calls /\ UNCHANGED overlooked
      BY <2>3 DEF Unload
    <3>2. QED BY <1>1, <2>1, <3>1, UnloadDeps
  <2>4. QED BY <1>10, <2>2, <2>3
<1>11. CASE BeginUpdate \/ NextRequest \/ EndUpdate \/ UNCHANGED vars
  BY <1>3, <1>11 DEF BeginUpdate, NextRequest, EndUpdate, vars
<1>12. CASE LoadTaskHere \/ Outside
  BY <1>8, <1>12 DEF LoadTaskHere, Outside
<1>13. QED
  BY <1>4, <1>5, <1>6, <1>7, <1>9, <1>10, <1>11, <1>12 DEF Next, MainThread, Client

(* When every load asks for an installation, an installed resource has its *)
(* dependencies: it holds them, and they are installed unless LoadResource *)
(* overlooked that they were being unloaded (resource_request.cpp:374-407). *)
THEOREM DependenciesStay ==
  ASSUME InstallOnly
  PROVE  Spec => []DependenciesInstalled
<1>1. Init => CoreInv /\ PhaseInv /\ DepsInv
  BY CoreInit, PhaseInit, DepsInit
<1>2. CoreInv /\ PhaseInv /\ DepsInv /\ [Next]_vars => (CoreInv /\ PhaseInv /\ DepsInv)'
  BY CoreStep, PhaseStep, DepsStep
<1>3. CoreInv /\ PhaseInv /\ DepsInv => DependenciesInstalled
  BY DEF DepsInv, NeedsDeps, DependenciesInstalled
<1>4. QED BY <1>1, <1>2, <1>3, PTL DEF Spec

-----------------------------------------------------------------------------
(* The buffers a load reads.                                               *)

\* A factory reads through the I/O service or deserialises in a batch, and not
\* both; and the loads of an update stay within the time budget of one task
\* (resource_system.cpp:386), so that this thread deserialises.  A factory that
\* does both takes the freed buffer of a cancelled load for the data of the next
\* (resource_request.cpp:320), and a task may read a buffer its cancellation frees.
BatchesHere == AsyncIO \cap AsyncSerde = {} /\ BatchSize > MaxRequests

\* The phases a request leaves within one call of Update().
Quick == {"IO", "DESER_RESOURCE"}

\* d is a dependency of r, directly or not.
Ranks == {rank \in [Resources -> Int] : \A r \in Resources : \A d \in Deps[r] : rank[d] < rank[r]}
Under(d, r) == \A rank \in Ranks : rank[d] < rank[r]

LEMMA UnderFacts ==
  /\ \A r \in Resources : \A d \in Deps[r] : d \in Resources /\ Under(d, r)
  /\ \A r, d \in Resources : Under(d, r) => d # r
  /\ \A r, d, c \in Resources : Under(c, d) /\ Under(d, r) => Under(c, r)
<1>1. PICK rank \in [Resources -> 0..Cardinality(Resources)] :
        \A r \in Resources : \A d \in Deps[r] : rank[d] < rank[r]
  BY DependenciesAcyclic
<1>2. rank \in Ranks
  <2>1. \A r \in Resources : rank[r] \in Int
    BY <1>1
  <2>2. QED BY <1>1, <2>1 DEF Ranks
<1>3. \A r \in Resources, m \in Ranks : m[r] \in Int
  BY DEF Ranks
<1>4. \A r \in Resources : \A d \in Deps[r] : d \in Resources /\ Under(d, r)
  BY DependenciesAcyclic DEF Under, Ranks
<1>5. \A r, d \in Resources : Under(d, r) => d # r
  BY <1>2, <1>3 DEF Under
<1>6. \A r, d, c \in Resources : Under(c, d) /\ Under(d, r) => Under(c, r)
  <2>1. SUFFICES ASSUME NEW r \in Resources, NEW d \in Resources, NEW c \in Resources,
                        Under(c, d), Under(d, r), NEW m \in Ranks
                 PROVE  m[c] < m[r]
    BY DEF Under
  <2>2. m[c] \in Int /\ m[d] \in Int /\ m[r] \in Int
    BY <1>3
  <2>3. m[c] < m[d] /\ m[d] < m[r]
    BY <2>1 DEF Under
  <2>4. QED BY <2>2, <2>3
<1>7. QED BY <1>4, <1>5, <1>6

\* Update() is at the request, whose last turn changed its phase; what it unloads
\* then is not the request's own record, so that nothing cancels the load.
FreshTurn(q) ==
  /\ pc = "update" /\ at <= Len(updating) /\ updating[at] = q /\ spin = 0
  /\ req[q].rec \in Resources
  /\ \A call \in calls : call[1] = "unload" => Under(call[3], req[q].rec)
  /\ req[q].requireLoading \/ ~ req[q].isLoading

(* The buffer of a request x, where it stands and the status st of its     *)
(* record.                                                                 *)
BufferAgrees(x, st) ==
  /\ x.phase \notin Cancels
  /\ x.phase \in {"DESER_RESOURCE", "WAITFOR_LOAD_RESOURCE"} => x.data = "owned"
  /\ x.phase = "WAITFOR_LOAD_RESOURCE" => x.rec \in AsyncSerde \cup {NoRecord}
  /\ x.serde # "task"
  /\ x.serde \in {"here", "done"} => x.phase = "WAITFOR_LOAD_RESOURCE"
  /\ x.phase = "WAITFOR_IO" => x.data = "null"
  /\ x.data = "owned" => x.phase \in {"DESER_RESOURCE", "WAITFOR_LOAD_RESOURCE", "FINISHED"}
  /\ x.data = "freed" => x.rec \notin AsyncIO /\ x.phase \in {"FINISHED", "IO"}
  /\ x.data # "freedTwice"
  /\ x.phase \in {"UNLOAD_RESOURCE", "UNINSTALL_RESOURCE"} => ~ x.isLoading
  /\ x.phase = "FINISHED" /\ (x.data = "owned" \/ (x.data = "freed" /\ x.isLoading)) =>
       x.isLoading = x.requireLoading /\ (x.rec = NoRecord \/ st = "ERROR")

BufferInv ==
  \A q \in Requests :
    /\ BufferAgrees(req[q], status[req[q].rec])
    /\ req[q].phase \in Quick => FreshTurn(q)
    /\ req[q].serde = "here" => pc = "serde"

\* No request is in one of the quick phases.
Still == \A q \in Requests : req[q].phase \notin Quick

\* What is newly to be unloaded is under the record of a fresh request.
CallsKept ==
  \A q \in Requests : FreshTurn(q) /\ req[q].phase \in Quick =>
    \A call \in calls' : call \in calls \/ (call[1] = "unload" => Under(call[3], req[q].rec))

\* A request stays fresh through the calls it makes.
LEMMA StaysFresh ==
  ASSUME NEW q \in Requests, FreshTurn(q), req[q].phase \in Quick, CallsKept,
         UNCHANGED <<updating, pc, at, spin>>, req'[q].rec = req[q].rec,
         req'[q].requireLoading \/ ~ req'[q].isLoading
  PROVE  FreshTurn(q)'
BY DEF FreshTurn, CallsKept

\* A request after a step: as it was, or changed in a way that agrees.
BufferKept(q) ==
  \/ req'[q] = req[q] /\ (req[q].rec # NoRecord => status'[req[q].rec] = status[req[q].rec])
  \/ /\ BufferAgrees(req'[q], status'[req'[q].rec])
     /\ req'[q].phase \in Quick =>
          /\ req[q].phase \in Quick /\ req'[q].rec = req[q].rec
          /\ req'[q].requireLoading \/ ~ req'[q].isLoading
     /\ req'[q].serde = "here" => pc = "serde"

\* Without a record the status says nothing.
LEMMA WithoutRecord ==
  ASSUME NEW x, NEW s, NEW t, BufferAgrees(x, s), x.rec # NoRecord => t = s
  PROVE  BufferAgrees(x, t)
BY DEF BufferAgrees

(* A step between two turns that keeps the buffer of each request.         *)
LEMMA BuffersKept ==
  ASSUME BufferInv, UNCHANGED <<updating, pc, at, spin>>, CallsKept,
         \A q \in Requests : BufferKept(q)
  PROVE  BufferInv'
<1>1. ASSUME NEW q \in Requests, req'[q].phase \in Quick
      PROVE  FreshTurn(q)'
  <2>1. FreshTurn(q) /\ req[q].phase \in Quick
    BY <1>1 DEF BufferInv, BufferKept
  <2>2. req'[q].rec = req[q].rec /\ (req'[q].requireLoading \/ ~ req'[q].isLoading)
    BY <1>1, <2>1 DEF FreshTurn, BufferKept
  <2>3. QED BY <2>1, <2>2, StaysFresh
<1>2. ASSUME NEW q \in Requests
      PROVE  BufferAgrees(req'[q], status'[req'[q].rec]) /\ (req'[q].serde = "here" => pc' = "serde")
  <2>1. BufferAgrees(req[q], status[req[q].rec]) /\ (req[q].serde = "here" => pc = "serde")
    BY DEF BufferInv
  <2>2. QED BY <2>1, WithoutRecord DEF BufferKept
<1>3. QED BY <1>1, <1>2 DEF BufferInv

(* A new request has no buffer.                                            *)
LEMMA EnqueueBuffers ==
  ASSUME CoreInv, BufferInv, NEW r \in Resources, active[r] = NoRequest, NEW st,
         NEW phase \in {"REQUEST_RESOURCE", "UNINSTALL_RESOURCE", "UNLOAD_RESOURCE"},
         NEW load \in BOOLEAN, NEW install \in BOOLEAN,
         phase = "REQUEST_RESOURCE" \/ ~ load,
         Enqueue(NewRequest(r, phase, load, install)),
         status' = [status EXCEPT ![r] = st],
         UNCHANGED <<updating, pc, at, spin>>, CallsKept
  PROVE  BufferInv'
<1> DEFINE x == NewRequest(r, phase, load, install)
<1>1. /\ x.rec = r /\ x.phase = phase /\ x.isLoading = load /\ x.data = "null" /\ x.serde = "no"
  BY DEF NewRequest
<1>2. Enqueue(x)
  OBVIOUS
<1> HIDE DEF x
<1>3. PICK q \in Requests : req' = [req EXCEPT ![q] = x]
  BY <1>2 DEF Enqueue
<1>4. req \in [Requests -> RequestType] /\ status \in [Resources -> Statuses]
  BY DEF CoreInv, TypeOK
<1>5. \A p \in Requests : req'[p] = IF p = q THEN x ELSE req[p]
  BY <1>3, <1>4
<1>6. \A p \in Requests : req[p].rec # r /\ req[p].rec \in Resources \cup {NoRecord}
  BY <1>4, RequestFields, ConstantsTyped DEF CoreInv, RecordsInv
<1>7. \A p \in Requests : req[p].rec # NoRecord => status'[req[p].rec] = status[req[p].rec]
  BY <1>4, <1>6
<1>8. \A s : BufferAgrees(x, s)
  BY <1>1 DEF BufferAgrees, Cancels
<1>9. x.phase \notin Quick /\ x.serde # "here"
  BY <1>1 DEF Quick
<1>10. \A p \in Requests : BufferKept(p)
  BY <1>5, <1>7, <1>8, <1>9 DEF BufferKept
<1>11. QED BY <1>10, BuffersKept

(* A resource is loaded, by a client or as a dependency.                   *)
LEMMA LoadBuffers ==
  ASSUME CoreInv, BufferInv, NEW h, NEW r \in Resources, NEW install \in BOOLEAN,
         LoadResource(h, r, install), UNCHANGED <<updating, pc, at, spin>>, CallsKept
  PROVE  BufferInv'
<1>1. req \in [Requests -> RequestType] /\ active \in [Resources -> Requests \cup {NoRequest}]
  BY DEF CoreInv, TypeOK
<1>2. CASE UNCHANGED <<status, req>>
  <2>1. \A p \in Requests : BufferKept(p)
    BY <1>2 DEF BufferKept
  <2>2. QED BY <2>1, BuffersKept
<1>3. CASE /\ ~ Satisfied(r, install) /\ active[r] # NoRequest
           /\ req' = [req EXCEPT ![active[r]].requireLoading = TRUE,
                                 ![active[r]].requestInstall = install]
           /\ UNCHANGED status
  <2> DEFINE q == active[r]
             y == [req[q] EXCEPT !.requireLoading = TRUE, !.requestInstall = install]
  <2>1. q \in Requests /\ req[q] \in RequestType /\ req[q].rec = r /\ r # NoRecord
    BY <1>1, <1>3, ConstantsTyped DEF CoreInv, RecordsInv
  <2>2. req' = [req EXCEPT ![q] = y] /\ status[r] # "ERROR"
    BY <1>1, <1>3, <2>1 DEF Satisfied
  <2>3. /\ y.rec = r /\ y.phase = req[q].phase /\ y.isLoading = req[q].isLoading
        /\ y.requireLoading /\ y.serde = req[q].serde /\ y.data = req[q].data
    BY <2>1 DEF RequestType
  <2> HIDE DEF q, y
  <2>4. \A p \in Requests : req'[p] = IF p = q THEN y ELSE req[p]
    BY <1>1, <2>2
  <2>5. BufferAgrees(req[q], status[r]) /\ (req[q].serde = "here" => pc = "serde")
    BY <2>1 DEF BufferInv
  <2>6. BufferAgrees(y, status'[y.rec])
    BY <1>3, <2>1, <2>2, <2>3, <2>5 DEF BufferAgrees
  <2>7. /\ status' = status /\ (y.serde = "here" => pc = "serde") /\ y.rec = req[q].rec
        /\ y.phase \in Quick => req[q].phase \in Quick /\ y.requireLoading
    BY <1>3, <2>1, <2>3, <2>5
  <2>8. \A p \in Requests : BufferKept(p)
    BY ONLY <2>4, <2>6, <2>7 DEF BufferKept
  <2>9. QED BY <2>8, BuffersKept
<1>4. CASE /\ active[r] = NoRequest
           /\ Enqueue(NewRequest(r, "REQUEST_RESOURCE", TRUE, install))
           /\ status' = [status EXCEPT ![r] = "LOADING"]
  BY <1>4, EnqueueBuffers
<1>5. QED BY <1>2, <1>3, <1>4 DEF LoadResource

(* A resource is unloaded that no request in a quick phase loads.          *)
LEMMA UnloadBuffers ==
  ASSUME CoreInv, BufferInv, NEW h, NEW r \in Resources, NEW more,
         UnloadResource(h, r, more), UNCHANGED <<updating, pc, at, spin>>, CallsKept,
         \A p \in Requests : req[p].phase \in Quick => req[p].rec # r
  PROVE  BufferInv'
<1>1. /\ req \in [Requests -> RequestType] /\ status \in [Resources -> Statuses]
      /\ active \in [Resources -> Requests \cup {NoRequest}]
  BY DEF CoreInv, TypeOK
<1>2. CASE UNCHANGED <<status, req>>
  <2>1. \A p \in Requests : BufferKept(p)
    BY <1>2 DEF BufferKept
  <2>2. QED BY <2>1, BuffersKept
<1>3. CASE /\ DestroyRecord(r)
           /\ req' = [q \in Requests |-> IF q = active[r] THEN [req[q] EXCEPT !.rec = NoRecord]
                                                          ELSE req[q]]
  <2> DEFINE q == active[r]
             y == [req[q] EXCEPT !.rec = NoRecord]
  <2>1. \A p \in Requests : req'[p] = IF p = q THEN y ELSE req[p]
    BY <1>3
  <2>2. \A p \in Requests : p # q => req[p].rec \in (Resources \ {r}) \cup {NoRecord}
    BY <1>1, RequestFields, ConstantsTyped DEF CoreInv, RecordsInv
  <2>3. \A s \in Resources \ {r} : status'[s] = status[s]
    BY <1>1, <1>3 DEF DestroyRecord
  <2>4. ASSUME q \in Requests
        PROVE  /\ \A s : BufferAgrees(y, s)
               /\ y.phase \notin Quick
               /\ y.serde = "here" => pc = "serde"
    <3>1. /\ y.rec = NoRecord /\ y.phase = req[q].phase /\ y.isLoading = req[q].isLoading
          /\ y.requireLoading = req[q].requireLoading
          /\ y.serde = req[q].serde /\ y.data = req[q].data
      BY <1>1, <2>4 DEF RequestType
    <3>2. req[q].rec = r /\ BufferAgrees(req[q], status[r]) /\ (req[q].serde = "here" => pc = "serde")
      BY <2>4 DEF CoreInv, RecordsInv, BufferInv
    <3>3. NoRecord \notin AsyncIO /\ r # NoRecord
      BY ConstantsTyped
    <3> HIDE DEF q, y
    <3>4. \A s : BufferAgrees(y, s)
      BY <3>1, <3>2, <3>3 DEF BufferAgrees
    <3>5. y.phase \notin Quick
      BY <2>4, <3>1, <3>2
    <3>6. QED BY <3>1, <3>2, <3>4, <3>5
  <2> HIDE DEF q, y
  <2>5. \A p \in Requests : BufferKept(p)
    BY <2>1, <2>2, <2>3, <2>4 DEF BufferKept
  <2>6. QED BY <2>5, BuffersKept
<1>4. CASE /\ status[r] \notin {"ERROR", "UNLOADED"} /\ active[r] # NoRequest
           /\ req' = [req EXCEPT ![active[r]].requireLoading = FALSE]
           /\ UNCHANGED status
  <2> DEFINE q == active[r]
             y == [req[q] EXCEPT !.requireLoading = FALSE]
  <2>1. q \in Requests /\ req[q] \in RequestType /\ req[q].rec = r /\ r # NoRecord
    BY <1>1, <1>4, ConstantsTyped DEF CoreInv, RecordsInv
  <2>2. req' = [req EXCEPT ![q] = y]
    BY <1>1, <1>4, <2>1
  <2>3. /\ y.rec = r /\ y.phase = req[q].phase /\ y.isLoading = req[q].isLoading
        /\ y.serde = req[q].serde /\ y.data = req[q].data
    BY <2>1 DEF RequestType
  <2> HIDE DEF q, y
  <2>4. \A p \in Requests : req'[p] = IF p = q THEN y ELSE req[p]
    BY <1>1, <2>2
  <2>5. BufferAgrees(req[q], status[r]) /\ (req[q].serde = "here" => pc = "serde")
    BY <2>1 DEF BufferInv
  <2>6. BufferAgrees(y, status'[y.rec])
    BY <1>4, <2>1, <2>3, <2>5 DEF BufferAgrees
  <2>7. y.phase \notin Quick /\ (y.serde = "here" => pc = "serde")
    BY <2>1, <2>3, <2>5
  <2>8. status' = status
    BY <1>4
  <2>9. \A p \in Requests : BufferKept(p)
    BY ONLY <2>4, <2>6, <2>7, <2>8 DEF BufferKept
  <2>10. QED BY <2>9, BuffersKept
<1>5. CASE /\ active[r] = NoRequest
           /\ Enqueue(NewRequest(r, IF status[r] = "INSTALLED" THEN "UNINSTALL_RESOURCE"
                                                               ELSE "UNLOAD_RESOURCE", FALSE, FALSE))
           /\ status' = [status EXCEPT ![r] = IF @ = "INSTALLED" THEN "UNINSTALLING"
                                                                 ELSE "UNLOADING"]
  <2> DEFINE phase == IF status[r] = "INSTALLED" THEN "UNINSTALL_RESOURCE" ELSE "UNLOAD_RESOURCE"
             st == IF status[r] = "INSTALLED" THEN "UNINSTALLING" ELSE "UNLOADING"
  <2>1. Enqueue(NewRequest(r, phase, FALSE, FALSE)) /\ status' = [status EXCEPT ![r] = st]
    BY <1>1, <1>5
  <2>2. phase \in {"REQUEST_RESOURCE", "UNINSTALL_RESOURCE", "UNLOAD_RESOURCE"} /\ FALSE \in BOOLEAN
    OBVIOUS
  <2> HIDE DEF phase, st
  <2>3. QED BY <1>5, <2>1, <2>2, EnqueueBuffers
<1>6. QED BY <1>2, <1>3, <1>4, <1>5 DEF UnloadResource

\* A redirected request x of the request w.
BufferRedirection(w, x) ==
  /\ x.serde = "no" \/ x.serde = "done"
  /\ x.serde = "done" => x.phase \in {"WAITFOR_LOAD_RESOURCE", "CANCEL_WAITFOR_LOAD_RESOURCE"}
  /\ x.data = "owned" <=>
       x.phase \in {"DESER_RESOURCE", "WAITFOR_LOAD_RESOURCE", "CANCEL_WAITFOR_LOAD_RESOURCE"}
  /\ x.data = "freed" => /\ x.rec \notin AsyncIO
                         /\ \/ x.phase \in {"REQUEST_RESOURCE", "IO"}
                            \/ x.phase = "FINISHED" /\ ~ x.isLoading
  /\ x.data # "freedTwice"
  /\ x.phase \in {"WAITFOR_LOAD_RESOURCE", "CANCEL_WAITFOR_LOAD_RESOURCE"} => x.rec \in AsyncSerde
  /\ x.phase \in {"UNLOAD_RESOURCE", "UNINSTALL_RESOURCE"} \cup Cancels => ~ x.isLoading
  /\ w.phase \in Quick => x.phase = w.phase

(* Redirecting a request frees nothing: none is redirected in a phase that *)
(* would free its data.                                                    *)
LEMMA RedirectedBuffer ==
  ASSUME NEW w \in RequestType, w.rec \in Resources, ~ Okay(w),
         BufferAgrees(w, status[w.rec]), w.serde # "here",
         w.phase \in Quick => w.requireLoading \/ ~ w.isLoading
  PROVE  BufferRedirection(w, Redirected(w))
<1> DEFINE x == Redirected(w)
<1>1. /\ w.rec # NoRecord /\ w.serde \in {"no", "here", "task", "done"}
      /\ w.data \in {"null", "owned", "freed", "freedTwice"}
      /\ w.isLoading \in BOOLEAN /\ w.requireLoading \in BOOLEAN
  BY RequestFields, ConstantsTyped
<1>2. CASE w.isLoading = w.requireLoading
  <2>1. x = w
    BY <1>2 DEF Redirected
  <2>2. w.phase = "FINISHED" => status[w.rec] = "LOADED"
    BY <1>1, <1>2 DEF Okay
  <2> HIDE DEF x
  <2>3. BufferRedirection(w, x)
    BY <1>1, <2>1, <2>2 DEF BufferRedirection, BufferAgrees, Cancels, Quick
  <2>4. QED BY <2>3 DEF x
<1>3. CASE w.isLoading # w.requireLoading /\ w.requireLoading
  <2>1. /\ x.phase = UpdateLoad(w)[1] /\ x.isLoading = w.requireLoading
        /\ x.rec = w.rec /\ x.serde = w.serde /\ x.data = w.data
    BY <1>3 DEF Redirected, RequestType
  <2>2. ~ w.isLoading /\ x.isLoading /\ w.phase \notin Cancels
    BY <1>1, <1>3, <2>1 DEF BufferAgrees
  <2>3. w.phase = "FINISHED" => w.data # "owned"
    BY <1>3 DEF BufferAgrees
  <2> HIDE DEF x
  <2>4. \/ w.phase = "FINISHED" /\ x.phase = "REQUEST_RESOURCE"
        \/ w.phase \in {"UNINSTALL_RESOURCE", "UNLOAD_RESOURCE"}
           /\ x.phase \in {"FINISHED", "INSTALL_RESOURCE"}
        \/ w.phase \notin {"FINISHED", "UNINSTALL_RESOURCE", "UNLOAD_RESOURCE"} /\ x.phase = w.phase
    BY <2>1, <2>2 DEF UpdateLoad, Cancels
  <2>5. BufferRedirection(w, x)
    BY <1>1, <2>1, <2>2, <2>3, <2>4 DEF BufferRedirection, BufferAgrees, Cancels, Quick
  <2>6. QED BY <2>5 DEF x
<1>4. CASE w.isLoading # w.requireLoading /\ ~ w.requireLoading
  <2>1. w.isLoading /\ w.phase \notin Quick /\ w.phase \notin Cancels
    BY <1>1, <1>4 DEF BufferAgrees
  <2>2. /\ x.phase = UpdateUnload(w)[1] /\ ~ x.isLoading
        /\ x.rec = w.rec /\ x.serde = w.serde /\ x.data = w.data
    BY <1>4, <2>1 DEF Redirected, RequestType, Quick
  <2>3. w.phase = "FINISHED" => w.data = "null"
    BY <1>1, <1>4, <2>1 DEF BufferAgrees
  <2> HIDE DEF x
  <2>4. \/ w.phase = "WAITFOR_IO" /\ x.phase = "CANCLE_WAITFOR_IO"
        \/ w.phase = "WAITFOR_LOAD_RESOURCE" /\ x.phase = "CANCEL_WAITFOR_LOAD_RESOURCE"
        \/ /\ w.phase \in {"WAITFOR_LOAD_DEPENDENCIES", "INSTALL_RESOURCE", "FINISHED",
                           "WAITFOR_INSTALL_RESOURCE"}
           /\ x.phase \in {"CANCEL_WAITFOR_LOAD_DEPENDENCIES", "UNLOAD_RESOURCE",
                           "UNINSTALL_RESOURCE", "CANCEL_WAITFOR_INSTALL_RESOURCE"}
        \/ /\ w.phase \notin {"WAITFOR_IO", "WAITFOR_LOAD_RESOURCE", "WAITFOR_LOAD_DEPENDENCIES",
                              "INSTALL_RESOURCE", "FINISHED", "WAITFOR_INSTALL_RESOURCE"}
           /\ x.phase = w.phase
    BY <2>1, <2>2 DEF UpdateUnload, Quick
  <2>5. BufferRedirection(w, x)
    BY <1>1, <2>1, <2>2, <2>3, <2>4 DEF BufferRedirection, BufferAgrees, Cancels, Quick
  <2>6. QED BY <2>5 DEF x
<1>5. QED BY <1>1, <1>2, <1>3, <1>4

\* What a turn makes of the request w: the buffer of the request y agrees with the
\* status st, and a quick phase is new and unloads dependencies at most.
TurnBuffered(w, y, st) ==
  /\ BufferAgrees(y, st) /\ y.serde # "here"
  /\ y.phase \in Quick => /\ y.phase # w.phase
                          /\ \A call \in calls' : call[1] = "unload" => call[3] \in Deps[w.rec]

\* What the turn of the request q has written.
BufferTurn(q) ==
  /\ BufferAgrees(req'[q], status'[req[q].rec]) /\ req'[q].serde # "here"
  /\ req'[q].phase \in Quick =>
       spin' = 0 /\ \A call \in calls' : call[1] = "unload" => call[3] \in Deps[req[q].rec]

(* What a turn has written.                                                *)
LEMMA BufferWrites ==
  ASSUME NEW q, NEW x, Turning(q, x), NEW y, NEW s, Becomes(q, y, s), y.rec = x.rec,
         TurnBuffered(req[q], y, s)
  PROVE  BufferTurn(q)
<1>1. req'[q] = y /\ status'[req[q].rec] = s
  BY DEF Turning, Becomes
<1>2. y.phase # req[q].phase => spin' = 0
  BY DEF Becomes
<1>3. QED BY <1>1, <1>2 DEF TurnBuffered, BufferTurn

(* The end of a load: on success the buffer is let go, on failure it stays *)
(* with the finished request.                                              *)
LEMMA LoadFinishedBuffer ==
  ASSUME NEW q, NEW x, Turning(q, x), NEW ok \in BOOLEAN, LoadFinished(q, x, ok),
         ok \/ x.data = "owned", x.serde = "no"
  PROVE  BufferTurn(q)
<1> DEFINE f == [x EXCEPT !.phase = "FINISHED"]
           n == [x EXCEPT !.phase = "FINISHED", !.data = "null", !.dependenciesLoaded = FALSE]
           d == [x EXCEPT !.phase = "WAITFOR_LOAD_DEPENDENCIES", !.data = "null",
                          !.dependenciesLoaded = TRUE]
           i == [x EXCEPT !.phase = "INSTALL_RESOURCE", !.data = "null"]
<1>1. x \in RequestType /\ x.isLoading = x.requireLoading /\ x.rec = req[q].rec
  BY DEF Turning
<1>2. \A y \in {f, n, d, i} : /\ y.rec = x.rec /\ y.serde = "no"
                              /\ y.isLoading = x.isLoading /\ y.requireLoading = x.requireLoading
  BY <1>1 DEF RequestType
<1>3. /\ f.phase = "FINISHED" /\ n.phase = "FINISHED" /\ d.phase = "WAITFOR_LOAD_DEPENDENCIES"
      /\ i.phase = "INSTALL_RESOURCE"
      /\ f.data = x.data /\ n.data = "null" /\ d.data = "null" /\ i.data = "null"
  BY <1>1 DEF RequestType
<1>4. \/ ~ ok /\ Becomes(q, f, "ERROR")
      \/ Becomes(q, n, "LOADED") \/ Becomes(q, d, "LOADED") \/ Becomes(q, i, "LOADED")
  BY DEF LoadFinished
<1> HIDE DEF f, n, d, i
<1>5. /\ ~ ok => TurnBuffered(req[q], f, "ERROR")
      /\ \A y \in {n, d, i} : TurnBuffered(req[q], y, "LOADED")
  BY <1>1, <1>2, <1>3 DEF TurnBuffered, BufferAgrees, Cancels, Quick
<1>6. QED BY <1>2, <1>4, <1>5, BufferWrites

(* Every turn leaves a request whose buffer agrees with its record.        *)
LEMMA TurnBuffers ==
  ASSUME CoreInv, BatchesHere, BufferInv, UpdateRequest, NEW q, q = updating[at]
  PROVE  BufferTurn(q)
<1> DEFINE w == req[q]
           x == Redirected(w)
           st == RedirectedStatus(w)
<1>1. TurnFacts(q)
  BY TurnOfActive
<1>2. /\ x \in RequestType /\ Keeps(w, x) /\ x.isLoading = x.requireLoading
  BY <1>1, RedirectedTyped DEF TurnFacts, Keeps
<1>3. Turning(q, x) /\ x.rec \in Resources
  BY <1>1, <1>2 DEF Turning, TurnFacts, Keeps, CoreInv, TypeOK, Objects
<1>4. pc = "update" /\ calls = {}
  BY DEF UpdateRequest, Thread
<1>5. BufferRedirection(w, x)
  <2>1. /\ w \in RequestType /\ w.rec \in Resources /\ ~ Okay(w) /\ q \in Requests
    BY <1>1 DEF TurnFacts
  <2>2. /\ BufferAgrees(w, status[w.rec]) /\ w.serde # "here"
        /\ w.phase \in Quick => w.requireLoading \/ ~ w.isLoading
    BY <1>4, <2>1 DEF BufferInv, FreshTurn
  <2> HIDE DEF w
  <2>3. QED BY <2>1, <2>2, RedirectedBuffer
<1>6. \/ RequestResource(q, x) \/ IO(q, x) \/ WaitForIO(q, x) \/ DeserResource(q, x)
      \/ WaitForLoad(q, x) \/ WaitForDependencies(q, x) \/ InstallResource(q, x)
      \/ WaitForInstall(q, x) \/ Finished(q, x) \/ CancelIO(q, x)
      \/ Uninstall(q, x) \/ UnloadObject(q, x)
  BY DEF UpdateRequest
<1>7. x \in RequestType /\ x.isLoading = x.requireLoading /\ w = req[q] /\ st = RedirectedStatus(req[q])
  BY <1>2
<1>8. AsyncIO \cap AsyncSerde = {} /\ AsyncIO \subseteq Resources
  BY ConstantsTyped DEF BatchesHere
<1> HIDE DEF x, st, w
<1>9. ASSUME NEW y, NEW s, Becomes(q, y, s), Keeps(x, y), TurnBuffered(w, y, s)
      PROVE  BufferTurn(q)
  BY <1>3, <1>7, <1>9, BufferWrites DEF Keeps
<1>10. CASE RequestResource(q, x)
  <2> DEFINE load == x.rec \in Factories /\ x.requestInstall
             y == [x EXCEPT !.phase = "IO", !.dependenciesLoaded = @ \/ load]
             z == [x EXCEPT !.phase = "FINISHED"]
  <2>1. /\ x.phase = "REQUEST_RESOURCE"
        /\ Becomes(q, y, st) \/ Becomes(q, y, "ERROR") \/ Becomes(q, z, "ERROR")
        /\ calls' \subseteq Released(x.rec) \cup Asked(x.rec)
    BY <1>7, <1>10 DEF RequestResource, FillRequest, Asked
  <2>2. /\ Keeps(x, y) /\ y.phase = "IO" /\ y.isLoading = x.isLoading
        /\ y.serde = x.serde /\ y.data = x.data
        /\ Keeps(x, z) /\ z.phase = "FINISHED" /\ z.isLoading = x.isLoading
        /\ z.serde = x.serde /\ z.data = x.data
    BY <1>7, <2>1 DEF RequestType, Keeps
  <2> HIDE DEF y, z
  <2>3. \A call \in calls' : call[1] = "unload" => call[3] \in Deps[w.rec]
    BY <1>3, <1>7, <2>1 DEF Released, Asked, Turning
  <2>4. TurnBuffered(w, y, st) /\ TurnBuffered(w, y, "ERROR") /\ TurnBuffered(w, z, "ERROR")
    BY <1>5, <1>7, <2>1, <2>2, <2>3
       DEF TurnBuffered, BufferAgrees, BufferRedirection, Cancels, Quick, Keeps
  <2>5. QED BY <1>9, <2>1, <2>2, <2>4
<1>11. CASE IO(q, x)
  <2> DEFINE y == [x EXCEPT !.phase = "WAITFOR_IO", !.io = "pending"]
             z == [x EXCEPT !.phase = "DESER_RESOURCE", !.data = "owned"]
  <2>1. /\ x.phase = "IO" /\ calls' = {}
        /\ \/ x.rec \in AsyncIO /\ Becomes(q, y, "LOADING")
           \/ Becomes(q, z, "LOADING")
    BY <1>4, <1>7, <1>11 DEF IO
  <2>2. /\ Keeps(x, y) /\ y.phase = "WAITFOR_IO" /\ y.isLoading = x.isLoading
        /\ y.serde = x.serde /\ y.data = x.data
        /\ Keeps(x, z) /\ z.phase = "DESER_RESOURCE" /\ z.isLoading = x.isLoading
        /\ z.serde = x.serde /\ z.data = "owned"
    BY <1>7, <2>1 DEF RequestType, Keeps
  <2> HIDE DEF y, z
  <2>3. x.rec \in AsyncIO => x.data = "null"
    BY <1>5, <1>7, <2>1, RequestFields DEF BufferRedirection
  <2>4. x.rec \in AsyncIO => TurnBuffered(w, y, "LOADING")
    BY <1>5, <1>7, <2>1, <2>2, <2>3
       DEF TurnBuffered, BufferAgrees, BufferRedirection, Cancels, Quick, Keeps
  <2>5. TurnBuffered(w, z, "LOADING")
    BY <1>5, <1>7, <2>1, <2>2
       DEF TurnBuffered, BufferAgrees, BufferRedirection, Cancels, Quick, Keeps
  <2>6. QED BY <1>9, <2>1, <2>2, <2>4, <2>5
<1>12. CASE WaitForIO(q, x)
  <2> DEFINE data == IF x.io = "ready" THEN "owned" ELSE x.data
             y == [x EXCEPT !.data = data, !.io = IF @ = "ready" THEN "none" ELSE @,
                            !.phase = IF data = "null" THEN @ ELSE "DESER_RESOURCE"]
  <2>1. x.phase = "WAITFOR_IO" /\ Becomes(q, y, st) /\ calls' = {}
    BY <1>4, <1>7, <1>12 DEF WaitForIO
  <2>2. x.data = "null"
    BY <1>5, <1>7, <2>1, RequestFields DEF BufferRedirection
  <2>3. /\ Keeps(x, y) /\ y.isLoading = x.isLoading /\ y.serde = x.serde
        /\ \/ y.phase = "WAITFOR_IO" /\ y.data = "null"
           \/ y.phase = "DESER_RESOURCE" /\ y.data = "owned"
    BY <1>7, <2>1, <2>2 DEF RequestType, Keeps
  <2> HIDE DEF y
  <2>4. TurnBuffered(w, y, st)
    BY <1>5, <1>7, <2>1, <2>3
       DEF TurnBuffered, BufferAgrees, BufferRedirection, Cancels, Quick, Keeps
  <2>5. QED BY <1>9, <2>1, <2>3, <2>4
<1>13. CASE DeserResource(q, x)
  <2> DEFINE y == [x EXCEPT !.phase = "WAITFOR_LOAD_RESOURCE", !.serde = "no"]
  <2>1. /\ x.phase = "DESER_RESOURCE"
        /\ \/ x.rec \in AsyncSerde /\ Becomes(q, y, st)
           \/ \E ok \in BOOLEAN : LoadFinished(q, x, ok)
    BY <1>7, <1>13 DEF DeserResource, Results
  <2>2. x.serde = "no" /\ x.data = "owned"
    BY <1>5, <2>1 DEF BufferRedirection
  <2>3. /\ Keeps(x, y) /\ y.phase = "WAITFOR_LOAD_RESOURCE" /\ y.isLoading = x.isLoading
        /\ y.serde = "no" /\ y.data = "owned"
    BY <1>7, <2>2 DEF RequestType, Keeps
  <2> HIDE DEF y
  <2>4. x.rec \in AsyncSerde => TurnBuffered(w, y, st)
    BY <2>3 DEF TurnBuffered, BufferAgrees, Cancels, Quick, Keeps
  <2>5. QED BY <1>3, <1>9, <2>1, <2>2, <2>3, <2>4, LoadFinishedBuffer
<1>14. CASE WaitForLoad(q, x)
  <2> DEFINE y == [x EXCEPT !.serde = "no", !.serdeResult = FALSE]
  <2>1. /\ x.phase = "WAITFOR_LOAD_RESOURCE"
        /\ LoadFinished(q, y, x.serdeResult) \/ Becomes(q, x, st)
    BY <1>7, <1>14 DEF WaitForLoad
  <2>2. /\ y \in RequestType /\ x.serdeResult \in BOOLEAN /\ y.rec = x.rec /\ y.serde = "no"
        /\ y.isLoading = x.isLoading /\ y.requireLoading = x.requireLoading /\ y.data = x.data
    BY <1>7 DEF RequestType
  <2>3. x.data = "owned" /\ x.rec \in AsyncSerde /\ x.serde \notin {"here", "task"}
    BY <1>5, <2>1 DEF BufferRedirection
  <2> HIDE DEF y
  <2>4. Turning(q, y)
    BY <1>3, <1>7, <2>2 DEF Turning
  <2>5. TurnBuffered(w, x, st) /\ Keeps(x, x)
    BY <2>1, <2>3 DEF TurnBuffered, BufferAgrees, Cancels, Quick, Keeps
  <2>6. QED BY <1>9, <2>1, <2>2, <2>3, <2>4, <2>5, LoadFinishedBuffer
<1>15. CASE WaitForDependencies(q, x)
  <2> DEFINE answers == {DependencyStatus(x.rec, d) : d \in Deps[x.rec]}
             y == [x EXCEPT !.phase = IF answers \subseteq {"INSTALLED"} THEN "INSTALL_RESOURCE" ELSE @]
             z == [x EXCEPT !.phase = "FINISHED", !.dependenciesLoaded = FALSE]
  <2>1. /\ x.phase = "WAITFOR_LOAD_DEPENDENCIES"
        /\ Becomes(q, y, st) \/ Becomes(q, z, "ERROR")
    BY <1>7, <1>15 DEF WaitForDependencies
  <2> HIDE DEF answers
  <2>2. /\ Keeps(x, y) /\ y.phase \in {"INSTALL_RESOURCE", "WAITFOR_LOAD_DEPENDENCIES"}
        /\ y.isLoading = x.isLoading /\ y.serde = x.serde /\ y.data = x.data
        /\ Keeps(x, z) /\ z.phase = "FINISHED" /\ z.isLoading = x.isLoading
        /\ z.serde = x.serde /\ z.data = x.data
    BY <1>7, <2>1 DEF RequestType, Keeps
  <2> HIDE DEF y, z
  <2>3. TurnBuffered(w, y, st) /\ TurnBuffered(w, z, "ERROR")
    BY <1>5, <1>7, <2>1, <2>2
       DEF TurnBuffered, BufferAgrees, BufferRedirection, Cancels, Quick, Keeps
  <2>4. QED BY <1>9, <2>1, <2>2, <2>3
<1>16. CASE InstallResource(q, x)
  <2> DEFINE y == [x EXCEPT !.phase = "FINISHED"]
             z == [x EXCEPT !.phase = "WAITFOR_INSTALL_RESOURCE", !.built = "pending"]
  <2>1. /\ x.phase = "INSTALL_RESOURCE"
        /\ \/ Becomes(q, y, "INSTALLED") \/ Becomes(q, y, "ERROR")
           \/ Becomes(q, z, "INSTALLING")
    BY <1>4, <1>7, <1>16 DEF InstallResource
  <2>2. /\ Keeps(x, y) /\ y.phase = "FINISHED" /\ y.isLoading = x.isLoading
        /\ y.serde = x.serde /\ y.data = x.data
        /\ Keeps(x, z) /\ z.phase = "WAITFOR_INSTALL_RESOURCE" /\ z.isLoading = x.isLoading
        /\ z.serde = x.serde /\ z.data = x.data
    BY <1>7, <2>1 DEF RequestType, Keeps
  <2> HIDE DEF y, z
  <2>3. \A s : TurnBuffered(w, y, s) /\ TurnBuffered(w, z, s)
    BY <1>5, <1>7, <2>1, <2>2
       DEF TurnBuffered, BufferAgrees, BufferRedirection, Cancels, Quick, Keeps
  <2>4. QED BY <1>9, <2>1, <2>2, <2>3
<1>17. CASE WaitForInstall(q, x)
  <2> DEFINE y == [x EXCEPT !.phase = "FINISHED", !.built = "none"]
  <2>1. /\ x.phase = "WAITFOR_INSTALL_RESOURCE"
        /\ Becomes(q, y, "INSTALLED") \/ Becomes(q, y, "ERROR") \/ Becomes(q, x, st)
    BY <1>4, <1>7, <1>17 DEF WaitForInstall
  <2>2. /\ Keeps(x, y) /\ y.phase = "FINISHED" /\ y.isLoading = x.isLoading
        /\ y.serde = x.serde /\ y.data = x.data
        /\ Keeps(x, x)
    BY <1>7, <2>1 DEF RequestType, Keeps
  <2> HIDE DEF y
  <2>3. \A s : TurnBuffered(w, y, s) /\ TurnBuffered(w, x, s)
    BY <1>5, <1>7, <2>1, <2>2
       DEF TurnBuffered, BufferAgrees, BufferRedirection, Cancels, Quick, Keeps
  <2>4. QED BY <1>9, <2>1, <2>2, <2>3
<1>18. CASE Finished(q, x)
  <2>1. x.phase = "FINISHED" /\ LoadFinished(q, x, TRUE)
    BY <1>18 DEF Finished
  <2>2. x.serde = "no"
    BY <1>5, <2>1 DEF BufferRedirection
  <2>3. QED BY <1>3, <2>1, <2>2, LoadFinishedBuffer
<1>19. CASE CancelIO(q, x)
  <2> DEFINE y == [x EXCEPT !.phase = "FINISHED", !.io = IF @ = "ready" THEN "none" ELSE @]
  <2>1. x.phase = "CANCLE_WAITFOR_IO" /\ Becomes(q, y, "UNLOADED")
    BY <1>4, <1>7, <1>19 DEF CancelIO
  <2>2. /\ Keeps(x, y) /\ y.phase = "FINISHED" /\ y.isLoading = x.isLoading
        /\ y.serde = x.serde /\ y.data = x.data
    BY <1>7, <2>1 DEF RequestType, Keeps
  <2> HIDE DEF y
  <2>3. TurnBuffered(w, y, "UNLOADED")
    BY <1>5, <1>7, <2>1, <2>2
       DEF TurnBuffered, BufferAgrees, BufferRedirection, Cancels, Quick, Keeps
  <2>4. QED BY <1>9, <2>1, <2>2, <2>3
<1>20. CASE Uninstall(q, x)
  <2> DEFINE y == [x EXCEPT !.phase = "UNLOAD_RESOURCE", !.built = "none"]
  <2>1. /\ x.phase \in {"CANCEL_WAITFOR_INSTALL_RESOURCE", "UNINSTALL_RESOURCE"}
        /\ Becomes(q, y, "LOADED")
    BY <1>4, <1>7, <1>20 DEF Uninstall
  <2>2. /\ Keeps(x, y) /\ y.phase = "UNLOAD_RESOURCE" /\ y.isLoading = x.isLoading
        /\ y.serde = x.serde /\ y.data = x.data
    BY <1>7, <2>1 DEF RequestType, Keeps
  <2> HIDE DEF y
  <2>3. TurnBuffered(w, y, "LOADED")
    BY <1>5, <1>7, <2>1, <2>2
       DEF TurnBuffered, BufferAgrees, BufferRedirection, Cancels, Quick, Keeps
  <2>4. QED BY <1>9, <2>1, <2>2, <2>3
<1>21. CASE UnloadObject(q, x)
  <2> DEFINE y == [x EXCEPT !.phase = "FINISHED", !.data = Freed(@),
                            !.dependenciesLoaded = FALSE, !.serdeResult = FALSE,
                            !.serde = IF @ = "done" THEN "no" ELSE @]
  <2>1. /\ x.phase \in {"CANCEL_WAITFOR_LOAD_RESOURCE", "CANCEL_WAITFOR_LOAD_DEPENDENCIES",
                        "UNLOAD_RESOURCE"}
        /\ Becomes(q, y, "UNLOADED")
    BY <1>21 DEF UnloadObject
  <2>2. \/ x.data = "null"
        \/ x.data = "owned" /\ x.rec \in AsyncSerde
    BY <1>5, <1>7, <2>1, RequestFields DEF BufferRedirection
  <2>3. /\ Keeps(x, y) /\ y.phase = "FINISHED" /\ y.isLoading = x.isLoading /\ ~ x.isLoading
        /\ \/ y.data = "null"
           \/ y.data = "freed" /\ x.rec \in AsyncSerde
        /\ y.serde = "no"
    BY <1>5, <1>7, <2>1, <2>2 DEF RequestType, Keeps, Freed, BufferRedirection, Cancels
  <2> HIDE DEF y
  <2>4. TurnBuffered(w, y, "UNLOADED")
    BY <1>8, <2>3 DEF TurnBuffered, BufferAgrees, Cancels, Quick, Keeps
  <2>5. QED BY <1>9, <2>1, <2>3, <2>4
<1>22. QED
  BY <1>6, <1>10, <1>11, <1>12, <1>13, <1>14, <1>15, <1>16, <1>17, <1>18, <1>19, <1>20, <1>21

\* Fewer than a batch make no full one.
LEMMA NoQuotient ==
  ASSUME NEW n \in Nat, NEW b \in Nat \ {0}, n < b
  PROVE  (n \div b) * b = 0
<1>1. n \div b = 0
  OBVIOUS
<1>2. QED BY <1>1

(* Fewer loads wait than a batch takes, so that this thread does them all. *)
LEMMA NoFullBatch ==
  ASSUME CoreInv, BatchesHere, ScheduleSerde
  PROVE  \A q \in Requests :
           \/ req'[q] = req[q]
           \/ Waiting(req[q]) /\ req'[q] = [req[q] EXCEPT !.serde = "here"]
<1> DEFINE waiting == {i \in DOMAIN updating : Waiting(req[updating[i]])}
           tasks == (Cardinality(waiting) \div BatchSize) * BatchSize
           upTo(i) == Cardinality({j \in waiting : j <= i})
<1>1. /\ updating \in Seq(Requests) /\ IsInjective(updating) /\ MaxRequests \in Nat
      /\ BatchSize \in Nat \ {0} /\ BatchSize > MaxRequests
  BY ConstantsTyped DEF CoreInv, TypeOK, QueuesInv, BatchesHere
<1>2. Len(updating) <= MaxRequests
  <2> DEFINE U == {updating[i] : i \in DOMAIN updating}
  <2>1. IsFiniteSet(Requests) /\ Cardinality(Requests) = MaxRequests
    <3>1. 1 \in Int /\ MaxRequests \in Int
      BY <1>1
    <3>2. QED BY <1>1, <3>1, FS_Interval DEF Requests
  <2>2. Cardinality(U) = Len(updating)
    BY <1>1, InjectiveCardinality
  <2>3. U \subseteq Requests
    BY <1>1
  <2> HIDE DEF U
  <2>4. QED BY <2>1, <2>2, <2>3, FS_Subset
<1>3. IsFiniteSet(waiting) /\ Cardinality(waiting) \in Nat /\ Cardinality(waiting) <= MaxRequests
  <2>1. Len(updating) \in Nat /\ DOMAIN updating = 1..Len(updating) /\ waiting \subseteq DOMAIN updating
    BY <1>1, LenProperties
  <2> HIDE DEF waiting
  <2>2. IsFiniteSet(1..Len(updating)) /\ Cardinality(1..Len(updating)) = Len(updating)
    <3>1. 1 \in Int /\ Len(updating) \in Int
      BY <2>1
    <3>2. QED BY <2>1, <3>1, FS_Interval
  <2>3. IsFiniteSet(waiting) /\ Cardinality(waiting) <= Len(updating)
    BY <2>1, <2>2, FS_Subset
  <2>4. Cardinality(waiting) \in Nat
    BY <2>3, FS_CardinalityType
  <2>5. QED BY <1>1, <1>2, <2>1, <2>3, <2>4
<1>4. \A q \in Requests :
        req'[q] = IF \E i \in waiting : updating[i] = q
                  THEN [req[q] EXCEPT !.serde = IF \E i \in waiting : updating[i] = q /\ upTo(i) <= tasks
                                                THEN "task" ELSE "here"]
                  ELSE req[q]
  BY DEF ScheduleSerde
<1>5. \A i \in waiting : Waiting(req[updating[i]])
  OBVIOUS
<1>6. tasks = 0
  <2> HIDE DEF waiting
  <2>1. Cardinality(waiting) < BatchSize
    BY <1>1, <1>3
  <2>2. QED BY <1>1, <1>3, <2>1, NoQuotient
<1>7. ASSUME NEW i \in waiting
      PROVE  ~ upTo(i) <= tasks
  <2> DEFINE W == {j \in waiting : j <= i}
  <2>1. i \in W /\ W \subseteq waiting
    BY <1>1
  <2> HIDE DEF W, waiting
  <2>2. IsFiniteSet(W) /\ Cardinality(W) \in Nat
    BY <1>3, <2>1, FS_Subset, FS_CardinalityType
  <2>3. Cardinality(W) # 0
    BY <2>1, <2>2, FS_EmptySet
  <2>4. Cardinality(W) > 0
    BY <2>2, <2>3
  <2> HIDE DEF tasks
  <2>5. QED BY <1>6, <2>2, <2>4 DEF W
<1> HIDE DEF waiting, tasks, upTo
<1>8. QED BY <1>4, <1>5, <1>7

(* What is scheduled is a load that waits.                                 *)
LEMMA ScheduleBuffers ==
  ASSUME CoreInv, BatchesHere, BufferInv, ScheduleSerde
  PROVE  BufferInv'
<1>1. /\ at > Len(updating) /\ pc' = "serde" /\ status' = status
      /\ updating \in Seq(Requests) /\ at \in Nat
      /\ req \in [Requests -> RequestType]
  BY DEF ScheduleSerde, Thread, CoreInv, TypeOK
<1>2. Still
  BY <1>1, LenProperties DEF BufferInv, FreshTurn, Still
<1>3. ASSUME NEW q \in Requests
      PROVE  /\ BufferAgrees(req'[q], status'[req'[q].rec])
             /\ req'[q].phase \notin Quick
  <2>1. BufferAgrees(req[q], status[req[q].rec]) /\ req[q].phase \notin Quick
    BY <1>2 DEF BufferInv, Still
  <2>2. CASE req'[q] = req[q]
    BY <1>1, <2>1, <2>2
  <2>3. CASE Waiting(req[q]) /\ req'[q] = [req[q] EXCEPT !.serde = "here"]
    <3>1. /\ req'[q].rec = req[q].rec /\ req'[q].phase = req[q].phase
          /\ req'[q].isLoading = req[q].isLoading
          /\ req'[q].requireLoading = req[q].requireLoading
          /\ req'[q].data = req[q].data /\ req'[q].serde = "here"
          /\ req[q].phase = "WAITFOR_LOAD_RESOURCE"
      BY <1>1, <2>3 DEF RequestType, Waiting
    <3>2. BufferAgrees(req'[q], status[req[q].rec])
      BY <2>1, <3>1 DEF BufferAgrees, Cancels
    <3>3. QED BY <1>1, <2>1, <3>1, <3>2
  <2>4. QED BY <2>2, <2>3, NoFullBatch
<1>4. QED BY <1>1, <1>3 DEF BufferInv

\* Without requests there are no buffers.
LEMMA BufferInit == Init => BufferInv
BY ConstantsTyped DEF Init, BufferInv, BufferAgrees, NewRequest, Cancels, Quick

\* A deleted request has no buffer; no task reads one for it.
LEMMA DeletedBuffer ==
  ASSUME NEW x, x.serde # "task", NEW st
  PROVE  /\ BufferAgrees(Deleted(x), st) /\ Deleted(x).phase \notin Quick
         /\ Deleted(x).serde # "here"
<1> DEFINE n == NewRequest(NoRecord, "NONE", FALSE, FALSE)
           i == IF x.io = "pending" THEN "pending" ELSE "none"
<1>1. Deleted(x) = [n EXCEPT !.io = i, !.serde = "no"]
  BY DEF Deleted
<1>2. Deleted(x).phase = "NONE" /\ Deleted(x).data = "null" /\ Deleted(x).serde = "no"
  BY <1>1 DEF NewRequest
<1>3. QED BY <1>2 DEF BufferAgrees, Cancels, Quick

(* A request that is looked at before the turns is deleted, or stays.      *)
LEMMA ClearBuffers ==
  ASSUME CoreInv, BufferInv, ClearRequest \/ EndClear
  PROVE  BufferInv'
<1>1. /\ req \in [Requests -> RequestType] /\ status \in [Resources -> Statuses]
      /\ updating \in Seq(Requests) /\ at \in 1..(Len(updating) + 1) /\ pc = "clear"
  BY DEF CoreInv, TypeOK, ClearRequest, EndClear, Thread
<1>2. Still /\ \A q \in Requests : req[q].serde # "here" /\ req[q].serde # "task"
  BY <1>1 DEF BufferInv, FreshTurn, Still, BufferAgrees
<1>3. \A q \in Requests : BufferAgrees(req[q], status[req[q].rec])
  BY DEF BufferInv
<1>4. ASSUME \A q \in Requests :
               \/ req'[q] = Deleted(req[q])
               \/ /\ req'[q] = req[q]
                  /\ req[q].rec # NoRecord => status'[req[q].rec] = status[req[q].rec]
      PROVE  BufferInv'
  <2>1. ASSUME NEW q \in Requests
        PROVE  /\ BufferAgrees(req'[q], status'[req'[q].rec])
               /\ req'[q].phase \notin Quick /\ req'[q].serde # "here"
    BY <1>2, <1>3, <1>4, DeletedBuffer, WithoutRecord DEF Still
  <2>2. QED BY <2>1 DEF BufferInv
<1>5. CASE EndClear
  BY <1>4, <1>5 DEF EndClear
<1>6. CASE ClearRequest
  <2> DEFINE q == updating[at]
             r == req[q].rec
  <2>1. at <= Len(updating) /\ (ClearOkay(q, req[q]) \/ UNCHANGED <<status, req>>)
    BY <1>6 DEF ClearRequest, ClearFailed, KeepRequest
  <2>2. q \in Requests
    BY <1>1, <2>1
  <2>3. CASE UNCHANGED <<status, req>>
    BY <1>4, <2>3
  <2>4. CASE ClearOkay(q, req[q])
    <3>1. \/ req[q].rec # NoRecord /\ status' = [status EXCEPT ![req[q].rec] = "ABSENT"]
          \/ status' = status
      BY <2>4 DEF ClearOkay, DestroyRecord
    <3>2. req' = [req EXCEPT ![q] = Deleted(req[q])]
      BY <2>4 DEF ClearOkay
    <3> HIDE DEF q
    <3>3. req'[q] = Deleted(req[q]) /\ \A p \in Requests \ {q} : req'[p] = req[p]
      BY <1>1, <2>2, <3>2
    <3>4. ASSUME NEW p \in Requests \ {q}, req[p].rec # NoRecord
          PROVE  status'[req[p].rec] = status[req[p].rec]
      <4>1. req[p].rec \in Resources /\ req[p].rec # req[q].rec
        BY <1>1, <2>2, <3>4, RequestFields DEF CoreInv, RecordsInv
      <4>2. QED BY <1>1, <3>1, <4>1
    <3>5. QED BY <1>4, <3>3, <3>4
  <2>5. QED BY <2>1, <2>3, <2>4
<1>7. QED BY <1>5, <1>6

(* A turn concerns one request: no other is in a quick phase.              *)
LEMMA UpdateBuffers ==
  ASSUME CoreInv, BatchesHere, BufferInv, UpdateRequest, NEW q, q = updating[at]
  PROVE  BufferInv'
<1> DEFINE r == req[q].rec
<1>1. TurnFacts(q) /\ Turns(q) /\ BufferTurn(q)
  BY TurnOfActive, TurnShape, TurnBuffers
<1>2. /\ req \in [Requests -> RequestType] /\ status \in [Resources -> Statuses]
      /\ pc = "update" /\ pc' = pc /\ updating' = updating /\ at' = at /\ at <= Len(updating)
  BY DEF CoreInv, TypeOK, UpdateRequest, Thread
<1>3. PICK y \in RequestType, st \in Statuses \ {"ABSENT"}, o \in Objects : TurnLeaves(q, y, st, o)
  BY <1>1 DEF Turns
<1>4. q \in Requests /\ r \in Resources /\ active[r] = q
  BY <1>1 DEF TurnFacts
<1>5. /\ req'[q] = y /\ y.rec = r /\ y.isLoading = y.requireLoading
      /\ \A p \in Requests \ {q} : req'[p] = req[p]
      /\ \A s \in Resources \ {r} : status'[s] = status[s]
  BY <1>2, <1>3, <1>4 DEF TurnLeaves, Keeps
<1>6. \A p \in Requests \ {q} : req[p].rec # r /\ req[p].rec \in Resources \cup {NoRecord}
  BY <1>2, <1>4, RequestFields, ConstantsTyped DEF CoreInv, RecordsInv
<1> HIDE DEF r
<1>7. ASSUME NEW p \in Requests, p # q
      PROVE  /\ BufferAgrees(req'[p], status'[req'[p].rec])
             /\ req'[p].phase \notin Quick /\ req'[p].serde # "here"
  <2>1. /\ BufferAgrees(req[p], status[req[p].rec])
        /\ req[p].phase \notin Quick /\ req[p].serde # "here"
    BY <1>2, <1>7 DEF BufferInv, FreshTurn
  <2>2. req'[p] = req[p] /\ (req[p].rec # NoRecord => status'[req[p].rec] = status[req[p].rec])
    BY <1>5, <1>6, <1>7
  <2>3. QED BY <2>1, <2>2, WithoutRecord
<1>8. /\ BufferAgrees(req'[q], status'[req'[q].rec]) /\ req'[q].serde # "here"
      /\ req'[q].phase \in Quick => FreshTurn(q)'
  <2>1. BufferAgrees(req'[q], status'[req'[q].rec]) /\ req'[q].serde # "here"
    BY <1>1, <1>5 DEF BufferTurn, r
  <2>2. req'[q].phase \in Quick => spin' = 0 /\ \A call \in calls' : call[1] = "unload" => Under(call[3], r)
    BY <1>1, <1>4, UnderFacts DEF BufferTurn, r
  <2>3. req'[q].requireLoading \/ ~ req'[q].isLoading
    BY <1>5
  <2>4. req'[q].phase \in Quick => FreshTurn(q)'
    BY <1>2, <1>4, <1>5, <2>2, <2>3 DEF FreshTurn
  <2>5. QED BY <2>1, <2>4
<1>9. QED BY <1>7, <1>8 DEF BufferInv

\* Input that ends, or an installation, leaves the buffer as it is.
LEMMA EndsBuffers ==
  ASSUME CoreInv, BufferInv, NEW q \in Requests, IOEnds(q) \/ InstallEnds(q)
  PROVE  BufferInv'
<1>1. /\ req \in [Requests -> RequestType] /\ req[q] \in RequestType
      /\ UNCHANGED <<status, updating, pc, at, spin, calls>>
  BY DEF CoreInv, TypeOK, IOEnds, InstallEnds
<1>2. PICK y : /\ req' = [req EXCEPT ![q] = y]
               /\ (\E i : y = [req[q] EXCEPT !.io = i]) \/ (\E b : y = [req[q] EXCEPT !.built = b])
  BY <1>1 DEF IOEnds, InstallEnds
<1>3. /\ y.rec = req[q].rec /\ y.phase = req[q].phase /\ y.isLoading = req[q].isLoading
      /\ y.requireLoading = req[q].requireLoading
      /\ y.serde = req[q].serde /\ y.data = req[q].data
  BY <1>1, <1>2 DEF RequestType
<1>4. \A p \in Requests : req'[p] = IF p = q THEN y ELSE req[p]
  BY <1>1, <1>2
<1>5. /\ BufferAgrees(req[q], status[req[q].rec]) /\ (req[q].serde = "here" => pc = "serde")
      /\ req[q].phase \in Quick => req[q].requireLoading \/ ~ req[q].isLoading
  BY DEF BufferInv, FreshTurn
<1>6. BufferAgrees(y, status[y.rec])
  BY <1>3, <1>5 DEF BufferAgrees
<1>7. \A p \in Requests : BufferKept(p)
  BY ONLY <1>1, <1>3, <1>4, <1>5, <1>6 DEF BufferKept
<1>8. CallsKept
  BY <1>1 DEF CallsKept
<1>9. QED BY <1>1, <1>7, <1>8, BuffersKept

(* This thread deserialises for a request that waits for it.               *)
LEMMA LoadTaskBuffers ==
  ASSUME CoreInv, BufferInv, NEW q \in Requests, NEW where \in {"here", "task"},
         LoadTask(q, where)
  PROVE  BufferInv'
<1>1. /\ req \in [Requests -> RequestType] /\ req[q] \in RequestType
      /\ UNCHANGED <<status, updating, pc, at, spin, calls>>
  BY DEF CoreInv, TypeOK, LoadTask
<1>2. PICK ok \in BOOLEAN : req' = [req EXCEPT ![q].serde = "done", ![q].serdeResult = ok]
  BY DEF LoadTask, Results
<1> DEFINE y == [req[q] EXCEPT !.serde = "done", !.serdeResult = ok]
<1>3. \A p \in Requests : req'[p] = IF p = q THEN y ELSE req[p]
  BY <1>1, <1>2
<1>4. /\ y.rec = req[q].rec /\ y.phase = req[q].phase /\ y.isLoading = req[q].isLoading
      /\ y.requireLoading = req[q].requireLoading
      /\ y.serde = "done" /\ y.data = req[q].data
  BY <1>1 DEF RequestType
<1> HIDE DEF y
<1>5. BufferAgrees(req[q], status[req[q].rec]) /\ req[q].serde = where
  BY DEF BufferInv, LoadTask
<1>6. req[q].phase = "WAITFOR_LOAD_RESOURCE"
  BY <1>5 DEF BufferAgrees
<1>7. BufferAgrees(y, status[y.rec]) /\ y.phase \notin Quick
  BY <1>4, <1>5, <1>6 DEF BufferAgrees, Quick
<1>8. \A p \in Requests : BufferKept(p)
  BY ONLY <1>1, <1>3, <1>4, <1>7 DEF BufferKept
<1>9. CallsKept
  BY <1>1 DEF CallsKept
<1>10. QED BY <1>1, <1>8, <1>9, BuffersKept

\* Where the thread goes on to another part of its code, or to another request, no
\* request is in a quick phase, and none is left for this thread to deserialise.
LEMMA ThreadBuffers ==
  ASSUME CoreInv, BufferInv, BeginUpdate \/ NextRequest \/ EndUpdate
  PROVE  BufferInv'
<1>1. /\ updating \in Seq(Requests) /\ Len(updating) \in Nat /\ at \in Nat
      /\ UNCHANGED <<status, req>>
  BY LenProperties DEF CoreInv, TypeOK, BeginUpdate, NextRequest, EndUpdate
<1>2. \A q \in Requests : req[q].serde = "here" => pc' = "serde"
  BY DEF BufferInv, BeginUpdate, NextRequest, EndUpdate, Thread
<1>3. Still
  <2>1. CASE BeginUpdate \/ EndUpdate
    BY <2>1 DEF BufferInv, FreshTurn, Still, BeginUpdate, EndUpdate, Thread
  <2>2. CASE NextRequest
    <3>1. ASSUME NEW q \in Requests, req[q].phase \in Quick
          PROVE  FALSE
      <4>1. FreshTurn(q)
        BY <3>1 DEF BufferInv
      <4>2. Leaves(req[q])
        BY <2>2, <4>1 DEF NextRequest, FreshTurn
      <4>3. spin = Spins
        BY <3>1, <4>2 DEF Leaves, Okay, Waiting, Quick
      <4>4. QED BY <4>1, <4>3, ConstantsTyped DEF FreshTurn
    <3>2. QED BY <3>1 DEF Still
  <2>3. QED BY <2>1, <2>2
<1>4. QED BY <1>1, <1>2, <1>3 DEF BufferInv, Still

(* Every step keeps the buffers in order.                                  *)
LEMMA BufferStep ==
  ASSUME BatchesHere, CoreInv, BufferInv, [Next]_vars
  PROVE  BufferInv'
<1>1. CASE ClearRequest \/ EndClear
  BY <1>1, ClearBuffers
<1>2. CASE UpdateRequest
  <2>1. PICK q : q = updating[at]
    OBVIOUS
  <2>2. QED BY <1>2, <2>1, UpdateBuffers
<1>3. CASE ScheduleSerde
  BY <1>3, ScheduleBuffers
<1>4. CASE BeginUpdate \/ NextRequest \/ EndUpdate
  BY <1>4, ThreadBuffers
<1>5. ASSUME NEW call \in calls, DependencyCall(call)
      PROVE  BufferInv'
  <2>1. call[3] \in Resources
    BY DEF CoreInv, TypeOK
  <2>2. UNCHANGED <<updating, pc, at, spin>>
    BY <1>5 DEF DependencyCall
  <2>3. CASE call[1] = "resolve" /\ LoadResource(call[2], call[3], TRUE) /\ calls' = calls \ {call}
    <3>1. CallsKept /\ TRUE \in BOOLEAN
      BY <2>3 DEF CallsKept
    <3>2. QED BY <2>1, <2>2, <2>3, <3>1, LoadBuffers
  <2>4. CASE call[1] = "unload" /\ UnloadResource(call[2], call[3], calls \ {call})
    <3>1. calls' \subseteq calls \cup Released(call[3])
      BY <2>4 DEF UnloadResource
    <3>2. \A q \in Requests : FreshTurn(q) => req[q].rec # call[3]
      BY <2>1, <2>4, UnderFacts DEF FreshTurn
    <3>3. CallsKept
      <4>1. SUFFICES ASSUME NEW q \in Requests, FreshTurn(q), NEW c \in Released(call[3])
                     PROVE  Under(c[3], req[q].rec)
        BY <3>1 DEF CallsKept
      <4>2. c[3] \in Deps[call[3]]
        BY DEF Released
      <4>3. Under(call[3], req[q].rec) /\ req[q].rec \in Resources
        BY <2>4, <4>1 DEF FreshTurn
      <4>4. QED BY <2>1, <4>2, <4>3, UnderFacts
    <3>4. \A q \in Requests : req[q].phase \in Quick => req[q].rec # call[3]
      BY <3>2 DEF BufferInv
    <3>5. QED BY <2>1, <2>2, <2>4, <3>3, <3>4, UnloadBuffers
  <2>5. QED BY <1>5, <2>3, <2>4 DEF DependencyCall
<1>6. ASSUME NEW c \in Clients, NEW r \in Roots, Resolve(c, r) \/ Unload(c, r)
      PROVE  BufferInv'
  <2>1. r \in Resources /\ UNCHANGED <<updating, pc, at, spin>> /\ pc = "idle"
    BY <1>6, ConstantsTyped DEF Resolve, Unload, Thread
  <2>2. Still
    BY <2>1 DEF BufferInv, FreshTurn, Still
  <2>3. CASE Resolve(c, r)
    <3>1. PICK install \in BOOLEAN : LoadResource(c, r, install)
      BY <2>3, ConstantsTyped DEF Resolve
    <3>2. CallsKept
      BY <2>2 DEF CallsKept, Still
    <3>3. QED BY <2>1, <3>1, <3>2, LoadBuffers
  <2>4. CASE Unload(c, r)
    <3>1. UnloadResource(c, r, {})
      BY <2>4 DEF Unload
    <3>2. CallsKept
      BY <2>2 DEF CallsKept, Still
    <3>3. QED BY <2>1, <2>2, <3>1, <3>2, UnloadBuffers DEF Still
  <2>5. QED BY <1>6, <2>3, <2>4
<1>7. CASE LoadTaskHere \/ Outside
  BY <1>7, LoadTaskBuffers, EndsBuffers DEF LoadTaskHere, Outside
<1>8. CASE UNCHANGED vars
  BY <1>8 DEF vars, BufferInv, FreshTurn
<1>9. QED
  BY <1>1, <1>2, <1>3, <1>4, <1>5, <1>6, <1>7, <1>8 DEF Next, MainThread, Client

(* When a factory does not both read through the I/O service and           *)
(* deserialise in a batch, and no batch is full, LoadTask reads a buffer    *)
(* the request owns, and no buffer is freed twice                          *)
(* (resource_request.cpp:110, :477, :499).                                 *)
THEOREM BuffersStay ==
  ASSUME BatchesHere
  PROVE  Spec => []BuffersLive
<1>1. Init => CoreInv /\ BufferInv
  BY CoreInit, BufferInit
<1>2. CoreInv /\ BufferInv /\ [Next]_vars => (CoreInv /\ BufferInv)'
  BY CoreStep, BufferStep
<1>3. BufferInv => BuffersLive
  BY DEF BufferInv, BufferAgrees, BuffersLive
<1>4. QED BY <1>1, <1>2, <1>3, PTL DEF Spec

=============================================================================
