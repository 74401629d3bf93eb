--------------------------- MODULE ResourceSystem ---------------------------
(***************************************************************************)
(* The resource system: records of resources with the references to them,  *)
(* one request per record that is loading or unloading, and Update(),      *)
(* which one thread calls again and again and which drives every request   *)
(* through its phases.  Clients resolve and unload handles on that same    *)
(* thread, between two updates.  The I/O service, the tasks that           *)
(* deserialise and the devices that install run beside it.                 *)
(*                                                                         *)
(* One step of Update() is one turn of a request's inner loop, one request *)
(* looked at by _ClearFinishedRequests, or one call of resolve or unload   *)
(* that Update() makes for a dependency (calls holds those still to make). *)
(*                                                                         *)
(* The model ends where the code touches freed or no memory (Defined).     *)
(***************************************************************************)
EXTENDS Naturals, FiniteSets, SequencesExt

CONSTANTS
    Resources,      \* guids
    Deps,           \* the dependencies a resource's header lists
    Clients,        \* owners of handles
    Roots,          \* the resources clients have handles of
    Modes,          \* the values of requireInstalled clients pass
    Factories,      \* resources whose type has a factory
    AsyncIO,        \* resources whose factory reads through the I/O service
    AsyncSerde,     \* resources whose factory has a load factor other than 0
    OwnUnload,      \* resources whose factory overrides Unload, and keeps the dependencies
    BatchSize,      \* how many loads use up the time budget of one task
    Fails,          \* which of "open", "serde" and "install" may fail
    MaxRequests,    \* bound: request objects at a time
    Spins,          \* bound: turns of a request that changes nothing (16 in the code)
    NoRequest, NoRecord

Requests == 1..MaxRequests

ASSUME DependenciesAcyclic ==
    /\ Deps \in [Resources -> SUBSET Resources]
    /\ \E rank \in [Resources -> 0..Cardinality(Resources)] :
          \A r \in Resources : \A d \in Deps[r] : rank[d] < rank[r]
ASSUME ConstantsTyped ==
    /\ Roots \subseteq Resources /\ Factories \subseteq Resources
    /\ AsyncIO \subseteq Resources /\ AsyncSerde \subseteq Resources /\ OwnUnload \subseteq Resources
    /\ Modes \subseteq BOOLEAN
    /\ Fails \subseteq {"open", "serde", "install"}
    /\ BatchSize \in Nat \ {0} /\ Spins \in Nat \ {0} /\ MaxRequests \in Nat
    /\ Clients \cap Resources = {}
    /\ NoRequest \notin Requests /\ NoRecord \notin Resources

VARIABLES
    status,     \* loadingStatus of the record of a resource, "ABSENT" without a record
    refs,       \* who refers to the record: clients, and resources as dependants
    active,     \* the record's activeRequest
    object,     \* history: what the factory has made of the record's object
    req,        \* the request objects
    queue,      \* requests enqueued since the last update
    updating,   \* toUpdateRequests
    failed,     \* failedRequests
    pc,         \* what the thread is doing: "idle" is the clients' code
    at,         \* the request it is at
    spin,       \* spinCounter
    calls,      \* resolve and unload calls for dependencies, still to be made
    overlooked  \* history: LoadResource took a record that was to be unloaded for loaded

vars == <<status, refs, active, object, req, queue, updating, failed, pc, at, spin, calls, overlooked>>

Statuses == {"ABSENT", "UNLOADED", "LOADING", "LOADED", "INSTALLING", "INSTALLED",
             "UNINSTALLING", "UNLOADING", "ERROR"}
Phases == {"NONE", "REQUEST_RESOURCE", "IO", "WAITFOR_IO", "DESER_RESOURCE",
           "WAITFOR_LOAD_RESOURCE", "WAITFOR_LOAD_DEPENDENCIES", "INSTALL_RESOURCE",
           "WAITFOR_INSTALL_RESOURCE", "UNINSTALL_RESOURCE", "UNLOAD_RESOURCE",
           "CANCLE_WAITFOR_IO", "CANCEL_WAITFOR_LOAD_RESOURCE",
           "CANCEL_WAITFOR_INSTALL_RESOURCE", "CANCEL_WAITFOR_LOAD_DEPENDENCIES", "FINISHED"}

\* A request object: io is the state of ioRequest, serde says where LoadTask
\* runs ("no": not scheduled, or its result was used; "done": the event is
\* signalled), built how far an installation of the factory has got.  A field
\* is reset when it cannot be read again.
RequestType ==
    [rec : Resources \cup {NoRecord}, phase : Phases, isLoading : BOOLEAN,
     requireLoading : BOOLEAN, requestInstall : BOOLEAN, dependenciesLoaded : BOOLEAN,
     data : {"null", "owned", "freed", "freedTwice"}, io : {"none", "pending", "ready"},
     serde : {"no", "here", "task", "done"}, serdeResult : BOOLEAN,
     built : {"none", "pending", "succeed", "failed"}]

NewRequest(r, phase, load, install) ==
    [rec |-> r, phase |-> phase, isLoading |-> load, requireLoading |-> load,
     requestInstall |-> install, dependenciesLoaded |-> FALSE, data |-> "null",
     io |-> "none", serde |-> "no", serdeResult |-> FALSE, built |-> "none"]

\* A deleted request: only what others still write to is remembered.
Deleted(x) ==
    [NewRequest(NoRecord, "NONE", FALSE, FALSE) EXCEPT
        !.io = IF x.io = "pending" THEN "pending" ELSE "none",
        !.serde = IF x.serde = "task" THEN "task" ELSE "no"]

TypeOK ==
    /\ status \in [Resources -> Statuses]
    /\ refs \in [Resources -> SUBSET (Clients \cup Resources)]
    /\ active \in [Resources -> Requests \cup {NoRequest}]
    /\ object \in [Resources -> {"none", "loaded", "installed"}]
    /\ req \in [Requests -> RequestType]
    /\ queue \in Seq(Requests) /\ updating \in Seq(Requests) /\ failed \subseteq Requests
    /\ pc \in {"idle", "clear", "update", "serde"}
    /\ at \in 1..(Len(updating) + 1) /\ spin \in 0..Spins
    /\ calls \subseteq {"resolve", "unload"} \X Resources \X Resources
    /\ overlooked \subseteq Resources

Init ==
    /\ status = [r \in Resources |-> "ABSENT"]
    /\ refs = [r \in Resources |-> {}]
    /\ active = [r \in Resources |-> NoRequest]
    /\ object = [r \in Resources |-> "none"]
    /\ req = [q \in Requests |-> NewRequest(NoRecord, "NONE", FALSE, FALSE)]
    /\ queue = <<>> /\ updating = <<>> /\ failed = {}
    /\ pc = "idle" /\ at = 1 /\ spin = 0 /\ calls = {} /\ overlooked = {}

----------------------------------------------------------------------------
(* Up to where the code is defined.                                        *)

\* Mutant: what is required in the meantime is ignored.
OkayAnyway(x) == x.phase = "FINISHED" /\ (x.requestInstall => x.rec # NoRecord)

Okay(x) ==
    /\ x.phase = "FINISHED"
    /\ x.isLoading = x.requireLoading
    /\ x.requestInstall => x.rec # NoRecord /\ status[x.rec] # "LOADED"

Failed(x) == x.rec # NoRecord => status[x.rec] = "ERROR"

\* A record somebody holds a handle of is not destroyed: _DestroyRecord is for
\* records without references (resource_system.cpp:106, :194, :307).
HandlesLive == \A r \in Resources : refs[r] # {} => status[r] # "ABSENT"

\* While the I/O service may still write to a request's ioDestination, the
\* request waits for it: neither finished, nor deleted, nor issued again
\* (resource_request.cpp:449).
IOTargetsLive ==
    \A q \in Requests : req[q].io = "pending" => req[q].phase = "WAITFOR_IO"

\* What LoadTask reads is a buffer the request owns, and no buffer is freed
\* twice (resource_request.cpp:110, :477, :499).
BuffersLive ==
    \A q \in Requests :
        /\ req[q].serde \in {"here", "task"} => req[q].data = "owned"
        /\ req[q].phase = "DESER_RESOURCE" => req[q].data = "owned"
        /\ req[q].data # "freedTwice"

\* Mutant: serdeScheduled is not tested.
WaitingStill(x) == x.phase = "WAITFOR_LOAD_RESOURCE"

Waiting(x) == x.phase = "WAITFOR_LOAD_RESOURCE" /\ x.serde = "no"     \* AsyncSerde()

Leaves(x) == Okay(x) \/ Waiting(x) \/ spin = Spins

\* A request has its record when it has a turn or deserialises: records go while
\* Update() walks over the requests (resource_system.cpp:111, :353, :411).  It
\* does not when clients hold dependencies, too: see the README.
RequestsHaveRecords ==
    /\ pc = "update" /\ at <= Len(updating) /\ ~Leaves(req[updating[at]]) =>
           req[updating[at]].rec # NoRecord
    /\ \A q \in Requests : req[q].serde \in {"here", "task"} => req[q].rec # NoRecord

\* A request reads its file with the factory of its type (resource_request.cpp:270).
FactoriesFound == \A q \in Requests : req[q].phase = "IO" => req[q].rec \in Factories

Defined ==
    HandlesLive /\ IOTargetsLive /\ BuffersLive /\ RequestsHaveRecords /\ FactoriesFound

\* The thread is in that part of its code, and not at a call for a dependency.
Thread(part) == pc = part /\ calls = {} /\ Defined

----------------------------------------------------------------------------
(* Records, and the calls on a handle.                                     *)

Satisfied(r, install) ==
    \/ ~install /\ status[r] \in {"LOADED", "INSTALLING", "INSTALLED", "UNINSTALLING"}
    \/ install /\ status[r] = "INSTALLED"
    \/ status[r] = "ERROR"

\* A new request object (which one it is says nothing) is enqueued.
Enqueue(x) ==
    \E q \in Requests :
        /\ req[q].phase = "NONE" /\ \A p \in 1..(q - 1) : req[p].phase # "NONE"
        /\ req' = [req EXCEPT ![q] = x]
        /\ active' = [active EXCEPT ![x.rec] = q]
        /\ queue' = Append(queue, q)

BeingUnloaded(r) == active[r] # NoRequest /\ ~req[active[r]].requireLoading

\* The first case returns early, even when the active request unloads.
LoadResource(h, r, install) ==
    /\ refs' = [refs EXCEPT ![r] = @ \cup {h}]
    /\ \/ /\ Satisfied(r, install)
          /\ overlooked' = IF BeingUnloaded(r) THEN overlooked \cup {r} ELSE overlooked
          /\ UNCHANGED <<status, active, req, queue>>
       \/ /\ ~Satisfied(r, install) /\ active[r] # NoRequest
          /\ req' = [req EXCEPT ![active[r]].requireLoading = TRUE,
                                ![active[r]].requestInstall = install]
          /\ UNCHANGED <<status, active, queue, overlooked>>
       \/ /\ ~Satisfied(r, install) /\ active[r] = NoRequest
          /\ Enqueue(NewRequest(r, "REQUEST_RESOURCE", TRUE, install))
          /\ status' = [status EXCEPT ![r] = "LOADING"]
          /\ overlooked' = overlooked \ {r}
    /\ UNCHANGED object

\* The calls that release the handles in a record's header.
Released(r) == {<<"unload", r, d>> : d \in {d \in Deps[r] : r \in refs[d]}}
Resolved(r) == {<<"resolve", r, d>> : d \in {d \in Deps[r] : r \notin refs[d]}}

\* Mutant: the request of the record that goes is not forgotten.
DestroyRecordOnly(r) ==
    /\ status' = [status EXCEPT ![r] = "ABSENT"]
    /\ object' = [object EXCEPT ![r] = "none"]
    /\ UNCHANGED active

\* The record goes; a handle that still refers to it is left dangling.
DestroyRecord(r) ==
    /\ status' = [status EXCEPT ![r] = "ABSENT"]
    /\ object' = [object EXCEPT ![r] = "none"]
    /\ active' = [active EXCEPT ![r] = NoRequest]

UnloadResource(h, r, more) ==
    /\ refs' = [refs EXCEPT ![r] = @ \ {h}]
    /\ \/ /\ refs[r] # {h}
          /\ calls' = more
          /\ UNCHANGED <<status, active, object, req, queue>>
       \/ /\ refs[r] = {h} /\ status[r] \in {"ERROR", "UNLOADED"}
          /\ DestroyRecord(r)
          /\ req' = [q \in Requests |-> IF q = active[r] THEN [req[q] EXCEPT !.rec = NoRecord]
                                                         ELSE req[q]]
          /\ calls' = more \cup Released(r)
          /\ UNCHANGED queue
       \/ /\ refs[r] = {h} /\ status[r] \notin {"ERROR", "UNLOADED"}
          /\ active[r] # NoRequest
          /\ req' = [req EXCEPT ![active[r]].requireLoading = FALSE]
          /\ calls' = more
          /\ UNCHANGED <<status, active, object, queue>>
       \/ /\ refs[r] = {h} /\ status[r] \in {"INSTALLED", "LOADED"}
          /\ active[r] = NoRequest
          /\ Enqueue(NewRequest(r, IF status[r] = "INSTALLED" THEN "UNINSTALL_RESOURCE"
                                                              ELSE "UNLOAD_RESOURCE", FALSE, FALSE))
          /\ status' = [status EXCEPT ![r] = IF @ = "INSTALLED" THEN "UNINSTALLING"
                                                                ELSE "UNLOADING"]
          /\ calls' = more
          /\ UNCHANGED object

\* A client's handle is resolved, or unloaded (also by its destructor).
Resolve(c, r) ==
    /\ Thread("idle") /\ c \notin refs[r]
    /\ \E install \in Modes : LoadResource(c, r, install)
    /\ UNCHANGED <<updating, failed, pc, at, spin, calls>>

Unload(c, r) ==
    /\ Thread("idle") /\ c \in refs[r]
    /\ UnloadResource(c, r, {})
    /\ UNCHANGED <<updating, failed, pc, at, spin, overlooked>>

\* A dependency of a resource is resolved or unloaded, in Update().  A turn that
\* does both lets the old handles go first.
DependencyCall(call) ==
    /\ call \in calls /\ Defined
    /\ call[1] = "resolve" => \A c \in calls : c[1] = "resolve"
    /\ \/ /\ call[1] = "resolve"
          /\ LoadResource(call[2], call[3], TRUE)
          /\ calls' = calls \ {call}
       \/ /\ call[1] = "unload"
          /\ UnloadResource(call[2], call[3], calls \ {call})
          /\ UNCHANGED overlooked
    /\ UNCHANGED <<updating, failed, pc, at, spin>>

----------------------------------------------------------------------------
(* Update(): requests enqueued since are taken over, finished ones cleared. *)

BeginUpdate ==
    /\ Thread("idle")
    /\ updating' = updating \o queue /\ queue' = <<>>
    /\ pc' = "clear" /\ at' = 1
    /\ UNCHANGED <<status, refs, active, object, req, failed, spin, calls, overlooked>>

\* Mutant: erases one element too many.
ErasedTwo == SubSeq(updating, 1, at - 2) \o SubSeq(updating, at + 1, Len(updating))

\* What is left of the list when the request it is at leaves it.
Erased == RemoveAt(updating, at)

\* A request that is okay is deleted, and its record too when it unloaded it.
ClearOkay(q, x) ==
    /\ Okay(x)
    /\ req' = [req EXCEPT ![q] = Deleted(x)]
    /\ updating' = Erased
    /\ \/ /\ x.rec # NoRecord /\ ~x.isLoading
          /\ DestroyRecord(x.rec)
          /\ calls' = Released(x.rec)
       \/ /\ x.rec # NoRecord /\ x.isLoading
          /\ active' = [active EXCEPT ![x.rec] = NoRequest]
          /\ UNCHANGED <<status, object, calls>>
       \/ x.rec = NoRecord /\ UNCHANGED <<status, active, object, calls>>
    /\ UNCHANGED <<failed, at>>

ClearFailed(q, x) ==
    /\ ~Okay(x) /\ Failed(x)
    /\ failed' = failed \cup {q}
    /\ updating' = Erased
    /\ UNCHANGED <<status, active, object, req, calls, at>>

KeepRequest(x) ==
    /\ ~Okay(x) /\ ~Failed(x)
    /\ at' = at + 1
    /\ UNCHANGED <<status, active, object, req, updating, failed, calls>>

ClearRequest ==
    /\ Thread("clear") /\ at <= Len(updating)
    /\ LET q == updating[at]
       IN  ClearOkay(q, req[q]) \/ ClearFailed(q, req[q]) \/ KeepRequest(req[q])
    /\ UNCHANGED <<refs, queue, pc, spin, overlooked>>

\* failedRequests whose record is gone are deleted.
EndClear ==
    /\ Thread("clear") /\ at > Len(updating)
    /\ req' = [q \in Requests |-> IF q \in failed /\ req[q].rec = NoRecord
                                  THEN Deleted(req[q]) ELSE req[q]]
    /\ failed' = {q \in failed : req[q].rec # NoRecord}
    /\ pc' = "update" /\ at' = 1 /\ spin' = 0
    /\ UNCHANGED <<status, refs, active, object, queue, updating, calls, overlooked>>

----------------------------------------------------------------------------
(* One turn of a request.  When what is required has changed, the phase is *)
(* first redirected (SKR_HALT() for the other phases is empty in a release *)
(* build); then the handler of the phase runs.                             *)

\* The case of CANCLE_WAITFOR_IO falls through into the next one.
UpdateLoad(x) ==
    CASE x.phase = "FINISHED" -> <<"REQUEST_RESOURCE", "LOADING">>
      [] x.phase = "UNINSTALL_RESOURCE" -> <<"FINISHED", "INSTALLED">>
      [] x.phase \in {"CANCLE_WAITFOR_IO", "CANCEL_WAITFOR_LOAD_RESOURCE"} ->
            <<"WAITFOR_LOAD_RESOURCE", "LOADING">>
      [] x.phase = "CANCEL_WAITFOR_INSTALL_RESOURCE" ->
            <<"WAITFOR_INSTALL_RESOURCE", "INSTALLING">>
      [] x.phase = "CANCEL_WAITFOR_LOAD_DEPENDENCIES" ->
            <<"WAITFOR_LOAD_DEPENDENCIES", "LOADING">>
      [] x.phase = "UNLOAD_RESOURCE" /\ ~x.requestInstall -> <<"FINISHED", "LOADED">>
      [] x.phase = "UNLOAD_RESOURCE" /\ x.requestInstall -> <<"INSTALL_RESOURCE", "LOADING">>
      [] OTHER -> <<x.phase, "LOADING">>

UpdateUnload(x) ==
    CASE x.phase \in {"IO", "DESER_RESOURCE"} -> <<"FINISHED", "UNLOADED">>
      [] x.phase = "WAITFOR_IO" -> <<"CANCLE_WAITFOR_IO", "UNLOADING">>
      [] x.phase = "WAITFOR_LOAD_RESOURCE" -> <<"CANCEL_WAITFOR_LOAD_RESOURCE", "UNLOADING">>
      [] x.phase = "WAITFOR_LOAD_DEPENDENCIES" ->
            <<"CANCEL_WAITFOR_LOAD_DEPENDENCIES", "UNLOADING">>
      [] x.phase = "INSTALL_RESOURCE" -> <<"UNLOAD_RESOURCE", "UNLOADING">>
      [] x.phase = "FINISHED" -> <<"UNINSTALL_RESOURCE", "UNINSTALLING">>
      [] x.phase = "WAITFOR_INSTALL_RESOURCE" ->
            <<"CANCEL_WAITFOR_INSTALL_RESOURCE", "UNINSTALLING">>
      [] OTHER -> <<x.phase, "UNLOADING">>

Freed(data) ==
    CASE data = "null" -> "null" [] data = "owned" -> "freed" [] OTHER -> "freedTwice"

Redirected(x) ==
    IF x.isLoading = x.requireLoading THEN x
    ELSE [x EXCEPT !.isLoading = x.requireLoading,
                   !.phase = IF x.requireLoading THEN UpdateLoad(x)[1] ELSE UpdateUnload(x)[1],
                   !.data = IF ~x.requireLoading /\ x.phase \in {"IO", "DESER_RESOURCE"}
                            THEN Freed(@) ELSE @]

RedirectedStatus(x) ==
    IF x.isLoading = x.requireLoading THEN status[x.rec]
    ELSE IF x.requireLoading THEN UpdateLoad(x)[2] ELSE UpdateUnload(x)[2]

\* What a turn leaves: the request and its record's status.
Becomes(q, x, st) ==
    /\ req' = [req EXCEPT ![q] = x]
    /\ status' = [status EXCEPT ![x.rec] = st]
    /\ spin' = IF x.phase = req[q].phase THEN spin + 1 ELSE 0

LoadDependencies(x) == IF x.dependenciesLoaded THEN {} ELSE Resolved(x.rec)

\* The factory's Unload clears the header's dependencies, unless it is its own.
UnloadDependencies(x) ==
    IF x.rec \in OwnUnload /\ ~x.dependenciesLoaded THEN {} ELSE Released(x.rec)

\* The header that was read takes the place of the record's: whatever its handles
\* held is let go, and none is resolved.
FillRequest(x) == Released(x.rec)

\* Update() goes on to IO whenever the header was read, also without a factory.
RequestResource(q, x) ==
    /\ x.phase = "REQUEST_RESOURCE"
    /\ \/ LET load == x.rec \in Factories /\ x.requestInstall
          IN  /\ Becomes(q, [x EXCEPT !.phase = "IO", !.dependenciesLoaded = @ \/ load],
                         IF x.rec \in Factories THEN RedirectedStatus(req[q]) ELSE "ERROR")
              /\ calls' = FillRequest(x) \cup
                     (IF load /\ ~x.dependenciesLoaded
                      THEN {<<"resolve", x.rec, d>> : d \in Deps[x.rec]} ELSE {})
       \/ /\ "open" \in Fails
          /\ Becomes(q, [x EXCEPT !.phase = "FINISHED"], "ERROR")
          /\ calls' = {}
    /\ UNCHANGED object

IO(q, x) ==
    /\ x.phase = "IO"
    /\ \/ /\ x.rec \in AsyncIO
          /\ Becomes(q, [x EXCEPT !.phase = "WAITFOR_IO", !.io = "pending"], "LOADING")
       \/ /\ x.rec \notin AsyncIO
          /\ Becomes(q, [x EXCEPT !.phase = "DESER_RESOURCE", !.data = "owned"], "LOADING")
    /\ UNCHANGED <<object, calls>>

\* Mutant: deserialisation does not wait for the data.
WaitForNoIO(q, x) ==
    /\ x.phase = "WAITFOR_IO"
    /\ Becomes(q, [x EXCEPT !.phase = "DESER_RESOURCE"], RedirectedStatus(req[q]))
    /\ UNCHANGED <<object, calls>>

WaitForIO(q, x) ==
    /\ x.phase = "WAITFOR_IO"
    /\ LET data == IF x.io = "ready" THEN "owned" ELSE x.data
       IN  Becomes(q, [x EXCEPT !.data = data, !.io = IF @ = "ready" THEN "none" ELSE @,
                                !.phase = IF data = "null" THEN @ ELSE "DESER_RESOURCE"],
                   RedirectedStatus(req[q]))
    /\ UNCHANGED <<object, calls>>

Results(what) == IF what \in Fails THEN BOOLEAN ELSE {TRUE}

\* LoadTask: the factory deserialises, or fails and makes nothing.
Deserialized(x, ok) ==
    object' = [object EXCEPT ![x.rec] = IF ok THEN "loaded" ELSE @]

\* What follows deserialisation: an error, or _LoadFinished.
LoadFinished(q, x, ok) ==
    \/ /\ ~ok
       /\ Becomes(q, [x EXCEPT !.phase = "FINISHED"], "ERROR")
       /\ calls' = {}
    \/ /\ ok /\ ~x.requestInstall
       /\ Becomes(q, [x EXCEPT !.phase = "FINISHED", !.data = "null",
                               !.dependenciesLoaded = FALSE], "LOADED")
       /\ calls' = IF x.dependenciesLoaded THEN Released(x.rec) ELSE {}
    \/ /\ ok /\ x.requestInstall /\ Deps[x.rec] # {}
       /\ Becomes(q, [x EXCEPT !.phase = "WAITFOR_LOAD_DEPENDENCIES", !.data = "null",
                               !.dependenciesLoaded = TRUE], "LOADED")
       /\ calls' = LoadDependencies(x)
    \/ /\ ok /\ x.requestInstall /\ Deps[x.rec] = {}
       /\ Becomes(q, [x EXCEPT !.phase = "INSTALL_RESOURCE", !.data = "null"], "LOADED")
       /\ calls' = {}

DeserResource(q, x) ==
    /\ x.phase = "DESER_RESOURCE"
    /\ \/ /\ x.rec \in AsyncSerde
          /\ Becomes(q, [x EXCEPT !.phase = "WAITFOR_LOAD_RESOURCE", !.serde = "no"],
                     RedirectedStatus(req[q]))
          /\ UNCHANGED <<object, calls>>
       \/ /\ x.rec \notin AsyncSerde
          /\ \E ok \in Results("serde") :
                Deserialized(x, ok) /\ LoadFinished(q, x, ok)

WaitForLoad(q, x) ==
    /\ x.phase = "WAITFOR_LOAD_RESOURCE"
    /\ \/ x.serde = "done" /\ LoadFinished(q, [x EXCEPT !.serde = "no", !.serdeResult = FALSE], x.serdeResult)
       \/ x.serde # "done" /\ Becomes(q, x, RedirectedStatus(req[q])) /\ UNCHANGED calls
    /\ UNCHANGED object

\* Mutant: the status of a dependency is not looked at.
DependencyReady(r, d) == "INSTALLED"

\* A handle that is not resolved answers UNLOADED.
DependencyStatus(r, d) == IF r \in refs[d] THEN status[d] ELSE "UNLOADED"

WaitForDependencies(q, x) ==
    /\ x.phase = "WAITFOR_LOAD_DEPENDENCIES"
    /\ LET answers == {DependencyStatus(x.rec, d) : d \in Deps[x.rec]}
       IN  \/ /\ "ERROR" \in answers
              /\ Becomes(q, [x EXCEPT !.phase = "FINISHED", !.dependenciesLoaded = FALSE], "ERROR")
              /\ object' = [object EXCEPT ![x.rec] = "none"]
              /\ calls' = UnloadDependencies(x)
           \/ /\ "ERROR" \notin answers
              /\ Becomes(q, [x EXCEPT !.phase = IF answers \subseteq {"INSTALLED"}
                                                THEN "INSTALL_RESOURCE" ELSE @],
                         RedirectedStatus(req[q]))
              /\ UNCHANGED <<object, calls>>

\* The factory's Install succeeds, fails, or goes on in the background.
InstallResource(q, x) ==
    /\ x.phase = "INSTALL_RESOURCE"
    /\ \/ /\ Becomes(q, [x EXCEPT !.phase = "FINISHED"], "INSTALLED")
          /\ object' = [object EXCEPT ![x.rec] = "installed"]
       \/ /\ Becomes(q, [x EXCEPT !.phase = "WAITFOR_INSTALL_RESOURCE", !.built = "pending"],
                     "INSTALLING")
          /\ object' = [object EXCEPT ![x.rec] = "installed"]
       \/ /\ "install" \in Fails
          /\ Becomes(q, [x EXCEPT !.phase = "FINISHED"], "ERROR")
          /\ UNCHANGED object
    /\ UNCHANGED calls

WaitForInstall(q, x) ==
    /\ x.phase = "WAITFOR_INSTALL_RESOURCE"
    /\ \/ /\ x.built = "succeed"
          /\ Becomes(q, [x EXCEPT !.phase = "FINISHED", !.built = "none"], "INSTALLED")
       \/ /\ x.built = "failed"
          /\ Becomes(q, [x EXCEPT !.phase = "FINISHED", !.built = "none"], "ERROR")
       \/ x.built = "pending" /\ Becomes(q, x, RedirectedStatus(req[q]))
    /\ UNCHANGED <<object, calls>>

\* The special case of a finished request that has still something to do.
Finished(q, x) ==
    /\ x.phase = "FINISHED"
    /\ LoadFinished(q, x, TRUE)
    /\ UNCHANGED object

\* request_cancel was cleared when the I/O was requested, so that a pending
\* request is cancelled (defer_cancel) and not waited for.
CancelIO(q, x) ==
    /\ x.phase = "CANCLE_WAITFOR_IO"
    /\ Becomes(q, [x EXCEPT !.phase = "FINISHED", !.io = IF @ = "ready" THEN "none" ELSE @],
               "UNLOADED")
    /\ UNCHANGED <<object, calls>>

\* Mutant: the factory is not called to uninstall.
UninstallNothing(q, x) ==
    /\ x.phase \in {"CANCEL_WAITFOR_INSTALL_RESOURCE", "UNINSTALL_RESOURCE"}
    /\ Becomes(q, [x EXCEPT !.phase = "FINISHED", !.built = "none"], "UNLOADED")
    /\ UNCHANGED <<object, calls>>

Uninstall(q, x) ==
    /\ x.phase \in {"CANCEL_WAITFOR_INSTALL_RESOURCE", "UNINSTALL_RESOURCE"}
    /\ Becomes(q, [x EXCEPT !.phase = "UNLOAD_RESOURCE", !.built = "none"], "LOADED")
    /\ object' = [object EXCEPT ![x.rec] = "loaded"]
    /\ UNCHANGED calls

UnloadObject(q, x) ==
    /\ x.phase \in {"CANCEL_WAITFOR_LOAD_RESOURCE", "CANCEL_WAITFOR_LOAD_DEPENDENCIES",
                    "UNLOAD_RESOURCE"}
    /\ Becomes(q, [x EXCEPT !.phase = "FINISHED", !.data = Freed(@),
                            !.dependenciesLoaded = FALSE, !.serdeResult = FALSE,
                            !.serde = IF @ = "done" THEN "no" ELSE @], "UNLOADED")
    /\ object' = [object EXCEPT ![x.rec] = "none"]
    /\ calls' = UnloadDependencies(x)

UpdateRequest ==
    /\ Thread("update") /\ at <= Len(updating)
    /\ LET q == updating[at]
           x == Redirected(req[q])
       IN  /\ ~Leaves(req[q])
           /\ \/ RequestResource(q, x) \/ IO(q, x) \/ WaitForIO(q, x) \/ DeserResource(q, x)
              \/ WaitForLoad(q, x) \/ WaitForDependencies(q, x) \/ InstallResource(q, x)
              \/ WaitForInstall(q, x) \/ Finished(q, x) \/ CancelIO(q, x)
              \/ Uninstall(q, x) \/ UnloadObject(q, x)
    /\ UNCHANGED <<refs, active, queue, updating, failed, pc, at, overlooked>>

NextRequest ==
    /\ Thread("update") /\ at <= Len(updating)
    /\ Leaves(req[updating[at]])
    /\ at' = at + 1 /\ spin' = 0
    /\ UNCHANGED <<status, refs, active, object, req, queue, updating, failed, pc, calls, overlooked>>

\* _UpdateAsyncSerde: every full batch becomes a task, the rest runs here.
ScheduleSerde ==
    /\ Thread("update") /\ at > Len(updating)
    /\ LET waiting == {i \in DOMAIN updating : Waiting(req[updating[i]])}
           upTo(i) == Cardinality({j \in waiting : j <= i})
           tasks == (Cardinality(waiting) \div BatchSize) * BatchSize
       IN  req' = [q \in Requests |->
              IF \E i \in waiting : updating[i] = q
              THEN [req[q] EXCEPT !.serde = IF \E i \in waiting : updating[i] = q /\ upTo(i) <= tasks
                                            THEN "task" ELSE "here"]
              ELSE req[q]]
    /\ pc' = "serde"
    /\ UNCHANGED <<status, refs, active, object, queue, updating, failed, at, spin, calls, overlooked>>

LoadTask(q, where) ==
    /\ req[q].serde = where /\ Defined
    /\ \E ok \in Results("serde") :
          /\ req' = [req EXCEPT ![q].serde = "done", ![q].serdeResult = ok]
          /\ Deserialized(req[q], ok)
    /\ UNCHANGED <<status, refs, active, queue, updating, failed, pc, at, spin, calls, overlooked>>

LoadTaskHere == Thread("serde") /\ \E q \in Requests : LoadTask(q, "here")

EndUpdate ==
    /\ Thread("serde") /\ \A q \in Requests : req[q].serde # "here"
    /\ pc' = "idle" /\ at' = 1
    /\ UNCHANGED <<status, refs, active, object, req, queue, updating, failed, spin, calls, overlooked>>

----------------------------------------------------------------------------
(* What goes on beside: I/O ends, an installation in the background ends.  *)

IOEnds(q) ==
    /\ req[q].io = "pending"
    /\ req' = [req EXCEPT ![q].io = "ready"]
    /\ UNCHANGED <<status, refs, active, object, queue, updating, failed, pc, at, spin, calls, overlooked>>

InstallEnds(q) ==
    /\ req[q].built = "pending"
    /\ \E ok \in Results("install") :
          req' = [req EXCEPT ![q].built = IF ok THEN "succeed" ELSE "failed"]
    /\ UNCHANGED <<status, refs, active, object, queue, updating, failed, pc, at, spin, calls, overlooked>>

MainThread ==
    \/ BeginUpdate \/ ClearRequest \/ EndClear
    \/ UpdateRequest \/ NextRequest \/ ScheduleSerde \/ LoadTaskHere \/ EndUpdate
    \/ \E call \in calls : DependencyCall(call)

Client == \E c \in Clients, r \in Roots : Resolve(c, r) \/ Unload(c, r)

Outside == \E q \in Requests : IOEnds(q) \/ InstallEnds(q) \/ LoadTask(q, "task")

Next == MainThread \/ Client \/ Outside

\* The game calls Update() every frame; I/O, installations and tasks end.
Fairness ==
    /\ WF_vars(MainThread)
    /\ \A q \in Requests :
          WF_vars(IOEnds(q)) /\ WF_vars(InstallEnds(q)) /\ WF_vars(LoadTask(q, "task"))

Spec == Init /\ [][Next]_vars
FairSpec == Spec /\ Fairness

----------------------------------------------------------------------------
(* Safety.                                                                 *)

\* A record and its request agree: the active request of a record is a request
\* for it that the system still drives, or one that failed and is kept until
\* the record goes; and every request that is driven is the active one of its
\* record (resource_system.cpp:109, :303, :316).
RequestsAgree ==
    LET driven == {queue[i] : i \in DOMAIN queue} \cup {updating[i] : i \in DOMAIN updating}
    IN  /\ \A r \in Resources : active[r] # NoRequest =>
              /\ req[active[r]].rec = r
              /\ active[r] \in driven \cup failed
        /\ \A q \in driven : req[q].rec # NoRecord => active[req[q].rec] = q
        /\ Len(queue) + Len(updating) = Cardinality(driven)

\* A record is destroyed under a handle only when LoadResource overlooked that it
\* was being unloaded (resource_system.cpp:158).
HeldRecordsLive ==
    \A r \in Resources : refs[r] # {} /\ status[r] = "ABSENT" => r \in overlooked

\* An installed resource has its dependencies: it holds them, and they are installed,
\* but for one that LoadResource took for installed while it was being unloaded
\* (resource_request.cpp:374-407).
DependenciesInstalled ==
    \A r \in Resources : status[r] = "INSTALLED" =>
        \A d \in Deps[r] : r \in refs[d] /\ (status[d] = "INSTALLED" \/ d \in overlooked)

\* A status tells what the factory has made: an installed resource was installed
\* and not uninstalled, an unloaded one left nothing behind
\* (resource_request.cpp:230, :466-484).
StatusTruthful ==
    \A r \in Resources :
        /\ status[r] = "INSTALLED" => object[r] = "installed"
        /\ status[r] \in {"UNLOADED", "ABSENT"} => object[r] = "none"

----------------------------------------------------------------------------
(* Liveness.                                                               *)

\* What somebody holds is loaded, and what is being loaded to be installed is
\* installed, or has failed, unless it is let go before
\* (resource_system.cpp:348-363, resource_request.cpp:374-407).
LoadsEnd ==
    LET ToInstall(r) == active[r] # NoRequest /\ req[active[r]].requestInstall
        Over(r) == status[r] = "ERROR" \/ refs[r] = {} \/ ~Defined
    IN  \A r \in Resources :
            /\ refs[r] # {} ~> (status[r] \in {"LOADED", "INSTALLING", "INSTALLED"} \/ Over(r))
            /\ (refs[r] # {} /\ ToInstall(r)) ~> (status[r] = "INSTALLED" \/ Over(r))

\* What nobody holds is destroyed, unless somebody takes it again
\* (resource_system.cpp:201, :304).
UnloadsEnd ==
    \A r \in Resources :
        (refs[r] = {}) ~> (status[r] = "ABSENT" \/ refs[r] # {} \/ ~Defined)
=============================================================================
