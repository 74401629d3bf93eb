---------------------------- MODULE AsyncRequest ----------------------------
(***************************************************************************)
(* What an asynchronous service promises about one skr_async_request_t, as *)
(* its client sees it through the status callbacks of the task.  A request *)
(* is issued; then either it is cancelled before the service took it up,   *)
(* or it goes through every loading stage in order, up to OK.  Each issue  *)
(* ends exactly once, and only an ended request may be issued again.       *)
(*                                                                         *)
(* Stages is the order in which the service announces its progress: the    *)
(* RAM service announces RamStages, the threaded service ThreadedStages.   *)
(***************************************************************************)
EXTENDS Naturals, Sequences

CONSTANTS Requests, Stages

RamStages      == <<"creating_resource", "ram_loading", "ok">>
ThreadedStages == <<"ok">>

VARIABLE phase

Status == {"none", "enqueued", "cancelled", "creating_resource",
           "ram_loading", "ok"}

(* SkrAsyncIOStatus values after which the service forgets the request.    *)
Ended == {"ok", "cancelled"}

TypeOK == phase \in [Requests -> Status]

Init == phase = [r \in Requests |-> "none"]

Issue(r) ==
  /\ phase[r] \in Ended \cup {"none"}
  /\ phase' = [phase EXCEPT ![r] = "enqueued"]

Cancel(r) ==
  /\ phase[r] = "enqueued"
  /\ phase' = [phase EXCEPT ![r] = "cancelled"]

TakeUp(r) ==
  /\ phase[r] = "enqueued"
  /\ phase' = [phase EXCEPT ![r] = Stages[1]]

Progress(r) ==
  \E i \in 1..Len(Stages)-1 :
    /\ phase[r] = Stages[i]
    /\ phase' = [phase EXCEPT ![r] = Stages[i+1]]

Next == \E r \in Requests : Issue(r) \/ Cancel(r) \/ TakeUp(r) \/ Progress(r)

Spec == Init /\ [][Next]_phase
=============================================================================
