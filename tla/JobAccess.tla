----------------------------- MODULE JobAccess ------------------------------
(***************************************************************************)
(* What a query of the entity component system tells the job scheduler:    *)
(* a list of parameters, each a dependency entry (one component type of    *)
(* one archetype) and the way it is accessed: "read" for [in], "atomic"    *)
(* for [atomic], "write" for [inout] and [out].  The parameters of         *)
(* subqueries follow those of the query; a parameter that names a tag has  *)
(* no entry; one that matches several archetypes stands once for each.     *)
(***************************************************************************)
EXTENDS Naturals, Sequences

CONSTANTS
  MaxJobs,        \* bound: how many jobs are scheduled in a behaviour
  Entries,        \* job_dependency_entry_t, one per archetype and type
  Queries,        \* what a job can be scheduled with
  Params          \* their parameters, in the order of update_dependencies

Jobs  == 1..MaxJobs     \* in the order in which they are scheduled
Modes == {"read", "atomic", "write"}

ASSUME MaxJobsAssumption == MaxJobs \in Nat
ASSUME ParamsAssumption  ==
  Params \in [Queries -> Seq([entry : Entries, mode : Modes])]

(* Query q has a parameter that accesses entry e in mode m.                *)
Declares(q, e, m) ==
  \E i \in DOMAIN Params[q] : Params[q][i] = [entry |-> e, mode |-> m]

(* syncedEntry: only the first parameter of a job about an entry counts.   *)
FirstAccess(q, e, m) ==
  \E i \in DOMAIN Params[q] :
    /\ Params[q][i] = [entry |-> e, mode |-> m]
    /\ \A k \in DOMAIN Params[q] : k < i => Params[q][k].entry # e

Reads(q, e)    == FirstAccess(q, e, "read")
Atomic(q, e)   == FirstAccess(q, e, "atomic")
Writes(q, e)   == FirstAccess(q, e, "write")
Changes(q, e)  == Atomic(q, e) \/ Writes(q, e)
Accesses(q, e) == Reads(q, e) \/ Changes(q, e)

(* Jobs of the queries p and q may not run at the same time.               *)
Conflict(p, q) ==
  \E e \in Entries, m, n \in Modes :
    /\ Declares(p, e, m) /\ Declares(q, e, n)
    /\ m = "write" \/ n = "write" \/ m # n
=============================================================================
