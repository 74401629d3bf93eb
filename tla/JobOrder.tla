------------------------------ MODULE JobOrder ------------------------------
(***************************************************************************)
(* The order the job scheduler promises: a job starts only when the jobs   *)
(* it must follow are over.  It must follow the jobs scheduled before it   *)
(* that access a common entry in a conflicting way.  For an atomic access  *)
(* the promise is weaker: the job follows the earlier readers of the       *)
(* entry, up to the last exclusive writer, but not that writer itself.     *)
(***************************************************************************)
EXTENDS JobAccess

CONSTANT NoQuery

VARIABLES
  stage,          \* how far each job has come
  query           \* the query it was scheduled with

TypeOK ==
  /\ stage \in [Jobs -> {"none", "scheduled", "running", "over"}]
  /\ query \in [Jobs -> Queries \cup {NoQuery}]

Init ==
  /\ stage = [j \in Jobs |-> "none"]
  /\ query = [j \in Jobs |-> NoQuery]

MustFollow(j, i) ==
  /\ i < j
  /\ \E e \in Entries :
       \/ Reads(query[j], e) /\ Changes(query[i], e)
       \/ Writes(query[j], e) /\ Accesses(query[i], e)
       \/ /\ Atomic(query[j], e) /\ Reads(query[i], e)
          /\ \A k \in Jobs : i < k /\ k < j => ~ Writes(query[k], e)

Schedule(j, q) ==
  /\ stage[j] = "none"
  /\ \A i \in Jobs : i < j => stage[i] # "none"
  /\ stage' = [stage EXCEPT ![j] = "scheduled"]
  /\ query' = [query EXCEPT ![j] = q]

Start(j) ==
  /\ stage[j] = "scheduled"
  /\ \A i \in Jobs : MustFollow(j, i) => stage[i] = "over"
  /\ stage' = [stage EXCEPT ![j] = "running"]
  /\ UNCHANGED query

End(j) ==
  /\ stage[j] = "running"
  /\ stage' = [stage EXCEPT ![j] = "over"]
  /\ UNCHANGED query

Next ==
  \E j \in Jobs : (\E q \in Queries : Schedule(j, q)) \/ Start(j) \/ End(j)

Spec == Init /\ [][Next]_<<stage, query>>
=============================================================================
