---------------------------- MODULE MCIOService -----------------------------
(***************************************************************************)
(* Small instances of IOService: the values its configurations choose for  *)
(* the constants.                                                          *)
(***************************************************************************)
EXTENDS IOService

CONSTANTS c1, c2, r1, r2, r3

(* Who issues the requests.                                                *)
OneOwner  == [r \in Requests |-> c1]
TwoOwners == [r \in Requests |-> IF r = r2 THEN c2 ELSE c1]

(* Priorities: all equal, as in the threaded service; r2 over r3 over r1.  *)
SamePriority == [r \in Requests |-> 0]
DistinctPriorities ==
  [r \in Requests |-> CASE r = r1 -> 0 [] r = r2 -> 2 [] OTHER -> 1]

(* What the RAM service announces (LC!RamStages, by StagesAssumption).     *)
RamStages == <<"creating_resource", "ram_loading", "ok">>
=============================================================================
