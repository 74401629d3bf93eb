----------------------------- MODULE EntitySet -----------------------------
(***************************************************************************)
(* What the entity storage promises: entities that each are in one group   *)
(* at a time.  A handle <<id, version>> names one entity; when it dies its *)
(* id goes on with the next version, and a handle in use is never given to *)
(* a second entity.                                                        *)
(***************************************************************************)
EXTENDS Naturals

CONSTANTS Ids, Groups, NoGroup, TransientVersion

VARIABLES
    home,       \* the group an entity is in, NoGroup when no entity has the id
    version     \* the version of the id's handle, or of its next one

vars == <<home, version>>

Init == home = [id \in Ids |-> NoGroup] /\ version = [id \in Ids |-> 0]

NextVersion(v) == IF v + 1 = TransientVersion THEN 0 ELSE v + 1

\* The entities of a group go to another one and keep their handles.
Going(some, from, to) ==
    /\ \A id \in some : home[id] = from
    /\ home' = [id \in Ids |-> IF id \in some THEN to ELSE home[id]]

Move(some, from, to) ==
    /\ from # NoGroup
    /\ Going(some, from, to)
    /\ UNCHANGED version

\* New entities take handles nobody has.
Create(some, g) == Going(some, NoGroup, g) /\ UNCHANGED version

Die(some, from) ==
    /\ Going(some, from, NoGroup)
    /\ version' = [id \in Ids |-> IF id \in some THEN NextVersion(version[id]) ELSE version[id]]

Next ==
    \E some \in (SUBSET Ids) \ {{}}, g \in Groups :
        \/ Create(some, g)
        \/ \E h \in Groups : Move(some, g, h)
        \/ Die(some, g)

Spec == Init /\ [][Next]_vars
=============================================================================
