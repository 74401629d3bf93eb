---------------------------- MODULE ParallelFor ----------------------------
(***************************************************************************)
(* What a job over entities promises to its callback: every entity is      *)
(* given to it once, with others of its chunk, calls may run at the same   *)
(* time, and the job ends after all of them.  An entity is <<chunk, place>>.*)
(***************************************************************************)
VARIABLES
    todo,       \* entities that are not given to the callback yet
    busy,       \* what the calls that are running were given
    over,       \* the job has ended
    serial,     \* the callback may access any entity
    exclusive   \* the callback changes components of whole chunks

vars == <<todo, busy, over, serial, exclusive>>

Init == busy = {} /\ over = FALSE

\* Calls that share a chunk are not made at once when they change it.
Begin(view) ==
    /\ ~over
    /\ serial => busy = {}
    /\ exclusive => \A other \in busy : \A e \in view, f \in other : e[1] # f[1]
    /\ todo' = todo \ view
    /\ busy' = busy \cup {view}
    /\ UNCHANGED <<over, serial, exclusive>>

Finish(view) ==
    /\ busy' = busy \ {view}
    /\ UNCHANGED <<todo, over, serial, exclusive>>

End ==
    /\ todo = {} /\ busy = {} /\ ~over
    /\ over' = TRUE
    /\ UNCHANGED <<todo, busy, serial, exclusive>>

Next ==
    \/ \E view \in (SUBSET todo) \ {{}} : Begin(view)
    \/ \E view \in busy : Finish(view)
    \/ End

Spec == Init /\ [][Next]_vars
=============================================================================
