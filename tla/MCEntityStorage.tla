-------------------------- MODULE MCEntityStorage --------------------------
\* Instances of EntityStorage.
EXTENDS EntityStorage, TLC

CONSTANTS tracked, dying, other

\* Destroyed entities of tracked die slowly: dying has the tag dead more only.
Dying == [g \in Groups |-> IF g = tracked THEN dying ELSE NoGroup]
Archetypes == [g \in Groups |-> IF g = dying THEN tracked ELSE g]

ChunkSizes == [g \in Groups |-> ("small" :> 2) @@ ("default" :> 3) @@ ("large" :> 4)]

\* Of other's entities none fits a small chunk, and one a default one.
LargeSizes == [g \in Groups |->
    IF g = other THEN ("small" :> 0) @@ ("default" :> 1) @@ ("large" :> 3)
                 ELSE ("small" :> 2) @@ ("default" :> 2) @@ ("large" :> 3)]

Symmetric == Permutations(Chunks)
=============================================================================
