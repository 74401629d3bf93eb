SPECIFICATION TidySpec
CONSTANTS
    tracked = tracked
    dying = dying
    other = other
    Chunks = {k1, k2, k3}
    Groups = {tracked, dying}
    Archetype <- Archetypes
    Dead <- Dying
    Capacity <- ChunkSizes
    SmallBinThreshold = 1
    LargeHint = 8
    TransientVersion = 2
    MaxEntities = 4
    MaxCount = 3
    NoChunk = NoChunk
    NoGroup = NoGroup
SYMMETRY Symmetric
INVARIANTS
    TypeOK
    EntriesAgree
    FreeListAgrees
    ListsAgree
    FullFirst
    SizesAgree
PROPERTIES
    ImplementsEntitySet
CHECK_DEADLOCK FALSE
