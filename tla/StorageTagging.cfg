SPECIFICATION Spec
CONSTANTS
    tracked = tracked
    dying = dying
    other = other
    Chunks = {k1, k2, k3}
    Groups = {tracked, dying}
    Archetype <- Archetypes
    Dead <- Dying
    Capacity <- ChunkSizes
    SmallBinThreshold = 1
    LargeHint = 8
    TransientVersion = 2
    MaxEntities = 4
    MaxCount = 3
    NoChunk = NoChunk
    NoGroup = NoGroup
INVARIANTS
    AllListed
CHECK_DEADLOCK FALSE
