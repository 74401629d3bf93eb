SPECIFICATION FairSpec
CONSTANTS
    tracked = tracked
    dying = dying
    other = other
    Chunks = {k1, k2, k3}
    Groups = {tracked, dying, other}
    Archetype <- Archetypes
    Dead <- Dying
    Capacity <- LargeSizes
    SmallBinThreshold = 1
    LargeHint = 1
    TransientVersion = 1
    MaxEntities = 3
    MaxCount = 3
    NoChunk = NoChunk
    NoGroup = NoGroup
INVARIANTS
    EntriesAgree
PROPERTIES
    CallsReturn
CHECK_DEADLOCK FALSE
