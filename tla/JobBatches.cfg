SPECIFICATION FairSpec
CONSTANTS
    a = a
    b = b
    Jobs <- SmallJobs
    Chunks = {a, b}
    NoChunk = NoChunk
INVARIANTS
    TypeOK
    IndicesAgree
    BatchesBounded
PROPERTIES
    ImplementsParallelFor
    JobEnds
CHECK_DEADLOCK FALSE
