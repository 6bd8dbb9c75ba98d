SPECIFICATION Spec
CONSTANTS
    Page = {a, b, c, d}
    BufferSizes <- SomeSizes
    MaxTs = 7
SYMMETRY PageSymmetry
INVARIANTS
    TypeOK
    OutputInOrder
    OnlyLastBatchIsLost
PROPERTIES
    LeftOutWouldHit
    MemoryAgrees
CHECK_DEADLOCK FALSE
