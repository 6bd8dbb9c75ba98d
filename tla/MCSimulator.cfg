SPECIFICATION SimSpec
CONSTANTS
    Page = {a, b, c, d}
    NoPage = NoPage
    NULL = NULL
    Wild = Wild
    MemSize = 3
    SwapSize = 3
    AccessType = {"S"}
    MaxRefs = 7
    algs = {"rand", "lru", "fifo", "clock", "opt"}
INVARIANTS
    SimTypeOK
    ReferencedAreResident
    SecondChanceButFirst
    VictimIsMostRecent
PROPERTIES
    EvictsOldest
    SearchEnds
    FirstFrameIsPinned
    OnlyFirstFrameChanges
