SPECIFICATION Spec
CONSTANTS
    Page = {a, b, c}
    NoPage = NoPage
    MemSize = 2
    SwapSize = 2
    AccessType = {"I", "L", "S", "M"}
    MaxRefs = 7
SYMMETRY Symmetry
INVARIANTS
    TypeOK
    MappingConsistent
    FrameHoldsItsPage
    SlotsAreOwned
    OnSwapIsOut
    CleanNeedsNoWrite
    CountersBalance
PROPERTY OnlyPagedInPagesAreLost
