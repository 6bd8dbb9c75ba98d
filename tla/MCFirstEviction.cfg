SPECIFICATION FirstSpec
CONSTANTS
    Page = {a, b, c, d}
    NoPage = NoPage
    NULL = NULL
    Wild = Wild
    MemSize = 3
    SwapSize = 3
    AccessType = {"S"}
    MaxRefs = 5
INVARIANT OnePolicyIsAsDescribed
