SPECIFICATION Spec
CONSTANTS
    Page = {a, b}
    NoPage = NoPage
    MemSize = 1
    SwapSize = 2
    AccessType = {"L", "S"}
    MaxRefs = 5
PROPERTY VersionsNeverGoBack
