SPECIFICATION Spec
CONSTANTS
    BitsPerWord = 3
    MaxBits = 7
INVARIANTS
    TypeOK
PROPERTY ImplementsAllocator
