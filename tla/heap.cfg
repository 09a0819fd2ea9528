SPECIFICATION Spec
CONSTANTS
    Threads = {t1, t2}
    Lens = {1, 4, 7, 16}
    HeapStart = 8
    HeapEnd = 32
    SIZE_T = 2
    FREELIST = 4
CHECK_DEADLOCK FALSE
SYMMETRY Symmetry
INVARIANTS
    Tiled
    Coalesced
    NoNeedlessSleep
PROPERTY ImplementsAllocator
