SPECIFICATION Spec
CONSTANTS
    Threads = {t1, t2, t3}
    NoThread = NoThread
    Pages = {0, 1}
    NumFrames = 8
    PAGE_SIZE = 16
    HEAP_SIZE = 32
    ISA_HOLE_START = 64
    ISA_HOLE_END = 80
    KernelEnd = 104
    FRAME = 1
    MaxCalls = 2
CHECK_DEADLOCK FALSE
INVARIANTS
    LocksCounted
    NoStaleFrame
PROPERTY WaitersAnswered
