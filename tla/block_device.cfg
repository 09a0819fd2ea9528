SPECIFICATION Spec
CONSTANTS
    Clients = {c1, c2}
    Devs = {d1}
    Names = {n1}
    NumBlocks = 2
    U32 = 8
    Extents <- MCExtents
    Vals = {0, 1}
    BLOCK_SIZE = 1
    PAGE_SIZE = 2
    PagerExtents <- MCPagerExtents
    PageNums = {0, 1, 3, 4}
CHECK_DEADLOCK FALSE
INVARIANTS
    AnswersInOrder
    PagerStaysInRange
PROPERTY RequestCompleted
