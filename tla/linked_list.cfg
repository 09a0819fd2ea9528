SPECIFICATION Spec
CONSTANTS
    n1 = n1
    n2 = n2
    n3 = n3
    n4 = n4
    Null = Null
    Lists = {run, wait}
    Nodes <- FourNodes
    priority <- TwoEqual
INVARIANT BothWays
PROPERTY ImplementsQueues
