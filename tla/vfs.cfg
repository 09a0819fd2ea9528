SPECIFICATION Spec
CONSTANTS
    Threads = {t1, t2}
    NoThread = NoThread
    Paths <- MCPaths
    NoName = NoName
    TooLong = "too long"
    Drivers = {"fs"}
    MaxInodes = 3
    MaxCalls = 2
    MaxHeld = 2
CHECK_DEADLOCK FALSE
INVARIANTS
    RefcountsCoverTree
    OneLookupPerDirectory
 
