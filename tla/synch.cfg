SPECIFICATION FairSpec
CONSTANTS
    Clients = {p1, p2, p3}
    Idle = Idle
    NoThread = NoThread
    Ops = {"wait", "signal", "broadcast"}
    MaxLocks = 1
INVARIANTS
    TypeOK
    OwnerHolds
    PreemptionDiscipline
    OneQueue
    NoThreadLost
    NoLostWakeup
PROPERTIES
    ImplementsMonitor
    LockGranted
