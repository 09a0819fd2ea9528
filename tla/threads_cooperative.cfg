SPECIFICATION Spec
CONSTANTS
    Main = Main
    Idle = Idle
    WorkQ = WorkQ
    NoThread = NoThread
    Slots = {s1, s2, s3, s4}
    Schedulers = {"FCFS", "SJF", "PRIORITY"}
    SchedulerSims <- MixedOnly
    SynchSims <- NoSims
    Quanta = {1}
    SynchQuantum = 1
    TickMax = 2
    MAX_THREADS = 8
    DEFAULT_PRIORITY = 100
    KeyQueueMax = 2
SYMMETRY SlotSymmetry
INVARIANTS
    TypeOK
    RunqueueOrdered
    NoLostKey
    NoAssertionFails
