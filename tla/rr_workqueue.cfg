SPECIFICATION Spec
CONSTANTS
    Main = Main
    Idle = Idle
    WorkQ = WorkQ
    NoThread = NoThread
    Slots = {s1, s2, s3}
    Schedulers = {"RR"}
    SchedulerSims <- PairOnly
    SynchSims <- NoSims
    Quanta = {1}
    SynchQuantum = 1
    TickMax = 2
    MAX_THREADS = 6
    DEFAULT_PRIORITY = 100
    KeyQueueMax = 1

INVARIANT NoAssertionFails
