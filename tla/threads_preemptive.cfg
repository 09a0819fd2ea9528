SPECIFICATION Spec
CONSTANTS
    Main = Main
    Idle = Idle
    WorkQ = WorkQ
    NoThread = NoThread
    Slots = {s1, s2, s3}
    Schedulers = {"PRIORITY", "RR"}
    SchedulerSims <- PairOnly
    SynchSims <- TogglerAndPoets
    Quanta = {0, 1}
    SynchQuantum = 1
    TickMax = 2
    MAX_THREADS = 6
    DEFAULT_PRIORITY = 100
    KeyQueueMax = 1
SYMMETRY SlotSymmetry
INVARIANTS
    QueuesConsistent
    IdleReady
    RefcountAccurate
    NoDanglingReference
    NoLostWork
PROPERTIES
    PreemptionRespected
    OnlyDeadDestroyed
