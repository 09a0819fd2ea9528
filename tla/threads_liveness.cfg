SPECIFICATION FairSpec
CONSTANTS
    Main = Main
    Idle = Idle
    WorkQ = WorkQ
    NoThread = NoThread
    Slots = {s1, s2}
    Schedulers = {"PRIORITY"}
    SchedulerSims <- PairOnly
    SynchSims <- PoetsOnly
    Quanta = {}
    SynchQuantum = 0
    TickMax = 1
    MAX_THREADS = 5
    DEFAULT_PRIORITY = 100
    KeyQueueMax = 1
PROPERTIES
    SimulationEnds
    ExitedDestroyed
