SPECIFICATION DriverSpec
CONSTANTS
    MAX_TASKS = 4
    DEFAULT_QUANTUM = 300
    MaxQuantum = 2000
    Quanta <- MCQuanta
    WorkSlices <- MCWorkSlices
    ReentrantDown = TRUE
    Nodes = {n1, n2, n3, n4}
    nullptr = nullptr
INVARIANTS
    RecordsAgree
    StuckOnlyBySelfWait
    ListIsQueue
PROPERTIES
    RoundRobin
    NoBarging
    WaiterGetsSemaphore
