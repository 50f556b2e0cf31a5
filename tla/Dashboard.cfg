SPECIFICATION ProgSpec
CONSTANTS
    kHeaderHeight = 5
    kUpperPaneHeight = 6
    kMinPaneHeight = 5
    kMinPaneWidth = 20
    kMinConsoleWidth = 20
    THREAD_COUNT = 2
    SEMAPHORE_PERMITS = 1
    CRITICAL_SECTION_ROUNDS = 1
    MaxInputs = 2
    Threads <- MCThreads
    Nobody <- MCNobody
    Terminals <- MCTerminals
    TaskCounts <- MCTaskCounts
INVARIANTS
    PanesTile
    WritesSerialized
PROPERTIES
    SessionEnds
