SPECIFICATION FairSpec
CONSTANTS
    THREAD_COUNT = 5
    SEMAPHORE_PERMITS = 2
INVARIANTS
    PermitsConserved
    QueueIsWaiters
    FrontWillWake
PROPERTIES
    QueuedInOrder
    AllJoined
