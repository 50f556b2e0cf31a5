SPECIFICATION FairSpec11
CONSTANTS
    BUFFER_SIZE = 3
    PRODUCE_COUNT = 8
PROPERTIES
    ImplementsChannel
    EventuallyDestroyed
