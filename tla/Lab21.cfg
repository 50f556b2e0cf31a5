SPECIFICATION FairSpec
CONSTANTS
    MessageCount <- MCMessageCount
    MaxReads = 7
INVARIANTS
    NothingLostOrReordered
    SleepsOnlyIfEmpty
PROPERTIES
    BlocksExactlyWhenShort
