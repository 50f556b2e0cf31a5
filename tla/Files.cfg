CONSTANTS
    Missing = Missing
    Symlink = Symlink
    TornLengths = {3}
    MaxRuns = 3
    FaultyRuns = 1
    Leftovers13 <- MCLeftovers13
    Leftovers14 <- MCLeftovers14
    Fixture <- MCFixture
    kInodeCount = 8
    i_node_size = 4
SPECIFICATION Spec
INVARIANTS
    RecordsInPlace
    FixtureComplete
    ReportsTheFile
PROPERTIES
    ReadsBackAndEnds13
