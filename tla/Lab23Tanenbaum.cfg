SPECIFICATION FairSpec
CONSTANT N = 5
INVARIANTS
    HungryIsHeldUp
PROPERTIES
    NeighboursExclude
    SomebodyEats
