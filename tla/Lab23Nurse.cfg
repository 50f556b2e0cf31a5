SPECIFICATION FairSpec
CONSTANTS
    N = 4
    Meals = 2
INVARIANTS
    BooksAgree
    FrontWillWake
PROPERTIES
    NeighboursExclude
    ServedInOrder
    AllMealsServed
