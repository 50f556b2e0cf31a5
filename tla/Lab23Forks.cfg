SPECIFICATION LockSpec
CONSTANT N = 5
INVARIANTS
    OnlyCircularWait
PROPERTIES
    ForksExclude
    OrderedMakesProgress
    AlwaysDeadlocks
\* The naive program and Lab_22 deadlock: OnlyCircularWait and AlwaysDeadlocks say how.
CHECK_DEADLOCK FALSE
