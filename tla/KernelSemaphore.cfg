CONSTANTS
    t1 = t1
    t2 = t2
    NoTask = NoTask
    Task <- TwoTasks
    MaxNest = 3
    RecursionModulus = 4
    CounterModulus = 3
SPECIFICATION FairSpec
INVARIANTS
    TypeOK
    MutualExclusion
    RecordCountsHolds
PROPERTIES
    ImplementsLock
    ContenderServed
