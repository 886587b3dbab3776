CONSTANTS
    t1 = t1
    t2 = t2
    h1 = h1
    h2 = h2
    NoTask = NoTask
    NoHandle = NoHandle
    Task <- TwoTasks
    Handle <- TwoHandles
    Kind <- AllKinds
    RecursionLimit = 2
    MaxCount = 2
    Birth <- EitherMagic
SPECIFICATION FairSpec
INVARIANTS
    TypeOK
    MutualExclusion
    OwnerWordIsTrue
    SemaphoreNotLeaked
    LiveHasSemaphore
PROPERTIES
    ImplementsLock
    LockReturns
