CONSTANTS
    t1 = t1
    t2 = t2
    t3 = t3
    o1 = o1
    o2 = o2
    o3 = o3
    NoTask = NoTask
    NoObject = NoObject
    Task <- ThreeTasks
    Object <- ThreeObjects
    WaitKind <- BothWaits
    WakeMode <- DirectOnly
    MaxNest = 2
SPECIFICATION Spec
SYMMETRY Symmetry
INVARIANTS
    TypeOK
    WaitRestoresLock
    NoDeadNodeLinked
    WakeHitsLiveObject
    NoLostWakeup
    SleepOutlastsPop
PROPERTY
    ImplementsMonitor
CHECK_DEADLOCK FALSE
