CONSTANTS
    t1 = t1
    t2 = t2
    t3 = t3
    o1 = o1
    o2 = o2
    o3 = o3
    NoTask = NoTask
    NoObject = NoObject
    Task <- ThreeTasks
    Object <- ThreeObjects
    WaitKind <- ForeverOnly
    WakeMode <- BothWakes
    MaxNest = 1
SPECIFICATION FairSpec
INVARIANT NoLostWakeup
PROPERTY PoppedReturns
CHECK_DEADLOCK FALSE
