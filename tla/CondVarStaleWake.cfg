CONSTANTS
    t1 = t1
    t2 = t2
    t3 = t3
    o1 = o1
    o2 = o2
    o3 = o3
    NoTask = NoTask
    NoObject = NoObject
    Task <- ThreeTasks
    Object <- TwoObjects
    WaitKind <- BothWaits
    WakeMode <- BothWakes
    MaxNest = 1
SPECIFICATION Spec
INVARIANT SleepOutlastsPop
CHECK_DEADLOCK FALSE
