SPECIFICATION Spec
CONSTANTS
    t1 = t1
    t2 = t2
    v1 = v1
    v2 = v2
    n1 = n1
    n2 = n2
    n3 = n3
    n4 = n4
    b1 = b1
    b2 = b2
    b3 = b3
    Nil = Nil
    Task <- TwoTasks
    Volume <- TwoVolumes
    Node <- FourNodes
    Block <- ThreeBlocks
SYMMETRY Symmetry
INVARIANTS TypeOK PoolsAccounted LinksAreMutual
PROPERTY LostOnlyToStrays
