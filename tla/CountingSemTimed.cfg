SPECIFICATION Spec
CONSTANTS
    c1 = c1
    c2 = c2
    p1 = p1
    p2 = p2
    p3 = p3
    Consumer <- TwoConsumers
    Poster <- ThreePosters
    TakeKind <- AnyTake
    PostMode <- BothModes
    MaxPosts = 4
SYMMETRY Symmetric
INVARIANTS CountConserved
CHECK_DEADLOCK FALSE
