SPECIFICATION Spec
CONSTANTS
    c1 = c1
    c2 = c2
    p1 = p1
    p2 = p2
    p3 = p3
    Consumer <- OneConsumer
    Poster <- ThreePosters
    TakeKind <- Timed
    PostMode <- BothModes
    MaxPosts = 6
SYMMETRY Symmetric
INVARIANTS TakesWithinPosts
CHECK_DEADLOCK FALSE
