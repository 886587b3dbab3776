SPECIFICATION FairSpec
CONSTANTS
    c1 = c1
    c2 = c2
    p1 = p1
    p2 = p2
    p3 = p3
    Consumer <- OneConsumer
    Poster <- ThreePosters
    TakeKind <- Untimed
    PostMode <- BothModes
    MaxPosts = 8
INVARIANTS TakesWithinPosts NoStrandedSleeper SignalIsForSleeper
PROPERTY SleeperFed
CHECK_DEADLOCK FALSE
