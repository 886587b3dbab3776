SPECIFICATION FairSpec
CONSTANTS
    p1 = p1
    p2 = p2
    r1 = r1
    d1 = d1
    d2 = d2
    n1 = n1
    n2 = n2
    c1 = c1
    c2 = c2
    None = None
    Poster <- TwoPosters
    Dispatcher <- TwoDispatchers
    Poller <- OnePoller
    Node <- TwoNodes
    owner <- Pools
    Cell <- TwoCells
    MaxPosts = 3
    Quit <- Last
INVARIANTS TypeOK NodesInOnePlace CellsInOnePlace NoSleeperBesideMessage
PROPERTIES ImplementsChannel PosterReturns
CHECK_DEADLOCK FALSE
