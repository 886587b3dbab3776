SPECIFICATION FairSpec
CONSTANTS
    s1 = s1
    s2 = s2
    h1 = h1
    None = None
    Sender <- TwoSenders
    Handler <- OneHandler
    Size = 8
    Length = 3
    MaxSent = 4
INVARIANTS TypeOK TokenPerRecord
PROPERTIES ImplementsQueues RecordsArrive
CHECK_DEADLOCK FALSE
