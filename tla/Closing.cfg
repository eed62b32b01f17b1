SPECIFICATION FairSpec
CONSTANTS
    NotInt = NotInt
    Slots = {"k1", "k2"}
    Batch <- MCBatch
    Estimates <- MCEstimates
    Default = 0
    Buffer = 1
    IntMax = 3
    Limit = 1
    MaxTime = 2
    MaxPosts = 2
    MaxDeaths = 1
INVARIANTS
    TypeOK
    ReportedTimeWins
    MarkerMeansClosed
PROPERTIES
    SweptAfterItsTime
    StuckIsSwept
CHECK_DEADLOCK FALSE
