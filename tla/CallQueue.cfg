SPECIFICATION Spec
CONSTANTS
    k1 = k1
    k2 = k2
    s1 = s1
    s2 = s2
    s3 = s3
    NoSlot = NoSlot
    NoSource = NoSource
    Slots = {k1, k2}
    Scenarios = {s1, s2, s3}
    Priority <- MCPriority
    Sources <- MCSources
    MaxEvents = 3
    Closings = {"completed", "aborted", "done"}
SYMMETRY Symmetric
INVARIANTS
    TypeOK
    AtMostOneRunning
    NoOrphanQueue
    QueueIsOneBatch
    BatchRunsInPriorityOrder
    ClockRunsWithCall
PROPERTIES
    RowsMoveLegally
    ServesContacts
CHECK_DEADLOCK FALSE
