SPECIFICATION FairSpec
CONSTANTS
    k1 = k1
    s1 = s1
    s2 = s2
    s3 = s3
    h1 = h1
    h2 = h2
    NoSlot = NoSlot
    NoSource = NoSource
    NoCall = NoCall
    Slots = {k1}
    Scenarios = {s1, s2, s3}
    Priority <- MCPriority3
    Sources = {"trigger", "scheduler", "manual"}
    Closings = {"expired"}
    MaxEvents = 1
    Handlers = {h1, h2}
    Attempts = 2
    MaxChain = 1
    SweepLimit = 1
    MaxFaults = 1
INVARIANTS
    RunningIsAttended
PROPERTIES
    EveryCallEnds
    QueueDrains
CHECK_DEADLOCK FALSE
