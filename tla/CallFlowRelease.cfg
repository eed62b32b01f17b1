SPECIFICATION Spec
CONSTANTS
    k1 = k1
    s1 = s1
    s2 = s2
    s3 = s3
    h1 = h1
    h2 = h2
    NoSlot = NoSlot
    NoSource = NoSource
    NoCall = NoCall
    Slots = {k1}
    Scenarios = {s1, s2}
    Priority <- MCPriority2
    Sources = {"trigger", "scheduler", "manual"}
    Closings = {"expired"}
    MaxEvents = 2
    Handlers = {h1, h2}
    Attempts = 2
    MaxChain = 2
    SweepLimit = 1
    MaxFaults = 1
SYMMETRY Symmetric
INVARIANTS
    ReleasesOnlyUndelivered
CHECK_DEADLOCK FALSE
