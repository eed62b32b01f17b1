SPECIFICATION Spec
CONSTANTS
    k1 = k1
    s1 = s1
    s2 = s2
    m1 = m1
    m2 = m2
    NoSlot = NoSlot
    NoSource = NoSource
    NoCall = NoCall
    Slots = {k1}
    Scenarios = {s1, s2}
    Priority <- MCPriority
    Sources <- MCSources
    Closings = {"completed"}
    MaxEvents = 3
    Messages = {m1, m2}
    From <- MCFrom
SYMMETRY Symmetric
INVARIANTS
    TypeOK
    TwiceOnlyAfterClose
    DeniedByNewcomer
CHECK_DEADLOCK FALSE
