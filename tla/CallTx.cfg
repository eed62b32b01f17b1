SPECIFICATION FairSpec
CONSTANTS
    k1 = k1
    k2 = k2
    s1 = s1
    s2 = s2
    t1 = t1
    t2 = t2
    NoSlot = NoSlot
    NoSource = NoSource
    NoTx = NoTx
    Slots = {k1, k2}
    Scenarios = {s1, s2}
    Priority <- MCPriority
    Sources <- MCSources
    Closings = {"completed", "done"}
    MaxEvents = 2
    Txs = {t1, t2}
INVARIANTS
    TypeOK
    DecisionsHold
    IndexNeverViolated
PROPERTIES
    RefinesQueue
    TransactionsEnd
CHECK_DEADLOCK FALSE
