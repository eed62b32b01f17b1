SPECIFICATION FairSpec
CONSTANTS
    Phones = {"p1", "p2"}
    MaxFaults = 2
INVARIANTS
    TypeOK
PROPERTIES
    OnlyBlindStops
    ActiveIsServed
    InactiveIsStopped
CHECK_DEADLOCK FALSE
