SPECIFICATION Spec
CONSTANTS
    x1 = x1
    x2 = x2
    Leaves = {x1, x2}
    Failures = TRUE
INVARIANTS
    TypeOK
    FoundStatusCompletes
PROPERTIES
    OnlyBlindStatusReopens
CHECK_DEADLOCK FALSE
