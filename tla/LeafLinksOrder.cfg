SPECIFICATION Spec
CONSTANTS
    x1 = x1
    x2 = x2
    Leaves = {x1}
    Failures = FALSE
INVARIANTS
    StatusClosesLink
CHECK_DEADLOCK FALSE
