SPECIFICATION FairSpec
CONSTANTS
    a = a
    b = b
    c = c
    d = d
    k1 = k1
    Schedules = {a, b, c, d}
    Kind <- MCKind
    Broken = {c}
    Contacts = {k1}
    ContactOf <- MCContactOf
    Limit = 2
    MaxFaults <- MCMaxFaults
INVARIANTS
    TypeOK
    OneStartPerFault
    
PROPERTIES
    DueIsHandled
CHECK_DEADLOCK FALSE
