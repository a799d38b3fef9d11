SPECIFICATION Spec
CONSTANTS
    n1 = n1
    n2 = n2
    n3 = n3
    Nodes = {n1, n2, n3}
    TTL = 2
    Absent = Absent
    MaxClock = 5
    Faults = TRUE
    Unreadable = FALSE
    Overlap = FALSE
INVARIANTS
    TypeOK
PROPERTIES
    LeaseSpec
