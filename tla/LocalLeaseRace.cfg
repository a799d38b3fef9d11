SPECIFICATION Spec
CONSTANTS
    n1 = n1
    n2 = n2
    n3 = n3
    Nodes = {n1, n2}
    TTL = 2
    Absent = Absent
    MaxClock = 3
    Faults = FALSE
    Unreadable = FALSE
    Overlap = TRUE
INVARIANTS
    MutualExclusion
