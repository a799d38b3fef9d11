SPECIFICATION Spec
CONSTANTS
    Nodes = {n1, n2, n3}
    TTL = 2
    NoLease = NoLease
    MaxClock = 5
    StoreFaults = TRUE
    Crashes = TRUE
    PromptRelease = TRUE
    n1 = n1
    n2 = n2
    n3 = n3
SYMMETRY Symmetry
INVARIANTS
    TypeOK
    MutualExclusion
    BeliefIsRecorded
PROPERTIES
    LeaseSpec
    TakenOnlyWhenExpired
