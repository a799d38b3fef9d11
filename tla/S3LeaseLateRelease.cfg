SPECIFICATION Spec
CONSTANTS
    Nodes = {n1, n2}
    TTL = 2
    NoLease = NoLease
    MaxClock = 6
    StoreFaults = FALSE
    Crashes = FALSE
    PromptRelease = FALSE
    n1 = n1
    n2 = n2
    n3 = n3
INVARIANTS
    MutualExclusion
