SPECIFICATION FairSpec
CONSTANTS
    n1 = n1
    n2 = n2
    Nodes = {n1, n2}
    Allowed = {"store", "crash"}
    NoOne = NoOne
    Ghost = Ghost
    Absent = Absent
    Torn = Torn
    t1 = t1
    t2 = t2
    Tasks = {t1, t2}
    MaxEvents = 1
    MaxActors = 2
INVARIANTS
    TypeOK
    SingleWriter
    Accounted
    RunningIsCurrent
PROPERTIES
    EveryJobEnds
