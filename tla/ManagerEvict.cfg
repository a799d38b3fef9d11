SPECIFICATION Spec
CONSTANTS
    n1 = n1
    n2 = n2
    Nodes = {n1, n2}
    Allowed = {}
    NoOne = NoOne
    Ghost = Ghost
    Absent = Absent
    Torn = Torn
    t1 = t1
    t2 = t2
    Tasks = {t1}
    MaxEvents = 2
    MaxActors = 3
INVARIANTS
    FreeMeansSaved
