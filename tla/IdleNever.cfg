SPECIFICATION FairSpec
CONSTANTS
    MaxIdle = 10
    Period = 2
PROPERTIES
    IdleMeansEvicted
