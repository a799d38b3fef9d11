SPECIFICATION Spec
CONSTANTS
    c1 = c1
    c2 = c2
    k1 = k1
    v1 = v1
    EventTypes <- MCEventTypes
    MessageTypes <- MCMessageTypes
    Rewound = "rewound"
    Keys = {k1}
    Values = {v1}
    NoValue = NoValue
    Nobody = Nobody
    NoRequest = NoRequest
    Clients = {c1}
    Batches <- MCLongBatches
    MailboxCap = 1
    HistoryLimit = 2
    MaxToken = 5
    MaxSpawns = 1
    DbFaults = TRUE
    Crashes = TRUE
INVARIANTS
    LogIsReplay
    AckMeansDone
PROPERTIES
    HolesComeFromStaleCheckpoints
    AtomicSpec
