SPECIFICATION FairSpec
CONSTANTS
    c1 = c1
    c2 = c2
    k1 = k1
    v1 = v1
    EventTypes <- MCEventTypes
    MessageTypes <- MCMessageTypes
    Rewound = "rewound"
    Keys = {k1}
    Values = {v1}
    NoValue = NoValue
    Nobody = Nobody
    NoRequest = NoRequest
    Clients = {c1, c2}
    Batches <- MCBatches
    MailboxCap = 1
    HistoryLimit = 2
    MaxToken = 3
    MaxSpawns = 1
    DbFaults = TRUE
    Crashes = TRUE
INVARIANTS
    TypeOK
    LogBelowCounter
    RepliesMatchCalls
    MessagesFollowCommits
    BusFollowsCommits
    FailureMeansNothing
    AckMeansDone
PROPERTIES
    EveryCallReturns
    AtomicSpec
