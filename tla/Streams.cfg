SPECIFICATION StreamSpec
CONSTANTS
    k1 = k1
    v1 = v1
    Writer = Writer
    Reader = Reader
    EventTypes <- MCEventTypes
    MessageTypes <- MCMessageTypes
    Rewound = "rewound"
    Keys = {k1}
    Values = {v1}
    NoValue = NoValue
    Nobody = Nobody
    NoRequest = NoRequest
    Clients = {Writer, Reader}
    Batches <- MCBatches
    MailboxCap = 1
    MaxToken = 4
    MaxSpawns = 1
    DbFaults = FALSE
    Crashes = TRUE
    HistoryLimit = 4
    WriterOps = {"append", "checkpoint", "restore", "shutdown"}
    Kinds = {"sse", "ws"}
    BusCap = 2
    NoSince = NoSince
    FirstPositions = {0, 2}
    MaxConnects = 2
INVARIANTS
    StreamTypeOK
    NeverTwice
    GapsHaveCauses
