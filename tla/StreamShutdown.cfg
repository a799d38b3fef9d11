SPECIFICATION StreamSpec
CONSTANTS
    k1 = k1
    v1 = v1
    Writer = Writer
    Reader = Reader
    EventTypes <- MCEventTypes
    MessageTypes <- MCMessageTypes
    Rewound = "rewound"
    Keys = {k1}
    Values = {v1}
    NoValue = NoValue
    Nobody = Nobody
    NoRequest = NoRequest
    Clients = {Writer, Reader}
    Batches <- MCBatches
    MailboxCap = 1
    MaxToken = 2
    MaxSpawns = 1
    DbFaults = FALSE
    Crashes = FALSE
    HistoryLimit = 4
    WriterOps = {"append", "shutdown"}
    Kinds = {"sse"}
    BusCap = 4
    NoSince = NoSince
    FirstPositions = {0, 2}
    MaxConnects = 3
INVARIANTS
    Lossless
