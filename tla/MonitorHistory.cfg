SPECIFICATION FairSpec
CONSTANTS
    None = None
    Endpoint <- MCEndpoint
    Process <- MCProcess
    Client <- MCClient
    ProxyAddress = "proxy"
    HighBit = 10
    MaxU64 = 5
    InactivityTimeout = 1
    CorrelationWindow = 0
    Packet <- HistoryPackets
    StatementsFail = TRUE
    DatabaseOpens = {TRUE}
    UserActs = FALSE
    MaxPackets = 2
    MaxRequests = 1
    MaxBacklog = 2
    MaxTime = 1
    MaxSessions = 1
INVARIANT
    HistoryComplete
PROPERTIES
    HistoryKept
    LinkedToOnlyCandidate
    ClosedRowsLeave
    RequestsShown
    BacklogDrains
CHECK_DEADLOCK FALSE
