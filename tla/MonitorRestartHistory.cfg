SPECIFICATION Spec
CONSTANTS
    None = None
    Endpoint <- MCEndpoint
    Process <- MCProcess
    Client <- MCClient
    ProxyAddress = "proxy"
    HighBit = 10
    MaxU64 = 5
    InactivityTimeout = 1
    CorrelationWindow = 0
    Packet <- HistoryPackets
    StatementsFail = FALSE
    DatabaseOpens = {TRUE}
    UserActs = FALSE
    MaxPackets = 2
    MaxRequests = 1
    MaxBacklog = 1
    MaxTime = 1
    MaxSessions = 2
PROPERTY
    HistoryKept
CHECK_DEADLOCK FALSE
