SPECIFICATION Spec
CONSTANTS
    None = None
    Endpoint <- MCEndpoint
    Process <- MCProcess
    Client <- MCClient
    ProxyAddress = "proxy"
    HighBit = 10
    MaxU64 = 5
    InactivityTimeout = 1
    CorrelationWindow = 1
    Packet <- RowPackets
    StatementsFail = FALSE
    DatabaseOpens = {FALSE}
    UserActs = TRUE
    MaxPackets = 3
    MaxRequests = 1
    MaxBacklog = 2
    MaxTime = 1
    MaxSessions = 2
INVARIANTS
    MonitorInv
    NoGhostRows
    RowsCurrent
PROPERTIES
    RowsNeverRegress
    RequestRowsStay
    FeedPromise
VIEW RowsView
CHECK_DEADLOCK FALSE
