SPECIFICATION FairSpec
CONSTANTS
    None = None
    Client = {c1, c2}
    Host = {"site", "gateway"}
    Passthrough = {"gateway"}
    Fingerprint = {"t13d"}
    Inspecting = TRUE
    Request <- MCRequest
    MaxRequests = 2
INVARIANTS
    ProxyInv
    EventsTellWhatWentUpstream
PROPERTIES
    LogPromise
    FeedsTheWorker
    StopCompletes
    RecordedHandedOn
CHECK_DEADLOCK FALSE
