SPECIFICATION FairSpec
CONSTANTS
    CaptureStarts = {TRUE, FALSE}
    ProxyStarts = {TRUE, FALSE}
    ProcessesListed = {TRUE, FALSE}
    CaptureMayFail = TRUE
    AcceptMayFail = TRUE
    WakeMayFail = TRUE
    MaxSniffed = 2
    MaxAsked = 2
INVARIANTS
    LifecycleInv
    NothingOutlivesTheWindow
PROPERTIES
    ShutdownCompletes
    RequestsAnswered
CHECK_DEADLOCK FALSE
