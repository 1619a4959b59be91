SPECIFICATION FairSpec
CONSTANTS
    CaptureStarts = {TRUE}
    ProxyStarts = {TRUE}
    ProcessesListed = {TRUE}
    CaptureMayFail = TRUE
    AcceptMayFail = FALSE
    WakeMayFail = FALSE
    MaxSniffed = 2
    MaxAsked = 0
PROPERTY
    DeadCaptureShown
CHECK_DEADLOCK FALSE
