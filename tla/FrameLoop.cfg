SPECIFICATION FairFrames
CONSTANTS
    MaxPerFrame = 2
    Second = 2
    MaxQueue = 4
    MaxLate = 4
INVARIANTS
    PausesNotCounted
    NoLostWakeup
PROPERTY
    MessagesAreRead
CHECK_DEADLOCK FALSE
