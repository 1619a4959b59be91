SPECIFICATION Spec
CONSTANTS
    None = None
    Endpoint <- MCEndpoint
    Process <- MCProcess
    Packet <- MCPacket
    MaxU64 = 4
    InactivityTimeout = 1
    Arriving <- MCFrames
    Moment <- MCMoment
    TcpSocket <- MCTcpSocket
    UdpSocket <- MCUdpSocket
    Unspecified = "any"
    Idle0 <- MCIdle
    MaxPackets = 2
    MaxChanges = 3
INVARIANTS
    TrackerInv
    NamedOwnedIt
    SteadyOwnerIsFound
PROPERTIES
    EventsTellTheTable
    ExactlyTheIdleGo
CHECK_DEADLOCK FALSE
