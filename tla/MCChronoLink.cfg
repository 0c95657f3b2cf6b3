CONSTANTS
    Addresses = {a1}
    NoAddress = none
    MaxConns = 3
    MaxPackets = 3
    MaxEdits = 1
SPECIFICATION FairSpec
INVARIANTS TypeOK PacketsAsSent NoPacketWaits
PROPERTIES LeavesClosedPeer StopJoins ImplementsStream
CHECK_DEADLOCK FALSE
