CONSTANTS
    Addresses = {a1, a2}
    NoAddress = none
    MaxConns = 1
    MaxPackets = 0
    MaxEdits = 1
SPECIFICATION FairSpec
PROPERTY FollowsServerAddress
CHECK_DEADLOCK FALSE
