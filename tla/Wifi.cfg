CONSTANTS
    Clients = {tcp}
    Peers = {p1, p2}
    MaxRetry = 2
    MaxEvents = 3
SPECIFICATION Spec
INVARIANTS TypeOK BitMeansLink NoStall WaitersReleasedDirect
PROPERTIES SmartconfigEnds
CHECK_DEADLOCK FALSE
