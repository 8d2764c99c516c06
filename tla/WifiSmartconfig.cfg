CONSTANTS
    Clients = {tcp}
    Peers = {p1}
    MaxRetry = 2
    MaxEvents = 3
SPECIFICATION Spec
INVARIANT WaitersReleased
CHECK_DEADLOCK FALSE
