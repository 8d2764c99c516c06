CONSTANTS
    Data = {"g", ""}
    NoMsg = NoMsg
    QueueLen = 2
    MaxTcp = 3
    MaxLed = 1
    MaxOled = 1
SPECIFICATION Spec
INVARIANTS TypeOK OnePlace AtRest
PROPERTIES RelaySpec Drains
CHECK_DEADLOCK FALSE
