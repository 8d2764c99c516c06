CONSTANTS
    EvtQueueLen = 3
    CountCap = 3
    MaxFades = 2
    Requests = {1, 2}
    LastCity = 3
SPECIFICATION Spec
INVARIANTS TypeOK KeyAlive OneGesture LampSafe OwnCity AnswerBuffer
PROPERTIES EdgeJudged
CHECK_DEADLOCK FALSE
