CONSTANTS
    MaxFades = 2
    MaxConns = 2
    MaxSent = 2
    WsQueueLen = 2
    MaxWsConns = 2
    MaxWsFrames = 3
    Server = TRUE
    Fds = {f1, f2, f3}
    NoFd = NoFd
    Readers = {r1, r2}
    SlowCleanup = FALSE
    MaxStations = 2
    ImageChunks = 3
    MaxReads = 3
    MaxMsgs = 2
SPECIFICATION Spec
INVARIANTS TypeOK OneTlsUser LampsObey PayloadsOwned EchoWhole SocketsOwned ImageWhole FreshWeather
CHECK_DEADLOCK FALSE
