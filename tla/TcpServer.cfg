CONSTANTS
    Server = TRUE
    SlowCleanup = FALSE
    Fds = {f1, f2, f3}
    NoFd = NoFd
    Readers = {r1, r2}
SPECIFICATION FairSpec
INVARIANTS OneReader
PROPERTIES ListenerStarts
