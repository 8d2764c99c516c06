CONSTANTS
    Server = FALSE
    SlowCleanup = FALSE
    Fds = {f1, f2, f3}
    NoFd = NoFd
    Readers = {r1, r2}
SPECIFICATION FairSpec
INVARIANTS TypeOK ReaderOwnsSocket NoSocketLeak NoLostRestart
PROPERTIES RestartServed SessionSpec
