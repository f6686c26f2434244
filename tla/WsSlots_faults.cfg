\* Sockets may fail at any time: the pool can end up locked for good.
SPECIFICATION Spec
CONSTANTS
    MaxClients = 2
    Fds = {f1, f2, f3}
    NoFd = NoFd
    Senders = {s1}
    Rx = rx
    QueueSize = 1
    GenMod = 4
    MaxGen = 2
    SocketErrors = TRUE
INVARIANTS TypeOK DistinctFds HandleNamesItsSocket QueuedJobsNamed
PROPERTY ImplementsHandleTable
SYMMETRY Symmetry
CHECK_DEADLOCK FALSE
