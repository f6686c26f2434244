\* Two slots, three sockets that all end with a CLOSE frame.
SPECIFICATION FairSpec
CONSTANTS
    MaxClients = 2
    Fds = {f1, f2, f3}
    NoFd = NoFd
    Senders = {s1}
    Rx = rx
    QueueSize = 1
    GenMod = 4
    MaxGen = 2
    SocketErrors = FALSE
INVARIANTS AppSeesEveryClient
PROPERTY EveryoneReturns
