\* A socket fails and its descriptor comes back.
SPECIFICATION Spec
CONSTANTS
    MaxClients = 2
    Fds = {f1, f2}
    NoFd = NoFd
    Senders = {s1}
    Rx = rx
    QueueSize = 1
    GenMod = 4
    MaxGen = 2
    SocketErrors = TRUE
INVARIANT LockGivenBack
CHECK_DEADLOCK FALSE
