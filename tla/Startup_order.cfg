\* Callbacks first, then handler and task in either order; two clients.
SPECIFICATION FairSpec
CONSTANTS
    Orders <- CallbacksFirst
    Fds = {f1, f2}
    NoFd = NoFd
    QueueSize = 2
INVARIANTS ClientsSurviveStartup QueueBeforeUse
PROPERTY FramesAreTaken
