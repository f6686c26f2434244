\* One connection, two permits, a client that answers without acks, and
\* callbacks that send.
SPECIFICATION FairSpec
CONSTANTS
    MaxInFlight = 2
    Senders = {s1, s2}
    Rx = rx
    NoTask = NoTask
    QueueSize = 1
    CallbackSends = TRUE
    ClientAcks = FALSE
    Reconnects = {}
    MaxId = 4
    MaxSessions = 1
INVARIANT PermitsReturn
PROPERTIES RequestsEndByAnswer EveryoneReturns
CHECK_DEADLOCK FALSE
