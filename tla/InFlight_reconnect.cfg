\* Two senders, two connections of the slot, of the same socket number or of
\* another one, a client that acks, one permit.
SPECIFICATION Spec
CONSTANTS
    MaxInFlight = 1
    Senders = {s1, s2}
    Rx = rx
    NoTask = NoTask
    QueueSize = 1
    CallbackSends = FALSE
    ClientAcks = TRUE
    Reconnects = {"same", "other"}
    MaxId = 3
    MaxSessions = 2
INVARIANTS ClientNotFlooded AnswersStayInSession
PROPERTIES ImplementsPermits 
SYMMETRY Symmetry
CHECK_DEADLOCK FALSE
