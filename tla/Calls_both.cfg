\* A page with one subscription and commands, two connections of the same
\* handle or of another one, one message in flight.
SPECIFICATION Spec
CONSTANTS
    MaxInFlight = 1
    QueueSize = 1
    Subs = {o1}
    NoSub = NoSub
    CallTypes = {"cmd"}
    Reconnects = {"same", "other"}
    MaxId = 3
    MaxSessions = 2
INVARIANTS InFlightIsUnacked QueueMoves DeltasMatch CmdAnswered EveryCallAccounted
CHECK_DEADLOCK FALSE
