\* Switches between all modes, errors, one application, clients, two portals.
SPECIFICATION FairSpec
CONSTANTS
    Apps = {a1}
    Customs <- ControlAndWs
    MaxCustom = 2
    SdCard = "present"
    Spa = FALSE
    MaxHandles = 2
    MaxSockets = 3
    MaxSessions = 1
    SocketErrors = {"recv", "send"}
    NoMemory = {"calloc"}
    DriverErrors = TRUE
    Queries <- SomeQueries
INVARIANTS TypeOK EveryUriOwnHandler TableHasRoom OnlyNamedTaskRuns PlainQueryAnswered
PROPERTIES HttpKeepsSockets PortalAnswers
