\* Links come and go; the form changes station settings and modes.
SPECIFICATION FairSpec
CONSTANTS
    MaxReconnects = 2
    Requests <- NewSta
    DriverErrors = FALSE
    MaxEvents = 1
PROPERTIES OnlyLinkHoldsListener PortalOnlyAfterFailures FallsBack
CHECK_DEADLOCK FALSE
