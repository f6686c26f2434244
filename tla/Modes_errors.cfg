\* Forms that change station settings, mDNS names and modes, or are refused; calls fail.
SPECIFICATION Spec
CONSTANTS
    MaxReconnects = 2
    Requests <- NewStaAndMdns
    DriverErrors = TRUE
    MaxEvents = 1
INVARIANTS HijackOnlyInPortal StatusIsTrue StaSettingsApplied
CHECK_DEADLOCK FALSE
