SPECIFICATION Spec
CONSTANTS
    None = None
    Watches = {"w"}
    Users = {"u"}
    Owner <- OneOwner
    Marketplaces = {"olx", "facebook"}
    Requests <- OnceOrTwice
    Intervals <- OneInterval
    MaxRunning = 2
    MaxEdits = 1
    MaxFaults = 0
PROPERTIES EndedScanIsRescheduled
