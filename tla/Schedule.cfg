SPECIFICATION FairSpec
CONSTANTS
    None = None
    Watches = {"w"}
    Users = {"u"}
    Owner <- OneOwner
    Marketplaces = {"olx", "facebook"}
    Requests <- OnceOrTwice
    Intervals <- OneInterval
    MaxRunning = 2
    MaxEdits = 1
    MaxFaults = 1
INVARIANTS TypeOK ScheduleIsWhatTheOwnerSaved
PROPERTIES EveryActivePairRecurs EveryEditIsScanned PausedGoesQuiet
