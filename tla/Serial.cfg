SPECIFICATION Spec
CONSTANTS
    s1 = s1
    s2 = s2
    s3 = s3
    None = None
    Scans = {s1, s2, s3}
    Marketplaces = {"olx"}
    Registered = {"olx"}
    ExternalIds = {"a", "b"}
    Terms <- MCTerms
    WatchConfigs <- TargetEdits
    Results <- DropOrOther
    Overlap = FALSE
    MaxFaults = 1
INVARIANTS HistoryEndsAtCurrentPrice NoRepeatedNotification EveryCrossingIsNotified ListingIsWhatTheScanSaw
PROPERTIES HistoryImplemented
SYMMETRY Symmetry
CHECK_DEADLOCK FALSE
