SPECIFICATION Spec
CONSTANTS
    s1 = s1
    s2 = s2
    s3 = s3
    None = None
    Scans = {s1, s2}
    Marketplaces = {"olx"}
    Registered = {"olx"}
    ExternalIds = {"a"}
    Terms <- MCTerms
    WatchConfigs <- OneConfig
    Results <- AtMostOne
    Overlap = TRUE
    MaxFaults = 0
INVARIANTS NoRepeatedPoint
SYMMETRY Symmetry
CHECK_DEADLOCK FALSE
