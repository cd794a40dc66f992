SPECIFICATION FairSpec
CONSTANTS
    s1 = s1
    s2 = s2
    s3 = s3
    None = None
    Scans = {s1, s2}
    Marketplaces = {"olx", "gone"}
    Registered = {"olx"}
    ExternalIds = {"a"}
    Terms <- MCTerms
    WatchConfigs <- FilterEdits
    Results <- NoneOrTitled
    Overlap = TRUE
    MaxFaults = 1
    Words <- MCWords
    Titles <- MCTitles
    Searches <- MCSearches
    Prices <- MCPrices
    OfferSets <- MCOfferSets
    Limits = {1, 2, 3}
INVARIANTS
    TypeOK
    ReportExact
    EveryOfferHasHistory
    StoredOffersPassTheFilter
    ScoreFollows
    FilterFollows
    ListingFollows
PROPERTIES
    RescanPreservesOwnersRows
    NoScanHidesItsOwnOffers
    EveryScanEnds
CHECK_DEADLOCK FALSE
