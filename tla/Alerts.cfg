SPECIFICATION Spec
CONSTANTS
    w1 = w1
    w2 = w2
    r1 = r1
    r2 = r2
    r3 = r3
    None = None
    Deleted = Deleted
    Settings = Settings
    Requests = {r1, r2, r3}
    Bodies <- MCBodies
    Watches = {w1, w2}
    Users = {"ana", "bob", "root"}
    Terms <- MCTerms
    Marketplaces = {"olx", "nowhere"}
    Scalars <- MCScalars
    Malformed = {"nan"}
    Impossible = {"negative"}
    Blank = {" "}
    Unknown = {"nowhere"}
    Fold <- MCFold
    Seed = {"sucata", "quebrado"}
    Saved <- MCSaved
INVARIANTS TypeOK EachAlertIsOneRequests SeedIsOneListOfItsTime RefusedLeavesNothing LocksAreLetGo
PROPERTIES PauseSurvivesEdits AlertsImplemented
SYMMETRY Symmetry
CHECK_DEADLOCK FALSE
