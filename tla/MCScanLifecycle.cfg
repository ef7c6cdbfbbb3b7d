SPECIFICATION FairSpec
CONSTANTS
    Scans = {s1}
    MaxFiles = 3
    OfferedKinds = {"code", "local", "git", "dynamic"}
    MaxTargets = 2
    DbMayFail = TRUE
    MayCrash = TRUE
INVARIANTS
    NoScanLeftBehind
    VerdictMatchesSummary
    TempRootReleased
PROPERTIES
    DeletedStaysDeleted
    ImplementsRecord
    Settles
CHECK_DEADLOCK FALSE
