SPECIFICATION FairSpec
CONSTANTS
    Scans = {s1}
    MaxFiles = 2
    OfferedKinds = {"code", "local", "git", "dynamic"}
    MaxTargets = 1
    DbMayFail = FALSE
    MayCrash = FALSE
PROPERTIES
    CancelSticks
CHECK_DEADLOCK FALSE
