SPECIFICATION AccessSpec
CONSTANTS
    QuotaUsers <- MCUsers
    Admins <- MCAdmins
    Starts <- MCStarts
    Owner <- MCOwner
    Limit <- MCLimit
    MaxOpen = 2
    MaxDay = 1
    s1 = s1
    s2 = s2
    t1 = t1
    t2 = t2
    Emails = {"someone"}
    Slots <- MCSlots
    Tokens <- MCTokens
    Links = {"link"}
    TokenLife = 1
    LinkLife = 1
    MaxTime = 1
    DbMayFail = TRUE
    Keys <- MCKeys
    MaxHits <- MCMaxHits
    Window <- MCWindow
    SweepInterval = 3
    StaleAfter = 3
    MaxNow = 5
    r1 = r1
    r2 = r2
    Requests <- MCRequests
    Controls <- MCControls
SYMMETRY MCSymmetry
INVARIANTS
    OverrunBound
    LogoutSticks
    RoleIsCurrent
    ResetOnce
    WindowBound
    ScanFailedByScan
    OwnerAnswerCounts
CHECK_DEADLOCK FALSE
