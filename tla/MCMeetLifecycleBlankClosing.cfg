SPECIFICATION Spec
CONSTANTS
    NoDate = NoDate
    Meets = {m1}
    Tabs = {t1}
    MaxTime = 1
    ArchiveDelay = 1
    Times <- LateTimes
    Limits <- NoLimits
    MaxWaitlisted = 0
    MaxSkips = 1
    MaxCrashes = 0
    MaxLost = 0
INVARIANTS
    BlankClosesAtStart
