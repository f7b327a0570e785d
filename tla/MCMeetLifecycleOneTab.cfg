SPECIFICATION FairSpec
CONSTANTS
    NoDate = NoDate
    Meets = {m1}
    Tabs = {t1}
    MaxTime = 1
    ArchiveDelay = 0
    Times <- LateTimes
    Limits <- OneLimit
    MaxWaitlisted = 1
    MaxSkips = 2
    MaxCrashes = 1
    MaxLost = 0
INVARIANTS
    QuietPassSettles
PROPERTIES
    
    RefinesProtocol
    DueIsServed
    NoMeetStaysLive
