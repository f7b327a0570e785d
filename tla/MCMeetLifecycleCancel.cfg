SPECIFICATION Spec
CONSTANTS
    NoDate = NoDate
    Meets = {m1}
    Tabs = {t1}
    MaxTime = 0
    ArchiveDelay = 0
    Times <- TimesNow
    Limits = {}
    MaxWaitlisted = 0
    MaxSkips = 1
    MaxCrashes = 0
    MaxLost = 0
PROPERTIES
    CancellingPreventsSubmissions
