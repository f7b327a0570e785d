SPECIFICATION BrowserSpec
CONSTANTS
    Tabs = {t1, t2}
    Calls = {c1}
    Accounts = {u1, u2}
    NoAccount = NoAccount
    o1 = o1
    o2 = o2
    Orgs = {o1, o2}
    NoOrg = NoOrg
    AllowedModes <- MCAllowedModes
    Days <- MCDays
    FirstDay <- MCFirstDay
    ShortDays <- MCShortDays
    NoDay = NoDay
    CalendarMeets = {m1}
    NoMeet = NoMeet
    ann = ann
    bob = bob
    joanne = joanne
    Attendees = {a1, a2}
    NoAttendee = NoAttendee
    Addresses = {ann, bob, joanne}
    Organizer = joanne
    PartsOf <- MCPartsOf
    Incoming = {i1}
    Outgoing = {s1}
    Meets = {m1, m2}
    Rows <- MCRows
    NoTime = NoTime
    PageSizes = {1, 2}
    DashboardLimit = 2
    LastHour = 3
INVARIANTS
    BrowserTypeOK
    EffectsSettle
    
    ListedWasDelivered
    
    
PROPERTIES
    OrganizationIsKept
    GoneForGood
    EveryCallEnds
