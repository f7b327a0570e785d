SPECIFICATION RecordsSpec
CONSTANTS
    Pages = {p1, p2}
    Mailboxes = {b1, b2}
    MaxAttempts = 2
    MaxCodes = 2
    MaxStored = 5
    MaxRequests = 2
    NoMailbox = NoMailbox
    ResetPages = {p1, p2}
    MaxLinks = 2
    Forms = {f1}
    Logins = {p1, p2}
    Emails = {x1, x2}
    Orgs = {o1}
    Rows = {r1, r2}
    Meets = {m1}
    None = None
    Users = {p1, p2}
    OtherRoles = {"member"}
    Nobody = Nobody
    MaxWrites = 2
    Keys = {k1, k2}
    Required = {k1}
    Values = {x1, x2}
    NoValue = NoValue
    Applications = {a1}
    Sheets = {p1, p2}
    MaxSaves = 3
    TemplateTabs = {p1, p2}
    Templates = {t1}
    TemplateKeys = {x1}
    NoTemplate = NoTemplate
    AutoFillTabs = {p1, p2}
    AutoFillKeys = {diet}
    AutoFillValues = {yes}
    NoAnswer = NoAnswer
    FormMeets = {m1}
    NoMeetRow = NoMeetRow
    Steps <- MCSteps
    Texts = {yes}
    Blank = Blank
    MaxTyped = 2
SYMMETRY Symmetric
INVARIANTS
    RecordsTypeOK
    VerifiedByItsMailbox
    FewTries
    RegisteredIsLinked
    SpentLinkIsDead
    
    RequiredIsAnswered
    NoOrphanedAnswer
    FormIsItsMeet
PROPERTIES
    FreshCodeKept
    
    UntouchedIsKept
    QuestionsOnlyRemoved
    KeptUnlessCleared
CHECK_DEADLOCK FALSE
