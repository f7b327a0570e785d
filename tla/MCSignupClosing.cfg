SPECIFICATION Spec
CONSTANTS
    Sheets = {v1}
    Requests = {r1, r2}
    Contacts <- Family
    OrganizerContact <- Host
    Organizer = organizer
    Nobody = Nobody
PROPERTIES
    ClosingPreventsSubmissions
