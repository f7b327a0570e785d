SPECIFICATION Spec
CONSTANTS
    Sheets = {v1, v2}
    Requests = {r1, r2}
    Contacts <- Family
    OrganizerContact <- Host
    Organizer = organizer
    Nobody = Nobody
SYMMETRY Symmetric
INVARIANTS
    TypeOK
    SequenceRespectsOrder
    NoDuplicateBehindCheck
    SubmittedIsStoredAndMailed
