SPECIFICATION Spec
CONSTANTS
    Attendees = {a1, a2}
    Organizers = {o1}
    Scanners = {}
    Decisions <- TwoDecisions
    Nobody = Nobody
SYMMETRY Symmetric
INVARIANTS
    NotifiedWasMailed
PROPERTIES
    RefinesAttendeeProtocol
