SPECIFICATION Spec
CONSTANTS
    Attendees = {a1}
    Organizers = {o1}
    Scanners = {}
    Decisions <- TwoDecisions
    Nobody = Nobody
PROPERTIES
    NotifiedLearnsOfDecisions
