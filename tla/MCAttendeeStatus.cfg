SPECIFICATION Spec
CONSTANTS
    Attendees = {a1}
    Organizers = {o1, o2}
    Scanners = {s1}
    Decisions <- TwoDecisions
    Nobody = Nobody
SYMMETRY Symmetric
INVARIANTS
    TypeOK
    ToldIsSo
PROPERTIES
    WithdrawnForGood
