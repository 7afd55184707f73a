\* Two sessions, three calls about one case, of which one may fail or go unheard.
CONSTANTS
    Cases = {c1}
    Staff = {s1, s2}
    Trusted = {s1, s2}
    Officers = {o1, o2}
    Choices = {"CORRECTED", "UNDER_INVESTIGATION"}
    Facts <- FactsHere
    Calls = {1, 2, 3}
    MaxFaults = 1
    None = None
SPECIFICATION Spec
CONSTRAINT MoreCallsIfOverbilled
SYMMETRY Symmetry
CHECK_DEADLOCK FALSE
INVARIANTS TypeOK TrailExplainsCase JobFollowsAssignment OneEffectPerOpening
PROPERTY FinalWordsStand
