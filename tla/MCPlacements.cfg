SPECIFICATION Spec
CONSTANTS
    d1 = d1  d2 = d2
    r1 = r1  r2 = r2
    visible = visible  hidden = hidden
    Documents = {d1, d2}
    Sections = {visible, hidden}
    Groups = {"GIA_9", "ABOUT"}
    GroupOf <- MCGroupOf
    Actors <- MCActors
    Forms <- MCForms
    Requests = {r1, r2}
    MaxOrder = 1
    None = None
SYMMETRY Symmetry
INVARIANTS PlacementsAreConsistent ReordersDoNotMix
PROPERTIES ScopesAreRespected ReplacementIsExact
CHECK_DEADLOCK FALSE
