SPECIFICATION Spec
CONSTANTS
    DocumentIds = {d1, d2}
    Contents = {c1, c2}
    Keys = {k1, k2}
    Requests = {r1, r2}
    MaxFaults = 1
    None = None
SYMMETRY Symmetry
INVARIANTS TablesAreConsistent 
CHECK_DEADLOCK FALSE
