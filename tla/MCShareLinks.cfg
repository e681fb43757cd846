SPECIFICATION Spec
CONSTANTS
    d1 = d1
    v1 = v1
    v2 = v2
    Documents = {d1}
    Versions = {v1, v2}
    DocumentOf <- MCDocumentOf
    Links = {l1, l2, l3}
    Requests = {r1, r2, r3}
    MaxAttempts = 3
    None = None
SYMMETRY Symmetry
INVARIANTS TypeOK OnlyNewestIsLive NoDanglingLink NoWaitCycle
PROPERTIES NoLateAccess
CHECK_DEADLOCK FALSE
