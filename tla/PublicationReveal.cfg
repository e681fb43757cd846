SPECIFICATION Spec
CONSTANTS
    a1 = a1
    p1 = p1
    d1 = d1
    Articles = {a1}
    Placements = {p1}
    Documents = {d1}
    DocumentOf <- MCDocumentOf
    MaxTime = 2
    MaxDelay = 1
    MaxFaults = 1
    NoTime = NoTime
CHECK_DEADLOCK FALSE
PROPERTY SweepRevealsNothing
