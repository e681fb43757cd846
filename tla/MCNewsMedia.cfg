SPECIFICATION MediaSpec
CONSTANTS
    Keys = {k1}
    NewsIds = {a1}
    Requests = {r1, r2}
    Cleaners = {c1}
    MaxRows = 2
    MaxMediaFaults = 1
    None = None
INVARIANTS ImagesAreExplained LiveCoversAreServed
PROPERTY CleanupCollects
CHECK_DEADLOCK FALSE
