SPECIFICATION Spec
CONSTANTS
    Pages = {1, 2}
    System = System
    Definitions = {System, d1, d2}
    Requests = {r1, r2}
    MaxRevision = 2
    None = None
SYMMETRY Symmetry
INVARIANTS TypeOK EditsSeeThePage SectionsAreComplete OrdersAreDistinct NoWaitCycle
PROPERTY ImplementsStore
CHECK_DEADLOCK FALSE
