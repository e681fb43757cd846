CONSTANTS
    Attempts = {r1, r2}
    Addresses = {a1}
    Names = {n1}
    MaxAttempts = 2
    Window = 2
    Block = 2
    MaxTime = 3
    None = None
SPECIFICATION LimiterSpec
SYMMETRY MCSymmetry
INVARIANTS CountsAreExact OverlapsAreBounded
PROPERTY BlockOutrunOnlyFromInside
CHECK_DEADLOCK FALSE
