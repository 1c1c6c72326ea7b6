SPECIFICATION Spec
CONSTANTS
    Keys = {k1, k2}
    Pages = {p1, p2}
    Small = {p2}
    MaxImages = 2
    MaxTouches = 1
    MaxFaults = 1
    MaxAsks = 2
    MaxAtOnce = 2
SYMMETRY Alike
INVARIANTS ResetForgets StoredIsKept PagesAreCurrent
CHECK_DEADLOCK FALSE
