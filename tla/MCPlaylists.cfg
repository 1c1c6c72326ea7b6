SPECIFICATION Spec
CONSTANTS
    Ids = {p, q}
    Users = {"ann"}
    Items = {"x"}
    Images = {a, b}
    FormatOf <- MCFormatOf
    Requests = {r1, r2}
    MaxRequests = 3
    MaxFaults = 1
    MaxMeddling = 1
SYMMETRY Alike
INVARIANTS CopiesAreReachable PosterIsTold ExportTells
PROPERTIES StrangersAreSafe
CHECK_DEADLOCK FALSE
