SPECIFICATION Spec
CONSTANTS
    p1 = p1
    p2 = p2
    w1 = w1
    w2 = w2
    Point = {p1, p2}
    Worker = {w1, w2}
    LastDay = 4
    Span = 3
    PageSize = 1
    MaxPages = 2
    MaxRuns = 1
    Faults = {"start_run"}
    Row <- Keys
    Request <- Requests
    Reports <- FirstReports
    Late <- LateKeys
INVARIANTS
    RefusedForARun
