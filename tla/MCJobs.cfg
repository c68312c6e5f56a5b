SPECIFICATION FairSpec
CONSTANTS
    a = a
    b = b
    j1 = j1
    t1 = t1
    t2 = t2
    Instance = {a, b}
    Job = {j1}
    Thread = {t1, t2}
    NoTask = NoTask
    MaxRuns = 2
    Guard = 1
    MaxAge = 2
INVARIANTS
    TypeOK
    StatusTruthful
PROPERTIES
    EndedRowsStand
    OrphansClosed
