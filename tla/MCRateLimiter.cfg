SPECIFICATION LimiterSpec
CONSTANTS
    t1 = t1
    t2 = t2
    t3 = t3
    Caller = {t1, t2}
    Limit = 2
    Window = 2
    LastTick = 6
SYMMETRY Symmetry
INVARIANTS
    Budget
    SentBudget
    NoBusyWait
CHECK_DEADLOCK FALSE
