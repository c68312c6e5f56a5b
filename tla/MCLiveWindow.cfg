SPECIFICATION Spec
CONSTANTS
    Hour = 12
    Spring = 24
    Autumn = 60
    Last = 112
    Watched <- Pairs
    Delay = 1
    Recent = 4
    Lookback = 36
    Phase = 1
    MaxFailed = 1
INVARIANTS
    TypeOK
    NoHourShifted
    NoHoles
