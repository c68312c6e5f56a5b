SPECIFICATION Spec
CONSTANTS
    k1 = k1
    k2 = k2
    p1 = p1
    p2 = p2
    w1 = w1
    w2 = w2
    Key = {k1}
    Price = {p1, p2}
    Writer = {w1, w2}
    NoRow = NoRow
    NoQuote = NoQuote
    NoPrice = NoPrice
    RowsPerKey = 1
    MaxRev = 3
    MaxClock = 2
SYMMETRY Symmetry
INVARIANTS
    TypeOK
    NoLookahead
    HistoryChain
PROPERTIES
    NeverOlderThanSeen
    RepullWritesNothing
    ImplementsLedger
