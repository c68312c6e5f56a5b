SPECIFICATION Spec
CONSTANTS
    x = x
    y = y
    p1 = p1
    p2 = p2
    None = None
    Auction = {"auction"}
    PointPrice <- SomePrices
    Limit = 2
    MaxFaults = 1
    Endpoint = {x, y}
    Awarded <- SomeAwards
    PaperBid = {}
    SheetRow <- SomeRows
    MonthDays = 2
    LastMonth = 1
    Pass = {p1}
INVARIANT
    SheetsGradedInFull
