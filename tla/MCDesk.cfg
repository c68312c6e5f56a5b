SPECIFICATION Spec
CONSTANTS
    MinHistory = 3
    Embargo = 6
    Days <- AllDays
    BlockHours <- HoursThen
    Paths <- SomePaths
    Valuations <- SomeValuations
    Books <- SomeBooks
    Histories <- SomeHistories
    FlagSets <- SomeFlagSets
    HubPaths <- SomeHubPaths
INVARIANTS
    CalendarTwins
    TypicalMonth
    SheetAsShown
    UploadMatchesReview
    DecidedOnThePast
CHECK_DEADLOCK FALSE
