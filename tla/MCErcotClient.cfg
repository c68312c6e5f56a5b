SPECIFICATION FairSpec
CONSTANTS
    t1 = t1
    t2 = t2
    Thread = {t1, t2}
    NoThread = NoThread
    MaxRetries = 2
    TTL = 2
    Margin = 1
    Latency = 1
    Delay = 0
    MaxTokens = 2
    MaxTime = 3
INVARIANTS
    SentBeforeExpiry
    RetryIsFresh
PROPERTIES
    NoNeedlessFetch
    CallsEnd
