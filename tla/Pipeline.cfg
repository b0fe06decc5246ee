\* A request, its retry and another request; one reload; a queue of one.
CONSTANTS
    Jobs = {1, 2, 3}
    Ids = {"a", "b"}
    IdOf <- RetryAndOther
    Decisions <- BothVersions
    NoEntry = NoEntry
    MaxVersion = 2
    MaxSize = 2
    Ttl = 2
    QueueMax = 1
    FailureThreshold = 1
    FailureCap = 2
    Cooldown = 1
SPECIFICATION FairSpec
INVARIANTS
    DoneExactlyOnce
    CacheHoldsModelBids
PROPERTIES
    RetryAfterAnswerHits
    EveryCallAnswered
CHECK_DEADLOCK FALSE
