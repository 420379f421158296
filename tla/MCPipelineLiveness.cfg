CONSTANTS
    j1 = j1
    w1 = w1
    d1 = d1
    d2 = d2
    t1 = t1
    t2 = t2
    o1 = o1
    o2 = o2
    o3 = o3
    NoToken = NoToken
    NoBody = NoBody
    NoEvent = NoEvent
    Jobs = {j1}
    Unknown = {}
    Malformed = {}
    Workers = {w1}
    Tokens = {t1, t2}
    MaxAttempts = 2
    RetryBatchSize = 1
    Dispatchers = {d1}
    OutboxTokens = {o1, o2}
    OutboxMaxAttempts = 2
    BatchSize = 1
    MaxCopies = 2
    Faults = {}
    OutboxFaults = {"broker", "slow"}
SPECIFICATION FairSpec
CHECK_DEADLOCK FALSE
PROPERTIES
    EveryJobAnswered
