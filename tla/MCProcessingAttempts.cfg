CONSTANTS
    j1 = j1
    j2 = j2
    u1 = u1
    m1 = m1
    w1 = w1
    w2 = w2
    t1 = t1
    t2 = t2
    t3 = t3
    t4 = t4
    NoToken = NoToken
    NoBody = NoBody
    Jobs = {j1}
    Unknown = {}
    Malformed = {}
    Workers = {w1, w2}
    Tokens = {t1, t2, t3}
    MaxAttempts = 2
    RetryBatchSize = 1
    MaxCopies = 1
    Faults = {"crash"}
SPECIFICATION Spec
SYMMETRY Symmetry
CHECK_DEADLOCK FALSE
INVARIANTS
    AttemptsWithinBudget
