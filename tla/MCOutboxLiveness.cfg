CONSTANTS
    e1 = e1
    e2 = e2
    d1 = d1
    d2 = d2
    t1 = t1
    t2 = t2
    t3 = t3
    t4 = t4
    NoToken = NoToken
    NoEvent = NoEvent
    Events = {e1, e2}
    Poison = {e2}
    Dispatchers = {d1, d2}
    Tokens = {t1, t2, t3}
    MaxAttempts = 3
    BatchSize = 2
    Faults = {"crash", "database", "broker"}
SPECIFICATION FairSpec
CHECK_DEADLOCK FALSE
INVARIANTS
    NoDoubleDispatch
PROPERTIES
    EveryEventSettles
