CONSTANTS
    g1 = g1
    g2 = g2
    scheduler = scheduler
    dispatcher = dispatcher
    Messages = {1, 2, 3}
    Unknown = {1}
    Goroutines = {g1, g2}
    Loops = {dispatcher}
    Dispatcher = dispatcher
    Prefetch = 2
    MaxStarts = 2
SPECIFICATION FairSpec
CHECK_DEADLOCK FALSE
INVARIANTS
    TypeOK
    DeliveriesAccountedFor
    ResourcesOutliveTheirUsers
    CleanExitOnlyOnSignal
PROPERTIES
    FailFast
    ComponentsReturn
    ShutdownTerminates
    EveryMessageHandled
