CONSTANTS
    dispatcher = dispatcher
    consumer1 = consumer1
    consumer2 = consumer2
    Nobody = Nobody
    Callers = {dispatcher, consumer1, consumer2}
    MaxPublishes = 5
    Faults = {"timeout"}
SPECIFICATION Spec
SYMMETRY Symmetry
CHECK_DEADLOCK FALSE
INVARIANTS
    OkMeansConfirmed
