SPECIFICATION Spec
CONSTANTS
    Producers = {p1, p2}
    Messages = {m1, m2, m3}
    NoMsg = NoMsg
INVARIANTS
    TypeOK
    NoLostWakeup
PROPERTIES
    JoinedIsQuiet
    JoinReturns
    ImplementsSerialExecutor
CHECK_DEADLOCK FALSE
