SPECIFICATION Spec
CONSTANTS
    Producers = {p1}
    Messages = {m1}
    NoMsg = NoMsg
INVARIANTS
    JoinCompletesQueue
CHECK_DEADLOCK FALSE
