SPECIFICATION Spec
CONSTANTS
    Tasks = {echo}
    ThreadNum = 1
    Senders = {net}
    Quiet = {}
    Net = net
    Messages = {m1}
    NoTask = NoTask
    NoMsg = NoMsg
INVARIANTS
    EveryRunFindsMessage
CHECK_DEADLOCK FALSE
