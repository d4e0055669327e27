SPECIFICATION Spec
CONSTANTS
    Tasks = {echo}
    ThreadNum = 1
    Senders = {net}
    Quiet = {}
    Net = net
    Messages = {m1}
    NoTask = NoTask
    NoMsg = NoMsg
INVARIANTS
    NothingLeftBehind
CHECK_DEADLOCK FALSE
