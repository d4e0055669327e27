SPECIFICATION Spec
CONSTANTS
    Socks = {s1}
    Types = {http, echo}
    StopType = http
    NoSock = NoSock
    NoType = NoType
    Calls = {"Send", "closeSock", "addListener", "delListener", "closeByType"}
    MaxCalls = 2
    MaxConn = 2
    MaxId = 2
    MaxTries = 1
PROPERTIES
    JoinReturns
    ClosedIsForgotten
CHECK_DEADLOCK FALSE
