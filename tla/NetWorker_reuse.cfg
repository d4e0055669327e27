SPECIFICATION Spec
CONSTANTS
    Socks = {s1}
    Types = {http}
    StopType = http
    NoSock = NoSock
    NoType = NoType
    Calls = {"Send"}
    MaxCalls = 1
    MaxConn = 2
    MaxId = 1
    MaxTries = 1
INVARIANTS
    DataReachesItsPeer
CHECK_DEADLOCK FALSE
