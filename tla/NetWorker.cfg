SPECIFICATION Spec
CONSTANTS
    Socks = {s1, s2}
    Types = {http, echo}
    StopType = http
    NoSock = NoSock
    NoType = NoType
    Calls = {"Send", "addTcpLink", "delTcpLink", "closeSock", "addListener", "delListener", "closeByType"}
    MaxCalls = 2
    MaxConn = 2
    MaxId = 2
    MaxTries = 1
INVARIANTS
    SenderFollowsSessions
    LateDataIsDropped
    SocketsAreOwned
    LinksKnowTheirSession
    StopClosesClients
CHECK_DEADLOCK FALSE
