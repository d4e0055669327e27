SPECIFICATION Spec
CONSTANTS
    Tasks = {echo, test}
    ThreadNum = 2
    Senders = {net, tick}
    Quiet = {tick}
    Net = net
    Messages = {m1, m2, m3}
    NoTask = NoTask
    NoMsg = NoMsg
INVARIANTS
    TypeOK
    OneRunnerPerTask
    OneTaskPerWorker
    NotificationsCoverMessages
    WorkerRunFindsMessage
    DestroyAfterLastRun
PROPERTIES
    ImplementsActors
    MessagesAreReceived
    JoinReturns
CHECK_DEADLOCK FALSE
