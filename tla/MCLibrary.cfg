SPECIFICATION LibrarySpec
CONSTANTS
    Gens <- MCGens
    Centerid <- MCCenterid
    Workid <- MCWorkid
    DatacenterSize = 2
    WorkerSize = 2
    SequenceSize = 2
    MaxClock = 2
    Values = {v1, v2, v3}
    NULL = NULL
    m_iCapacity = 4
    Objects = {o1, o2, o3, o4}
    uiInitNum = 2
    Readers = {r1, r2, r3}
    Writers = {w1, w2}
    NoThread = NoThread
    m_usMonitorNum = 2
    Tasks = {t1, t2}
    NoName = NoName
    MaxRuns = 2
    m_bSet = FALSE
    m_pWorker = {"worker 0"}
    MaxSignals = 2
    Base = 8
    Streams <- MCStreams
INVARIANTS
    Unique
    OneOwner
    WatchdogHasSeen
    ProcessKeepsOrder
    
    
PROPERTIES
    ImplementsBoundedFifo
    LockIsReadersWriters
    LockLetsWriterIn
    WatchdogReports
    ProcessStops
