------------------------------ MODULE MCLibrary -----------------------------
(* The parts that share no state, in one run: identifiers, ring and pool of   *)
(* src/HBase, the reader/writer lock, the watchdog, start and stop of the     *)
(* process, and the event thread that reads a connection.  The initial state  *)
(* says which part the behaviour is about; the others stay where they start.  *)
EXTENDS SnowFlake, CirQueue, ObjPool, MCTcpRead, TLC

CONSTANTS
    Readers, Writers, NoThread,             \* RWLock
    m_usMonitorNum, Tasks, NoName, MaxRuns, \* Watchdog
    m_bSet, m_pWorker, MaxSignals           \* Shutdown

VARIABLES
    cs, lReader_Count, bEnter_Writer, pcLock,
    pcWorker, task, m_pMonitor, pcMonitor, usI, uiVer, alarm, looks,
    pcMain, next, status, working, handler, g_objExitMu, logLock, waiting, signals,
    part

\* The lock with readers and writers, and with the same threads when all of
\* them write and one reads as well.
Lock == INSTANCE RWLock WITH pc <- pcLock
Alone == INSTANCE RWLock WITH Readers <- {CHOOSE t \in Readers : TRUE},
                              Writers <- Readers \cup Writers, pc <- pcLock
Dog == INSTANCE Watchdog
Proc == INSTANCE Shutdown

ASSUME LibraryAssumption ==
    /\ Lock!NoThreadAssumption /\ Dog!WatchdogAssumption
    /\ Proc!ShutdownAssumption

MCGens == {1, 2}
MCCenterid == [g \in MCGens |-> 1]
MCWorkid == [g \in MCGens |-> g - 1]

lockVars == <<cs, lReader_Count, bEnter_Writer, pcLock>>
dogVars == <<pcWorker, task, m_pMonitor, pcMonitor, usI, uiVer, alarm, looks>>
procVars ==
    <<pcMain, next, status, working, handler, g_objExitMu, logLock, waiting, signals>>

Parts == {"ids", "ring", "pool", "lock", "oneReader", "watchdog", "process", "connection"}

\* A part that does not move needs one initial state only.
LibraryInit ==
    /\ part \in Parts
    /\ part = "ids" \/ clock = 0
    /\ part = "ring" \/ m_pData = [p \in Places |-> CHOOSE v \in Values : TRUE]
    /\ part = "pool"
        \/ m_quFree = CHOOSE q \in [1 .. uiInitNum -> Objects] : IsInjective(q)
    /\ part = "connection" \/ stream = CHOOSE s \in Streams : TRUE
    /\ IdsInit /\ QueueInit /\ PoolInit /\ Init
    /\ Lock!Init /\ Dog!Init /\ Proc!Init

In(p) ==
    /\ part = p /\ part' = part
    /\ IF p = "ids" THEN TRUE ELSE UNCHANGED idsVars
    /\ IF p = "ring" THEN TRUE ELSE UNCHANGED queueVars
    /\ IF p = "pool" THEN TRUE ELSE UNCHANGED poolVars
    /\ IF p \in {"lock", "oneReader"} THEN TRUE ELSE UNCHANGED lockVars
    /\ IF p = "watchdog" THEN TRUE ELSE UNCHANGED dogVars
    /\ IF p = "process" THEN TRUE ELSE UNCHANGED procVars
    /\ IF p = "connection" THEN TRUE ELSE UNCHANGED vars

\* The process ends and a connection falls silent; the other parts go on.
MayStop == (In("process") /\ UNCHANGED procVars) \/ (In("connection") /\ UNCHANGED vars)

LibraryNext ==
    \/ In("ids") /\ IdsNext
    \/ In("ring") /\ QueueNext
    \/ In("pool") /\ PoolNext
    \/ In("lock") /\ Lock!Next
    \/ In("oneReader") /\ Alone!Next
    \/ In("watchdog") /\ Dog!Next
    \/ In("process") /\ Proc!Next
    \/ In("connection") /\ Next
    \/ MayStop

\* The fairness of each part, FairSpec of its module, while it is the one that
\* moves.
LibrarySpec ==
    /\ LibraryInit
    /\ [][LibraryNext]_<<idsVars, queueVars, poolVars, lockVars, dogVars, procVars, vars, part>>
    /\ \A t \in Lock!Threads : WF_lockVars(part \in {"lock", "oneReader"} /\ Lock!Step(t))
    /\ WF_dogVars(part = "watchdog" /\ Dog!Monitor)
    /\ SF_procVars(part = "process" /\ Proc!Onward)
    /\ WF_procVars(part = "process" /\ Proc!LogGiven)

----------------------------------------------------------------------------
(* The properties of the parts that are instances; each is stated, with the   *)
(* code it is about, in its module.                                           *)

\* CRWLock implements a reader/writer lock.
LockIsReadersWriters == Lock!ImplementsReadersWriters

\* A writer of CRWLock that waits for the readers gets in.
LockLetsWriterIn == Lock!WriterGetsIn

\* CTick suspects no run that it has counted once only.
WatchdogHasSeen == Dog!SuspectsWereSeen

\* CTick reports an endless loop, by its name.
WatchdogReports == Dog!EndlessLoopIsReported

\* The threads of runSV and the workers start before and end after those that
\* use them.
ProcessKeepsOrder == Proc!RegistryIsQuiet /\ Proc!EndsAfterItsUsers

\* A signal in the wait of runSV stops the process, in a thread that is not
\* inside the log, unless another one follows.
ProcessStops == Proc!SignalWhileWaitingStops

=============================================================================
