------------------------------ MODULE Watchdog -----------------------------
(* The watchdog of CTick (src/HBase/Tick.cpp): each worker writes the name of *)
(* the service it runs and counts a version, before and after each run; every *)
(* five seconds the timer thread looks whether the versions have moved, and   *)
(* warns of a worker whose version has not although it has a name.  Neither   *)
(* takes a lock, and every access is a step of its own.                       *)
EXTENDS Naturals

CONSTANTS
    m_usMonitorNum,     \* number of workers
    Tasks,              \* the services
    NoName,             \* a NULL name
    MaxRuns             \* bound: runs of a worker

WatchdogAssumption ==
    m_usMonitorNum \in Nat \ {0} /\ MaxRuns \in Nat /\ NoName \notin Tasks

Workers == 0 .. m_usMonitorNum - 1

NoAlarm == [worker |-> m_usMonitorNum, name |-> NoName]

VARIABLES
    pcWorker,       \* [Workers -> "free", "named", "running", "stuck", "unnamed"]
    task,           \* [Workers -> the service of its run]
    m_pMonitor,     \* [Workers -> [uiVersion, uiCheckVersion, pName]]
    pcMonitor,      \* the timer thread: "idle", "version", "name", "log"
    usI,            \* its locals in Monitor
    uiVer,
    alarm,          \* what it logged last, until it looks at the next worker
    looks           \* [Workers -> how often it has read the version since the
                    \* worker counted it for its run, at most 2]; no code

vars == <<pcWorker, task, m_pMonitor, pcMonitor, usI, uiVer, alarm, looks>>
workerVars == <<pcWorker, task>>
monitorVars == <<pcMonitor, usI, uiVer, alarm>>

TypeOK ==
    /\ pcWorker \in [Workers -> {"free", "named", "running", "stuck", "unnamed"}]
    /\ task \in [Workers -> Tasks \union {NoName}]
    /\ m_pMonitor \in [Workers ->
            [uiVersion : 0 .. 2 * MaxRuns, uiCheckVersion : 0 .. 2 * MaxRuns,
             pName : Tasks \union {NoName}]]
    /\ pcMonitor \in {"idle", "version", "name", "log"}
    /\ usI \in Workers
    /\ uiVer \in 0 .. 2 * MaxRuns
    /\ alarm \in [worker : 0 .. m_usMonitorNum, name : Tasks \union {NoName}]
    /\ looks \in [Workers -> 0 .. 2]

Init ==
    /\ pcWorker = [w \in Workers |-> "free"]
    /\ task = [w \in Workers |-> NoName]
    /\ m_pMonitor = [w \in Workers |->
            [uiVersion |-> 0, uiCheckVersion |-> 0, pName |-> NoName]]
    /\ pcMonitor = "idle" /\ usI = 0 /\ uiVer = 0
    /\ alarm = NoAlarm
    /\ looks = [w \in Workers |-> 0]

----------------------------------------------------------------------------
(* A worker, CWorker::runTask.  Its two calls of monitorTrigger write the     *)
(* name, then count the version.                                              *)

WriteName(w, name) == m_pMonitor' = [m_pMonitor EXCEPT ![w].pName = name]
CountVersion(w) == m_pMonitor' = [m_pMonitor EXCEPT ![w].uiVersion = @ + 1]

NameTask(w, t) ==
    /\ pcWorker[w] = "free"
    /\ m_pMonitor[w].uiVersion < 2 * MaxRuns
    /\ pcWorker' = [pcWorker EXCEPT ![w] = "named"]
    /\ task' = [task EXCEPT ![w] = t]
    /\ WriteName(w, t)
    /\ UNCHANGED <<monitorVars, looks>>

\* Mutant: only the end of a run is counted, not its beginning.
BeginRunUncounted(w) ==
    /\ pcWorker[w] = "named"
    /\ pcWorker' = [pcWorker EXCEPT ![w] = "running"]
    /\ looks' = [looks EXCEPT ![w] = 0]
    /\ UNCHANGED <<task, m_pMonitor, monitorVars>>

BeginRun(w) ==
    /\ pcWorker[w] = "named"
    /\ pcWorker' = [pcWorker EXCEPT ![w] = "running"]
    /\ CountVersion(w)
    /\ looks' = [looks EXCEPT ![w] = 0]
    /\ UNCHANGED <<task, monitorVars>>

\* The service gets into an endless loop.
LoopForever(w) ==
    /\ pcWorker[w] = "running"
    /\ pcWorker' = [pcWorker EXCEPT ![w] = "stuck"]
    /\ UNCHANGED <<task, m_pMonitor, monitorVars, looks>>

UnnameTask(w) ==
    /\ pcWorker[w] = "running"
    /\ pcWorker' = [pcWorker EXCEPT ![w] = "unnamed"]
    /\ WriteName(w, NoName)
    /\ UNCHANGED <<task, monitorVars, looks>>

EndRun(w) ==
    /\ pcWorker[w] = "unnamed"
    /\ pcWorker' = [pcWorker EXCEPT ![w] = "free"]
    /\ task' = [task EXCEPT ![w] = NoName]
    /\ CountVersion(w)
    /\ UNCHANGED <<monitorVars, looks>>

----------------------------------------------------------------------------
(* The timer thread, Monitor.                                                 *)

StartCheck ==
    /\ pcMonitor = "idle"
    /\ pcMonitor' = "version"
    /\ UNCHANGED <<workerVars, m_pMonitor, usI, uiVer, alarm, looks>>

\* The loop's increment; after the last worker, the next five seconds.
NextWorker ==
    /\ usI' = (usI + 1) % m_usMonitorNum
    /\ pcMonitor' = IF usI + 1 = m_usMonitorNum THEN "idle" ELSE "version"

\* Mutant: the version that was read is not kept.
ReadVersionForgetting ==
    /\ pcMonitor = "version"
    /\ uiVer' = m_pMonitor[usI].uiVersion
    /\ alarm' = NoAlarm
    /\ looks' = [looks EXCEPT ![usI] = IF @ < 2 THEN @ + 1 ELSE 2]
    /\ IF uiVer' = m_pMonitor[usI].uiCheckVersion
       THEN pcMonitor' = "name" /\ UNCHANGED usI
       ELSE NextWorker
    /\ UNCHANGED <<workerVars, m_pMonitor>>

\* The version is read; one that has moved is kept.
ReadVersion ==
    /\ pcMonitor = "version"
    /\ uiVer' = m_pMonitor[usI].uiVersion
    /\ alarm' = NoAlarm
    /\ looks' = [looks EXCEPT ![usI] = IF @ < 2 THEN @ + 1 ELSE 2]
    /\ IF uiVer' = m_pMonitor[usI].uiCheckVersion
       THEN pcMonitor' = "name" /\ UNCHANGED <<usI, m_pMonitor>>
       ELSE /\ m_pMonitor' = [m_pMonitor EXCEPT ![usI].uiCheckVersion = uiVer']
            /\ NextWorker
    /\ UNCHANGED workerVars

TestName ==
    /\ pcMonitor = "name"
    /\ IF m_pMonitor[usI].pName # NoName
       THEN pcMonitor' = "log" /\ UNCHANGED usI
       ELSE NextWorker
    /\ UNCHANGED <<workerVars, m_pMonitor, uiVer, alarm, looks>>

\* The name is read again for the text.
LogTask ==
    /\ pcMonitor = "log"
    /\ alarm' = [worker |-> usI, name |-> m_pMonitor[usI].pName]
    /\ NextWorker
    /\ UNCHANGED <<workerVars, m_pMonitor, uiVer, looks>>

Worker(w) ==
    \/ \E t \in Tasks : NameTask(w, t)
    \/ BeginRun(w)
    \/ LoopForever(w)
    \/ UnnameTask(w)
    \/ EndRun(w)

Monitor == StartCheck \/ ReadVersion \/ TestName \/ LogTask

Next == Monitor \/ \E w \in Workers : Worker(w)

Spec == Init /\ [][Next]_vars

\* The timer thread goes on, whatever the workers do.
FairSpec == Spec /\ WF_vars(Monitor)

----------------------------------------------------------------------------
\* A worker that has counted the version for its run before the watchdog looks
\* is only suspected when the look before found it in the same run.
SuspectsWereSeen ==
    \A w \in Workers :
        (/\ usI = w
         /\ pcMonitor \in {"name", "log"}
         /\ pcWorker[w] \in {"running", "stuck"}
         /\ looks[w] > 0)
            => looks[w] = 2

\* A service in an endless loop is reported, by its name.
EndlessLoopIsReported ==
    \A w \in Workers : \A t \in Tasks :
        (pcWorker[w] = "stuck" /\ task[w] = t)
            ~> (alarm = [worker |-> w, name |-> t])

\* Every line the watchdog logs names a service that has been running since the
\* check before ("task %s maybe in an endless loop.").
AlarmIsJustified ==
    [][LogTask => (/\ m_pMonitor[usI].pName # NoName
                   /\ looks[usI] = 2
                   /\ pcWorker[usI] \in {"running", "stuck"})]_vars

=============================================================================
