------------------------------ MODULE Shutdown -----------------------------
(* The process (src/Humble/Humble.cpp): runSV creates the threads of the      *)
(* services one after the other, waits on g_ExitCond until a signal's handler *)
(* broadcasts, and joins the threads.  A handler runs in any thread, which    *)
(* stands still meanwhile.  All threads log, under one lock: m_quLock of CLog, *)
(* which its own thread takes too, for each line and while it drains.         *)
EXTENDS Naturals, Sequences

CONSTANTS
    m_bSet,         \* CMail::getSetted: config.ini has a mail server
    m_pWorker,      \* the workers' threads, created by init before runSV
    MaxSignals      \* bound: signals sent to the process

Main == "main"

\* The threads in the order in which runSV creates and joins them; that of
\* CMail is there when there is a mail server.
Started ==
    IF m_bSet THEN <<"log", "mail", "linker", "net", "sender", "worker", "tick">>
              ELSE <<"log", "linker", "net", "sender", "worker", "tick">>

\* Mutant: the network stops before the services that answer through it.
JoinedNetFirst ==
    IF m_bSet THEN <<"tick", "net", "worker", "sender", "linker", "mail", "log">>
              ELSE <<"tick", "net", "worker", "sender", "linker", "log">>

Joined ==
    IF m_bSet THEN <<"tick", "worker", "sender", "net", "linker", "mail", "log">>
              ELSE <<"tick", "worker", "sender", "net", "linker", "log">>

Services == {Started[i] : i \in DOMAIN Started}
Threads == Services \union m_pWorker \union {Main}

ShutdownAssumption ==
    /\ m_bSet \in BOOLEAN /\ MaxSignals \in Nat
    /\ m_pWorker \intersect (Services \union {Main}) = {}

VARIABLES
    pcMain,         \* where the main thread is in runSV
    next,           \* the service it starts or joins: a place in the sequence
    status,         \* [Services -> "none", "created", "onStart", "running",
                    \*              "stopping", "draining" (CLog), "ended"]
    working,        \* the workers that run
    handler,        \* [Threads -> "none", or where sigHandEntry is]
    g_objExitMu,    \* the thread that holds it, or "free"
    logLock,        \* m_quLock of CLog: the thread that holds it, or "free"
    waiting,        \* the main thread is in the wait set of g_ExitCond
    signals         \* signals sent so far

vars == <<pcMain, next, status, working, handler, g_objExitMu, logLock, waiting, signals>>

TypeOK ==
    /\ pcMain \in {"create", "waitStart", "logStarted", "loggingStarted", "lock",
                   "toWait", "wait", "logStop", "loggingStop", "unlock", "join", "waitJoin",
                   "logStopped", "loggingStopped", "stopped"}
    /\ next \in 1 .. Len(Started) + 1
    /\ pcMain \in {"lock", "toWait", "wait"} => next = 1
    /\ status \in [Services ->
            {"none", "created", "onStart", "running", "stopping", "draining", "ended"}]
    /\ working \subseteq m_pWorker
    /\ handler \in [Threads -> {"none", "log", "mutex", "logging", "lock", "broadcast"}]
    /\ g_objExitMu \in Threads \union {"free"}
    /\ logLock \in Threads \union {"free"}
    /\ waiting \in BOOLEAN
    /\ signals \in 0 .. MaxSignals

Init ==
    /\ pcMain = "create" /\ next = 1
    /\ status = [s \in Services |-> "none"]
    /\ working = m_pWorker
    /\ handler = [t \in Threads |-> "none"]
    /\ g_objExitMu = "free" /\ logLock = "free"
    /\ waiting = FALSE
    /\ signals = 0

----------------------------------------------------------------------------
(* The main thread, runSV.                                                    *)

MainAt(from, to) ==
    /\ handler[Main] = "none"
    /\ pcMain = from /\ pcMain' = to

Creat ==
    /\ MainAt("create", "waitStart")
    /\ status' = [status EXCEPT ![Started[next]] = "created"]
    /\ UNCHANGED <<next, working, handler, g_objExitMu, logLock, waiting, signals>>

\* Mutant: the next thread is created without waiting for this one.
WaitStartNot ==
    /\ next' = IF next = Len(Started) THEN 1 ELSE next + 1
    /\ MainAt("waitStart", IF next = Len(Started) THEN "logStarted" ELSE "create")
    /\ UNCHANGED <<status, working, handler, g_objExitMu, logLock, waiting, signals>>

WaitStart ==
    /\ pcMain = "waitStart"
    /\ status[Started[next]] = "running"
    /\ next' = IF next = Len(Started) THEN 1 ELSE next + 1
    /\ MainAt("waitStart", IF next = Len(Started) THEN "logStarted" ELSE "create")
    /\ UNCHANGED <<status, working, handler, g_objExitMu, logLock, waiting, signals>>

\* H_LOG: addTask of CLog, under its lock.
Log(from, in, to) ==
    \/ /\ MainAt(from, in)
       /\ logLock = "free" /\ logLock' = Main
       /\ UNCHANGED <<next, status, working, handler, g_objExitMu, waiting, signals>>
    \/ /\ MainAt(in, to)
       /\ logLock' = "free"
       /\ UNCHANGED <<next, status, working, handler, g_objExitMu, waiting, signals>>

LockExit ==
    /\ MainAt("lock", "toWait")
    /\ g_objExitMu = "free" /\ g_objExitMu' = Main
    /\ UNCHANGED <<next, status, working, handler, logLock, waiting, signals>>

\* pthread_cond_wait gives the mutex back, and returns with it.
Wait ==
    /\ MainAt("toWait", "wait")
    /\ waiting' = TRUE
    /\ g_objExitMu' = "free"
    /\ UNCHANGED <<next, status, working, handler, logLock, signals>>

Woken ==
    /\ MainAt("wait", "logStop")
    /\ ~waiting
    /\ g_objExitMu = "free" /\ g_objExitMu' = Main
    /\ UNCHANGED <<next, status, working, handler, logLock, waiting, signals>>

UnlockExit ==
    /\ MainAt("unlock", "join")
    /\ g_objExitMu' = "free"
    /\ UNCHANGED <<next, status, working, handler, logLock, waiting, signals>>

Join ==
    /\ MainAt("join", "waitJoin")
    /\ status' = [status EXCEPT ![Joined[next]] = "stopping"]
    /\ UNCHANGED <<next, working, handler, g_objExitMu, logLock, waiting, signals>>

\* The last line of the log is written before CLog is joined.
WaitJoin ==
    /\ pcMain = "waitJoin"
    /\ status[Joined[next]] = "ended"
    /\ next' = next + 1
    /\ MainAt("waitJoin", CASE next = Len(Joined) -> "stopped"
                            [] next = Len(Joined) - 1 -> "logStopped"
                            [] OTHER -> "join")
    /\ UNCHANGED <<status, working, handler, g_objExitMu, logLock, waiting, signals>>

MainStep ==
    \/ Creat \/ WaitStart \/ LockExit \/ Wait \/ Woken \/ UnlockExit \/ Join \/ WaitJoin
    \/ Log("logStarted", "loggingStarted", "lock")
    \/ Log("logStop", "loggingStop", "unlock")
    \/ Log("logStopped", "loggingStopped", "join")

----------------------------------------------------------------------------
(* A service's thread: CNetBase::Run, CRecvTask::Run, CWorkerDisp::Run, of    *)
(* which this module keeps what happens before waitStart lets the main thread *)
(* go on, and that each ends after its Join has asked it to.                  *)

ServiceAt(s, from, to) ==
    /\ handler[s] = "none"
    /\ status[s] = from /\ status' = [status EXCEPT ![s] = to]

\* A thread that is about to log waits for the lock before it does anything
\* else; the dispatcher ends when it has joined its workers.
ServiceStep(s) ==
    /\ logLock # s
    /\ \/ ServiceAt(s, "created", "onStart")
       \/ ServiceAt(s, "onStart", "running")
       \/ ServiceAt(s, "stopping", "ended") /\ s # "log" /\ (s = "worker" => working = {})
    /\ UNCHANGED <<pcMain, next, working, handler, g_objExitMu, logLock, waiting, signals>>

\* Run of CLog ends with the lock, which it gives back afterwards.
LogDrains ==
    /\ ServiceAt("log", "stopping", "draining")
    /\ logLock = "free" /\ logLock' = "log"
    /\ UNCHANGED <<pcMain, next, working, handler, g_objExitMu, waiting, signals>>

LogEnds ==
    /\ ServiceAt("log", "draining", "ended")
    /\ UNCHANGED <<pcMain, next, working, handler, g_objExitMu, logLock, waiting, signals>>

\* stopWorker of the dispatcher joins them one after the other, here in any
\* order.
WorkerLeaves(w) ==
    /\ w \in working /\ working' = working \ {w}
    /\ status["worker"] = "stopping"
    /\ handler[w] = "none" /\ logLock # w
    /\ UNCHANGED <<pcMain, next, status, handler, g_objExitMu, logLock, waiting, signals>>

(* H_LOG of any of these threads: addTask of CLog, which takes the lock as    *)
(* long as CLog accepts; and Run of CLog, which takes it to pop a line.       *)

Accepts == status["log"] \notin {"stopping", "draining", "ended"}

Alive ==
    {Main} \union working \union
    {s \in Services : status[s] \in {"created", "onStart", "running", "stopping", "draining"}}

TakesLog(t) ==
    /\ t \in Alive \ {Main} /\ handler[t] = "none"
    /\ IF t = "log" THEN status[t] \in {"running", "stopping"} ELSE Accepts
    /\ logLock = "free" /\ logLock' = t
    /\ UNCHANGED <<pcMain, next, status, working, handler, g_objExitMu, waiting, signals>>

GivesLog(t) ==
    /\ t # Main /\ handler[t] = "none"
    /\ t = "log" => status[t] # "draining"
    /\ logLock = t /\ logLock' = "free"
    /\ UNCHANGED <<pcMain, next, status, working, handler, g_objExitMu, waiting, signals>>

LogGiven == \E t \in Threads : GivesLog(t)

(* A signal, and sigHandEntry in a thread of the process, which a second one  *)
(* does not interrupt.                                                        *)

Signal(t) ==
    /\ signals < MaxSignals /\ t \in Alive /\ handler[t] = "none"
    /\ pcMain # "stopped"
    /\ signals' = signals + 1
    /\ handler' = [handler EXCEPT ![t] = "log"]
    /\ UNCHANGED <<pcMain, next, status, working, g_objExitMu, logLock, waiting>>

HandlerAt(t, from, to) ==
    handler[t] = from /\ handler' = [handler EXCEPT ![t] = to]

\* addTask again: a thread that holds the lock already waits for itself.
HandlerLogs(t) ==
    /\ \/ HandlerAt(t, "log", IF Accepts THEN "mutex" ELSE "lock") /\ UNCHANGED logLock
       \/ HandlerAt(t, "mutex", "logging") /\ logLock = "free" /\ logLock' = t
       \/ HandlerAt(t, "logging", "lock") /\ logLock' = "free"
    /\ UNCHANGED <<pcMain, next, status, working, g_objExitMu, waiting, signals>>

HandlerLocks(t) ==
    /\ HandlerAt(t, "lock", "broadcast")
    /\ g_objExitMu = "free" /\ g_objExitMu' = t
    /\ UNCHANGED <<pcMain, next, status, working, logLock, waiting, signals>>

\* Mutant: the mutex is not given back.
HandlerBroadcastsLocked(t) ==
    /\ HandlerAt(t, "broadcast", "none")
    /\ waiting' = FALSE
    /\ UNCHANGED <<pcMain, next, status, working, g_objExitMu, logLock, signals>>

HandlerBroadcasts(t) ==
    /\ HandlerAt(t, "broadcast", "none")
    /\ waiting' = FALSE
    /\ g_objExitMu' = "free"
    /\ UNCHANGED <<pcMain, next, status, working, logLock, signals>>

HandlerStep(t) == HandlerLogs(t) \/ HandlerLocks(t) \/ HandlerBroadcasts(t)

\* What leads on.  A thread logs in between as often as it likes.
Onward ==
    \/ MainStep
    \/ \E s \in Services : ServiceStep(s)
    \/ LogDrains \/ LogEnds
    \/ \E w \in m_pWorker : WorkerLeaves(w)
    \/ \E t \in Threads : HandlerStep(t)

Next ==
    \/ Onward
    \/ LogGiven
    \/ \E t \in Threads : TakesLog(t) \/ Signal(t)

Spec == Init /\ [][Next]_vars

\* Every thread goes on, and one that needs the log's lock gets it although
\* others take it again and again.  None of the steps that lead on can be taken
\* for ever, and the lock has one holder, so that one condition each is as much
\* as one for each thread.  Nobody has to log or to send a signal.
FairSpec ==
    /\ Spec
    /\ SF_vars(Onward)
    /\ WF_vars(LogGiven)

----------------------------------------------------------------------------
\* onStart of the network thread fills CWorkerDisp's map of services, which has
\* no lock; the dispatcher and the timer thread's scripts only read it when
\* the network thread has left onStart.
RegistryIsQuiet ==
    status["net"] \in {"none", "created", "onStart"} =>
        \A s \in {"worker", "tick"} : status[s] \in {"none", "created"}

\* A service ends after those that still need it: the timer thread posts to the
\* services until its end, the dispatcher's last runs send and log, and the
\* network thread hands its links to the linker; the workers send and log too.
EndsAfterItsUsers ==
    /\ \A use \in {<<"tick", "worker">>, <<"worker", "sender">>, <<"worker", "net">>,
                  <<"net", "linker">>} \union ((Services \ {"log"}) \X {"log"}) :
          status[use[2]] \in {"stopping", "draining", "ended"} => status[use[1]] = "ended"
    /\ status["worker"] = "ended" => working = {}

\* A signal stops the process, unless another one follows, when its handler
\* starts while the main thread waits, in a thread that is not inside the log,
\* whatever earlier signals have done; the handlers of those have returned.
SignalWhileWaitingStops ==
    \A k \in 1 .. MaxSignals :
        (\E t \in Threads :
            /\ waiting /\ signals = k
            /\ handler[t] = "log" /\ logLock # t
            /\ \A u \in Threads \ {t} : handler[u] = "none")
        ~> (pcMain = "stopped" \/ signals > k)

\* Any thread may run the handler: one signal while the main thread waits is
\* enough.
WaitingSignalStops ==
    (waiting /\ \E t \in Threads : handler[t] = "log") ~> pcMain = "stopped"

\* Each signal whose handler returns stops the process ("exit service by
\* command ...").
SignalStops ==
    (signals > 0 /\ \A t \in Threads : handler[t] = "none") ~> pcMain = "stopped"

\* Once the main thread has left its wait, the process stops, also when it is
\* sent another signal.
WokenStops ==
    pcMain = "logStop" ~> pcMain = "stopped"

=============================================================================
