----------------------------- MODULE WorkerDisp -----------------------------
(* The task scheduler: CChan (HBase/Chan.cpp), CWorkerTask and CWorker        *)
(* (HBase/Worker.h, Worker.cpp) and CWorkerDisp (HBase/WorkerDisp.cpp), with   *)
(* the threads that send to a service.                                        *)
(*                                                                            *)
(* A message goes to the channel of a service, and then, in a second step,    *)
(* the name of the service goes to the dispatcher's queue m_quTask.  The      *)
(* dispatcher gives each name it pops to a free worker, unless the service is *)
(* still referenced by an earlier run, in which case the name goes back to    *)
(* the end of the queue.  One run receives one message (runTask of            *)
(* Bin/script/echo.lua and test.lua) and may send others.                     *)
(*                                                                            *)
(* The queue of a worker is a CRecvTask: it is used here through what module  *)
(* SerialExecutor says of it (shown in RecvTask), one per worker.  Only the   *)
(* dispatcher hands work to a worker and only the dispatcher stops it, so no  *)
(* push races with the stop.  The watchdog that runTask pokes (CTick) is      *)
(* written and never read here, and is left out.                              *)
EXTENDS Integers, Sequences, FiniteSets

CONSTANTS
    Tasks,      \* registered services (CWorkerTask)
    ThreadNum,  \* m_usThreadNum, number of workers
    Senders,    \* event threads that call CChan::Send
    Quiet,      \* those joined before the dispatcher is (CTick)
    Net,        \* the network thread (CNetWorker), which outlives it
    Messages,   \* messages (void *), each sent at most once
    NoTask, NoMsg

Workers == 1..ThreadNum
Disp    == 0                    \* the dispatcher runs tasks too, at the end
Runners == Workers \cup {Disp}
Threads == Runners \cup Senders

ASSUME ConstantsAssumption ==
    /\ ThreadNum \in Nat \ {0}
    /\ NoTask \notin Tasks
    /\ NoMsg \notin Messages
    /\ Quiet \subseteq Senders
    /\ Net \in Senders \ Quiet

VARIABLES
    chan,       \* chan[t]: m_quData of the channel of service t
    pending,    \* pending[x]: service whose channel thread x has pushed to and
                \* for which it has not yet called Notify, or NoTask
    fresh,      \* messages not sent yet
    quTask,     \* m_quTask
    lExit,      \* m_lExit of the dispatcher
    lCount,     \* m_lCount of the dispatcher
    readyStop,  \* m_uiReadyStop of the network thread
    ref,        \* ref[t]: m_uiRef
    status,     \* status[w]: m_uiStatus
    wkTask,     \* wkTask[w]: m_vcTask of worker w
    wkExit,     \* wkExit[w]: m_lExit of worker w
    task,       \* task[r]: the local pMsg of a worker, pTaskNam of the dispatcher
    got,        \* got[r]: the message received by the run in progress
    pc,         \* pc[r]: where runner r is
    usI,        \* loop index of getFreeWorker and stopWorker
    todo,       \* services the current loop over m_mapTask has not reached
    surp        \* loop index i of runSurpTask

chanVars == <<chan, pending, fresh>>
dispVars == <<lExit, lCount, readyStop, usI, todo, surp>>
workVars == <<ref, status, wkTask, wkExit>>
runVars  == <<task, got, pc>>
vars == <<chanVars, quTask, dispVars, workVars, runVars>>

Init ==
    /\ chan = [t \in Tasks |-> <<>>]
    /\ pending = [x \in Threads |-> NoTask]
    /\ fresh = Messages
    /\ quTask = <<>>
    /\ lExit = "RUN"
    /\ lCount = 0
    /\ readyStop = "NONE"
    /\ ref = [t \in Tasks |-> 0]
    /\ status = [w \in Workers |-> "FREE"]
    /\ wkTask = [w \in Workers |-> <<>>]
    /\ wkExit = [w \in Workers |-> "RUN"]
    /\ task = [r \in Runners |-> NoTask]
    /\ got = [r \in Runners |-> NoMsg]
    /\ pc = [r \in Runners |-> IF r = Disp THEN "init" ELSE "test"]
    /\ usI = 1
    /\ todo = {}
    /\ surp = 0

Goto(r, l) == pc' = [pc EXCEPT ![r] = l]

----------------------------------------------------------------------------
(* CChan::Send and Notify                                                     *)

\* The first half of Send: the push under the lock of the channel.
SendPush(x, t, m) ==
    /\ pending[x] = NoTask
    /\ m \in fresh
    /\ fresh' = fresh \ {m}
    /\ chan' = [chan EXCEPT ![t] = Append(@, m)]
    /\ pending' = [pending EXCEPT ![x] = t]
    /\ UNCHANGED <<quTask, dispVars, workVars, runVars>>

\* The second half: the name goes to m_quTask under the dispatcher's lock.
Notify(x) ==
    /\ pending[x] # NoTask
    /\ quTask' = Append(quTask, pending[x])
    /\ pending' = [pending EXCEPT ![x] = NoTask]
    /\ UNCHANGED <<chan, fresh, dispVars, workVars, runVars>>

\* An event thread sends when its events say so, until it is joined.
SenderSend(s, t, m) ==
    /\ s \in Quiet => lExit = "RUN"
    /\ SendPush(s, t, m)

\* initTask, runTask and destroyTask of a service may send to any service.
RunnerSend(r, t, m) ==
    /\ pc[r] \in {"init", "handle", "destroy"}
    /\ SendPush(r, t, m)

\* The network thread takes the order ORDER_RSTOP, calls onStop, and goes on
\* dispatching its events.
NetReadyStop ==
    /\ readyStop = "RUN"
    /\ pending[Net] = NoTask
    /\ readyStop' = "RAN"
    /\ UNCHANGED <<chanVars, quTask, lExit, lCount, usI, todo, surp,
                   workVars, runVars>>

----------------------------------------------------------------------------
(* One run of a service                                                       *)

\* CChan::Recv by runTask: the oldest message, or NULL.
RunRecv(r) ==
    /\ pc[r] = "recv"
    /\ LET t == task[r] IN
         IF chan[t] = <<>>
         THEN /\ got' = [got EXCEPT ![r] = NoMsg]
              /\ UNCHANGED chan
         ELSE /\ got' = [got EXCEPT ![r] = Head(chan[t])]
              /\ chan' = [chan EXCEPT ![t] = Tail(@)]
    /\ Goto(r, "handle")
    /\ UNCHANGED <<pending, fresh, quTask, dispVars, workVars, task>>

\* The run returns: a worker goes on with subRef, the dispatcher with the next
\* name of its last loop.
RunEnd(r) ==
    /\ pc[r] = "handle"
    /\ pending[r] = NoTask
    /\ got' = [got EXCEPT ![r] = NoMsg]
    /\ IF r = Disp
       THEN task' = [task EXCEPT ![r] = NoTask] /\ Goto(r, "surpPop")
       ELSE UNCHANGED task /\ Goto(r, "subRef")
    /\ UNCHANGED <<chanVars, quTask, dispVars, workVars>>

----------------------------------------------------------------------------
(* CWorker: CRecvTask::Run, runTask                                           *)

\* The while test of Run: a task already taken is run only if the worker has
\* not been stopped meanwhile, otherwise it is given up.
WorkerTest(w) ==
    /\ pc[w] = "test"
    /\ IF wkExit[w] = "STOP"
       THEN task' = [task EXCEPT ![w] = NoTask] /\ Goto(w, "drain")
       ELSE /\ UNCHANGED task
            /\ Goto(w, IF task[w] # NoTask THEN "recv" ELSE "take")
    /\ UNCHANGED <<chanVars, quTask, dispVars, workVars, got>>

WorkerTakeTo(w, l) ==
    /\ wkTask[w] # <<>>
    /\ task' = [task EXCEPT ![w] = Head(wkTask[w])]
    /\ wkTask' = [wkTask EXCEPT ![w] = Tail(@)]
    /\ Goto(w, l)
    /\ UNCHANGED <<chanVars, quTask, dispVars, ref, status, wkExit, got>>

WorkerTake(w) == pc[w] = "take" /\ WorkerTakeTo(w, "test")

WorkerSleep(w) ==
    /\ pc[w] = "take"
    /\ wkTask[w] = <<>>
    /\ Goto(w, "wait")
    /\ UNCHANGED <<chanVars, quTask, dispVars, workVars, task, got>>

\* Mutant: Join does not wake a sleeping worker.
WorkerWakeBySignalOnly(w) ==
    /\ pc[w] = "wait"
    /\ wkTask[w] # <<>>
    /\ Goto(w, "test")
    /\ UNCHANGED <<chanVars, quTask, dispVars, workVars, task, got>>

\* Signalled by addTask or broadcast by Join.
WorkerWake(w) ==
    /\ pc[w] = "wait"
    /\ wkTask[w] # <<>> \/ wkExit[w] = "STOP"
    /\ Goto(w, "test")
    /\ UNCHANGED <<chanVars, quTask, dispVars, workVars, task, got>>

WorkerSubRef(w) ==
    /\ pc[w] = "subRef"
    /\ ref' = [ref EXCEPT ![task[w]] = @ - 1]
    /\ Goto(w, "free")
    /\ UNCHANGED <<chanVars, quTask, dispVars, status, wkTask, wkExit, task,
                   got>>

\* Mutant: the worker keeps the task it has run.
WorkerFreeKeepsTask(w) ==
    /\ pc[w] = "free"
    /\ status' = [status EXCEPT ![w] = "FREE"]
    /\ Goto(w, "test")
    /\ UNCHANGED <<chanVars, quTask, dispVars, ref, wkTask, wkExit, task, got>>

\* The end of runTask and the pMsg = NULL after it.
WorkerFree(w) ==
    /\ pc[w] = "free"
    /\ status' = [status EXCEPT ![w] = "FREE"]
    /\ task' = [task EXCEPT ![w] = NoTask]
    /\ Goto(w, "test")
    /\ UNCHANGED <<chanVars, quTask, dispVars, ref, wkTask, wkExit, got>>

\* A stopped worker runs what is still in its queue.
WorkerDrain(w) == pc[w] = "drain" /\ WorkerTakeTo(w, "recv")

WorkerLeave(w) ==
    /\ pc[w] = "drain"
    /\ wkTask[w] = <<>>
    /\ Goto(w, "done")
    /\ UNCHANGED <<chanVars, quTask, dispVars, workVars, task, got>>

Worker(w) ==
    \/ RunRecv(w) \/ RunEnd(w) \/ (pc[w] = "handle" /\ Notify(w))
    \/ WorkerTest(w) \/ WorkerTake(w) \/ WorkerSleep(w) \/ WorkerWake(w)
    \/ WorkerSubRef(w) \/ WorkerFree(w) \/ WorkerDrain(w) \/ WorkerLeave(w)

----------------------------------------------------------------------------
(* CWorkerDisp::Run: scheduling                                               *)

\* All services are initialised.
DispStart ==
    /\ pc[Disp] = "init"
    /\ pending[Disp] = NoTask
    /\ lCount' = lCount + 1
    /\ Goto(Disp, "test")
    /\ UNCHANGED <<chanVars, quTask, lExit, readyStop, usI, todo, surp,
                   workVars, task, got>>

DispTest ==
    /\ pc[Disp] = "test"
    /\ Goto(Disp, IF lExit = "RUN" THEN "pop" ELSE "stopNet")
    /\ UNCHANGED <<chanVars, quTask, dispVars, workVars, task, got>>

\* Pops a name, or sleeps a while and tests again.
DispPop ==
    /\ pc[Disp] = "pop"
    /\ IF quTask = <<>>
       THEN Goto(Disp, "test") /\ UNCHANGED <<quTask, task>>
       ELSE /\ task' = [task EXCEPT ![Disp] = Head(quTask)]
            /\ quTask' = Tail(quTask)
            /\ Goto(Disp, "ref")
    /\ UNCHANGED <<chanVars, dispVars, workVars, got>>

\* Mutant: the reference count is not looked at.
DispRefIgnored ==
    /\ pc[Disp] = "ref"
    /\ Goto(Disp, "scan")
    /\ usI' = 1
    /\ UNCHANGED <<chanVars, quTask, lExit, lCount, readyStop, todo, surp,
                   workVars, task, got>>

DispRef ==
    /\ pc[Disp] = "ref"
    /\ Goto(Disp, IF ref[task[Disp]] # 0 THEN "requeue" ELSE "scan")
    /\ usI' = 1
    /\ UNCHANGED <<chanVars, quTask, lExit, lCount, readyStop, todo, surp,
                   workVars, task, got>>

\* Mutant: the name of a busy service is dropped.
DispForget ==
    /\ pc[Disp] = "requeue"
    /\ task' = [task EXCEPT ![Disp] = NoTask]
    /\ Goto(Disp, "test")
    /\ UNCHANGED <<chanVars, quTask, dispVars, workVars, got>>

DispRequeue ==
    /\ pc[Disp] = "requeue"
    /\ quTask' = Append(quTask, task[Disp])
    /\ task' = [task EXCEPT ![Disp] = NoTask]
    /\ Goto(Disp, "test")
    /\ UNCHANGED <<chanVars, dispVars, workVars, got>>

\* Mutant: the worker found is not marked busy.
DispScanOnly ==
    /\ pc[Disp] = "scan"
    /\ IF status[usI] = "FREE"
       THEN Goto(Disp, "addRef") /\ UNCHANGED usI
       ELSE usI' = (usI % ThreadNum) + 1 /\ UNCHANGED pc
    /\ UNCHANGED <<chanVars, quTask, lExit, lCount, readyStop, todo, surp,
                   workVars, task, got>>

\* One look at one worker in getFreeWorker, with the setBusy that follows a
\* hit: no other thread makes a free worker busy.
DispScan ==
    /\ pc[Disp] = "scan"
    /\ IF status[usI] = "FREE"
       THEN /\ status' = [status EXCEPT ![usI] = "BUSY"]
            /\ Goto(Disp, "addRef")
            /\ UNCHANGED usI
       ELSE /\ usI' = (usI % ThreadNum) + 1
            /\ UNCHANGED <<status, pc>>
    /\ UNCHANGED <<chanVars, quTask, lExit, lCount, readyStop, todo, surp,
                   ref, wkTask, wkExit, task, got>>

\* Mutant: the reference is not taken before the task is handed over.
DispNoAddRef ==
    /\ pc[Disp] = "addRef"
    /\ Goto(Disp, "addTask")
    /\ UNCHANGED <<chanVars, quTask, dispVars, workVars, task, got>>

\* addWorker, in its two steps.
DispAddRef ==
    /\ pc[Disp] = "addRef"
    /\ ref' = [ref EXCEPT ![task[Disp]] = @ + 1]
    /\ Goto(Disp, "addTask")
    /\ UNCHANGED <<chanVars, quTask, dispVars, status, wkTask, wkExit, task,
                   got>>

DispAddTask ==
    /\ pc[Disp] = "addTask"
    /\ wkTask' = [wkTask EXCEPT ![usI] = Append(@, task[Disp])]
    /\ task' = [task EXCEPT ![Disp] = NoTask]
    /\ Goto(Disp, "test")
    /\ UNCHANGED <<chanVars, quTask, dispVars, ref, status, wkExit, got>>

----------------------------------------------------------------------------
(* CWorkerDisp::Run: the stop                                                 *)

\* stopNet
DispStopNet ==
    /\ pc[Disp] = "stopNet"
    /\ readyStop' = "RUN"
    /\ Goto(Disp, "waitNet")
    /\ UNCHANGED <<chanVars, quTask, lExit, lCount, usI, todo, surp, workVars,
                   task, got>>

DispNetStopped ==
    /\ pc[Disp] = "waitNet"
    /\ readyStop = "RAN"
    /\ usI' = 1
    /\ Goto(Disp, "join")
    /\ UNCHANGED <<chanVars, quTask, lExit, lCount, readyStop, todo, surp,
                   workVars, task, got>>

\* stopWorker: CRecvTask::Join of each worker in turn.
DispJoin ==
    /\ pc[Disp] = "join"
    /\ wkExit' = [wkExit EXCEPT ![usI] = "STOP"]
    /\ Goto(Disp, "joinWait")
    /\ UNCHANGED <<chanVars, quTask, dispVars, ref, status, wkTask, task, got>>

\* Mutant: stopWorker does not wait for the worker it has stopped.
DispNotJoined ==
    /\ pc[Disp] = "joinWait"
    /\ IF usI < ThreadNum
       THEN usI' = usI + 1 /\ Goto(Disp, "join") /\ UNCHANGED todo
       ELSE todo' = Tasks /\ Goto(Disp, "surpNext") /\ UNCHANGED usI
    /\ UNCHANGED <<chanVars, quTask, lExit, lCount, readyStop, surp, workVars,
                   task, got>>

DispJoined ==
    /\ pc[Disp] = "joinWait"
    /\ pc[usI] = "done"
    /\ IF usI < ThreadNum
       THEN usI' = usI + 1 /\ Goto(Disp, "join") /\ UNCHANGED todo
       ELSE todo' = Tasks /\ Goto(Disp, "surpNext") /\ UNCHANGED usI
    /\ UNCHANGED <<chanVars, quTask, lExit, lCount, readyStop, surp, workVars,
                   task, got>>

\* runSurpTask, the loop over m_mapTask, whose order is the hash table's.
DispSurpNext ==
    /\ pc[Disp] = "surpNext"
    /\ IF todo = {}
       THEN Goto(Disp, "surpPop") /\ UNCHANGED <<task, todo, surp>>
       ELSE /\ \E t \in todo : /\ task' = [task EXCEPT ![Disp] = t]
                               /\ todo' = todo \ {t}
            /\ surp' = 0
            /\ Goto(Disp, "surpSize")
    /\ UNCHANGED <<chanVars, quTask, lExit, lCount, readyStop, usI, workVars,
                   got>>

\* Mutant: the loop stops one name short.
DispSurpSizeShort ==
    /\ pc[Disp] = "surpSize"
    /\ IF surp + 1 < Len(chan[task[Disp]])
       THEN Goto(Disp, "surpPush") /\ UNCHANGED task
       ELSE task' = [task EXCEPT ![Disp] = NoTask] /\ Goto(Disp, "surpNext")
    /\ UNCHANGED <<chanVars, quTask, dispVars, workVars, got>>

\* getSize() is read again before every turn.
DispSurpSize ==
    /\ pc[Disp] = "surpSize"
    /\ IF surp < Len(chan[task[Disp]])
       THEN Goto(Disp, "surpPush") /\ UNCHANGED task
       ELSE task' = [task EXCEPT ![Disp] = NoTask] /\ Goto(Disp, "surpNext")
    /\ UNCHANGED <<chanVars, quTask, dispVars, workVars, got>>

DispSurpPush ==
    /\ pc[Disp] = "surpPush"
    /\ quTask' = Append(quTask, task[Disp])
    /\ surp' = surp + 1
    /\ Goto(Disp, "surpSize")
    /\ UNCHANGED <<chanVars, lExit, lCount, readyStop, usI, todo, workVars,
                   task, got>>

\* runSurpTask, the loop that empties m_quTask.
DispSurpPop ==
    /\ pc[Disp] = "surpPop"
    /\ IF quTask = <<>>
       THEN Goto(Disp, "destroy") /\ UNCHANGED <<quTask, task>>
       ELSE /\ task' = [task EXCEPT ![Disp] = Head(quTask)]
            /\ quTask' = Tail(quTask)
            /\ Goto(Disp, "recv")
    /\ UNCHANGED <<chanVars, dispVars, workVars, got>>

\* destroyTask of every service has returned.
DispLeave ==
    /\ pc[Disp] = "destroy"
    /\ pending[Disp] = NoTask
    /\ lCount' = lCount - 1
    /\ Goto(Disp, "done")
    /\ UNCHANGED <<chanVars, quTask, lExit, readyStop, usI, todo, surp,
                   workVars, task, got>>

Dispatch ==
    \/ DispStart \/ DispTest \/ DispPop \/ DispRef \/ DispRequeue \/ DispScan
    \/ DispAddRef \/ DispAddTask

Shutdown ==
    \/ DispStopNet \/ DispNetStopped \/ DispJoin \/ DispJoined
    \/ DispSurpNext \/ DispSurpSize \/ DispSurpPush \/ DispSurpPop
    \/ RunRecv(Disp) \/ RunEnd(Disp) \/ DispLeave

Dispatcher == Dispatch \/ Shutdown \/ Notify(Disp)

\* Join by the main thread, after waitStart, once the Quiet threads are gone.
Join ==
    /\ lExit = "RUN"
    /\ lCount # 0
    /\ \A s \in Quiet : pending[s] = NoTask
    /\ lExit' = "STOP"
    /\ UNCHANGED <<chanVars, quTask, lCount, readyStop, usI, todo, surp,
                   workVars, runVars>>

Next ==
    \/ \E t \in Tasks, m \in Messages :
         \/ \E s \in Senders : SenderSend(s, t, m)
         \/ \E r \in Runners : RunnerSend(r, t, m)
    \/ \E s \in Senders : Notify(s)
    \/ NetReadyStop
    \/ \E w \in Workers : Worker(w)
    \/ Dispatcher
    \/ Join

(* Every thread keeps being scheduled, the network thread answers the order   *)
(* to stop, and a run of a service ends.  Nothing obliges a thread to send or *)
(* the main thread to call Join.                                              *)
Fairness ==
    /\ \A s \in Senders : WF_vars(Notify(s))
    /\ WF_vars(NetReadyStop)
    /\ \A w \in Workers : WF_vars(Worker(w))
    /\ WF_vars(Dispatcher)

Spec == Init /\ [][Next]_vars /\ Fairness

----------------------------------------------------------------------------
(* Properties                                                                 *)

Labels == {"init", "test", "pop", "ref", "requeue", "scan", "addRef",
           "addTask", "stopNet", "waitNet", "join", "joinWait", "surpNext",
           "surpSize", "surpPush", "surpPop", "recv", "handle", "subRef",
           "free", "take", "wait", "drain", "destroy", "done"}

TypeOK ==
    /\ chan \in [Tasks -> Seq(Messages)]
    /\ pending \in [Threads -> Tasks \cup {NoTask}]
    /\ fresh \subseteq Messages
    /\ quTask \in Seq(Tasks)
    /\ lExit \in {"RUN", "STOP"}
    /\ lCount \in 0..1
    /\ readyStop \in {"NONE", "RUN", "RAN"}
    /\ ref \in [Tasks -> 0..1]
    /\ status \in [Workers -> {"FREE", "BUSY"}]
    /\ wkTask \in [Workers -> Seq(Tasks)]
    /\ wkExit \in [Workers -> {"RUN", "STOP"}]
    /\ task \in [Runners -> Tasks \cup {NoTask}]
    /\ got \in [Runners -> Messages \cup {NoMsg}]
    /\ pc \in [Runners -> Labels]
    /\ usI \in Workers
    /\ todo \subseteq Tasks
    /\ surp \in Nat

\* Runner r is inside runTask of service t.
InRun(r, t) == pc[r] \in {"recv", "handle"} /\ task[r] = t

\* A service has one Lua state and no lock: no two threads are ever inside its
\* runTask, although its name may be many times in m_quTask.
OneRunnerPerTask ==
    \A t \in Tasks : \A r1, r2 \in Runners :
        InRun(r1, t) /\ InRun(r2, t) => r1 = r2

\* A task is only given to a worker that has nothing else, so that no service
\* waits behind the run of another one while a worker is free.
OneTaskPerWorker ==
    \A w \in Workers :
        Len(wkTask[w]) + (IF task[w] # NoTask THEN 1 ELSE 0) <= 1

\* Number of notifications of t on their way to a run that has not received:
\* in m_quTask, in a Send between its two halves, in the dispatcher's hands,
\* in a worker's queue, taken by a worker.
Notifications(t) ==
    Cardinality({i \in 1..Len(quTask) : quTask[i] = t})
    + Cardinality({x \in Threads : pending[x] = t})
    + (IF task[Disp] = t /\ pc[Disp] \in {"ref", "requeue", "scan", "addRef",
                                          "addTask", "recv"} THEN 1 ELSE 0)
    + Cardinality({w \in Workers : \/ \E i \in 1..Len(wkTask[w]) :
                                         wkTask[w][i] = t
                                   \/ task[w] = t /\ pc[w] \in {"test", "recv"}})

Scheduling ==
    pc[Disp] \in {"init", "test", "pop", "ref", "requeue", "scan", "addRef",
                  "addTask", "stopNet", "waitNet"}

Stopping == pc[Disp] \in {"join", "joinWait", "surpNext", "surpSize", "surpPush"}

\* While services are scheduled, a channel holds as many messages as there are
\* notifications for it under way: no message is stranded without a
\* notification and no run is started for nothing, although a Send takes two
\* locks one after the other and names are popped, put back and handed over.
EveryMessageNotified ==
    Scheduling => \A t \in Tasks : Len(chan[t]) = Notifications(t)

\* A worker gives up a task it had taken when it is joined, so the balance is
\* lost; once runSurpTask has pushed its names, it has at least one
\* notification for each message again, and goes on until they are used up.
SurplusCoversChannels ==
    ~Scheduling /\ ~Stopping =>
        \A t \in Tasks : Len(chan[t]) <= Notifications(t)

\* Send queues message and name under two locks, and a stop loses names: at no
\* moment of either phase has a channel more messages than it has notifications
\* on their way, and before the stop never fewer.
NotificationsCoverMessages == EveryMessageNotified /\ SurplusCoversChannels

\* A run on a worker always finds the message it was started for, even while
\* the workers are being joined.
WorkerRunFindsMessage ==
    \A w \in Workers : pc[w] = "handle" => got[w] # NoMsg

\* destroyTask closes a service: all workers have left by then.
DestroyAfterLastRun ==
    pc[Disp] \in {"surpNext", "surpSize", "surpPush", "surpPop", "recv",
                  "handle", "destroy", "done"} =>
        \A w \in Workers : pc[w] = "done"

\* For the writer of a service the whole scheduler is an actor system: what t
\* is handling is the message received by the runner inside its runTask.
Handlers(t) == {r \in Runners : pc[r] = "handle" /\ task[r] = t}

Current == [t \in Tasks |-> IF Handlers(t) = {} THEN NoMsg
                            ELSE got[CHOOSE r \in Handlers(t) : TRUE]]

Actor == INSTANCE ActorService WITH
    inbox   <- chan,
    current <- Current,
    closed  <- pc[Disp] \in {"destroy", "done"}

\* Messages of one service are handled one at a time, to the end, in the order
\* they were sent, by whatever worker; none after destroyTask.
ImplementsActors == Actor!Spec

\* A message whose Send has returned before the services are destroyed is
\* received: across re-queued names, busy workers and the shutdown.
MessagesAreReceived ==
    \A t \in Tasks, m \in Messages :
        (/\ \E i \in 1..Len(chan[t]) : chan[t][i] = m
         /\ \A x \in Threads : pending[x] # t
         /\ pc[Disp] \notin {"destroy", "done"})
        ~> ~(\E i \in 1..Len(chan[t]) : chan[t][i] = m)

\* Join of the dispatcher returns.
JoinReturns == (lExit = "STOP") ~> (lCount = 0)

\* echo.lua ends with assert(false) for a run that finds no message it knows:
\* every run of a service finds a message.
EveryRunFindsMessage ==
    \A r \in Runners : pc[r] = "handle" => got[r] # NoMsg

\* "Stop the network", "execute the remaining tasks": when the dispatcher has
\* stopped, no service has messages left.
NothingLeftBehind ==
    pc[Disp] = "done" => \A t \in Tasks : chan[t] = <<>>
=============================================================================
