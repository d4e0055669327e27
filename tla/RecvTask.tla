------------------------------ MODULE RecvTask ------------------------------
(* CRecvTask<T>, src/HBase/RecvTask.h: the queue thread under CWorker,        *)
(* CSender, CLinker, CLog and CMail.                                          *)
(*                                                                            *)
(* Three kinds of threads touch one object:                                   *)
(*   - the consumer, in Run(): program counter pcRun;                         *)
(*   - producers, in addTask(): arg[p] is the message of a call that has      *)
(*     passed the m_lCanAdd test and has not yet pushed;                      *)
(*   - the owner, in waitStart() and later Join(): program counter pcMain.    *)
(* An action is the code between two points where another thread can get in:  *)
(* one access to an atomic word, or one critical section of m_quLock.  The    *)
(* lock is a variable because Run() keeps it during the whole drain.          *)
EXTENDS Naturals, Sequences

CONSTANTS
    Producers,  \* threads that call addTask
    Messages,   \* the messages (T *), each handed over at most once
    NoMsg       \* NULL

ASSUME NoMsgAssumption == NoMsg \notin Messages

VARIABLES
    lExit,      \* m_lExit: "RUN" or "STOP"
    lCanAdd,    \* m_lCanAdd: "CANADD" or "CANTADD"
    lCount,     \* m_lCount: number of threads inside Run
    vcTask,     \* m_vcTask
    uiWait,     \* m_uiWait
    quLock,     \* m_quLock: "free", or "Run" while Run() drains
    objCond,    \* m_objCond: "Run" while Run() is blocked on it, or "none"
    pMsg,       \* the local pMsg of Run
    pcRun,
    pcMain,
    arg,
    fresh,      \* messages no producer has handed over yet
    ran         \* messages whose runTask returned, in that order

vars == <<lExit, lCanAdd, lCount, vcTask, uiWait, quLock, objCond, pMsg,
          pcRun, pcMain, arg, fresh, ran>>

Init ==
    /\ lExit = "RUN"
    /\ lCanAdd = "CANADD"
    /\ lCount = 0
    /\ vcTask = <<>>
    /\ uiWait = 0
    /\ quLock = "free"
    /\ objCond = "none"
    /\ pMsg = NoMsg
    /\ pcRun = "start"
    /\ pcMain = "waitStart"
    /\ arg = [p \in Producers |-> NoMsg]
    /\ fresh = Messages
    /\ ran = <<>>

----------------------------------------------------------------------------
(* addTask                                                                    *)

\* The unlocked test of m_lCanAdd; a refused message is silently dropped.
AddTaskTest(p, m) ==
    /\ arg[p] = NoMsg
    /\ m \in fresh
    /\ fresh' = fresh \ {m}
    /\ arg' = IF lCanAdd = "CANADD" THEN [arg EXCEPT ![p] = m] ELSE arg
    /\ UNCHANGED <<lExit, lCanAdd, lCount, vcTask, uiWait, quLock, objCond,
                   pMsg, pcRun, pcMain, ran>>

\* Mutant: addTask signals only when more than one thread waits.
SignalTooLate == objCond' = IF uiWait > 1 THEN "none" ELSE objCond

\* Only the consumer ever waits on m_objCond, so a signal wakes it or no one.
Signal == objCond' = IF uiWait > 0 THEN "none" ELSE objCond

AddTaskPush(p) ==
    /\ arg[p] # NoMsg
    /\ quLock = "free"
    /\ vcTask' = Append(vcTask, arg[p])
    /\ Signal
    /\ arg' = [arg EXCEPT ![p] = NoMsg]
    /\ UNCHANGED <<lExit, lCanAdd, lCount, uiWait, quLock, pMsg, pcRun,
                   pcMain, fresh, ran>>

----------------------------------------------------------------------------
(* Run                                                                        *)

RunStart ==
    /\ pcRun = "start"
    /\ lCount' = lCount + 1
    /\ pcRun' = "test"
    /\ UNCHANGED <<lExit, lCanAdd, vcTask, uiWait, quLock, objCond, pMsg,
                   pcMain, arg, fresh, ran>>

\* The while test.  A message popped in the previous iteration is run only if
\* m_lExit still says RUN: otherwise it is left in pMsg and forgotten.
RunTest ==
    /\ pcRun = "test"
    /\ pcRun' = IF lExit = "STOP" THEN "drainLock"
                ELSE IF pMsg # NoMsg THEN "exec" ELSE "lock"
    /\ UNCHANGED <<lExit, lCanAdd, lCount, vcTask, uiWait, quLock, objCond,
                   pMsg, pcMain, arg, fresh, ran>>

\* Mutant: pMsg is not reset after runTask.
RunExecKeepsMsg ==
    /\ pcRun = "exec"
    /\ ran' = Append(ran, pMsg)
    /\ pcRun' = "lock"
    /\ UNCHANGED <<lExit, lCanAdd, lCount, vcTask, uiWait, quLock, objCond,
                   pMsg, pcMain, arg, fresh>>

RunExec ==
    /\ pcRun = "exec"
    /\ ran' = Append(ran, pMsg)
    /\ pMsg' = NoMsg
    /\ pcRun' = "lock"
    /\ UNCHANGED <<lExit, lCanAdd, lCount, vcTask, uiWait, quLock, objCond,
                   pcMain, arg, fresh>>

RunPop ==
    /\ pcRun = "lock"
    /\ quLock = "free"
    /\ vcTask # <<>>
    /\ pMsg' = Head(vcTask)
    /\ vcTask' = Tail(vcTask)
    /\ pcRun' = "test"
    /\ UNCHANGED <<lExit, lCanAdd, lCount, uiWait, quLock, objCond, pcMain,
                   arg, fresh, ran>>

\* pthread_cond_wait gives up the lock and blocks in one step.
RunSleep ==
    /\ pcRun = "lock"
    /\ quLock = "free"
    /\ vcTask = <<>>
    /\ uiWait' = uiWait + 1
    /\ objCond' = "Run"
    /\ pcRun' = "wait"
    /\ UNCHANGED <<lExit, lCanAdd, lCount, vcTask, quLock, pMsg, pcMain, arg,
                   fresh, ran>>

\* Mutant: the waiter is not counted off.
RunWakeKeepsCount ==
    /\ pcRun = "wait"
    /\ objCond = "none"
    /\ quLock = "free"
    /\ pcRun' = "test"
    /\ UNCHANGED <<lExit, lCanAdd, lCount, vcTask, uiWait, quLock, objCond,
                   pMsg, pcMain, arg, fresh, ran>>

\* pthread_cond_wait returns with the lock; the iteration ends there.
RunWake ==
    /\ pcRun = "wait"
    /\ objCond = "none"
    /\ quLock = "free"
    /\ uiWait' = uiWait - 1
    /\ pcRun' = "test"
    /\ UNCHANGED <<lExit, lCanAdd, lCount, vcTask, quLock, objCond, pMsg,
                   pcMain, arg, fresh, ran>>

\* POSIX lets pthread_cond_wait return unsignalled.
SpuriousWake ==
    /\ pcRun = "wait"
    /\ objCond = "Run"
    /\ objCond' = "none"
    /\ UNCHANGED <<lExit, lCanAdd, lCount, vcTask, uiWait, quLock, pMsg,
                   pcRun, pcMain, arg, fresh, ran>>

RunDrainLock ==
    /\ pcRun = "drainLock"
    /\ quLock = "free"
    /\ quLock' = "Run"
    /\ pcRun' = "drain"
    /\ UNCHANGED <<lExit, lCanAdd, lCount, vcTask, uiWait, objCond, pMsg,
                   pcMain, arg, fresh, ran>>

RunDrainPop ==
    /\ pcRun = "drain"
    /\ vcTask # <<>>
    /\ pMsg' = Head(vcTask)
    /\ vcTask' = Tail(vcTask)
    /\ pcRun' = "drainExec"
    /\ UNCHANGED <<lExit, lCanAdd, lCount, uiWait, quLock, objCond, pcMain,
                   arg, fresh, ran>>

RunDrainExec ==
    /\ pcRun = "drainExec"
    /\ ran' = Append(ran, pMsg)
    /\ pcRun' = "drain"
    /\ UNCHANGED <<lExit, lCanAdd, lCount, vcTask, uiWait, quLock, objCond,
                   pMsg, pcMain, arg, fresh>>

\* The lock guard is destroyed after the count goes down, on return.
RunLeave ==
    /\ pcRun = "drain"
    /\ vcTask = <<>>
    /\ lCount' = lCount - 1
    /\ pcRun' = "unlock"
    /\ UNCHANGED <<lExit, lCanAdd, vcTask, uiWait, quLock, objCond, pMsg,
                   pcMain, arg, fresh, ran>>

RunUnlock ==
    /\ pcRun = "unlock"
    /\ quLock' = "free"
    /\ pcRun' = "done"
    /\ UNCHANGED <<lExit, lCanAdd, lCount, vcTask, uiWait, objCond, pMsg,
                   pcMain, arg, fresh, ran>>

Run ==
    \/ RunStart \/ RunTest \/ RunExec \/ RunPop \/ RunSleep \/ RunWake
    \/ RunDrainLock \/ RunDrainPop \/ RunDrainExec \/ RunLeave \/ RunUnlock

----------------------------------------------------------------------------
(* waitStart and Join                                                         *)

\* Mutant: the owner does not wait until Run has been entered.
MainSkipsWaitStart ==
    /\ pcMain = "waitStart"
    /\ pcMain' = "up"
    /\ UNCHANGED <<lExit, lCanAdd, lCount, vcTask, uiWait, quLock, objCond,
                   pMsg, pcRun, arg, fresh, ran>>

MainWaitStart ==
    /\ pcMain = "waitStart"
    /\ lCount # 0
    /\ pcMain' = "up"
    /\ UNCHANGED <<lExit, lCanAdd, lCount, vcTask, uiWait, quLock, objCond,
                   pMsg, pcRun, arg, fresh, ran>>

JoinClose ==
    /\ pcMain = "up"
    /\ lExit = "RUN"
    /\ lCanAdd' = "CANTADD"
    /\ pcMain' = "stop"
    /\ UNCHANGED <<lExit, lCount, vcTask, uiWait, quLock, objCond, pMsg, pcRun,
                   arg, fresh, ran>>

JoinStop ==
    /\ pcMain = "stop"
    /\ lExit' = "STOP"
    /\ pcMain' = "broadcast"
    /\ UNCHANGED <<lCanAdd, lCount, vcTask, uiWait, quLock, objCond, pMsg,
                   pcRun, arg, fresh, ran>>

\* The broadcast is sent without the lock.
JoinBroadcast ==
    /\ pcMain = "broadcast"
    /\ objCond' = "none"
    /\ pcMain' = "count"
    /\ UNCHANGED <<lExit, lCanAdd, lCount, vcTask, uiWait, quLock, pMsg,
                   pcRun, arg, fresh, ran>>

\* Mutant: the broadcast is sent once, before the loop.
JoinCountOnly ==
    /\ pcMain = "count"
    /\ pcMain' = IF lCount = 0 THEN "joined" ELSE "count"
    /\ UNCHANGED <<lExit, lCanAdd, lCount, vcTask, uiWait, quLock, objCond,
                   pMsg, pcRun, arg, fresh, ran>>

JoinCount ==
    /\ pcMain = "count"
    /\ pcMain' = IF lCount = 0 THEN "joined" ELSE "broadcast"
    /\ UNCHANGED <<lExit, lCanAdd, lCount, vcTask, uiWait, quLock, objCond,
                   pMsg, pcRun, arg, fresh, ran>>

Main ==
    MainWaitStart \/ JoinClose \/ JoinStop \/ JoinBroadcast \/ JoinCount

Next ==
    \/ \E p \in Producers :
         \/ \E m \in Messages : AddTaskTest(p, m)
         \/ AddTaskPush(p)
    \/ Run
    \/ SpuriousWake
    \/ Main

(* Every thread keeps being scheduled.  Nothing obliges a producer to call    *)
(* addTask, the owner to call Join, or a condition variable to wake up        *)
(* spuriously.                                                                *)
Fairness ==
    /\ \A p \in Producers : WF_vars(AddTaskPush(p))
    /\ WF_vars(Run)
    /\ WF_vars(MainWaitStart \/ JoinStop \/ JoinBroadcast \/ JoinCount)

Spec == Init /\ [][Next]_vars /\ Fairness

----------------------------------------------------------------------------
(* Properties                                                                 *)

TypeOK ==
    /\ lExit \in {"RUN", "STOP"}
    /\ lCanAdd \in {"CANADD", "CANTADD"}
    /\ lCount \in 0..1
    /\ vcTask \in Seq(Messages)
    /\ uiWait \in 0..1
    /\ quLock \in {"free", "Run"}
    /\ objCond \in {"none", "Run"}
    /\ pMsg \in Messages \cup {NoMsg}
    /\ pcRun \in {"start", "test", "exec", "lock", "wait", "drainLock",
                  "drain", "drainExec", "unlock", "done"}
    /\ pcMain \in {"waitStart", "up", "stop", "broadcast", "count", "joined"}
    /\ arg \in [Producers -> Messages \cup {NoMsg}]
    /\ fresh \subseteq Messages
    /\ ran \in Seq(Messages)

\* No lost wakeup: the consumer is never asleep in pthread_cond_wait while a
\* message it could run is in the queue, although addTask signals only when
\* m_uiWait says someone waits and the consumer re-tests nothing after waking.
NoLostWakeup == objCond = "Run" => vcTask = <<>>

\* What Join is for: once it has returned no runTask is in progress and none
\* ever starts or ends, so the owner may destroy what runTask uses.
JoinedIsQuiet ==
    [][pcMain = "joined" =>
         /\ pcRun \notin {"exec", "drainExec"}
         /\ ran' = ran]_vars

\* Join returns: the broadcast is not protected by the lock and can be sent
\* just before the consumer falls asleep, but it is repeated until Run is out.
JoinReturns == (pcMain = "stop") ~> (pcMain = "joined")

\* CRecvTask is a serial executor: refinement, with the fairness of both.
Serial == INSTANCE SerialExecutor WITH
    backlog <- vcTask,
    taken   <- IF pcRun = "test" THEN pMsg ELSE NoMsg,
    running <- IF pcRun \in {"exec", "drainExec"} THEN pMsg ELSE NoMsg,
    phase   <- IF pcRun \in {"drainLock", "drain", "drainExec"} THEN "draining"
               ELSE IF pcRun \in {"unlock", "done"} THEN "closed" ELSE "open",
    ran     <- ran

\* The lock, the condition variable, the two flags and the re-broadcast add up
\* to a serial executor: in order, one at a time, nothing left lying, at most
\* one taken message given up when it is stopped.
ImplementsSerialExecutor == Serial!Spec

\* The comment on Join, "wait for the task queue to complete": when it returns,
\* a message that left the queue has been run.
JoinCompletesQueue ==
    pcMain = "joined" /\ pMsg # NoMsg => \E i \in 1..Len(ran) : ran[i] = pMsg
=============================================================================
